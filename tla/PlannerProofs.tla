---------------------------- MODULE PlannerProofs ----------------------------
(***************************************************************************)
(* Planner.tla for any document: the layers of a valid document take up    *)
(* every service, and the plan that is made of them applies and gates in   *)
(* order.  Layers and FlattenSeq are recursive functions.  That they exist *)
(* and what they compute is proved by induction, which is stated here for  *)
(* the members of a set.                                                   *)
(***************************************************************************)
EXTENDS Planner, TLAPS, SequenceTheorems, FiniteSetTheorems

(* A set of numbers that is not empty has a least one. *)
LEMMA Least ==
  ASSUME NEW S \in SUBSET Nat, S # {}
  PROVE  \E n \in S : \A m \in S : n <= m
<1>1. PICK n \in S : \A m \in S : <<m, n>> \notin OpToRel(<, Nat)
  BY NatLessThanWellFounded, WFMin
<1>2. \A m \in S : ~ (m < n)
  BY <1>1 DEF OpToRel
<1> QED
  BY <1>2

(* A set with 0 and the number after each of its numbers has all of them.  *)
LEMMA Induction ==
  ASSUME NEW S, 0 \in S, \A n \in Nat : n \in S => n + 1 \in S
  PROVE  \A n \in Nat : n \in S
<1> SUFFICES ASSUME Nat \ S # {} PROVE FALSE
  OBVIOUS
<1>1. PICK n \in Nat \ S : \A m \in Nat \ S : n <= m
  <2> DEFINE T == Nat \ S
  <2>1. T \in SUBSET Nat /\ T # {}
    OBVIOUS
  <2> HIDE DEF T
  <2>2. \E n \in T : \A m \in T : n <= m
    BY <2>1, Least
  <2> QED
    BY <2>2 DEF T
<1>2. n # 0 /\ n - 1 \in Nat
  BY <1>1
<1>3. n - 1 \in S
  BY <1>1, <1>2
<1> QED
  BY <1>1, <1>2, <1>3

-----------------------------------------------------------------------------
(* FlattenSeq, of sequences over some set. *)

FlatStep(seqs, f, i) == IF i = 1 THEN seqs[i] ELSE f[i - 1] \o seqs[i]

(* The function that FlattenSeq chooses exists: one that is right up to a  *)
(* number can be made right up to the next.                                *)
LEMMA FlattenDefined ==
  ASSUME NEW seqs, Len(seqs) \in Nat
  PROVE  \E f : f = [i \in 1..Len(seqs) |-> FlatStep(seqs, f, i)]
<1> DEFINE n == Len(seqs)
           Right == {k \in Nat : \E f : \A i \in 1..n : i <= k => f[i] = FlatStep(seqs, f, i)}
<1>1. 0 \in Right
  OBVIOUS
<1>2. ASSUME NEW k \in Nat, k \in Right PROVE k + 1 \in Right
  <2>1. PICK f : \A i \in 1..n : i <= k => f[i] = FlatStep(seqs, f, i)
    BY <1>2
  <2> DEFINE g == [i \in 1..n |-> FlatStep(seqs, f, i)]
  <2>2. \A i \in 1..n : i <= k => g[i] = f[i]
    BY <2>1
  <2>3. ASSUME NEW i \in 1..n, i <= k + 1 PROVE g[i] = FlatStep(seqs, g, i)
    <3>1. CASE i = 1
      BY <3>1 DEF FlatStep
    <3>2. CASE i # 1
      <4>1. i - 1 \in 1..n /\ i - 1 <= k
        BY <2>3, <3>2
      <4>2. g[i - 1] = f[i - 1]
        BY <2>2, <4>1
      <4> QED
        BY <4>2 DEF FlatStep
    <3> QED
      BY <3>1, <3>2
  <2> HIDE DEF g
  <2> QED
    BY <2>3
<1>3. n \in Right
  <2> HIDE DEF Right
  <2> QED
    BY <1>1, <1>2, Induction
<1>4. PICK f : \A i \in 1..n : f[i] = FlatStep(seqs, f, i)
  BY <1>3
<1> DEFINE g == [i \in 1..n |-> f[i]]
<1>5. ASSUME NEW i \in 1..n PROVE g[i] = FlatStep(seqs, g, i)
  <2>1. CASE i = 1
    BY <1>4, <2>1 DEF FlatStep
  <2>2. CASE i # 1
    <3>1. i - 1 \in 1..n
      BY <2>2
    <3> QED
      BY <1>4, <3>1 DEF FlatStep
  <2> QED
    BY <2>1, <2>2
<1>6. g = [i \in 1..n |-> g[i]]
  OBVIOUS
<1> HIDE DEF g
<1>7. g = [i \in 1..n |-> FlatStep(seqs, g, i)]
  BY <1>5, <1>6
<1> QED
  BY <1>7

LEMMA FlattenIs ==
  ASSUME NEW seqs, Len(seqs) \in Nat \ {0}
  PROVE  \E f : /\ \A i \in 1..Len(seqs) : f[i] = FlatStep(seqs, f, i)
                /\ FlattenSeq(seqs) = f[Len(seqs)]
<1> DEFINE f == CHOOSE f : f = [i \in 1..Len(seqs) |->
                                  IF i = 1 THEN seqs[i] ELSE f[i - 1] \o seqs[i]]
<1>1. FlattenSeq(seqs) = f[Len(seqs)]
  BY DEF FlattenSeq
<1>2. f = [i \in 1..Len(seqs) |-> IF i = 1 THEN seqs[i] ELSE f[i - 1] \o seqs[i]]
  BY FlattenDefined DEF FlatStep
<1> HIDE DEF f
<1>3. \A i \in 1..Len(seqs) : f[i] = FlatStep(seqs, f, i)
  BY <1>2 DEF FlatStep
<1> QED
  BY <1>1, <1>3

(* A concatenation, member by member. *)
LEMMA JoinedAt ==
  ASSUME NEW a \in Nat, NEW b \in Nat, NEW r, NEW s, NEW t,
         \A y \in 1..a + b : r[y] = IF y <= a THEN s[y] ELSE t[y - a]
  PROVE  /\ \A y \in 1..a : y \in 1..a + b /\ r[y] = s[y]
         /\ \A x \in 1..b : a + x \in 1..a + b /\ r[a + x] = t[x]
         /\ \A y \in 1..a + b : y \in 1..a \/ \E x \in 1..b : y = a + x
<1>1. ASSUME NEW x \in 1..b PROVE a + x \in 1..a + b /\ r[a + x] = t[x]
  <2>1. a + x \in 1..a + b /\ ~ (a + x <= a) /\ a + x - a = x
    OBVIOUS
  <2>2. r[a + x] = t[a + x - a]
    BY <2>1
  <2> QED
    BY <2>1, <2>2
<1>2. \A y \in 1..a + b : y \in 1..a \/ (y - a \in 1..b /\ y = a + (y - a))
  OBVIOUS
<1>3. \A y \in 1..a + b : y \in 1..a \/ \E x \in 1..b : y = a + x
  BY <1>2
<1> QED
  BY <1>1, <1>3

Joins(S, s, t, r) ==
  /\ r \in Seq(S) /\ Len(r) = Len(s) + Len(t)
  /\ \A y \in 1..Len(s) : y \in 1..Len(r) /\ r[y] = s[y]
  /\ \A x \in 1..Len(t) : Len(s) + x \in 1..Len(r) /\ r[Len(s) + x] = t[x]
  /\ \A y \in 1..Len(r) : y \in 1..Len(s) \/ \E x \in 1..Len(t) : y = Len(s) + x

LEMMA Joined ==
  ASSUME NEW S, NEW s \in Seq(S), NEW t \in Seq(S)
  PROVE  Joins(S, s, t, s \o t)
<1> DEFINE r == s \o t
           a == Len(s)
           b == Len(t)
<1>1. a \in Nat /\ b \in Nat
  BY LenProperties
<1>2. /\ r \in Seq(S) /\ Len(r) = a + b
      /\ \A y \in 1..a + b : r[y] = IF y <= a THEN s[y] ELSE t[y - a]
  BY ConcatProperties, Zenon
<1> HIDE DEF r, a, b
<1>3. /\ \A y \in 1..a : y \in 1..a + b /\ r[y] = s[y]
      /\ \A x \in 1..b : a + x \in 1..a + b /\ r[a + x] = t[x]
      /\ \A y \in 1..a + b : y \in 1..a \/ \E x \in 1..b : y = a + x
  <2>1. \A y \in 1..a + b : r[y] = IF y <= a THEN s[y] ELSE t[y - a]
    BY <1>2
  <2> QED
    BY <1>1, <2>1, JoinedAt
<1>4. Joins(S, s, t, r)
  BY <1>2, <1>3, Zenon DEF Joins, a, b
<1> QED
  BY <1>4 DEF r

(* Every member of every sequence is found in the flattened one, after all *)
(* the members of the sequences before, and nothing else is.               *)
FoundAt(seqs, at, r) ==
  /\ \A i, j \in 1..Len(seqs) : i < j => at[i] + Len(seqs[i]) <= at[j]
  /\ \A i \in 1..Len(seqs) : \A x \in 1..Len(seqs[i]) :
       at[i] + x \in 1..Len(r) /\ r[at[i] + x] = seqs[i][x]
  /\ \A y \in 1..Len(r) : \E i \in 1..Len(seqs) : \E x \in 1..Len(seqs[i]) : y = at[i] + x

LEMMA Flattened ==
  ASSUME NEW S, NEW seqs \in Seq(Seq(S))
  PROVE  /\ FlattenSeq(seqs) \in Seq(S)
         /\ \E at \in [1..Len(seqs) -> Nat] : FoundAt(seqs, at, FlattenSeq(seqs))
<1> DEFINE n == Len(seqs)
<1>0. n \in Nat /\ \A i \in 1..n : seqs[i] \in Seq(S) /\ Len(seqs[i]) \in Nat
  BY LenProperties, ElementOfSeq
<1>1. CASE n = 0
  <2>1. seqs = <<>>
    BY <1>1, EmptySeq
  <2>2. FlattenSeq(seqs) = <<>>
    BY <1>1, <2>1 DEF FlattenSeq
  <2>3. <<>> \in Seq(S) /\ Len(<<>>) = 0 /\ 1..0 = {}
    BY EmptySeq
  <2>4. <<>> \in [1..0 -> Nat]
    BY <2>3
  <2> QED
    BY <1>1, <2>2, <2>3, <2>4 DEF FoundAt
<1>2. CASE n # 0
  <2>0. n \in Nat \ {0}
    BY <1>0, <1>2
  <2>1. PICK f : /\ \A i \in 1..n : f[i] = FlatStep(seqs, f, i)
                 /\ FlattenSeq(seqs) = f[n]
    BY <2>0, FlattenIs
  <2>2. f[1] = seqs[1] /\ \A k \in 1..n : k + 1 \in 1..n => f[k + 1] = f[k] \o seqs[k + 1]
    <3>1. f[1] = seqs[1]
      BY <2>0, <2>1 DEF FlatStep
    <3>2. ASSUME NEW k \in 1..n, k + 1 \in 1..n PROVE f[k + 1] = f[k] \o seqs[k + 1]
      <4>1. k + 1 # 1 /\ (k + 1) - 1 = k
        BY <2>0
      <4>2. f[k + 1] = FlatStep(seqs, f, k + 1)
        BY <2>1, <3>2
      <4> QED
        BY <4>1, <4>2 DEF FlatStep
    <3> QED
      BY <3>1, <3>2
  <2> DEFINE at == [i \in 1..n |-> IF i = 1 THEN 0 ELSE Len(f[i - 1])]
             Found(k) ==
               /\ f[k] \in Seq(S) /\ Len(f[k]) = at[k] + Len(seqs[k])
               /\ at[k] \in Nat
               /\ \A i \in 1..k : at[i] + Len(seqs[i]) <= Len(f[k])
               /\ \A i \in 1..k : i < k => at[i] + Len(seqs[i]) <= at[k]
               /\ \A i \in 1..k : \A x \in 1..Len(seqs[i]) :
                    at[i] + x \in 1..Len(f[k]) /\ f[k][at[i] + x] = seqs[i][x]
               /\ \A y \in 1..Len(f[k]) :
                    \E i \in 1..k : \E x \in 1..Len(seqs[i]) : y = at[i] + x
             Good == {m \in Nat : \A k \in 1..n : k <= m => Found(k)}
  <2>3. at[1] = 0 /\ \A k \in 1..n : k + 1 \in 1..n => at[k + 1] = Len(f[k])
    BY <2>0
  <2> HIDE DEF at
  <2>4. Found(1)
    BY <1>0, <2>0, <2>2, <2>3
  <2>5. ASSUME NEW k \in 1..n, k + 1 \in 1..n, \A i \in 1..k : Found(i) PROVE Found(k + 1)
    <3> HIDE DEF Found
    <3>a. k \in Nat /\ k \in 1..k /\ 1..k \subseteq 1..n
      BY <2>0, <2>5
    <3>b. Found(k)
      BY <2>5, <3>a
    <3>0. /\ f[k] \in Seq(S) /\ Len(f[k]) = at[k] + Len(seqs[k])
          /\ \A i \in 1..k : at[i] + Len(seqs[i]) <= Len(f[k])
          /\ \A i \in 1..k : \A x \in 1..Len(seqs[i]) :
               at[i] + x \in 1..Len(f[k]) /\ f[k][at[i] + x] = seqs[i][x]
          /\ \A y \in 1..Len(f[k]) :
               \E i \in 1..k : \E x \in 1..Len(seqs[i]) : y = at[i] + x
      BY <3>b DEF Found
    <3>c. \A i \in 1..k : at[i] \in Nat
      BY <2>5 DEF Found
    <3>d. Len(f[k]) \in Nat /\ \A i \in 1..k : seqs[i] \in Seq(S) /\ Len(seqs[i]) \in Nat
      BY <1>0, <3>0, <3>a, LenProperties
    <3>1. f[k + 1] = f[k] \o seqs[k + 1] /\ seqs[k + 1] \in Seq(S)
      BY <1>0, <2>2, <2>5
    <3>2. /\ f[k + 1] \in Seq(S) /\ Len(f[k + 1]) = Len(f[k]) + Len(seqs[k + 1])
          /\ \A y \in 1..Len(f[k]) : y \in 1..Len(f[k + 1]) /\ f[k + 1][y] = f[k][y]
          /\ \A x \in 1..Len(seqs[k + 1]) : /\ Len(f[k]) + x \in 1..Len(f[k + 1])
                                           /\ f[k + 1][Len(f[k]) + x] = seqs[k + 1][x]
          /\ \A y \in 1..Len(f[k + 1]) :
               y \in 1..Len(f[k]) \/ \E x \in 1..Len(seqs[k + 1]) : y = Len(f[k]) + x
      <4>1. Joins(S, f[k], seqs[k + 1], f[k] \o seqs[k + 1])
        BY <3>0, <3>1, Joined, Zenon
      <4>2. Joins(S, f[k], seqs[k + 1], f[k + 1])
        BY <3>1, <4>1
      <4> QED
        BY <4>2, Zenon DEF Joins
    <3> DEFINE before == Len(f[k])
               more == Len(seqs[k + 1])
               after == Len(f[k + 1])
    <3>e. before \in Nat /\ more \in Nat /\ after = before + more
      BY <1>0, <2>5, <3>d, <3>2
    <3>f. at[k + 1] = before
      BY <2>3, <2>5
    <3>g. \A i \in 1..k : at[i] + Len(seqs[i]) \in Nat /\ at[i] + Len(seqs[i]) <= before
      BY <3>0, <3>c, <3>d
    <3> HIDE DEF before, more, after
    <3>3. 1..(k + 1) = (1..k) \cup {k + 1} /\ k + 1 \notin 1..k
      BY <3>a
    <3>4. \A i \in 1..(k + 1) : at[i] + Len(seqs[i]) <= after
      <4>1. at[k + 1] + Len(seqs[k + 1]) <= after
        BY <3>e, <3>f DEF more
      <4>2. before <= after
        BY <3>e
      <4>3. \A i \in 1..k : at[i] + Len(seqs[i]) <= after
        BY <3>e, <3>g, <4>2
      <4> QED
        BY <3>3, <4>1, <4>3
    <3>5. \A i \in 1..(k + 1) : i < k + 1 => at[i] + Len(seqs[i]) <= at[k + 1]
      <4>1. \A i \in 1..(k + 1) : i < k + 1 => i \in 1..k
        BY <3>a
      <4> QED
        BY <3>f, <3>g, <4>1
    <3>6. ASSUME NEW i \in 1..(k + 1), NEW x \in 1..Len(seqs[i])
          PROVE  at[i] + x \in 1..Len(f[k + 1]) /\ f[k + 1][at[i] + x] = seqs[i][x]
      <4>1. CASE i \in 1..k
        <5>1. at[i] + x \in 1..Len(f[k]) /\ f[k][at[i] + x] = seqs[i][x]
          BY <3>0, <3>6, <4>1
        <5> QED
          BY <3>2, <5>1
      <4>2. CASE i = k + 1
        BY <3>2, <3>6, <3>f, <4>2 DEF before
      <4> QED
        BY <3>3, <4>1, <4>2
    <3>7. ASSUME NEW y \in 1..Len(f[k + 1])
          PROVE  \E i \in 1..(k + 1) : \E x \in 1..Len(seqs[i]) : y = at[i] + x
      <4>1. CASE y \in 1..Len(f[k])
        BY <3>0, <3>3, <4>1
      <4>2. CASE \E x \in 1..Len(seqs[k + 1]) : y = Len(f[k]) + x
        BY <3>3, <3>f, <4>2 DEF before
      <4> QED
        BY <3>2, <4>1, <4>2
    <3>8. at[k + 1] \in Nat /\ Len(f[k + 1]) = at[k + 1] + Len(seqs[k + 1])
      BY <3>e, <3>f DEF after, more
    <3> QED
      BY <3>2, <3>4, <3>5, <3>6, <3>7, <3>8 DEF Found, after
  <2> HIDE DEF Found
  <2>6. \A m \in Nat : m \in Good
    <3>1. 0 \in Good
      OBVIOUS
    <3>2. ASSUME NEW m \in Nat, m \in Good PROVE m + 1 \in Good
      <4>1. \A i \in 1..n : i <= m => Found(i)
        BY <3>2
      <4>2. ASSUME m + 1 \in 1..n PROVE Found(m + 1)
        <5>1. CASE m = 0
          BY <2>4, <5>1
        <5>2. CASE m # 0
          <6>1. m \in 1..n /\ \A i \in 1..m : i \in 1..n /\ i <= m
            BY <4>2, <5>2, <2>0
          <6> QED
            BY <2>5, <4>1, <4>2, <6>1
        <5> QED
          BY <5>1, <5>2
      <4> QED
        BY <4>1, <4>2
    <3> HIDE DEF Good
    <3> QED
      BY <3>1, <3>2, Induction
  <2>7. \A k \in 1..n : Found(k)
    <3>1. n \in Good
      BY <2>0, <2>6
    <3>2. \A k \in 1..n : k <= n
      BY <2>0
    <3> QED
      BY <3>1, <3>2
  <2>8. /\ f[n] \in Seq(S)
        /\ \A i \in 1..n : \A x \in 1..Len(seqs[i]) :
             at[i] + x \in 1..Len(f[n]) /\ f[n][at[i] + x] = seqs[i][x]
        /\ \A y \in 1..Len(f[n]) :
             \E i \in 1..n : \E x \in 1..Len(seqs[i]) : y = at[i] + x
    <3>1. Found(n)
      BY <2>0, <2>7
    <3> QED
      BY <3>1 DEF Found
  <2>9. at \in [1..n -> Nat]
    <3>1. \A k \in 1..n : at[k] \in Nat
      BY <2>7 DEF Found
    <3> QED
      BY <3>1 DEF at
  <2>10. \A i, j \in 1..n : i < j => at[i] + Len(seqs[i]) <= at[j]
    <3> SUFFICES ASSUME NEW j \in 1..n, NEW i \in 1..n, i < j PROVE at[i] + Len(seqs[i]) <= at[j]
      OBVIOUS
    <3>1. i \in 1..j
      BY <2>0
    <3> QED
      BY <2>7, <3>1 DEF Found
  <2>11. f[n] = FlattenSeq(seqs)
    BY <2>1
  <2> HIDE DEF n
  <2>12. /\ FlattenSeq(seqs) \in Seq(S)
         /\ \A i \in 1..n : \A x \in 1..Len(seqs[i]) :
              at[i] + x \in 1..Len(FlattenSeq(seqs)) /\ FlattenSeq(seqs)[at[i] + x] = seqs[i][x]
         /\ \A y \in 1..Len(FlattenSeq(seqs)) :
              \E i \in 1..n : \E x \in 1..Len(seqs[i]) : y = at[i] + x
    BY <2>8, <2>11
  <2> QED
    BY <2>9, <2>10, <2>12, Zenon DEF n, FoundAt
<1> QED
  BY <1>1, <1>2

(* One more sequence comes after all the others. *)
LEMMA FlattenedAppend ==
  ASSUME NEW S, NEW seqs \in Seq(Seq(S)), NEW e \in Seq(S)
  PROVE  FlattenSeq(Append(seqs, e)) = FlattenSeq(seqs) \o e
<1> DEFINE n == Len(seqs)
           more == Append(seqs, e)
<1>1. n \in Nat /\ Len(more) = n + 1 /\ more[n + 1] = e /\ \A i \in 1..n : more[i] = seqs[i]
  BY AppendProperties
<1>2. n = 0 => FlattenSeq(seqs) = <<>>
  BY EmptySeq DEF FlattenSeq
<1> HIDE DEF more
<1>3. PICK g : /\ \A i \in 1..n + 1 : g[i] = FlatStep(more, g, i)
               /\ FlattenSeq(more) = g[n + 1]
  <2>1. Len(more) \in Nat \ {0}
    BY <1>1
  <2> QED
    BY <1>1, <2>1, FlattenIs
<1>4. CASE n = 0
  <2>1. g[1] = e
    BY <1>1, <1>3, <1>4 DEF FlatStep
  <2>2. <<>> \o e = e
    BY ConcatEmptySeq
  <2> QED
    BY <1>2, <1>3, <1>4, <2>1, <2>2 DEF more
<1>5. CASE n # 0
  <2>1. PICK f : /\ \A i \in 1..n : f[i] = FlatStep(seqs, f, i)
                 /\ FlattenSeq(seqs) = f[n]
    BY <1>1, <1>5, FlattenIs
  <2> HIDE DEF n
  <2> DEFINE Same == {k \in Nat : k \in 1..n => f[k] = g[k]}
  <2>2. ASSUME NEW k \in Nat, k \in Same PROVE k + 1 \in Same
    <3> SUFFICES ASSUME k + 1 \in 1..n PROVE f[k + 1] = g[k + 1]
      OBVIOUS
    <3>1. k + 1 \in 1..n + 1 /\ more[k + 1] = seqs[k + 1]
      BY <1>1
    <3>2. f[k + 1] = FlatStep(seqs, f, k + 1) /\ g[k + 1] = FlatStep(more, g, k + 1)
      BY <1>3, <2>1, <3>1
    <3>3. CASE k = 0
      BY <3>1, <3>2, <3>3 DEF FlatStep
    <3>4. CASE k # 0
      <4>1. k + 1 # 1 /\ (k + 1) - 1 = k /\ k \in 1..n
        BY <1>1, <3>4
      <4>2. f[k] = g[k]
        BY <2>2, <4>1
      <4> QED
        BY <3>1, <3>2, <4>1, <4>2 DEF FlatStep
    <3> QED
      BY <3>3, <3>4
  <2>3. n \in Same
    <3>1. 0 \in Same
      OBVIOUS
    <3> HIDE DEF Same
    <3> QED
      BY <1>1, <2>2, <3>1, Induction
  <2>4. f[n] = g[n]
    BY <1>1, <1>5, <2>3
  <2>5. n + 1 \in 1..n + 1 /\ n + 1 # 1 /\ (n + 1) - 1 = n
    BY <1>1, <1>5
  <2>6. g[n + 1] = g[n] \o more[n + 1]
    BY <1>3, <2>5 DEF FlatStep
  <2> QED
    BY <1>1, <1>3, <2>1, <2>4, <2>6 DEF more
<1> QED
  BY <1>4, <1>5
-----------------------------------------------------------------------------
(* The types of services, in the order of what they need: a type has a     *)
(* higher rank than the types it connects to, and no earlier phase.        *)

Phased ==
  [t \in ServiceTypes |->
    CASE t = "besu-validator" -> 1
      [] t = "besu-rpc" -> 2
      [] t = "besu-observer" -> 3
      [] t = "contracts-deploy" -> 4
      [] t \in StorageTypes -> 5
      [] t \in {"minter-postgres", "dashboard-mysql", "store-api", "minter-migrate"} -> 6
      [] OTHER -> 7]

Rank ==
  [t \in ServiceTypes |->
    CASE t \in {"contracts-deploy", "explorer", "ipfs-cluster", "minter-migrate"} -> 1
      [] t \in {"store-api", "admin-api"} -> 2
      [] t \in {"minter-api", "minter-worker", "resolver-api"} -> 3
      [] t = "dashboard-migrate" -> 4
      [] t = "dashboard" -> 5
      [] t = "edge-proxy" -> 6
      [] OTHER -> 0]

LEMMA Types ==
  ServiceTypes = {"besu-validator", "besu-rpc", "besu-observer", "contracts-deploy",
                  "ipfs-kubo", "ipfs-cluster", "minter-postgres", "dashboard-mysql", "store-api",
                  "minter-migrate", "minter-api", "minter-worker", "admin-api", "resolver-api",
                  "dashboard-migrate", "dashboard", "explorer", "edge-proxy"}
BY DEF ServiceTypes, Contract, ChainTypes, StorageTypes

LEMMA Ranks ==
  ASSUME NEW t \in ServiceTypes
  PROVE  Phased[t] \in 1..7 /\ Rank[t] \in 0..6
BY DEF Phased, Rank

LEMMA PhaseIs ==
  ASSUME NEW doc, NEW s, doc.services[s].type \in ServiceTypes
  PROVE  PhaseOf(doc, s) = Phased[doc.services[s].type]
<1> DEFINE t == doc.services[s].type
<1>1. t \in ServiceTypes
  OBVIOUS
<1> HIDE DEF t
<1>2. DOMAIN Phases = 1..7
  BY DEF Phases
<1>3. Phased[t] \in 1..7 /\ \A p \in 1..7 : t \in Phases[p] <=> p = Phased[t]
  BY <1>1, Types DEF Phases, Phased, StorageTypes
<1>4. (CHOOSE p \in DOMAIN Phases : t \in Phases[p]) = Phased[t]
  BY <1>2, <1>3
<1> QED
  BY <1>4 DEF PhaseOf, t

Needs(user, provider) == Rank[provider] < Rank[user] /\ Phased[provider] <= Phased[user]

LEMMA ContractNeeds ==
  ASSUME NEW t \in DOMAIN Contract, NEW name \in DOMAIN Contract[t],
         NEW u \in {Contract[t][name]} \cup
                   IF Contract[t][name] = "besu-rpc" THEN {"besu-observer"} ELSE {}
  PROVE  u \in ServiceTypes /\ Needs(t, u)
<1> DEFINE chain == {"besu-rpc", "besu-observer"}
<1>1. CASE t \in {"explorer", "contracts-deploy"}
  <2>1. Contract[t] = [rpc |-> "besu-rpc"]
    BY <1>1 DEF Contract
  <2>2. u \in chain
    BY <2>1
  <2> QED
    BY <1>1, <2>2, Types DEF Needs, Rank, Phased, StorageTypes
<1>2. CASE t \in {"minter-api", "minter-worker"}
  <2>1. Contract[t] = Minting
    BY <1>2 DEF Contract
  <2>2. u \in chain \cup {"minter-postgres", "store-api", "contracts-deploy", "minter-migrate"}
    BY <2>1 DEF Minting
  <2> QED
    BY <1>2, <2>2, Types DEF Needs, Rank, Phased, StorageTypes
<1>3. CASE t = "minter-migrate"
  <2>1. Contract[t] = [database |-> "minter-postgres"]
    BY <1>3 DEF Contract
  <2>2. u = "minter-postgres"
    BY <2>1
  <2> QED
    BY <1>3, <2>2, Types DEF Needs, Rank, Phased, StorageTypes
<1>4. CASE t = "admin-api"
  <2>1. Contract[t] = [rpc |-> "besu-rpc", contracts |-> "contracts-deploy"]
    BY <1>4 DEF Contract
  <2>2. u \in chain \cup {"contracts-deploy"}
    BY <2>1
  <2> QED
    BY <1>4, <2>2, Types DEF Needs, Rank, Phased, StorageTypes
<1>5. CASE t = "resolver-api"
  <2>1. Contract[t] = [rpc |-> "besu-rpc", store_api |-> "store-api", contracts |-> "contracts-deploy"]
    BY <1>5 DEF Contract
  <2>2. u \in chain \cup {"store-api", "contracts-deploy"}
    BY <2>1
  <2> QED
    BY <1>5, <2>2, Types DEF Needs, Rank, Phased, StorageTypes
<1>6. CASE t \in {"dashboard", "dashboard-migrate"}
  <2>1. /\ DOMAIN Migrating = {"database", "admin_api", "minter_api", "resolver_api", "store_api"}
        /\ \A n \in DOMAIN Migrating :
             Migrating[n] \in {"dashboard-mysql", "admin-api", "minter-api", "resolver-api", "store-api"}
    BY DEF Migrating
  <2>2. CASE t = "dashboard-migrate"
    <3>1. Contract[t] = Migrating
      BY <2>2 DEF Contract
    <3>2. u \in {"dashboard-mysql", "admin-api", "minter-api", "resolver-api", "store-api"}
      BY <2>1, <3>1
    <3> QED
      BY <2>2, <3>2, Types DEF Needs, Rank, Phased, StorageTypes
  <2>3. CASE t = "dashboard"
    <3>1. Contract[t] = Migrating ++ [migration |-> "dashboard-migrate"]
      BY <2>3 DEF Contract
    <3>2. Contract[t][name] \in {"dashboard-mysql", "admin-api", "minter-api", "resolver-api",
                                 "store-api", "dashboard-migrate"}
      BY <2>1, <3>1 DEF ++
    <3>3. u \in {"dashboard-mysql", "admin-api", "minter-api", "resolver-api", "store-api",
                 "dashboard-migrate"}
      BY <3>2
    <3> QED
      BY <2>3, <3>3, Types DEF Needs, Rank, Phased, StorageTypes
  <2> QED
    BY <1>6, <2>2, <2>3
<1>7. CASE t = "ipfs-cluster"
  <2>1. Contract[t] = [kubo |-> "ipfs-kubo"]
    BY <1>7 DEF Contract
  <2>2. u = "ipfs-kubo"
    BY <2>1
  <2> QED
    BY <1>7, <2>2, Types DEF Needs, Rank, Phased, StorageTypes
<1>8. CASE t \in ChainTypes \cup {"ipfs-kubo", "minter-postgres", "dashboard-mysql"}
  <2>1. Contract[t] = Empty
    BY <1>8 DEF Contract, ChainTypes
  <2> QED
    BY <2>1 DEF Empty
<1> QED
  BY <1>1, <1>2, <1>3, <1>4, <1>5, <1>6, <1>7, <1>8 DEF Contract, ChainTypes, StorageTypes

(* The services of a document in the order of what they need. *)
Weight(doc, s) == 7 * PhaseOf(doc, s) + Rank[doc.services[s].type]

Ordered(doc) ==
  \A s \in DOMAIN doc.services :
    /\ PhaseOf(doc, s) \in 1..7 /\ Weight(doc, s) \in 0..55
    /\ \A t \in DOMAIN doc.services :
         Weight(doc, s) <= Weight(doc, t) => PhaseOf(doc, s) <= PhaseOf(doc, t)
    /\ \A t \in ProvidersOf(doc, s) :
         /\ t \in DOMAIN doc.services /\ Weight(doc, t) < Weight(doc, s)
         /\ PhaseOf(doc, t) <= PhaseOf(doc, s)

(* The checks of inventory.py leave no way for services to need each other *)
(* in a circle: what a service connects to is of a lower rank than itself. *)
LEMMA ValidOrdered ==
  ASSUME NEW doc, Valid(doc)
  PROVE  Ordered(doc)
<1> DEFINE type(s) == doc.services[s].type
<1>1. \A s \in DOMAIN doc.services : type(s) \in ServiceTypes
  BY DEF Valid, ValidService
<1>2. ASSUME NEW s \in DOMAIN doc.services, NEW t \in ProvidersOf(doc, s)
      PROVE  t \in DOMAIN doc.services /\ Needs(type(s), type(t))
  <2>1. /\ t \in DOMAIN doc.services
        /\ CASE doc.services[s].type = "store-api" -> ValidStore(doc, s)
             [] doc.services[s].type = "edge-proxy" -> ValidProxy(doc, s)
             [] OTHER -> ValidContract(doc, s)
    BY <1>2 DEF Valid, ValidConnections
  <2>2. CASE type(s) = "store-api"
    <3>1. type(t) = "ipfs-cluster"
      BY <1>2, <2>1, <2>2 DEF ValidStore, OfType
    <3> QED
      BY <2>1, <2>2, <3>1, Types DEF Needs, Rank, Phased, StorageTypes
  <2>3. CASE type(s) = "edge-proxy"
    <3>1. type(t) \in WebTypes
      BY <1>2, <2>1, <2>3 DEF ValidProxy
    <3> QED
      BY <2>1, <2>3, <3>1, Types DEF Needs, Rank, Phased, StorageTypes, WebTypes
  <2>4. CASE type(s) \notin {"store-api", "edge-proxy"}
    <3>1. ValidContract(doc, s) /\ type(s) \in DOMAIN Contract
      BY <1>1, <2>1, <2>4 DEF ServiceTypes
    <3>2. PICK name \in DOMAIN doc.services[s].connections : t = doc.services[s].connections[name].service
      BY <1>2 DEF ProvidersOf, Range
    <3>3. /\ name \in DOMAIN Contract[type(s)]
          /\ type(t) \in {Contract[type(s)][name]} \cup
               IF Contract[type(s)][name] = "besu-rpc" THEN {"besu-observer"} ELSE {}
      BY <3>1, <3>2 DEF ValidContract
    <3> QED
      BY <2>1, <3>1, <3>3, ContractNeeds
  <2> QED
    BY <2>2, <2>3, <2>4
<1>3. \A s \in DOMAIN doc.services :
        PhaseOf(doc, s) = Phased[type(s)] /\ PhaseOf(doc, s) \in 1..7 /\ Rank[type(s)] \in 0..6
  BY <1>1, PhaseIs, Ranks
<1> HIDE DEF type
<1>4. \A s \in DOMAIN doc.services : Weight(doc, s) = 7 * PhaseOf(doc, s) + Rank[type(s)]
  BY DEF Weight, type
<1>5. ASSUME NEW s \in DOMAIN doc.services, NEW t \in ProvidersOf(doc, s)
      PROVE  /\ t \in DOMAIN doc.services /\ Weight(doc, t) < Weight(doc, s)
             /\ PhaseOf(doc, t) <= PhaseOf(doc, s)
  <2>1. /\ t \in DOMAIN doc.services
        /\ Rank[type(t)] < Rank[type(s)] /\ PhaseOf(doc, t) <= PhaseOf(doc, s)
    BY <1>2, <1>3, <1>5 DEF Needs
  <2> QED
    BY <1>3, <1>4, <2>1
<1>6. \A s \in DOMAIN doc.services : Weight(doc, s) \in 0..55
  BY <1>3, <1>4
<1>7. ASSUME NEW s \in DOMAIN doc.services, NEW t \in DOMAIN doc.services,
             Weight(doc, s) <= Weight(doc, t)
      PROVE  PhaseOf(doc, s) <= PhaseOf(doc, t)
  BY <1>3, <1>4, <1>7
<1> QED
  BY <1>3, <1>5, <1>6, <1>7 DEF Ordered
-----------------------------------------------------------------------------
(* The layers. *)

(* A layer takes every service that needs the least of those that remain. *)
LEMMA FirstTaken ==
  ASSUME NEW doc, Ordered(doc), NEW applied, NEW s \in DOMAIN doc.services \ applied,
         \A t \in DOMAIN doc.services \ applied : Weight(doc, s) <= Weight(doc, t)
  PROVE  s \in Layer(doc, applied)
<1>1. \A x \in DOMAIN doc.services : Weight(doc, x) \in 0..55
  BY DEF Ordered
<1>2. ASSUME NEW t \in ProvidersOf(doc, s) PROVE t \in applied
  <2>1. t \in DOMAIN doc.services /\ Weight(doc, t) < Weight(doc, s)
    BY <1>2 DEF Ordered
  <2>2. CASE t \notin applied
    <3>1. Weight(doc, s) <= Weight(doc, t)
      BY <2>1, <2>2
    <3> QED
      BY <1>1, <2>1, <3>1
  <2> QED
    BY <2>2
<1>3. \A t \in DOMAIN doc.services \ applied : PhaseOf(doc, s) <= PhaseOf(doc, t)
  BY DEF Ordered
<1> QED
  BY <1>2, <1>3 DEF Layer

LEMMA Taken ==
  ASSUME NEW doc, Ordered(doc), NEW applied, DOMAIN doc.services \ applied # {}
  PROVE  Layer(doc, applied) # {}
<1> DEFINE weights == {Weight(doc, s) : s \in DOMAIN doc.services \ applied}
<1>1. \A s \in DOMAIN doc.services : Weight(doc, s) \in Nat
  BY DEF Ordered
<1>2. weights \in SUBSET Nat /\ weights # {}
  BY <1>1
<1>3. PICK n \in weights : \A m \in weights : n <= m
  <2> HIDE DEF weights
  <2> QED
    BY <1>2, Least
<1>4. PICK s \in DOMAIN doc.services \ applied : n = Weight(doc, s)
  BY <1>3
<1>5. \A t \in DOMAIN doc.services \ applied : Weight(doc, s) <= Weight(doc, t)
  BY <1>3, <1>4
<1> QED
  BY <1>4, <1>5, FirstTaken

(* How many layers may be left: each takes at least one weight. *)
Left(doc, applied, n) == \A s \in DOMAIN doc.services \ applied : 56 <= Weight(doc, s) + n

LEMMA LeftTaken ==
  ASSUME NEW doc, Ordered(doc), NEW applied, NEW n \in Nat, Left(doc, applied, n + 1)
  PROVE  Left(doc, applied \cup Layer(doc, applied), n)
<1> SUFFICES ASSUME NEW s \in DOMAIN doc.services \ applied, s \notin Layer(doc, applied)
             PROVE  56 <= Weight(doc, s) + n
  BY DEF Left
<1>1. \A t \in DOMAIN doc.services : Weight(doc, t) \in 0..55
  BY DEF Ordered
<1>2. \A t \in DOMAIN doc.services \ applied : 56 <= Weight(doc, t) + (n + 1)
  BY DEF Left
<1>3. PICK t \in DOMAIN doc.services \ applied : ~ (Weight(doc, s) <= Weight(doc, t))
  BY FirstTaken
<1> QED
  BY <1>1, <1>2, <1>3

LEMMA NoneLeft ==
  ASSUME NEW doc, Ordered(doc)
  PROVE  /\ Left(doc, {}, 56)
         /\ \A applied : Left(doc, applied, 0) => DOMAIN doc.services \ applied = {}
<1>1. \A s \in DOMAIN doc.services : Weight(doc, s) \in 0..55
  BY DEF Ordered
<1>2. \A s \in DOMAIN doc.services : 56 <= Weight(doc, s) + 56 /\ ~ (56 <= Weight(doc, s) + 0)
  BY <1>1
<1> QED
  BY <1>2 DEF Left

(* The function that Layers chooses exists: one that is right where so     *)
(* many layers may be left can be made right for one more.                 *)
From(doc, f, applied) ==
  IF Layer(doc, applied) = {} THEN <<>>
  ELSE <<Layer(doc, applied)>> \o f[applied \cup Layer(doc, applied)]

LEMMA LayerIn ==
  ASSUME NEW doc, NEW applied
  PROVE  Layer(doc, applied) \subseteq DOMAIN doc.services \ applied
BY DEF Layer

LEMMA LayersDefined ==
  ASSUME NEW doc, Ordered(doc)
  PROVE  \E f : f = [applied \in SUBSET DOMAIN doc.services |-> From(doc, f, applied)]
<1> DEFINE D == DOMAIN doc.services
           Right == {n \in Nat : \E f : \A applied \in SUBSET D :
                       Left(doc, applied, n) => f[applied] = From(doc, f, applied)}
<1>1. 0 \in Right
  <2> DEFINE f == [applied \in SUBSET D |-> <<>>]
  <2>1. ASSUME NEW applied \in SUBSET D, Left(doc, applied, 0)
        PROVE  f[applied] = From(doc, f, applied)
    <3>1. Layer(doc, applied) = {}
      BY <2>1, NoneLeft, LayerIn
    <3> QED
      BY <3>1 DEF From
  <2> HIDE DEF f
  <2> QED
    BY <2>1
<1>2. ASSUME NEW n \in Nat, n \in Right PROVE n + 1 \in Right
  <2>1. PICK f : \A applied \in SUBSET D :
                   Left(doc, applied, n) => f[applied] = From(doc, f, applied)
    BY <1>2
  <2> DEFINE g == [applied \in SUBSET D |-> From(doc, f, applied)]
  <2>2. \A applied \in SUBSET D : Left(doc, applied, n) => g[applied] = f[applied]
    BY <2>1
  <2>3. ASSUME NEW applied \in SUBSET D, Left(doc, applied, n + 1)
        PROVE  g[applied] = From(doc, g, applied)
    <3> DEFINE next == applied \cup Layer(doc, applied)
    <3>1. next \in SUBSET D /\ Left(doc, next, n)
      BY <2>3, LayerIn, LeftTaken
    <3>2. g[next] = f[next]
      BY <2>2, <3>1
    <3>3. g[applied] = From(doc, f, applied)
      OBVIOUS
    <3> HIDE DEF g
    <3> QED
      BY <3>2, <3>3 DEF From
  <2> HIDE DEF g
  <2> QED
    BY <2>3
<1>3. 56 \in Right
  <2> HIDE DEF Right
  <2> QED
    BY <1>1, <1>2, Induction
<1>4. PICK f : \A applied \in SUBSET D : Left(doc, applied, 56) => f[applied] = From(doc, f, applied)
  BY <1>3
<1>5. \A applied \in SUBSET D : Left(doc, applied, 56)
  BY NoneLeft DEF Left
<1> DEFINE g == [applied \in SUBSET D |-> f[applied]]
<1>6. ASSUME NEW applied \in SUBSET D PROVE g[applied] = From(doc, g, applied)
  <2> DEFINE next == applied \cup Layer(doc, applied)
  <2>1. next \in SUBSET D
    BY LayerIn
  <2>2. g[next] = f[next] /\ g[applied] = f[applied] /\ f[applied] = From(doc, f, applied)
    BY <1>4, <1>5, <2>1
  <2> HIDE DEF g
  <2> QED
    BY <2>2 DEF From
<1>7. g = [applied \in SUBSET D |-> g[applied]]
  OBVIOUS
<1> HIDE DEF g
<1>8. g = [applied \in SUBSET D |-> From(doc, g, applied)]
  BY <1>6, <1>7
<1> QED
  BY <1>8

LEMMA LayersAre ==
  ASSUME NEW doc, Ordered(doc)
  PROVE  \E f : /\ \A applied \in SUBSET DOMAIN doc.services : f[applied] = From(doc, f, applied)
                /\ Layers(doc) = f[{}]
<1> DEFINE f == CHOOSE f : f = [applied \in SUBSET DOMAIN doc.services |->
                  IF Layer(doc, applied) = {} THEN <<>>
                  ELSE <<Layer(doc, applied)>> \o f[applied \cup Layer(doc, applied)]]
<1>1. Layers(doc) = f[{}]
  BY Zenon DEF Layers
<1>2. f = [applied \in SUBSET DOMAIN doc.services |->
             IF Layer(doc, applied) = {} THEN <<>>
             ELSE <<Layer(doc, applied)>> \o f[applied \cup Layer(doc, applied)]]
  BY LayersDefined DEF From
<1> HIDE DEF f
<1>3. \A applied \in SUBSET DOMAIN doc.services : f[applied] = From(doc, f, applied)
  BY <1>2 DEF From
<1> QED
  BY <1>1, <1>3

(* What the layers are that follow when some services are applied.         *)
Disjoint(layers, applied) ==
  /\ \A i \in 1..Len(layers) : layers[i] # {} /\ layers[i] \cap applied = {}
  /\ \A i, j \in 1..Len(layers) : i < j => layers[i] \cap layers[j] = {}
Complete(doc, layers, applied) ==
  \A s \in DOMAIN doc.services \ applied : \E i \in 1..Len(layers) : s \in layers[i]
Provided(doc, layers, applied) ==
  \A i \in 1..Len(layers) : \A s \in layers[i] : \A t \in ProvidersOf(doc, s) :
    t \in applied \/ \E j \in 1..Len(layers) : j < i /\ t \in layers[j]
Phasing(doc, layers) ==
  \A i, j \in 1..Len(layers) : i <= j =>
    \A s \in layers[i] : \A t \in layers[j] : PhaseOf(doc, s) <= PhaseOf(doc, t)

Layered(doc, layers, applied) ==
  /\ layers \in Seq(SUBSET DOMAIN doc.services)
  /\ layers # <<>> => layers[1] = Layer(doc, applied)
  /\ Disjoint(layers, applied) /\ Complete(doc, layers, applied)
  /\ Provided(doc, layers, applied) /\ Phasing(doc, layers)

(* A sequence after one more element. *)
Prepends(S, e, rest, n, r) ==
  /\ r \in Seq(S) /\ n \in Nat /\ Len(r) = n + 1 /\ r[1] = e
  /\ \A i \in 1..n : i + 1 \in 1..n + 1 /\ r[i + 1] = rest[i]
  /\ \A i \in 1..n + 1 : i = 1 \/ (i - 1 \in 1..n /\ r[i] = rest[i - 1])

LEMMA Prepended ==
  ASSUME NEW S, NEW e \in S, NEW rest \in Seq(S)
  PROVE  Prepends(S, e, rest, Len(rest), <<e>> \o rest)
<1> DEFINE r == <<e>> \o rest
           n == Len(rest)
<1>1. <<e>> \in Seq(S) /\ Len(<<e>>) = 1 /\ <<e>>[1] = e
  OBVIOUS
<1>2. Joins(S, <<e>>, rest, r)
  BY <1>1, Joined, Zenon
<1>4. n \in Nat
  BY LenProperties
<1> HIDE DEF r, n
<1>3. /\ r \in Seq(S) /\ Len(r) = 1 + n
      /\ \A y \in 1..1 : r[y] = e
      /\ \A x \in 1..n : r[1 + x] = rest[x]
  BY <1>1, <1>2 DEF Joins, n
<1>5. r[1] = e /\ Len(r) = n + 1
  BY <1>3, <1>4
<1>6. \A i \in 1..n : i + 1 \in 1..n + 1 /\ r[i + 1] = rest[i]
  BY <1>3, <1>4
<1>7. ASSUME NEW i \in 1..n + 1, i # 1 PROVE i - 1 \in 1..n /\ r[i] = rest[i - 1]
  <2>1. i - 1 \in 1..n /\ 1 + (i - 1) = i
    BY <1>4, <1>7
  <2>2. r[1 + (i - 1)] = rest[i - 1]
    BY <1>3, <2>1
  <2> QED
    BY <2>1, <2>2
<1>8. \A i \in 1..n + 1 : i = 1 \/ (i - 1 \in 1..n /\ r[i] = rest[i - 1])
  BY <1>7
<1>9. Prepends(S, e, rest, n, r)
  BY <1>3, <1>4, <1>5, <1>6, <1>8, Zenon DEF Prepends
<1> QED
  BY <1>9 DEF r, n

LEMMA LayeredOn ==
  ASSUME NEW doc, Ordered(doc), NEW applied \in SUBSET DOMAIN doc.services,
         NEW first, first = Layer(doc, applied), first # {},
         NEW rest, Layered(doc, rest, applied \cup first)
  PROVE  Layered(doc, <<first>> \o rest, applied)
<1> DEFINE n == Len(rest)
           layers == <<first>> \o rest
           D == DOMAIN doc.services
<1>1. first \in SUBSET D /\ first \cap applied = {} /\ rest \in Seq(SUBSET D)
  BY LayerIn DEF Layered
<1>p. Prepends(SUBSET D, first, rest, n, layers)
  BY <1>1, Prepended, Zenon
<1>2. /\ layers \in Seq(SUBSET D) /\ n \in Nat /\ Len(layers) = n + 1 /\ layers[1] = first
      /\ \A i \in 1..n : i + 1 \in 1..n + 1 /\ layers[i + 1] = rest[i]
      /\ \A i \in 1..n + 1 : i = 1 \/ (i - 1 \in 1..n /\ layers[i] = rest[i - 1])
  BY <1>p, Zenon DEF Prepends
<1> HIDE DEF layers, n
<1>3. /\ \A i \in 1..n : rest[i] # {} /\ rest[i] \cap applied = {} /\ rest[i] \cap first = {}
      /\ \A i, j \in 1..n : i < j => rest[i] \cap rest[j] = {}
  BY DEF Layered, Disjoint, n
<1>4. Disjoint(layers, applied)
  <2>1. ASSUME NEW i \in 1..n + 1 PROVE layers[i] # {} /\ layers[i] \cap applied = {}
    <3>1. CASE i = 1
      BY <1>1, <1>2, <3>1
    <3>2. CASE i # 1
      <4>1. i - 1 \in 1..n /\ layers[i] = rest[i - 1]
        BY <1>2, <3>2
      <4> QED
        BY <1>3, <4>1
    <3> QED
      BY <3>1, <3>2
  <2>2. ASSUME NEW i \in 1..n + 1, NEW j \in 1..n + 1, i < j
        PROVE  layers[i] \cap layers[j] = {}
    <3>1. j # 1 /\ j - 1 \in 1..n /\ layers[j] = rest[j - 1]
      BY <1>2, <2>2
    <3>2. CASE i = 1
      BY <1>2, <1>3, <3>1, <3>2
    <3>3. CASE i # 1
      <4>1. i - 1 \in 1..n /\ layers[i] = rest[i - 1] /\ i - 1 < j - 1
        BY <1>2, <2>2, <3>3
      <4> QED
        BY <1>3, <3>1, <4>1
    <3> QED
      BY <3>2, <3>3
  <2> QED
    BY <1>2, <2>1, <2>2 DEF Disjoint
<1>5. Complete(doc, layers, applied)
  <2> SUFFICES ASSUME NEW s \in D \ applied
               PROVE  \E i \in 1..n + 1 : s \in layers[i]
    BY <1>2 DEF Complete
  <2>1. CASE s \in first
    <3>1. 1 \in 1..n + 1
      BY <1>2
    <3> QED
      BY <1>2, <2>1, <3>1
  <2>2. CASE s \notin first
    <3>1. PICK i \in 1..n : s \in rest[i]
      BY <2>2 DEF Layered, Complete, n
    <3> QED
      BY <1>2, <3>1
  <2> QED
    BY <2>1, <2>2
<1>6. Provided(doc, layers, applied)
  <2> SUFFICES ASSUME NEW i \in 1..n + 1, NEW s \in layers[i], NEW t \in ProvidersOf(doc, s),
                      t \notin applied
               PROVE  \E j \in 1..n + 1 : j < i /\ t \in layers[j]
    BY <1>2 DEF Provided
  <2>1. i # 1
    BY <1>2 DEF Layer
  <2>2. i - 1 \in 1..n /\ layers[i] = rest[i - 1]
    BY <1>2, <2>1
  <2>3. t \in applied \cup first \/ \E j \in 1..n : j < i - 1 /\ t \in rest[j]
    BY <2>2 DEF Layered, Provided, n
  <2>4. CASE t \in first
    <3>1. 1 \in 1..n + 1 /\ 1 < i
      BY <1>2, <2>2
    <3> QED
      BY <1>2, <2>4, <3>1
  <2>5. CASE \E j \in 1..n : j < i - 1 /\ t \in rest[j]
    <3>1. PICK j \in 1..n : j < i - 1 /\ t \in rest[j]
      BY <2>5
    <3>2. j + 1 < i
      BY <1>2, <2>2, <3>1
    <3> QED
      BY <1>2, <3>1, <3>2
  <2> QED
    BY <2>3, <2>4, <2>5
<1>7. ASSUME NEW s \in first, NEW j \in 1..n, NEW t \in rest[j]
      PROVE  PhaseOf(doc, s) <= PhaseOf(doc, t)
  <2>1. 1 \in 1..n /\ rest # <<>> /\ 1 <= j
    BY <1>2, <1>7 DEF n
  <2>2. rest[1] = Layer(doc, applied \cup first)
    BY <2>1 DEF Layered
  <2>3. PICK u : u \in rest[1]
    BY <1>3, <2>1
  <2>4. PhaseOf(doc, u) <= PhaseOf(doc, t)
    BY <1>7, <2>1, <2>3 DEF Layered, Phasing, n
  <2>5. PhaseOf(doc, s) <= PhaseOf(doc, u)
    <3>1. u \in D \ applied /\ ProvidersOf(doc, u) \subseteq applied \cup first
      BY <2>2, <2>3 DEF Layer
    <3>2. CASE ProvidersOf(doc, u) \subseteq applied
      BY <3>1, <3>2, <1>7 DEF Layer
    <3>3. CASE ~ (ProvidersOf(doc, u) \subseteq applied)
      <4>1. PICK p \in ProvidersOf(doc, u) : p \in first
        BY <3>1, <3>3
      <4>2. PhaseOf(doc, p) <= PhaseOf(doc, u) /\ p \in D
        BY <3>1, <4>1 DEF Ordered
      <4>3. PhaseOf(doc, s) <= PhaseOf(doc, p)
        BY <1>7, <4>1 DEF Layer
      <4>4. PhaseOf(doc, s) \in 1..7 /\ PhaseOf(doc, p) \in 1..7 /\ PhaseOf(doc, u) \in 1..7
        BY <1>1, <1>7, <3>1, <4>2 DEF Ordered
      <4> QED
        BY <4>2, <4>3, <4>4
    <3> QED
      BY <3>2, <3>3
  <2>6. s \in D /\ u \in D /\ t \in D
    BY <1>1, <1>7, <2>1, <2>3, ElementOfSeq DEF n
  <2>7. PhaseOf(doc, s) \in 1..7 /\ PhaseOf(doc, u) \in 1..7 /\ PhaseOf(doc, t) \in 1..7
    BY <2>6 DEF Ordered
  <2> QED
    BY <2>4, <2>5, <2>7
<1>8. Phasing(doc, layers)
  <2> SUFFICES ASSUME NEW i \in 1..n + 1, NEW j \in 1..n + 1, i <= j,
                      NEW s \in layers[i], NEW t \in layers[j]
               PROVE  PhaseOf(doc, s) <= PhaseOf(doc, t)
    BY <1>2 DEF Phasing
  <2>1. CASE i = 1 /\ j = 1
    BY <1>2, <2>1 DEF Layer
  <2>2. CASE i = 1 /\ j # 1
    BY <1>2, <1>7, <2>2
  <2>3. CASE i # 1
    <3>1. /\ i - 1 \in 1..n /\ j - 1 \in 1..n /\ i - 1 <= j - 1
          /\ layers[i] = rest[i - 1] /\ layers[j] = rest[j - 1]
      BY <1>2, <2>3
    <3> QED
      BY <3>1 DEF Layered, Phasing, n
  <2> QED
    BY <2>1, <2>2, <2>3
<1> QED
  BY <1>2, <1>4, <1>5, <1>6, <1>8 DEF Layered, layers

LEMMA LayersLayered ==
  ASSUME NEW doc, Ordered(doc)
  PROVE  Layered(doc, Layers(doc), {})
<1> DEFINE D == DOMAIN doc.services
<1>1. PICK f : /\ \A applied \in SUBSET D : f[applied] = From(doc, f, applied)
               /\ Layers(doc) = f[{}]
  BY LayersAre
<1> DEFINE Right == {n \in Nat : \A applied \in SUBSET D :
                       Left(doc, applied, n) => Layered(doc, f[applied], applied)}
<1>2. ASSUME NEW applied \in SUBSET D, Layer(doc, applied) = {}
      PROVE  Layered(doc, f[applied], applied)
  <2>1. f[applied] = <<>>
    BY <1>1, <1>2 DEF From
  <2>2. D \ applied = {}
    BY <1>2, Taken
  <2>3. <<>> \in Seq(SUBSET D) /\ 1..Len(<<>>) = {}
    OBVIOUS
  <2> QED
    BY <2>1, <2>2, <2>3 DEF Layered, Disjoint, Complete, Provided, Phasing
<1>3. 0 \in Right
  <2>1. ASSUME NEW applied \in SUBSET D, Left(doc, applied, 0)
        PROVE  Layer(doc, applied) = {}
    BY <2>1, NoneLeft, LayerIn
  <2> QED
    BY <1>2, <2>1
<1>4. ASSUME NEW n \in Nat, n \in Right PROVE n + 1 \in Right
  <2>1. ASSUME NEW applied \in SUBSET D, Left(doc, applied, n + 1), Layer(doc, applied) # {}
        PROVE  Layered(doc, f[applied], applied)
    <3> DEFINE first == Layer(doc, applied)
    <3>1. applied \cup first \in SUBSET D /\ Left(doc, applied \cup first, n)
      BY <2>1, LayerIn, LeftTaken
    <3>2. Layered(doc, f[applied \cup first], applied \cup first)
      BY <1>4, <3>1
    <3>3. f[applied] = <<first>> \o f[applied \cup first]
      BY <1>1, <2>1 DEF From
    <3>4. Layered(doc, <<first>> \o f[applied \cup first], applied)
      BY <2>1, <3>2, LayeredOn, Zenon
    <3> QED
      BY <3>3, <3>4
  <2> QED
    BY <1>2, <2>1
<1>5. 56 \in Right
  <2> HIDE DEF Right
  <2> QED
    BY <1>3, <1>4, Induction
<1> QED
  BY <1>1, <1>5, NoneLeft
-----------------------------------------------------------------------------
(* The plan. *)

FirstPhase(doc, layers, i) == PhaseOf(doc, CHOOSE s \in layers[i] : TRUE)
LastOf(doc, layers, i) ==
  \A j \in DOMAIN layers : j > i => FirstPhase(doc, layers, j) # FirstPhase(doc, layers, i)
Piece(doc, layers, i) ==
  <<Apply(layers[i])>> \o
    IF LastOf(doc, layers, i) THEN <<Gate(FirstPhase(doc, layers, i))>> ELSE <<>>

LEMMA PlanIs ==
  ASSUME NEW doc
  PROVE  PlanOf(doc) =
           FlattenSeq([i \in DOMAIN Layers(doc) |-> Piece(doc, Layers(doc), i)])
BY DEF PlanOf, Piece, LastOf, FirstPhase

(* The phase of a layer is the phase of each of its services. *)
LEMMA PhasesOfLayers ==
  ASSUME NEW doc, Ordered(doc), NEW layers, Layered(doc, layers, {})
  PROVE  /\ DOMAIN layers = 1..Len(layers) /\ Len(layers) \in Nat
         /\ \A i \in 1..Len(layers) :
              /\ layers[i] \in SUBSET DOMAIN doc.services
              /\ FirstPhase(doc, layers, i) \in 1..7
              /\ \A s \in layers[i] : PhaseOf(doc, s) = FirstPhase(doc, layers, i)
         /\ \A i, j \in 1..Len(layers) :
              i <= j => FirstPhase(doc, layers, i) <= FirstPhase(doc, layers, j)
<1> DEFINE n == Len(layers)
           first(i) == CHOOSE s \in layers[i] : TRUE
<1>1. layers \in Seq(SUBSET DOMAIN doc.services)
  BY DEF Layered
<1>2. DOMAIN layers = 1..n /\ n \in Nat /\ \A i \in 1..n : layers[i] \in SUBSET DOMAIN doc.services
  BY <1>1, LenProperties, ElementOfSeq
<1>3. \A i \in 1..n : first(i) \in layers[i]
  BY DEF Layered, Disjoint
<1> HIDE DEF first
<1>4. \A i \in 1..n : first(i) \in DOMAIN doc.services
  BY <1>2, <1>3
<1>5. \A s \in DOMAIN doc.services : PhaseOf(doc, s) \in 1..7
  BY DEF Ordered
<1>6. \A i, j \in 1..n : i <= j =>
        \A s \in layers[i] : \A t \in layers[j] : PhaseOf(doc, s) <= PhaseOf(doc, t)
  BY DEF Layered, Phasing
<1>7. \A i \in 1..n : FirstPhase(doc, layers, i) = PhaseOf(doc, first(i))
  BY DEF FirstPhase, first
<1>8. ASSUME NEW i \in 1..n, NEW s \in layers[i]
      PROVE  PhaseOf(doc, s) = FirstPhase(doc, layers, i)
  <2>1. i <= i /\ s \in DOMAIN doc.services
    BY <1>2
  <2>2. PhaseOf(doc, s) <= PhaseOf(doc, first(i)) /\ PhaseOf(doc, first(i)) <= PhaseOf(doc, s)
    BY <1>3, <1>6, <2>1
  <2>3. PhaseOf(doc, s) \in 1..7 /\ PhaseOf(doc, first(i)) \in 1..7
    BY <1>4, <1>5, <2>1
  <2> QED
    BY <1>7, <2>2, <2>3
<1>9. \A i, j \in 1..n : i <= j => FirstPhase(doc, layers, i) <= FirstPhase(doc, layers, j)
  BY <1>3, <1>6, <1>7
<1> QED
  BY <1>2, <1>4, <1>5, <1>7, <1>8, <1>9

Waves(doc) ==
  {Apply(layer) : layer \in SUBSET DOMAIN doc.services} \cup {Gate(p) : p \in 1..7}

LEMMA PairOf ==
  ASSUME NEW S, NEW s, NEW t, NEW r, Joins(S, s, t, r), Len(s) = 1, Len(t) = 1
  PROVE  Len(r) = 2 /\ r[1] = s[1] /\ r[2] = t[1]
<1>1. /\ Len(r) = 1 + 1
      /\ \A y \in 1..1 : r[y] = s[y]
      /\ \A x \in 1..1 : r[1 + x] = t[x]
  BY DEF Joins
<1> QED
  BY <1>1

LEMMA Pieces ==
  ASSUME NEW doc, NEW layers, NEW i,
         layers[i] \in SUBSET DOMAIN doc.services, FirstPhase(doc, layers, i) \in 1..7
  PROVE  /\ Piece(doc, layers, i) \in Seq(Waves(doc))
         /\ Piece(doc, layers, i)[1] = Apply(layers[i])
         /\ IF LastOf(doc, layers, i)
            THEN /\ Len(Piece(doc, layers, i)) = 2
                 /\ Piece(doc, layers, i)[2] = Gate(FirstPhase(doc, layers, i))
            ELSE Len(Piece(doc, layers, i)) = 1
<1> DEFINE a == Apply(layers[i])
           g == Gate(FirstPhase(doc, layers, i))
<1>1. a \in Waves(doc) /\ g \in Waves(doc)
  BY DEF Waves
<1>2. Piece(doc, layers, i) = IF LastOf(doc, layers, i) THEN <<a>> \o <<g>> ELSE <<a>> \o <<>>
  BY DEF Piece
<1> HIDE DEF a, g
<1>3. <<a>> \in Seq(Waves(doc)) /\ <<g>> \in Seq(Waves(doc))
  BY <1>1
<1>4. <<a>>[1] = a /\ <<g>>[1] = g /\ Len(<<a>>) = 1 /\ Len(<<g>>) = 1
  OBVIOUS
<1>5. <<a>> \o <<>> = <<a>>
  BY <1>3, ConcatEmptySeq
<1>6. Joins(Waves(doc), <<a>>, <<g>>, <<a>> \o <<g>>)
  BY <1>3, Joined, Zenon
<1>7. CASE LastOf(doc, layers, i)
  <2> DEFINE both == Piece(doc, layers, i)
  <2>1. Joins(Waves(doc), <<a>>, <<g>>, both)
    BY <1>2, <1>6, <1>7
  <2> HIDE DEF both
  <2>2. Len(both) = 2 /\ both[1] = <<a>>[1] /\ both[2] = <<g>>[1]
    BY <1>4, <2>1, PairOf
  <2>3. both \in Seq(Waves(doc))
    BY <2>1, Zenon DEF Joins
  <2> QED
    BY <1>4, <1>7, <2>2, <2>3 DEF both, a, g
<1>8. CASE ~ LastOf(doc, layers, i)
  <2>1. Piece(doc, layers, i) = <<a>>
    BY <1>2, <1>5, <1>8
  <2> QED
    BY <1>3, <1>4, <1>8, <2>1 DEF a
<1> QED
  BY <1>7, <1>8

(* Where the waves of a layer are in the plan. *)
WavesAt(doc, layers, plan, at) ==
  /\ at \in [1..Len(layers) -> Nat] /\ DOMAIN plan = 1..Len(plan)
  /\ \A i \in 1..Len(layers) :
       /\ at[i] + 1 \in DOMAIN plan /\ plan[at[i] + 1] = Apply(layers[i])
       /\ LastOf(doc, layers, i) => /\ at[i] + 2 \in DOMAIN plan
                                    /\ plan[at[i] + 2] = Gate(FirstPhase(doc, layers, i))
  /\ \A i, j \in 1..Len(layers) : i < j =>
       at[i] + 1 <= at[j] /\ (LastOf(doc, layers, i) => at[i] + 2 <= at[j])
  /\ \A y \in DOMAIN plan : \E i \in 1..Len(layers) :
       y = at[i] + 1 \/ (LastOf(doc, layers, i) /\ y = at[i] + 2)

LEMMA PlanWaves ==
  ASSUME NEW doc, Ordered(doc), Layered(doc, Layers(doc), {})
  PROVE  \E at : WavesAt(doc, Layers(doc), PlanOf(doc), at)
<1> DEFINE layers == Layers(doc)
           n == Len(layers)
           seqs == [i \in DOMAIN layers |-> Piece(doc, layers, i)]
           plan == PlanOf(doc)
           Ends(i) == LastOf(doc, layers, i)
<1>1. /\ DOMAIN layers = 1..n /\ n \in Nat
      /\ \A i \in 1..n : layers[i] \in SUBSET DOMAIN doc.services /\ FirstPhase(doc, layers, i) \in 1..7
  BY PhasesOfLayers
<1>2. plan = FlattenSeq(seqs)
  BY PlanIs
<1> HIDE DEF layers, plan
<1>3. \A i \in 1..n : /\ Piece(doc, layers, i) \in Seq(Waves(doc))
                      /\ Piece(doc, layers, i)[1] = Apply(layers[i])
                      /\ IF Ends(i)
                         THEN /\ Len(Piece(doc, layers, i)) = 2
                              /\ Piece(doc, layers, i)[2] = Gate(FirstPhase(doc, layers, i))
                         ELSE Len(Piece(doc, layers, i)) = 1
  BY <1>1, Pieces
<1>4. /\ \A i \in 1..n : /\ seqs[i] \in Seq(Waves(doc)) /\ seqs[i][1] = Apply(layers[i])
                         /\ Ends(i) => /\ Len(seqs[i]) = 2
                                       /\ seqs[i][2] = Gate(FirstPhase(doc, layers, i))
                         /\ ~ Ends(i) => Len(seqs[i]) = 1
      /\ seqs = [i \in 1..n |-> seqs[i]]
  BY <1>1, <1>3
<1> HIDE DEF seqs, Ends, n
<1>5. seqs \in Seq(Seq(Waves(doc))) /\ Len(seqs) = n
  BY <1>1, <1>4, IsASeq
<1>6. PICK at \in [1..n -> Nat] : FoundAt(seqs, at, plan)
  BY <1>2, <1>5, Flattened
<1>a. /\ \A i, j \in 1..n : i < j => at[i] + Len(seqs[i]) <= at[j]
      /\ \A i \in 1..n : \A x \in 1..Len(seqs[i]) :
           at[i] + x \in 1..Len(plan) /\ plan[at[i] + x] = seqs[i][x]
      /\ \A y \in 1..Len(plan) : \E i \in 1..n : \E x \in 1..Len(seqs[i]) : y = at[i] + x
  BY <1>5, <1>6 DEF FoundAt
<1>7. DOMAIN plan = 1..Len(plan)
  <2>1. plan \in Seq(Waves(doc))
    BY <1>2, <1>5, Flattened
  <2> QED
    BY <2>1, LenProperties
<1>8. ASSUME NEW i \in 1..n
      PROVE  /\ at[i] + 1 \in DOMAIN plan /\ plan[at[i] + 1] = Apply(layers[i])
             /\ Ends(i) => /\ at[i] + 2 \in DOMAIN plan
                           /\ plan[at[i] + 2] = Gate(FirstPhase(doc, layers, i))
  <2>1. 1 \in 1..Len(seqs[i]) /\ (Ends(i) => 2 \in 1..Len(seqs[i]))
    BY <1>4
  <2>2. at[i] + 1 \in DOMAIN plan /\ plan[at[i] + 1] = seqs[i][1]
    BY <1>7, <1>a, <2>1
  <2>3. Ends(i) => at[i] + 2 \in DOMAIN plan /\ plan[at[i] + 2] = seqs[i][2]
    BY <1>7, <1>a, <2>1
  <2> QED
    BY <1>4, <2>2, <2>3
<1>9. ASSUME NEW i \in 1..n, NEW j \in 1..n, i < j
      PROVE  at[i] + 1 <= at[j] /\ (Ends(i) => at[i] + 2 <= at[j])
  <2>1. at[i] + Len(seqs[i]) <= at[j] /\ at[i] \in Nat /\ at[j] \in Nat
    BY <1>a, <1>9
  <2>2. CASE Ends(i)
    <3>1. at[i] + 2 <= at[j]
      BY <1>4, <2>1, <2>2
    <3>2. at[i] + 1 <= at[j]
      BY <2>1, <3>1
    <3> QED
      BY <3>1, <3>2
  <2>3. CASE ~ Ends(i)
    <3>1. at[i] + 1 <= at[j]
      BY <1>4, <2>1, <2>3
    <3> QED
      BY <2>3, <3>1
  <2> QED
    BY <2>2, <2>3
<1>10. ASSUME NEW y \in DOMAIN plan
       PROVE  \E i \in 1..n : y = at[i] + 1 \/ (Ends(i) /\ y = at[i] + 2)
  <2>1. PICK i \in 1..n : \E x \in 1..Len(seqs[i]) : y = at[i] + x
    BY <1>a, <1>7, <1>10
  <2>2. PICK x \in 1..Len(seqs[i]) : y = at[i] + x
    BY <2>1
  <2>3. x = 1 \/ (Ends(i) /\ x = 2)
    <3>1. CASE Ends(i)
      <4>1. Len(seqs[i]) = 2
        BY <1>4, <3>1
      <4> QED
        BY <2>2, <3>1, <4>1
    <3>2. CASE ~ Ends(i)
      <4>1. Len(seqs[i]) = 1
        BY <1>4, <3>2
      <4> QED
        BY <2>2, <4>1
    <3> QED
      BY <3>1, <3>2
  <2> QED
    BY <2>2, <2>3
<1>11. /\ at \in [1..n -> Nat] /\ DOMAIN plan = 1..Len(plan)
       /\ \A i \in 1..n :
            /\ at[i] + 1 \in DOMAIN plan /\ plan[at[i] + 1] = Apply(layers[i])
            /\ Ends(i) => /\ at[i] + 2 \in DOMAIN plan
                          /\ plan[at[i] + 2] = Gate(FirstPhase(doc, layers, i))
       /\ \A i, j \in 1..n : i < j =>
            at[i] + 1 <= at[j] /\ (Ends(i) => at[i] + 2 <= at[j])
       /\ \A y \in DOMAIN plan : \E i \in 1..n :
            y = at[i] + 1 \/ (Ends(i) /\ y = at[i] + 2)
  BY <1>6, <1>7, <1>8, <1>9, <1>10
<1> QED
  BY <1>11 DEF WavesAt, layers, plan, n, Ends

(* The last layer of a phase. *)
LEMMA LastExists ==
  ASSUME NEW doc, NEW layers, DOMAIN layers = 1..Len(layers), Len(layers) \in Nat,
         NEW i \in 1..Len(layers)
  PROVE  \E k \in 1..Len(layers) :
           LastOf(doc, layers, k) /\ FirstPhase(doc, layers, k) = FirstPhase(doc, layers, i)
<1> DEFINE n == Len(layers)
           same(k) == FirstPhase(doc, layers, k) = FirstPhase(doc, layers, i)
           behind == {m \in Nat : n - m \in 1..n /\ same(n - m)}
<1> HIDE DEF same
<1>1. same(i) /\ i \in 1..n /\ n \in Nat
  BY DEF same
<1>2. n - i \in Nat /\ n - (n - i) = i
  BY <1>1
<1>3. behind \in SUBSET Nat /\ n - i \in behind
  BY <1>1, <1>2
<1>4. PICK m \in behind : \A l \in behind : m <= l
  <2> HIDE DEF behind
  <2> QED
    BY <1>3, Least
<1>5. m \in Nat /\ n - m \in 1..n /\ same(n - m)
  BY <1>4
<1>6. ASSUME NEW j \in 1..n, j > n - m PROVE ~ same(j)
  <2>1. n - j \in Nat /\ n - (n - j) = j /\ ~ (m <= n - j)
    BY <1>5, <1>6
  <2>2. n - j \notin behind
    BY <1>4, <2>1
  <2> QED
    BY <2>1, <2>2
<1>7. LastOf(doc, layers, n - m)
  BY <1>5, <1>6 DEF LastOf, same
<1> QED
  BY <1>5, <1>7 DEF same

(* The layers take up every service: there is no cycle to refuse. *)
LEMMA PlannableIs ==
  ASSUME NEW doc, Ordered(doc)
  PROVE  Plannable(doc) <=> GroupsHold(doc)
<1> DEFINE layers == Layers(doc)
<1>1. Layered(doc, layers, {})
  BY LayersLayered
<1>2. DOMAIN layers = 1..Len(layers) /\ \A i \in 1..Len(layers) : layers[i] \in SUBSET DOMAIN doc.services
  BY <1>1, PhasesOfLayers
<1>3. \A s \in DOMAIN doc.services : \E i \in 1..Len(layers) : s \in layers[i]
  BY <1>1 DEF Layered, Complete
<1> HIDE DEF layers
<1>4. UNION Range(layers) = DOMAIN doc.services
  BY <1>2, <1>3 DEF Range
<1> QED
  BY <1>4 DEF Plannable, layers

(* The waves of a layer come before those of the next, and the gate of a   *)
(* phase after the last layer of it.                                       *)
LEMMA InOrderIs ==
  ASSUME NEW doc, Ordered(doc)
  PROVE  InOrder(doc)
<1> DEFINE layers == Layers(doc)
           n == Len(layers)
           plan == PlanOf(doc)
           phase(i) == FirstPhase(doc, layers, i)
           Ends(i) == LastOf(doc, layers, i)
           position(s) == CHOOSE i \in DOMAIN plan : s \in plan[i].services
           gates(p) == {i \in DOMAIN plan : plan[i] = Gate(p)}
<1>1. Layered(doc, layers, {})
  BY LayersLayered
<1>2. PICK at : WavesAt(doc, layers, plan, at)
  BY <1>1, PlanWaves
<1>3. /\ DOMAIN layers = 1..n /\ n \in Nat
      /\ \A i \in 1..n : phase(i) \in 1..7 /\ \A s \in layers[i] : PhaseOf(doc, s) = phase(i)
      /\ \A i, j \in 1..n : i <= j => phase(i) <= phase(j)
  BY <1>1, PhasesOfLayers
<1>4. \A i \in 1..n : \E k \in 1..n : Ends(k) /\ phase(k) = phase(i)
  BY <1>3, LastExists
<1>5. \A i, j \in 1..n : Ends(i) /\ j > i => phase(j) # phase(i)
  BY <1>3 DEF LastOf
<1>6. /\ \A s \in DOMAIN doc.services : \E i \in 1..n : s \in layers[i]
      /\ \A i, j \in 1..n : i < j => layers[i] \cap layers[j] = {}
      /\ \A i \in 1..n : \A s \in layers[i] : \A t \in ProvidersOf(doc, s) :
           \E j \in 1..n : j < i /\ t \in layers[j]
  BY <1>1 DEF Layered, Complete, Disjoint, Provided
<1>7. /\ \A i \in 1..n : at[i] \in Nat
      /\ \A i \in 1..n : at[i] + 1 \in DOMAIN plan /\ plan[at[i] + 1] = Apply(layers[i])
      /\ \A i \in 1..n : Ends(i) => at[i] + 2 \in DOMAIN plan /\ plan[at[i] + 2] = Gate(phase(i))
      /\ \A i, j \in 1..n : i < j => at[i] + 1 <= at[j]
      /\ \A i, j \in 1..n : i < j => (Ends(i) => at[i] + 2 <= at[j])
      /\ \A y \in DOMAIN plan : \E i \in 1..n :
           y = at[i] + 1 \/ (Ends(i) /\ y = at[i] + 2)
  BY <1>2 DEF WavesAt
<1>8. \A i \in 1..n : /\ Apply(layers[i]).services = layers[i] /\ Gate(phase(i)).services = {}
                      /\ \A p : Apply(layers[i]) # Gate(p) /\ (Gate(phase(i)) = Gate(p) => phase(i) = p)
  BY DEF Apply, Gate
<1> HIDE DEF layers, n, plan, phase, Ends
<1>9. ASSUME NEW i \in 1..n, NEW s \in layers[i]
      PROVE  position(s) = at[i] + 1
  <2>1. at[i] + 1 \in DOMAIN plan /\ s \in plan[at[i] + 1].services
    BY <1>7, <1>8, <1>9
  <2>2. ASSUME NEW y \in DOMAIN plan, s \in plan[y].services PROVE y = at[i] + 1
    <3>1. PICK j \in 1..n : y = at[j] + 1 \/ (Ends(j) /\ y = at[j] + 2)
      BY <1>7
    <3>2. y = at[j] + 1
      BY <1>7, <1>8, <2>2, <3>1
    <3>3. s \in layers[j]
      BY <1>7, <1>8, <2>2, <3>2
    <3>4. i = j
      <4>1. ~ (i < j) /\ ~ (j < i)
        BY <1>6, <1>9, <3>3
      <4> QED
        BY <1>3, <4>1
    <3> QED
      BY <3>2, <3>4
  <2> QED
    BY <2>1, <2>2
<1>10. ASSUME NEW p \in 1..7, NEW y \in gates(p)
       PROVE  \E k \in 1..n : Ends(k) /\ phase(k) = p /\ y = at[k] + 2
  <2>1. y \in DOMAIN plan /\ plan[y] = Gate(p)
    BY <1>10
  <2>2. PICK k \in 1..n : y = at[k] + 1 \/ (Ends(k) /\ y = at[k] + 2)
    BY <1>7, <2>1
  <2>3. Ends(k) /\ y = at[k] + 2
    BY <1>7, <1>8, <2>1, <2>2
  <2>4. phase(k) = p
    BY <1>7, <1>8, <2>1, <2>3
  <2> QED
    BY <2>3, <2>4
<1>11. ASSUME NEW k \in 1..n, Ends(k) PROVE at[k] + 2 \in gates(phase(k))
  BY <1>7, <1>11
<1> HIDE DEF position, gates
<1>12. ASSUME NEW s \in DOMAIN doc.services, NEW t \in ProvidersOf(doc, s)
       PROVE  position(t) < position(s)
  <2>1. PICK i \in 1..n : s \in layers[i]
    BY <1>6
  <2>2. PICK j \in 1..n : j < i /\ t \in layers[j]
    BY <1>6, <1>12, <2>1
  <2>3. position(s) = at[i] + 1 /\ position(t) = at[j] + 1
    BY <1>9, <2>1, <2>2
  <2>4. at[j] + 1 <= at[i] /\ at[i] \in Nat /\ at[j] \in Nat
    BY <1>7, <2>2
  <2> QED
    BY <2>3, <2>4
<1>13. ASSUME NEW s \in DOMAIN doc.services PROVE Cardinality(gates(PhaseOf(doc, s))) = 1
  <2>1. PICK i \in 1..n : s \in layers[i]
    BY <1>6
  <2>2. PhaseOf(doc, s) = phase(i) /\ phase(i) \in 1..7
    BY <1>3, <2>1
  <2>3. PICK k \in 1..n : Ends(k) /\ phase(k) = phase(i)
    BY <1>4
  <2>4. at[k] + 2 \in gates(phase(i))
    BY <1>11, <2>3
  <2>5. ASSUME NEW y \in gates(phase(i)) PROVE y = at[k] + 2
    <3>1. PICK m \in 1..n : Ends(m) /\ phase(m) = phase(i) /\ y = at[m] + 2
      BY <1>10, <2>2
    <3>2. ~ (m > k) /\ ~ (k > m)
      BY <1>5, <2>3, <3>1
    <3>3. m = k
      BY <1>3, <3>2
    <3> QED
      BY <3>1, <3>3
  <2>6. gates(PhaseOf(doc, s)) = {at[k] + 2}
    BY <2>2, <2>4, <2>5
  <2> QED
    BY <2>6, FS_Singleton
<1>14. ASSUME NEW s \in DOMAIN doc.services, NEW p \in 1..7, NEW y \in gates(p)
       PROVE  (position(s) < y) <=> (PhaseOf(doc, s) <= p)
  <2>1. PICK i \in 1..n : s \in layers[i]
    BY <1>6
  <2>2. PhaseOf(doc, s) = phase(i) /\ position(s) = at[i] + 1
    BY <1>3, <1>9, <2>1
  <2>3. PICK k \in 1..n : Ends(k) /\ phase(k) = p /\ y = at[k] + 2
    BY <1>10
  <2>4. at[i] \in Nat /\ at[k] \in Nat /\ phase(i) \in 1..7 /\ phase(k) \in 1..7
    BY <1>3, <1>7
  <2>5. CASE i <= k
    <3>1. phase(i) <= phase(k)
      BY <1>3, <2>5
    <3>2. i = k \/ at[i] + 1 <= at[k]
      <4>1. i = k \/ i < k
        BY <1>3, <2>5
      <4> QED
        BY <1>7, <4>1
    <3>3. at[i] + 1 < at[k] + 2
      BY <2>4, <3>2
    <3> QED
      BY <2>2, <2>3, <3>1, <3>3
  <2>6. CASE k < i
    <3>1. phase(k) <= phase(i) /\ phase(i) # phase(k)
      BY <1>3, <1>5, <2>3, <2>6
    <3>2. at[k] + 2 <= at[i]
      BY <1>7, <2>3, <2>6
    <3>3. ~ (phase(i) <= phase(k)) /\ ~ (at[i] + 1 < at[k] + 2)
      BY <2>4, <3>1, <3>2
    <3> QED
      BY <2>2, <2>3, <3>3
  <2> QED
    BY <1>3, <2>5, <2>6
<1>15. DOMAIN Phases = 1..7
  BY DEF Phases
<1> QED
  BY <1>12, <1>13, <1>14, <1>15 DEF InOrder, position, gates, plan

(* What inventory.py has checked can be deployed: build_plan then refuses  *)
(* a document for its groups alone and never for a cycle, and the plan     *)
(* applies providers first and gates each phase once and in its place.     *)
THEOREM ValidPlanned ==
  ASSUME NEW doc, Valid(doc)
  PROVE  (Plannable(doc) <=> GroupsHold(doc)) /\ InOrder(doc)
BY ValidOrdered, PlannableIs, InOrderIs

(* What Deployment.tla assumes of its inventories (InventoryAssumption)    *)
(* holds of the documents that inventory.py accepts: whatever takes the    *)
(* contracts from the handoff is deployed beside the job that publishes    *)
(* them, and the job's phase is an earlier one.                            *)
THEOREM ContractsFirst ==
  ASSUME NEW doc, Valid(doc), NEW s \in DOMAIN doc.services,
         doc.services[s].type \in DOMAIN Contract,
         "contracts" \in DOMAIN Contract[doc.services[s].type]
  PROVE  \E t \in ProvidersOf(doc, s) :
           /\ t \in DOMAIN doc.services /\ doc.services[t].type = "contracts-deploy"
           /\ PhaseOf(doc, t) < PhaseOf(doc, s)
<1> DEFINE type(x) == doc.services[x].type
           links == doc.services[s].connections
<1>1. type(s) \notin {"store-api", "edge-proxy"}
  BY DEF Contract, ChainTypes, StorageTypes
<1>2. ValidContract(doc, s) /\ ProvidersOf(doc, s) \subseteq DOMAIN doc.services
  BY <1>1 DEF Valid, ValidConnections
<1>3. type(s) \in {"minter-api", "minter-worker", "admin-api", "resolver-api"}
  <2>1. type(s) \notin {"minter-api", "minter-worker", "admin-api", "resolver-api"} =>
          Contract[type(s)] \in {[rpc |-> "besu-rpc"], [database |-> "minter-postgres"], Empty,
            Migrating, Migrating ++ [migration |-> "dashboard-migrate"], [kubo |-> "ipfs-kubo"]}
    BY DEF Contract, ChainTypes, StorageTypes
  <2>2. "contracts" \notin DOMAIN Migrating
    BY DEF Migrating
  <2>3. "contracts" \notin DOMAIN (Migrating ++ [migration |-> "dashboard-migrate"])
    BY <2>2 DEF ++
  <2> QED
    BY <2>1, <2>2, <2>3 DEF Empty
<1>4. Contract[type(s)]["contracts"] = "contracts-deploy"
  BY <1>3 DEF Contract, Minting, ChainTypes, StorageTypes
<1> DEFINE t == links["contracts"].service
<1>5. "contracts" \in DOMAIN links /\ type(t) = "contracts-deploy"
  BY <1>2, <1>4 DEF ValidContract
<1>6. t \in ProvidersOf(doc, s)
  BY <1>5 DEF ProvidersOf, Range
<1>7. type(s) \in ServiceTypes /\ type(t) \in ServiceTypes
  BY <1>3, <1>5, Types
<1>8. PhaseOf(doc, t) = Phased["contracts-deploy"] /\ PhaseOf(doc, s) = Phased[type(s)]
  BY <1>5, <1>7, PhaseIs
<1>9. Phased["contracts-deploy"] = 4 /\ Phased[type(s)] = 7
  BY <1>3, Types DEF Phased, StorageTypes
<1> QED
  BY <1>2, <1>5, <1>6, <1>8, <1>9
=============================================================================
