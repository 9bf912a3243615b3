---------------------------- MODULE DraftsProofs ----------------------------
(***************************************************************************)
(* Drafts.tla for any inventories, files, requests and editors: what the   *)
(* session holds resolves however its requests overlap, a save touches no  *)
(* file that is there, and an editor has backed up what it replaces unless *)
(* another has replaced it meanwhile, or named its backup as it does.      *)
(***************************************************************************)
EXTENDS Drafts, TLAPS, SequenceTheorems

Place == {"idle"} \cup OnLoop \cup InPool

RequestState == [at : Place, doc : Doc \cup {NoDoc}, was : Doc \cup {NoDoc}, path : Path]
EditorState == [at : {"closed", "edit", "read", "cut", "fill", "replace"}, raw : Doc \cup {NoDoc},
                original : Doc \cup {NoDoc}, path : Path, stamp : 1..MaxSecond,
                read : Doc \cup {NoDoc}, alone : BOOLEAN]

(* The variables' types. *)
TypeOK ==
  /\ request \in [Request -> RequestState]
  /\ files \in [Path -> [doc : Doc \cup {NoDoc, Half},
                         by : {"nobody", "operator", "web", "editor"} \cup Request]]
  /\ backup \in [Path -> [1..MaxSecond -> Doc \cup {NoDoc, Half}]] /\ second \in 1..MaxSecond
  /\ editor \in [Editor -> EditorState]

(* An open session resolves, what a request is about to store in it does,  *)
(* and so do the copies, those of the bytes aside.  Before, nothing has    *)
(* been asked of it.                                                       *)
Stores == {"copy", "push", "commit", "show", "assign", "restore", "redraw"}
Copies == {"create", "write"}
SessionResolves ==
  /\ original \in Resolving /\ raw \in Resolving /\ resolution \in Resolving
  /\ original_bytes \in Doc /\ undo_stack \in Seq(Resolving)
Ready(q) ==
  /\ q.at \in Stores => q.doc \in Resolving
  /\ q.at = "push" => q.was \in Resolving
  /\ q.at \in Copies => q.doc \in Resolving \cup {original_bytes}
  /\ q.at \in {"assign", "changed", "dump"} \cup Copies => q.path # Source
Gated ==
  /\ Opened => SessionResolves
  /\ ~ Opened => /\ original \in Doc \cup {NoDoc} /\ raw = original /\ undo_stack = <<>>
                 /\ \A r \in Request : At(r, "idle")
                 /\ \A p \in Path : files[p].by # "web"
  /\ \A r \in Request : Ready(request[r])
  /\ \A p \in Path : files[p].by = "web" => files[p].doc \in Resolving \cup {original_bytes}

(* The event loop is at one operation or save at a time. *)
OneOnLoop ==
  \A r, s \in Request : {request[r].at, request[s].at} \subseteq OnLoop => r = s

(* A file is half written only by the save that made it. *)
Writing ==
  \A r \in Request : At(r, "write") => files[request[r].path] = [doc |-> Half, by |-> r]

(* The session and the editors are open on whole files, and edit inventories. *)
Open ==
  /\ files[Source].doc \in Doc
  /\ \A e \in Editor : editor[e].at # "closed" =>
       files[editor[e].path].doc \in Doc /\ editor[e].raw \in Doc

(* What an editor that is alone has read is what the file holds, and its   *)
(* backup is what it has made it so far.                                   *)
Keeping(x) ==
  x.alone =>
    /\ x.at \in {"cut", "fill", "replace"} => files[x.path].doc = x.read
    /\ x.at = "fill" => backup[x.path][x.stamp] = Half
    /\ x.at = "replace" => backup[x.path][x.stamp] = x.read
Kept == \A e \in Editor : Keeping(editor[e])

Inv == TypeOK /\ Gated /\ OneOnLoop /\ Writing /\ Open /\ Kept

-----------------------------------------------------------------------------
LEMMA InitInv == Init => Inv
<1> SUFFICES ASSUME Init PROVE Inv
  OBVIOUS
<1>1. TypeOK
  BY DocsAssumption DEF Init, TypeOK, RequestState, EditorState, Idle, Closed, NoFile, Place
<1>2. Gated
  BY DocsAssumption DEF Init, Gated, Opened, Ready, Idle, NoFile, Stores, Copies, At
<1>3. OneOnLoop /\ Writing /\ Kept
  BY DEF Init, OneOnLoop, OnLoop, Writing, Kept, Keeping, At, Idle, Closed
<1>4. Open
  BY DocsAssumption DEF Init, Open, Closed
<1> QED
  BY <1>1, <1>2, <1>3, <1>4 DEF Inv

(* What undo takes from its stack, and what it leaves. *)
LEMMA Popped ==
  ASSUME NEW S, NEW stack \in Seq(S), stack # <<>>
  PROVE  Front(stack) \in Seq(S) /\ Last(stack) \in S
<1>1. Len(stack) \in Nat \ {0} /\ Len(stack) \in 1..Len(stack)
  BY EmptySeq
<1>2. Last(stack) \in S
  BY <1>1, ElementOfSeq DEF Last
<1>3. Front(stack) \in Seq(S)
  BY <1>1, SubSeqProperties DEF Front
<1> QED
  BY <1>2, <1>3

(* A step of a request that touches no file. *)
Held(r, q) == q.at \in OnLoop => request[r].at \in OnLoop \/ LoopFree
LEMMA Looped ==
  ASSUME Inv, NEW r \in Request, NEW q, request' = [request EXCEPT ![r] = q], Held(r, q)
  PROVE  OneOnLoop'
<1> SUFFICES ASSUME NEW x \in Request, NEW y \in Request, x # y,
                    request'[x].at \in OnLoop, request'[y].at \in OnLoop
             PROVE  FALSE
  BY DEF OneOnLoop
<1>1. request'[r] = q /\ \A z \in Request \ {r} : request'[z] = request[z]
  BY DEF Inv, TypeOK
<1>2. CASE x # r /\ y # r
  BY <1>1, <1>2 DEF Inv, OneOnLoop
<1>3. CASE x = r \/ y = r
  BY <1>1, <1>3 DEF Held, LoopFree, Inv, OneOnLoop
<1> QED
  BY <1>2, <1>3

LEMMA InMemory ==
  ASSUME Inv, NEW r \in Request, NEW q \in RequestState, To(r, q), Ready(q), q.at # "write",
         Held(r, q), UNCHANGED Disk, SessionResolves', UNCHANGED original_bytes
  PROVE  Inv'
<1>1. /\ request' = [request EXCEPT ![r] = q]
      /\ files' = files /\ backup' = backup /\ second' = second /\ editor' = editor
  BY DEF To, Disk
<1>2. TypeOK'
  BY <1>1 DEF Inv, TypeOK, RequestState
<1>3. Gated'
  <2>1. Opened'
    BY DocsAssumption DEF SessionResolves, Opened
  <2>2. \A x \in Request : Ready(request[x])' /\ request'[x] \in {q, request[x]}
    BY <1>1 DEF Inv, TypeOK, Gated, Ready
  <2>3. \A p \in Path : files'[p].by = "web" => files'[p].doc \in Resolving \cup {original_bytes'}
    BY <1>1 DEF Inv, Gated
  <2> QED
    BY <2>1, <2>2, <2>3 DEF Gated
<1>4. Writing'
  BY <1>1 DEF Inv, TypeOK, Writing, At
<1>5. Open' /\ Kept'
  BY <1>1 DEF Inv, Open, Kept, Keeping
<1>6. OneOnLoop'
  BY <1>1, Looped
<1> QED
  BY <1>2, <1>3, <1>4, <1>5, <1>6 DEF Inv

(* Only an open session is asked for anything. *)
LEMMA AtWork ==
  ASSUME Inv, NEW r \in Request, Operation(r) \/ Unwind(r) \/ Copy(r)
  PROVE  Opened /\ SessionResolves
<1>1. Opened \/ ~ At(r, "idle")
  BY DEF Operation, Unwind, Copy, Operate, Remember, Push, Commit, Show, Undo, Pop, PopNothing, Reset, Restore,
         ResolveAgain, Redraw, Save, SaveResolved, SaveChanged, Dump, Create, Write, Begin, At
<1> QED
  BY <1>1 DEF Inv, Gated

LEMMA MemoryInv ==
  ASSUME Inv, NEW r \in Request, Operation(r) \/ Unwind(r) \/ Save(r) \/ SaveResolved(r)
                                  \/ SaveChanged(r) \/ Dump(r)
  PROVE  Inv'
<1> USE DocsAssumption DEF Place, Stores, Copies, OnLoop, InPool, Ready, Held, RequestState
<1>0. /\ SessionResolves /\ request[r] \in RequestState /\ Ready(request[r]) /\ Idle \in RequestState
      /\ Idle.at = "idle" /\ raw \in Doc /\ original \in Doc
  BY AtWork DEF Copy, Inv, TypeOK, Gated, SessionResolves, Idle
<1>2. CASE Remember(r)
  <2> DEFINE q == [request[r] EXCEPT !.at = "push", !.was = raw]
  <2>1. To(r, q) /\ UNCHANGED <<Disk, original_bytes>>
    BY <1>2 DEF Remember, Begin, Goes, Answer, session
  <2>2. SessionResolves'
    BY <1>2, <1>0 DEF Remember, session, SessionResolves, At
  <2>3. q \in RequestState /\ Ready(q) /\ Held(r, q) /\ q.at # "write"
    BY <1>2, <1>0 DEF Remember, SessionResolves, At, Idle
  <2> QED
    BY <2>1, <2>2, <2>3, InMemory
<1>3. CASE Push(r)
  <2> DEFINE q == [request[r] EXCEPT !.at = "commit", !.doc = request[r].doc]
  <2>1. To(r, q) /\ UNCHANGED <<Disk, original_bytes>>
    BY <1>3 DEF Push, Begin, Goes, Answer, session
  <2>2. SessionResolves'
    BY <1>3, <1>0 DEF Push, session, SessionResolves, At
  <2>3. q \in RequestState /\ Ready(q) /\ Held(r, q) /\ q.at # "write"
    BY <1>3, <1>0 DEF Push, SessionResolves, At, Idle
  <2> QED
    BY <2>1, <2>2, <2>3, InMemory
<1>4. CASE Commit(r)
  <2> DEFINE q == [request[r] EXCEPT !.at = "show", !.doc = request[r].doc]
  <2>1. To(r, q) /\ UNCHANGED <<Disk, original_bytes>>
    BY <1>4 DEF Commit, Begin, Goes, Answer, session
  <2>2. SessionResolves'
    BY <1>4, <1>0 DEF Commit, session, SessionResolves, At
  <2>3. q \in RequestState /\ Ready(q) /\ Held(r, q) /\ q.at # "write"
    BY <1>4, <1>0 DEF Commit, SessionResolves, At, Idle
  <2> QED
    BY <2>1, <2>2, <2>3, InMemory
<1>5. CASE Show(r)
  <2> DEFINE q == Idle
  <2>1. To(r, q) /\ UNCHANGED <<Disk, original_bytes>>
    BY <1>5 DEF Show, Begin, Goes, Answer, session
  <2>2. SessionResolves'
    BY <1>5, <1>0 DEF Show, session, SessionResolves, At
  <2>3. q \in RequestState /\ Ready(q) /\ Held(r, q) /\ q.at # "write"
    BY <1>5, <1>0 DEF Show, SessionResolves, At, Idle
  <2> QED
    BY <2>1, <2>2, <2>3, InMemory
<1>6. CASE Undo(r)
  <2> DEFINE q == [Idle EXCEPT !.at = "pop"]
  <2>1. To(r, q) /\ UNCHANGED <<Disk, original_bytes>>
    BY <1>6 DEF Undo, Begin, Goes, Answer, session
  <2>2. SessionResolves'
    BY <1>6, <1>0 DEF Undo, session, SessionResolves, At
  <2>3. q \in RequestState /\ Ready(q) /\ Held(r, q) /\ q.at # "write"
    BY <1>6, <1>0 DEF Undo, SessionResolves, At, Idle
  <2> QED
    BY <2>1, <2>2, <2>3, InMemory
<1>7. CASE Pop(r)
  <2> DEFINE q == [request[r] EXCEPT !.at = "restore", !.doc = Last(undo_stack)]
  <2>1. To(r, q) /\ UNCHANGED <<Disk, original_bytes>>
    BY <1>7 DEF Pop, Goes, session
  <2>2. Front(undo_stack) \in Seq(Resolving) /\ Last(undo_stack) \in Resolving
    BY <1>7, <1>0, Popped DEF Pop, SessionResolves
  <2>3. SessionResolves'
    BY <1>7, <1>0, <2>2 DEF Pop, SessionResolves
  <2>4. q \in RequestState /\ Ready(q) /\ Held(r, q) /\ q.at # "write"
    BY <1>0, <2>2
  <2> QED
    BY <2>1, <2>3, <2>4, InMemory
<1>8. CASE PopNothing(r)
  <2> DEFINE q == Idle
  <2>1. To(r, q) /\ UNCHANGED <<Disk, original_bytes>>
    BY <1>8 DEF PopNothing, Begin, Goes, Answer, session
  <2>2. SessionResolves'
    BY <1>8, <1>0 DEF PopNothing, session, SessionResolves, At
  <2>3. q \in RequestState /\ Ready(q) /\ Held(r, q) /\ q.at # "write"
    BY <1>8, <1>0 DEF PopNothing, SessionResolves, At, Idle
  <2> QED
    BY <2>1, <2>2, <2>3, InMemory
<1>9. CASE Reset(r)
  <2> DEFINE q == [Idle EXCEPT !.at = "restore", !.doc = original]
  <2>1. To(r, q) /\ UNCHANGED <<Disk, original_bytes>>
    BY <1>9 DEF Reset, Begin, Goes, Answer, session
  <2>2. SessionResolves'
    BY <1>9, <1>0 DEF Reset, session, SessionResolves, At
  <2>3. q \in RequestState /\ Ready(q) /\ Held(r, q) /\ q.at # "write"
    BY <1>9, <1>0 DEF Reset, SessionResolves, At, Idle
  <2> QED
    BY <2>1, <2>2, <2>3, InMemory
<1>10. CASE Restore(r)
  <2> DEFINE q == [request[r] EXCEPT !.at = "resolve", !.doc = NoDoc]
  <2>1. To(r, q) /\ UNCHANGED <<Disk, original_bytes>>
    BY <1>10 DEF Restore, Begin, Goes, Answer, session
  <2>2. SessionResolves'
    BY <1>10, <1>0 DEF Restore, session, SessionResolves, At
  <2>3. q \in RequestState /\ Ready(q) /\ Held(r, q) /\ q.at # "write"
    BY <1>10, <1>0 DEF Restore, SessionResolves, At, Idle
  <2> QED
    BY <2>1, <2>2, <2>3, InMemory
<1>11. CASE ResolveAgain(r)
  <2> DEFINE q == [request[r] EXCEPT !.at = "redraw", !.doc = raw]
  <2>1. To(r, q) /\ UNCHANGED <<Disk, original_bytes>>
    BY <1>11 DEF ResolveAgain, Begin, Goes, Answer, session
  <2>2. SessionResolves'
    BY <1>11, <1>0 DEF ResolveAgain, session, SessionResolves, At
  <2>3. q \in RequestState /\ Ready(q) /\ Held(r, q) /\ q.at # "write"
    BY <1>11, <1>0 DEF ResolveAgain, SessionResolves, At, Idle
  <2> QED
    BY <2>1, <2>2, <2>3, InMemory
<1>12. CASE Redraw(r)
  <2> DEFINE q == Idle
  <2>1. To(r, q) /\ UNCHANGED <<Disk, original_bytes>>
    BY <1>12 DEF Redraw, Begin, Goes, Answer, session
  <2>2. SessionResolves'
    BY <1>12, <1>0 DEF Redraw, session, SessionResolves, At
  <2>3. q \in RequestState /\ Ready(q) /\ Held(r, q) /\ q.at # "write"
    BY <1>12, <1>0 DEF Redraw, SessionResolves, At, Idle
  <2> QED
    BY <2>1, <2>2, <2>3, InMemory
<1>14. CASE SaveResolved(r)
  <2> DEFINE q == [request[r] EXCEPT !.at = "changed", !.doc = NoDoc]
  <2>1. To(r, q) /\ UNCHANGED <<Disk, original_bytes>>
    BY <1>14 DEF SaveResolved, Begin, Goes, Answer, session
  <2>2. SessionResolves'
    BY <1>14, <1>0 DEF SaveResolved, session, SessionResolves, At
  <2>3. q \in RequestState /\ Ready(q) /\ Held(r, q) /\ q.at # "write"
    BY <1>14, <1>0 DEF SaveResolved, SessionResolves, At, Idle
  <2> QED
    BY <2>1, <2>2, <2>3, InMemory
<1>16. CASE Dump(r)
  <2> DEFINE q == [request[r] EXCEPT !.at = "create", !.doc = raw]
  <2>1. To(r, q) /\ UNCHANGED <<Disk, original_bytes>>
    BY <1>16 DEF Dump, Begin, Goes, Answer, session
  <2>2. SessionResolves'
    BY <1>16, <1>0 DEF Dump, session, SessionResolves, At
  <2>3. q \in RequestState /\ Ready(q) /\ Held(r, q) /\ q.at # "write"
    BY <1>16, <1>0 DEF Dump, SessionResolves, At, Idle
  <2> QED
    BY <2>1, <2>2, <2>3, InMemory
<1>1. CASE Operate(r)
  <2>1. PICK d \in Resolving : Begin(r, [Idle EXCEPT !.at = "copy", !.doc = d])
    BY <1>1 DEF Operate
  <2> DEFINE q == [Idle EXCEPT !.at = "copy", !.doc = d]
  <2>2. q \in RequestState /\ Ready(q) /\ Held(r, q) /\ q.at # "write"
    BY <1>0, <1>1 DEF Operate, Idle
  <2>3. SessionResolves' /\ UNCHANGED <<Disk, original_bytes>>
    BY <1>1, <1>0 DEF Operate, session, SessionResolves
  <2> QED
    BY <2>1, <2>2, <2>3, InMemory DEF Begin
<1>13. CASE Save(r)
  <2>1. PICK p \in Path \ {Source} : Begin(r, [Idle EXCEPT !.at = "assign", !.doc = raw, !.path = p])
    BY <1>13 DEF Save
  <2> DEFINE q == [Idle EXCEPT !.at = "assign", !.doc = raw, !.path = p]
  <2>2. q \in RequestState /\ Ready(q) /\ Held(r, q) /\ q.at # "write"
    BY <1>0, <1>13 DEF Save, Idle, SessionResolves
  <2>3. SessionResolves' /\ UNCHANGED <<Disk, original_bytes>>
    BY <1>13, <1>0 DEF Save, session, SessionResolves
  <2> QED
    BY <2>1, <2>2, <2>3, InMemory DEF Begin
<1>15. CASE SaveChanged(r)
  <2>1. PICK q \in {[request[r] EXCEPT !.at = "create", !.doc = original_bytes],
                    [request[r] EXCEPT !.at = "dump", !.doc = NoDoc]} : To(r, q)
    BY <1>15 DEF SaveChanged, Goes
  <2>2. q \in RequestState /\ Ready(q) /\ Held(r, q) /\ q.at # "write"
    <3>1. CASE q = [request[r] EXCEPT !.at = "create", !.doc = original_bytes]
      BY <1>0, <1>15, <3>1 DEF SaveChanged, At, SessionResolves
    <3>2. CASE q = [request[r] EXCEPT !.at = "dump", !.doc = NoDoc]
      BY <1>0, <1>15, <3>2 DEF SaveChanged, At
    <3> QED
      BY <2>1, <3>1, <3>2
  <2>3. SessionResolves' /\ UNCHANGED <<Disk, original_bytes>>
    BY <1>15, <1>0 DEF SaveChanged, session, SessionResolves
  <2> QED
    BY <2>1, <2>2, <2>3, InMemory
<1> QED
  BY <1>1, <1>2, <1>3, <1>4, <1>5, <1>6, <1>7, <1>8, <1>9, <1>10, <1>11, <1>12, <1>13, <1>14, <1>15, <1>16 DEF Operation, Unwind

(* A copy is created where there is no file, or refused. *)
LEMMA CreateInv ==
  ASSUME Inv, NEW r \in Request, Create(r)
  PROVE  Inv'
<1> USE DocsAssumption
<1> DEFINE p == request[r].path
<1>1. /\ request[r] \in RequestState /\ At(r, "create") /\ Ready(request[r]) /\ p \in Path \ {Source}
      /\ request[r].doc \in Resolving \cup {original_bytes} /\ Opened /\ SessionResolves
      /\ UNCHANGED <<original, original_bytes, raw, undo_stack, resolution, backup, second, editor>>
  BY DEF Create, session, Inv, TypeOK, Gated, Ready, Copies, At, RequestState
<1>2. CASE /\ files[p] = NoFile /\ files' = [files EXCEPT ![p] = [doc |-> Half, by |-> r]]
           /\ Goes(r, "write", request[r].doc)
  <2>1. request' = [request EXCEPT ![r] = [@ EXCEPT !.at = "write", !.doc = request[r].doc]]
    BY <1>2 DEF Goes, To
  <2>2. TypeOK'
    BY <1>1, <1>2, <2>1 DEF Inv, TypeOK, RequestState, Place, OnLoop, SessionResolves
  <2>3. Gated'
    <3>1. Opened' /\ SessionResolves'
      BY <1>1 DEF Opened, SessionResolves
    <3>2. \A x \in Request : Ready(request[x])'
      BY <1>1, <2>1 DEF Inv, TypeOK, RequestState, Gated, Ready, Stores, Copies
    <3>3. \A f \in Path : files'[f].by = "web" => files'[f].doc \in Resolving \cup {original_bytes'}
      BY <1>1, <1>2 DEF Inv, TypeOK, Gated
    <3> QED
      BY <3>1, <3>2, <3>3 DEF Gated
  <2>4. Writing'
    BY <1>1, <1>2, <2>1 DEF Inv, TypeOK, RequestState, Writing, At, NoFile
  <2>5. files[p].doc \notin Doc /\ \A f \in Path : files[f].doc \in Doc => files'[f] = files[f]
    BY <1>1, <1>2 DEF Inv, TypeOK, NoFile
  <2>6. Open'
    BY <1>1, <2>5 DEF Inv, TypeOK, EditorState, Open
  <2>7. Kept'
    BY <1>1, <2>5 DEF Inv, TypeOK, EditorState, Open, Kept, Keeping
  <2>8. OneOnLoop'
    BY <1>1, <2>1, Looped DEF Held, At, OnLoop
  <2> QED
    BY <2>2, <2>3, <2>4, <2>6, <2>7, <2>8 DEF Inv
<1>3. CASE Answer(r) /\ UNCHANGED files
  <2>1. Idle \in RequestState /\ Ready(Idle) /\ Idle.at # "write" /\ Held(r, Idle)
    BY DEF Idle, RequestState, Place, Ready, Stores, Copies, Held, OnLoop
  <2>2. SessionResolves' /\ UNCHANGED <<Disk, original_bytes>>
    BY <1>1, <1>3 DEF Create, SessionResolves, Disk
  <2> QED
    BY <2>1, <2>2, <1>3, InMemory DEF Answer
<1> QED
  BY <1>2, <1>3 DEF Create

(* The save that made a file writes it, or leaves half of it. *)
LEMMA WriteInv ==
  ASSUME Inv, NEW r \in Request, Write(r)
  PROVE  Inv'
<1> USE DocsAssumption
<1> DEFINE p == request[r].path
<1>1. /\ request[r] \in RequestState /\ At(r, "write") /\ p \in Path \ {Source}
      /\ request[r].doc \in Resolving \cup {original_bytes} /\ Opened /\ SessionResolves
      /\ UNCHANGED <<original, original_bytes, raw, undo_stack, resolution, backup, second, editor>>
      /\ files[p] = [doc |-> Half, by |-> r]
  BY DEF Write, session, Inv, TypeOK, Gated, Ready, Copies, At, RequestState, Writing
<1>2. request' = [request EXCEPT ![r] = Idle] /\ Idle \in RequestState /\ Idle.at = "idle"
  BY DEF Write, Answer, To, Idle, RequestState, Place
<1>3. files' = [files EXCEPT ![p] = [doc |-> request[r].doc, by |-> "web"]] \/ files' = files
  BY DEF Write
<1>4. TypeOK'
  <2>1. request[r].doc \in Doc
    BY <1>1 DEF SessionResolves
  <2>2. files' \in [Path -> [doc : Doc \cup {NoDoc, Half},
                             by : {"nobody", "operator", "web", "editor"} \cup Request]]
    <3>1. CASE files' = files
      BY <3>1 DEF Inv, TypeOK
    <3>2. CASE files' = [files EXCEPT ![p] = [doc |-> request[r].doc, by |-> "web"]]
      BY <2>1, <3>2 DEF Inv, TypeOK
    <3> QED
      BY <1>3, <3>1, <3>2
  <2>3. request' \in [Request -> RequestState]
    BY <1>2 DEF Inv, TypeOK
  <2> QED
    BY <1>1, <2>2, <2>3 DEF Inv, TypeOK
<1>5. Gated'
  <2>1. \A f \in Path : files'[f].by = "web" => files'[f].doc \in Resolving \cup {original_bytes'}
    BY <1>1, <1>3 DEF Inv, TypeOK, Gated
  <2>2. \A s \in Request : Ready(request[s])'
    BY <1>1, <1>2 DEF Inv, TypeOK, Gated, Ready, Stores, Copies
  <2>3. Opened' /\ SessionResolves'
    BY <1>1 DEF Opened, SessionResolves
  <2> QED
    BY <2>1, <2>2, <2>3 DEF Gated
<1>6. Writing'
  <2> SUFFICES ASSUME NEW s \in Request, At(s, "write")'
               PROVE  files'[request'[s].path] = [doc |-> Half, by |-> s]
    BY DEF Writing
  <2>1. s # r /\ request'[s] = request[s] /\ At(s, "write")
    BY <1>2 DEF Inv, TypeOK, At
  <2>2. files[request[s].path] = [doc |-> Half, by |-> s]
    BY <2>1 DEF Inv, Writing
  <2>3. request[s].path # p
    BY <2>1, <2>2, <1>1
  <2> QED
    BY <2>1, <2>2, <2>3, <1>3, <1>1 DEF Inv, TypeOK, RequestState
<1>7. \A f \in Path : files[f].doc \in Doc => files'[f] = files[f]
  BY <1>1, <1>3 DEF Inv, TypeOK
<1>8. Open'
  BY <1>1, <1>7 DEF Inv, TypeOK, EditorState, Open
<1>9. Kept'
  BY <1>1, <1>7 DEF Inv, TypeOK, EditorState, Open, Kept, Keeping
<1>10. OneOnLoop'
  BY <1>2, Looped DEF Held, OnLoop
<1> QED
  BY <1>4, <1>5, <1>6, <1>8, <1>9, <1>10 DEF Inv

(* A session is opened. *)
LEMMA OpeningInv ==
  ASSUME Inv, ReadInventory \/ ReadBytes
  PROVE  Inv'
<1> USE DocsAssumption
<1>1. /\ ~ Opened /\ original \in Doc \cup {NoDoc} /\ undo_stack = <<>>
      /\ (\A r \in Request : At(r, "idle")) /\ \A p \in Path : files[p].by # "web"
  BY DEF ReadInventory, ReadBytes, Inv, Gated, SessionResolves
<1>2. UNCHANGED <<undo_stack, request, files, backup, second, editor>>
  BY DEF ReadInventory, ReadBytes, Disk
<1>3. TypeOK' /\ OneOnLoop' /\ Writing' /\ Open' /\ Kept'
  BY <1>2 DEF Inv, TypeOK, OneOnLoop, Writing, Open, Kept, Keeping, At
<1>4. \A r \in Request : Ready(request[r])'
  BY <1>1, <1>2 DEF At, Ready, Stores, Copies
<1>5. IF Opened' THEN SessionResolves' ELSE original' \in Doc \cup {NoDoc} /\ raw' = original'
  <2>1. CASE ReadInventory
    BY <1>1, <2>1 DEF ReadInventory, Opened
  <2>2. CASE ReadBytes /\ original \in Resolving
    <3>1. undo_stack' \in Seq(Resolving)
      BY <1>1, <1>2
    <3>2. files[Source].doc \in Doc /\ raw = original
      BY <1>1 DEF Inv, Open, Gated
    <3> QED
      BY <2>2, <3>1, <3>2 DEF ReadBytes, SessionResolves, Opened
  <2>3. CASE ReadBytes /\ original \notin Resolving
    BY <1>1, <2>3 DEF ReadBytes, Opened
  <2> QED
    BY <2>1, <2>2, <2>3
<1>6. Gated'
  BY <1>1, <1>2, <1>4, <1>5 DEF Gated, At
<1> QED
  BY <1>3, <1>6 DEF Inv

(* The editors that one disturbs are as they were, but not alone. *)
LEMMA Disturbed ==
  ASSUME editor \in [Editor -> EditorState], NEW e \in Editor, NEW S
  PROVE  /\ Disturb(e, S) \in [Editor -> EditorState] /\ Disturb(e, S)[e] = editor[e]
         /\ \A x \in Editor : /\ Disturb(e, S)[x] \in {editor[x], [editor[x] EXCEPT !.alone = FALSE]}
                              /\ x \in S \ {e} => ~ Disturb(e, S)[x].alone
BY DEF Disturb, EditorState

(* An editor in its next statement, and one that is not alone any more. *)
LEMMA EditorNext ==
  ASSUME NEW x \in EditorState, NEW place \in {"closed", "edit", "read", "cut", "fill", "replace"},
         NEW y, y = [x EXCEPT !.at = place]
  PROVE  y \in EditorState /\ y.at = place /\ y.path = x.path /\ y.stamp = x.stamp /\ y.raw = x.raw
         /\ y.read = x.read /\ y.alone = x.alone
BY DEF EditorState
LEMMA NotAlone ==
  ASSUME NEW x \in EditorState, NEW y \in {x, [x EXCEPT !.alone = FALSE]}
  PROVE  y \in EditorState /\ y.at = x.at /\ y.path = x.path /\ y.stamp = x.stamp /\ y.raw = x.raw
         /\ y.read = x.read /\ (y.alone => y = x)
BY DEF EditorState

(* An editor's step: what the others that are alone have read and written  *)
(* is what it was, for an editor that changes it leaves them so no more.   *)
Others(e) == \A x \in Editor \ {e} : editor'[x] \in {editor[x], [editor[x] EXCEPT !.alone = FALSE]}
Replaces(e, p) ==
  /\ \A x \in Saving(p) \ {e} : ~ editor'[x].alone
  /\ {files[p].doc, files'[p].doc} \subseteq Doc /\ files'[p].by = "editor"
  /\ \A f \in Path \ {p} : files'[f] = files[f]
Writes(e, p, t) ==
  /\ \A x \in SavingAs(p, t) \ {e} : ~ editor'[x].alone
  /\ \A f \in Path, u \in 1..MaxSecond : f # p \/ u # t => backup'[f][u] = backup[f][u]
LEMMA EditorStep ==
  ASSUME Inv, NEW e \in Editor, UNCHANGED <<session, request, second>>,
         editor' \in [Editor -> EditorState],
         files' \in [Path -> [doc : Doc \cup {NoDoc, Half},
                              by : {"nobody", "operator", "web", "editor"} \cup Request]],
         backup' \in [Path -> [1..MaxSecond -> Doc \cup {NoDoc, Half}]],
         Others(e),
         files' = files \/ \E p \in Path : Replaces(e, p),
         backup' = backup \/ \E p \in Path, t \in 1..MaxSecond : Writes(e, p, t),
         editor'[e].at # "closed" => files'[editor'[e].path].doc \in Doc /\ editor'[e].raw \in Doc,
         Keeping(editor[e])'
  PROVE  Inv'
<1> USE DocsAssumption
<1>1. UNCHANGED <<original, original_bytes, raw, undo_stack, resolution, request>>
  BY DEF session
<1>2. TypeOK' /\ OneOnLoop'
  BY <1>1 DEF Inv, TypeOK, OneOnLoop
<1>3. \A f \in Path : files'[f] = files[f] \/ ({files[f].doc, files'[f].doc} \subseteq Doc /\ files'[f].by = "editor")
  BY DEF Replaces
<1>4. Gated'
  <2>1. \A r \in Request : Ready(request[r])'
    BY <1>1 DEF Inv, Gated, Ready
  <2>2. \A f \in Path : files'[f].by = "web" => files'[f] = files[f]
    BY <1>3
  <2> QED
    BY <1>1, <2>1, <2>2 DEF Inv, Gated, Opened, SessionResolves, At
<1>5. Writing'
  <2> SUFFICES ASSUME NEW r \in Request, At(r, "write")
               PROVE  files'[request[r].path] = [doc |-> Half, by |-> r]
    BY <1>1 DEF Writing, At
  <2>1. files[request[r].path] = [doc |-> Half, by |-> r] /\ request[r].path \in Path
    BY DEF Inv, Writing, TypeOK, RequestState
  <2> QED
    BY <2>1, <1>3
<1>6. Open'
  <2>1. files'[Source].doc \in Doc
    BY <1>3 DEF Inv, Open
  <2>2. ASSUME NEW x \in Editor, x # e, editor'[x].at # "closed"
        PROVE  files'[editor'[x].path].doc \in Doc /\ editor'[x].raw \in Doc
    <3>1. editor'[x].path = editor[x].path /\ editor'[x].raw = editor[x].raw /\ editor'[x].at = editor[x].at
          /\ editor[x].path \in Path
      <4>1. editor[x] \in EditorState /\ editor[x].path \in Path
        BY DEF Inv, TypeOK, EditorState
      <4>2. editor'[x] \in {editor[x], [editor[x] EXCEPT !.alone = FALSE]}
        BY <2>2 DEF Others
      <4> QED
        BY <4>1, <4>2, NotAlone
    <3> QED
      BY <2>2, <3>1, <1>3 DEF Inv, Open
  <2> QED
    BY <2>1, <2>2 DEF Open
<1>7. ASSUME NEW x \in Editor, x # e, editor'[x].alone PROVE Keeping(editor[x])'
  <2>1. editor'[x] = editor[x] /\ editor[x] \in EditorState
    <3>1. editor[x] \in EditorState /\ editor'[x] \in {editor[x], [editor[x] EXCEPT !.alone = FALSE]}
      BY <1>7 DEF Inv, TypeOK, Others
    <3> QED
      BY <1>7, <3>1, NotAlone
  <2>2. CASE editor[x].at \notin {"cut", "fill", "replace"}
    BY <2>1, <2>2 DEF Keeping
  <2>3. CASE editor[x].at \in {"cut", "fill", "replace"}
    <3> DEFINE f == editor[x].path
               u == editor[x].stamp
    <3>0. f \in Path /\ u \in 1..MaxSecond
      BY <2>1 DEF EditorState
    <3>1. files'[f] = files[f]
      <4>1. ASSUME NEW p \in Path, Replaces(e, p) PROVE f # p
        BY <1>7, <2>3, <4>1 DEF Replaces, Saving
      <4> QED
        BY <3>0, <4>1 DEF Replaces
    <3>2. backup'[f][u] = backup[f][u]
      <4>1. ASSUME NEW p \in Path, NEW t \in 1..MaxSecond, Writes(e, p, t) PROVE backup'[f][u] = backup[f][u]
        <5>1. f # p \/ u # t
          BY <1>7, <2>3, <4>1 DEF Writes, SavingAs, Saving
        <5> QED
          BY <3>0, <4>1, <5>1 DEF Writes
      <4> QED
        BY <4>1
    <3> QED
      BY <2>1, <3>1, <3>2 DEF Keeping, Inv, Kept
  <2> QED
    BY <2>2, <2>3
<1>8. Kept'
  BY <1>7 DEF Kept, Keeping
<1> QED
  BY <1>2, <1>4, <1>5, <1>6, <1>8 DEF Inv

LEMMA EditorInv ==
  ASSUME Inv, NEW e \in Editor, Edit(e)
  PROVE  Inv'
<1> USE DocsAssumption
<1> DEFINE p == editor[e].path
           t == editor[e].stamp
<1>0. /\ editor \in [Editor -> EditorState] /\ editor[e] \in EditorState /\ p \in Path /\ t \in 1..MaxSecond
      /\ files \in [Path -> [doc : Doc \cup {NoDoc, Half},
                             by : {"nobody", "operator", "web", "editor"} \cup Request]]
      /\ backup \in [Path -> [1..MaxSecond -> Doc \cup {NoDoc, Half}]] /\ second \in 1..MaxSecond
      /\ editor[e].at # "closed" => files[p].doc \in Doc /\ editor[e].raw \in Doc
      /\ Keeping(editor[e])
  BY DEF Inv, TypeOK, EditorState, Open, Kept
<1>1. ASSUME NEW s \in EditorState, editor' = [editor EXCEPT ![e] = s],
             s.at \notin {"fill", "replace"}, s.at = "cut" => files[s.path].doc = s.read,
             s.at # "closed" => s.raw \in Doc /\ files[s.path].doc \in Doc,
             UNCHANGED <<Web, files, backup, second>>
      PROVE  Inv'
  <2>1. UNCHANGED <<session, request, second>> /\ editor' \in [Editor -> EditorState]
    BY <1>1, <1>0 DEF Web
  <2>2. Keeping(editor[e])'
    BY <1>1, <1>0 DEF Keeping
  <2>3. Others(e)
    BY <1>1, <1>0 DEF Others
  <2>4. editor'[e] = s
    BY <1>1, <1>0
  <2> QED
    BY <1>0, <1>1, <2>1, <2>2, <2>3, <2>4, EditorStep
<1>2. CASE Load(e)
  <2>1. PICK f \in Path : files[f].doc \in Doc /\ editor' = [editor EXCEPT ![e] =
          [Closed EXCEPT !.at = "edit", !.raw = files[f].doc, !.original = files[f].doc, !.path = f]]
    BY <1>2 DEF Load
  <2> DEFINE s == [Closed EXCEPT !.at = "edit", !.raw = files[f].doc, !.original = files[f].doc, !.path = f]
  <2>2. s \in EditorState /\ s.at = "edit" /\ s.raw \in Doc /\ s.path = f
    <3>1. Closed \in EditorState
      BY DEF EditorState, Closed
    <3> QED
      BY <2>1, <3>1 DEF EditorState
  <2> QED
    BY <2>1, <2>2, <1>1, <1>2 DEF Load
<1>3. CASE CommitSection(e)
  <2>1. PICK d \in Resolving : editor' = [editor EXCEPT ![e].raw = d]
    BY <1>3 DEF CommitSection
  <2> DEFINE s == [editor[e] EXCEPT !.raw = d]
  <2>2. s \in EditorState /\ s.at = "edit" /\ s.raw \in Doc /\ s.path = p
    BY <1>3, <1>0 DEF CommitSection, EditorState
  <2>3. files[p].doc \in Doc
    BY <1>3, <1>0 DEF CommitSection
  <2> QED
    BY <2>1, <2>2, <2>3, <1>1, <1>3 DEF CommitSection
<1>4. CASE SaveInventory(e)
  <2>0. PICK d \in Resolving : editor' = [editor EXCEPT ![e] =
          IF SameDict(d, @.original) THEN [@ EXCEPT !.raw = d]
          ELSE [@ EXCEPT !.raw = d, !.stamp = second, !.at = "read"]]
    BY <1>4 DEF SaveInventory
  <2>1. PICK s \in {[editor[e] EXCEPT !.raw = d],
                    [editor[e] EXCEPT !.raw = d, !.stamp = second, !.at = "read"]} :
          editor' = [editor EXCEPT ![e] = s]
    BY <2>0
  <2>2. s \in EditorState /\ s.at \in {"edit", "read"} /\ s.raw \in Doc /\ s.path = p
    <3>1. editor[e].at = "edit" /\ d \in Doc
      BY <1>4, <1>0 DEF SaveInventory
    <3>2. CASE s = [editor[e] EXCEPT !.raw = d]
      BY <1>0, <3>1, <3>2 DEF EditorState
    <3>3. CASE s = [editor[e] EXCEPT !.raw = d, !.stamp = second, !.at = "read"]
      BY <1>0, <3>1, <3>3 DEF EditorState
    <3> QED
      BY <2>1, <3>2, <3>3
  <2>3. files[p].doc \in Doc
    BY <1>4, <1>0 DEF SaveInventory
  <2> QED
    BY <2>1, <2>2, <2>3, <1>1, <1>4 DEF SaveInventory
<1>5. CASE ReadFile(e)
  <2> DEFINE s == [editor[e] EXCEPT !.at = "cut", !.read = files[p].doc, !.alone = TRUE]
  <2>1. editor[e].at = "read" /\ editor' = [editor EXCEPT ![e] = s] /\ files[p].doc \in Doc /\ editor[e].raw \in Doc
    BY <1>5, <1>0 DEF ReadFile
  <2>2. s \in EditorState /\ s.at = "cut" /\ s.raw = editor[e].raw /\ s.path = p /\ s.read = files[p].doc
    BY <1>0, <2>1 DEF EditorState
  <2> QED
    BY <2>1, <2>2, <1>1, <1>5 DEF ReadFile
<1>6. CASE Close(e)
  <2>1. Closed \in EditorState /\ Closed.at = "closed"
    BY DEF Closed, EditorState
  <2> QED
    BY <2>1, <1>1, <1>6 DEF Close
<1>7. CASE CutBackup(e)
  <2> DEFINE S == SavingAs(p, t)
             D == Disturb(e, S)
  <2>1. /\ editor[e].at = "cut" /\ backup' = [backup EXCEPT ![p][t] = Half]
        /\ editor' = [D EXCEPT ![e].at = "fill"] /\ UNCHANGED <<session, request, second, files>>
    BY <1>7 DEF CutBackup, Web
  <2>2. /\ D \in [Editor -> EditorState] /\ D[e] = editor[e]
        /\ \A x \in Editor : /\ D[x] \in {editor[x], [editor[x] EXCEPT !.alone = FALSE]}
                             /\ x \in S \ {e} => ~ D[x].alone
    BY <1>0, Disturbed
  <2> HIDE DEF D, S
  <2>3. editor'[e] = [editor[e] EXCEPT !.at = "fill"] /\ \A x \in Editor \ {e} : editor'[x] = D[x]
    BY <2>1, <2>2
  <2>0. /\ editor'[e].at = "fill" /\ editor'[e].path = p /\ editor'[e].stamp = t
        /\ editor'[e].raw = editor[e].raw /\ editor'[e].read = editor[e].read
        /\ editor'[e].alone = editor[e].alone
    BY <1>0, <2>3, EditorNext
  <2>4. editor' \in [Editor -> EditorState]
    BY <2>1, <2>2 DEF EditorState
  <2>5. /\ backup' \in [Path -> [1..MaxSecond -> Doc \cup {NoDoc, Half}]] /\ backup'[p][t] = Half
        /\ \A f \in Path, u \in 1..MaxSecond : f # p \/ u # t => backup'[f][u] = backup[f][u]
    BY <1>0, <2>1
  <2>6. Keeping(editor[e])'
    BY <1>0, <2>0, <2>1, <2>5 DEF Keeping
  <2>7. files'[editor'[e].path].doc \in Doc /\ editor'[e].raw \in Doc
    BY <1>0, <2>0, <2>1
  <2>8. Others(e)
    BY <2>2, <2>3 DEF Others
  <2>9. Writes(e, p, t)
    <3>1. \A x \in SavingAs(p, t) \ {e} : ~ editor'[x].alone
      BY <2>2, <2>3 DEF S, SavingAs, Saving
    <3> QED
      BY <2>5, <3>1 DEF Writes
  <2> QED
    BY <1>0, <2>1, <2>4, <2>5, <2>6, <2>7, <2>8, <2>9, EditorStep
<1>8. CASE FillBackup(e)
  <2> DEFINE S == SavingAs(p, t)
             D == Disturb(e, S)
  <2>1. PICK d \in {editor[e].read} \cup (IF backup[p][t] = Half THEN {} ELSE {Half}) :
          backup' = [backup EXCEPT ![p][t] = d]
    BY <1>8 DEF FillBackup
  <2>2. /\ editor[e].at = "fill" /\ editor' = [D EXCEPT ![e].at = "replace"]
        /\ UNCHANGED <<session, request, second, files>>
    BY <1>8 DEF FillBackup, Web
  <2>3. /\ D \in [Editor -> EditorState] /\ D[e] = editor[e]
        /\ \A x \in Editor : /\ D[x] \in {editor[x], [editor[x] EXCEPT !.alone = FALSE]}
                             /\ x \in S \ {e} => ~ D[x].alone
    BY <1>0, Disturbed
  <2> HIDE DEF D, S
  <2>4. editor'[e] = [editor[e] EXCEPT !.at = "replace"] /\ \A x \in Editor \ {e} : editor'[x] = D[x]
    BY <2>2, <2>3
  <2>0. /\ editor'[e].at = "replace" /\ editor'[e].path = p /\ editor'[e].stamp = t
        /\ editor'[e].raw = editor[e].raw /\ editor'[e].read = editor[e].read
        /\ editor'[e].alone = editor[e].alone
    BY <1>0, <2>4, EditorNext
  <2>5. editor' \in [Editor -> EditorState]
    BY <2>2, <2>3 DEF EditorState
  <2>6. /\ backup' \in [Path -> [1..MaxSecond -> Doc \cup {NoDoc, Half}]] /\ backup'[p][t] = d
        /\ \A f \in Path, u \in 1..MaxSecond : f # p \/ u # t => backup'[f][u] = backup[f][u]
    <3>1. d \in Doc \cup {NoDoc, Half}
      BY <1>0, <2>1 DEF EditorState
    <3> QED
      BY <1>0, <2>1, <3>1
  <2>7. Keeping(editor[e])'
    BY <1>0, <2>0, <2>1, <2>2, <2>6 DEF Keeping
  <2>8. files'[editor'[e].path].doc \in Doc /\ editor'[e].raw \in Doc
    BY <1>0, <2>0, <2>2
  <2>9. Others(e)
    BY <2>3, <2>4 DEF Others
  <2>10. Writes(e, p, t)
    <3>1. \A x \in SavingAs(p, t) \ {e} : ~ editor'[x].alone
      BY <2>3, <2>4 DEF S, SavingAs, Saving
    <3> QED
      BY <2>6, <3>1 DEF Writes
  <2> QED
    BY <1>0, <2>2, <2>5, <2>6, <2>7, <2>8, <2>9, <2>10, EditorStep
<1>9. CASE Replace(e)
  <2> DEFINE S == Saving(p)
             D == Disturb(e, S)
             new == [doc |-> Sorted[editor[e].raw], by |-> "editor"]
             s == [Closed EXCEPT !.at = "edit", !.raw = editor[e].raw, !.original = editor[e].raw, !.path = p]
  <2>1. /\ editor[e].at = "replace" /\ files' = [files EXCEPT ![p] = new]
        /\ editor' = [D EXCEPT ![e] = s] /\ UNCHANGED <<session, request, second, backup>>
    BY <1>9 DEF Replace, Web
  <2>2. /\ D \in [Editor -> EditorState] /\ D[e] = editor[e]
        /\ \A x \in Editor : /\ D[x] \in {editor[x], [editor[x] EXCEPT !.alone = FALSE]}
                             /\ x \in S \ {e} => ~ D[x].alone
    BY <1>0, Disturbed
  <2> HIDE DEF D, S
  <2>3. files[p].doc \in Doc /\ editor[e].raw \in Doc /\ new.doc \in Doc /\ new.by = "editor"
    BY <1>0, <2>1
  <2>4. s \in EditorState /\ s.at = "edit" /\ s.raw = editor[e].raw /\ s.path = p
    <3>1. Closed \in EditorState
      BY DEF EditorState, Closed
    <3> QED
      BY <1>0, <2>3, <3>1 DEF EditorState
  <2> HIDE DEF s
  <2>5. editor' \in [Editor -> EditorState] /\ editor'[e] = s /\ \A x \in Editor \ {e} : editor'[x] = D[x]
    BY <2>1, <2>2, <2>4
  <2>6. /\ files' \in [Path -> [doc : Doc \cup {NoDoc, Half},
                                by : {"nobody", "operator", "web", "editor"} \cup Request]]
        /\ files'[p] = new /\ \A f \in Path \ {p} : files'[f] = files[f]
    BY <1>0, <2>1, <2>3
  <2>7. Keeping(editor[e])'
    BY <2>4, <2>5 DEF Keeping
  <2>8. files'[editor'[e].path].doc \in Doc /\ editor'[e].raw \in Doc
    BY <2>3, <2>4, <2>5, <2>6
  <2>9. Others(e)
    BY <2>2, <2>5 DEF Others
  <2>10. Replaces(e, p)
    <3>1. \A x \in Saving(p) \ {e} : ~ editor'[x].alone
      BY <2>2, <2>5 DEF S, Saving
    <3> QED
      BY <2>3, <2>6, <3>1 DEF Replaces
  <2> QED
    BY <1>0, <2>1, <2>5, <2>6, <2>7, <2>8, <2>9, <2>10, EditorStep
<1> QED
  BY <1>2, <1>3, <1>4, <1>5, <1>6, <1>7, <1>8, <1>9 DEF Edit

LEMMA StepInv == Inv /\ [Next]_vars => Inv'
<1> SUFFICES ASSUME Inv, [Next]_vars PROVE Inv'
  OBVIOUS
<1>1. CASE \E r \in Request : Operation(r) \/ Unwind(r) \/ Copy(r)
  BY <1>1, MemoryInv, CreateInv, WriteInv DEF Copy
<1>2. CASE \E e \in Editor : Edit(e)
  BY <1>2, EditorInv
<1>3. CASE ReadInventory \/ ReadBytes
  BY <1>3, OpeningInv
<1>4. ASSUME UNCHANGED <<session, request, files, backup, editor>>, second' \in 1..MaxSecond PROVE Inv'
  BY <1>4 DEF session, Inv, TypeOK, Gated, Opened, SessionResolves, Ready, OneOnLoop, Writing, Open, Kept,
              Keeping, At
<1>5. CASE Tick
  <2>1. second' \in 1..MaxSecond
    BY <1>5, DocsAssumption DEF Tick, Inv, TypeOK
  <2> QED
    BY <2>1, <1>4, <1>5 DEF Tick, Web
<1>6. CASE UNCHANGED vars
  BY <1>4, <1>6 DEF vars, Inv, TypeOK
<1> QED
  BY <1>1, <1>2, <1>3, <1>5, <1>6 DEF Next

-----------------------------------------------------------------------------
(* What requests and editors hold at each of their statements, and that    *)
(* the event loop is at one operation or save at a time.                   *)
THEOREM Invariant == Spec => []Inv
<1> QED
  BY InitInv, StepInv, PTL DEF Spec

(* Whatever requests overlap - an operation, undo, reset and a save, each  *)
(* read from the session at its own moments - everything that the session  *)
(* holds and every copy that it wrote resolves (session.py: only a         *)
(* candidate that was resolved is ever stored), but for a copy of the      *)
(* bytes, which open reads once more than it resolves.                     *)
THEOREM DraftsResolve == Spec => []DraftResolves
<1>1. Inv => DraftResolves
  <2> SUFFICES ASSUME Inv, Opened PROVE DraftResolves
    BY DEF DraftResolves
  <2>1. SessionResolves
    BY DEF Inv, Gated
  <2>2. Range(undo_stack) \subseteq Resolving
    BY <2>1, RangeOfSeq DEF SessionResolves
  <2> QED
    BY <2>1, <2>2 DEF Inv, Gated, SessionResolves, DraftResolves
<1> QED
  BY <1>1, Invariant, PTL

(* What an editor is about to replace is whole in the backup that it made, *)
(* for any number of editors and any clock, unless since it read it        *)
(* another has replaced it too, or has opened or written a backup of the   *)
(* same name (document.py, save: the name has seconds, and write_bytes     *)
(* cuts a file before it fills it).                                        *)
THEOREM InventoriesBackedUp == Spec => []BackedUp
<1>1. Inv => BackedUp
  BY DEF Inv, Kept, Keeping, BackedUp
<1> QED
  BY <1>1, Invariant, PTL

(* A save of the workbench never changes a file that it did not make       *)
(* (session.py opens it with O_EXCL), and an editor puts a whole inventory *)
(* in the place of a whole one (document.py replaces it by a rename).      *)
THEOREM CopiesNeverOverwrite == Spec => NeverOverwrites
<1> DEFINE Allowed ==
      \A p \in Path : files'[p] # files[p] =>
       \/ files[p] = NoFile
       \/ \E r \in Request : files[p] = [doc |-> Half, by |-> r] /\ At(r, "write")
       \/ files'[p].by = "editor" /\ {files[p].doc, files'[p].doc} \subseteq Doc
<1>1. Inv /\ [Next]_vars => [Allowed]_vars
  <2> SUFFICES ASSUME Inv, Next PROVE Allowed
    OBVIOUS
  <2> USE DocsAssumption DEF Inv, TypeOK
  <2>1. ASSUME NEW r \in Request, Create(r) PROVE Allowed
    BY <2>1 DEF Create
  <2>2. ASSUME NEW r \in Request, Write(r) PROVE Allowed
    BY <2>2 DEF Write, Writing
  <2>3. ASSUME NEW e \in Editor, Replace(e) PROVE Allowed
    <3>1. /\ files[editor[e].path].doc \in Doc /\ editor[e].raw \in Doc /\ editor[e].path \in Path
          /\ files' = [files EXCEPT ![editor[e].path] = [doc |-> Sorted[editor[e].raw], by |-> "editor"]]
      BY <2>3 DEF Replace, Open, EditorState
    <3> QED
      BY <3>1
  <2>4. CASE UNCHANGED files
    BY <2>4
  <2>5. ASSUME NEW r \in Request, Operation(r) \/ Unwind(r) \/ Save(r) \/ SaveResolved(r)
                                   \/ SaveChanged(r) \/ Dump(r)
        PROVE  UNCHANGED files
    BY <2>5 DEF Operation, Unwind, Operate, Remember, Push, Commit, Show, Undo, Pop, PopNothing, Reset,
                Restore, ResolveAgain, Redraw, Save, SaveResolved, SaveChanged, Dump, Disk
  <2>6. ASSUME NEW e \in Editor, Load(e) \/ CommitSection(e) \/ SaveInventory(e) \/ ReadFile(e)
                                  \/ CutBackup(e) \/ FillBackup(e) \/ Close(e)
        PROVE  UNCHANGED files
    BY <2>6 DEF Load, CommitSection, SaveInventory, ReadFile, CutBackup, FillBackup, Close
  <2>7. Tick \/ ReadInventory \/ ReadBytes => UNCHANGED files
    BY DEF Tick, ReadInventory, ReadBytes, Disk
  <2> QED
    BY <2>1, <2>2, <2>3, <2>4, <2>5, <2>6, <2>7 DEF Next, Copy, Edit
<1> QED
  BY <1>1, Invariant, PTL DEF Spec, NeverOverwrites
-----------------------------------------------------------------------------
(* What is drawn.  Until undo or reset has overlapped another request, one *)
(* request at most is at work; when it is one that has stored a draft and  *)
(* not yet drawn it, what it is about to draw is that draft.               *)
Redrawing == {"show", "restore", "resolve", "redraw"}
OneAtWork ==
  \A r, s \in Request : r # s /\ ~ At(r, "idle") => At(s, "idle")
Drawing ==
  ~ raced =>
    /\ OneAtWork
    /\ \A r \in Request : request[r].at \in {"show", "redraw", "assign"} => request[r].doc = raw
    /\ Opened => resolution = raw \/ \E r \in Request : request[r].at \in Redrawing

LEMMA DrawingStep ==
  ASSUME Inv, Drawing, Opened, NEW r \in Request, NEW q \in RequestState, To(r, q),
         At(r, "idle") => UNCHANGED raw /\ (q.at \in InPool \/ (q.at \in OnLoop /\ LoopFree)),
         q.at \in {"show", "redraw", "assign"} => q.doc = raw',
         resolution = raw \/ request[r].at \in Redrawing => resolution' = raw' \/ q.at \in Redrawing
  PROVE  Drawing'
<1> SUFFICES ASSUME ~ raced' PROVE Drawing'
  BY DEF Drawing
<1>1. request' = [request EXCEPT ![r] = q] /\ request'[r] = q /\ ~ raced /\ ~ Overlapped'
  BY DEF To, Inv, TypeOK
<1>2. \A s \in Request : s # r => request'[s] = request[s] /\ request[s].at \in Place
  BY <1>1 DEF Inv, TypeOK, RequestState
<1>3. \A s \in Request : s # r => At(s, "idle")
  <2>1. CASE ~ At(r, "idle")
    BY <1>1, <2>1 DEF Drawing, OneAtWork
  <2>2. ASSUME At(r, "idle"), NEW s \in Request, s # r, ~ At(s, "idle") PROVE FALSE
    <3>1. request[s].at \in OnLoop \/ request[s].at \in InPool
      BY <1>2, <2>2 DEF At, Place
    <3>2. q.at \notin InPool /\ request[s].at \notin InPool
      <4>1. request'[r].at # "idle" /\ request'[s].at # "idle"
        BY <1>1, <1>2, <2>2 DEF At, InPool, OnLoop
      <4>2. request'[r].at \notin InPool /\ request'[s].at \notin InPool
        BY <1>1, <2>2, <4>1 DEF Overlapped
      <4> QED
        BY <1>1, <1>2, <2>2, <4>2
    <3> QED
      BY <2>2, <3>1, <3>2 DEF LoopFree
  <2> QED
    BY <2>1, <2>2
<1>4. OneAtWork'
  BY <1>2, <1>3 DEF OneAtWork, At
<1>5. ASSUME NEW s \in Request, request'[s].at \in {"show", "redraw", "assign"}
      PROVE  request'[s].doc = raw'
  BY <1>1, <1>2, <1>3, <1>5 DEF At
<1>6. resolution' = raw' \/ \E s \in Request : request'[s].at \in Redrawing
  <2>1. resolution = raw \/ request[r].at \in Redrawing
    BY <1>1, <1>3 DEF Drawing, At, Redrawing
  <2> QED
    BY <1>1, <2>1
<1> QED
  BY <1>4, <1>5, <1>6 DEF Drawing

LEMMA DrawingInv ==
  ASSUME Inv, Drawing, [Next]_vars
  PROVE  Drawing'
<1>1. CASE UNCHANGED <<session, request, raced>>
  BY <1>1 DEF Drawing, OneAtWork, At, session, Opened
<1>0. CASE ReadInventory \/ ReadBytes
  <2>1. ~ Opened /\ raw = original /\ UNCHANGED <<request, raced>> /\ \A r \in Request : At(r, "idle")
    BY <1>0, DocsAssumption DEF ReadInventory, ReadBytes, Inv, Gated, SessionResolves
  <2>2. Opened' => resolution' = raw'
    BY <1>0, <2>1 DEF ReadInventory, ReadBytes, Opened
  <2> QED
    BY <2>1, <2>2 DEF Drawing, OneAtWork, At
<1>2. ASSUME NEW e \in Editor, Edit(e) PROVE Drawing'
  BY <1>1, <1>2 DEF Edit, Load, CommitSection, SaveInventory, ReadFile, CutBackup, FillBackup, Replace, Close, Web
<1>3. CASE Tick \/ UNCHANGED vars
  BY <1>1, <1>3 DEF Tick, Web, vars
<1>4. ASSUME NEW r \in Request, Operation(r) \/ Unwind(r) \/ Copy(r), ~ raced' PROVE Drawing'
  <2> DEFINE Becomes(q) ==
        /\ q \in RequestState /\ To(r, q)
        /\ At(r, "idle") => UNCHANGED raw /\ (q.at \in InPool \/ (q.at \in OnLoop /\ LoopFree))
        /\ q.at \in {"show", "redraw", "assign"} => q.doc = raw'
        /\ resolution = raw \/ request[r].at \in Redrawing => resolution' = raw' \/ q.at \in Redrawing
  <2>0. ASSUME NEW q, Becomes(q) PROVE Drawing'
    BY <2>0, <1>4, AtWork, DrawingStep
  <2>1. /\ request[r] \in RequestState /\ Idle \in RequestState /\ Idle.at = "idle"
        /\ raw \in Doc /\ original \in Doc /\ original_bytes \in Doc /\ Resolving \subseteq Doc /\ undo_stack \in Seq(Resolving)
    BY <1>4, DocsAssumption, AtWork DEF Inv, TypeOK, SessionResolves, RequestState, Idle, Place
  <2>2. ~ raced
    BY <1>4 DEF Operation, Unwind, Copy, Operate, Remember, Push, Commit, Show, Undo, Pop, PopNothing,
                Reset, Restore, ResolveAgain, Redraw, Save, SaveResolved, SaveChanged, Dump, Create, Write,
                Begin, Goes, Answer, To
  <2>3. ~ At(r, "idle") =>
          /\ request[r].at \in {"show", "redraw", "assign"} => request[r].doc = raw
          /\ resolution = raw \/ request[r].at \in Redrawing
    BY <2>2, <1>4, AtWork DEF Drawing, OneAtWork, At, Redrawing
  <2> USE DEF RequestState, Place, OnLoop, InPool, Redrawing, At
  <2>4. CASE Remember(r)
    <3>1. Becomes([request[r] EXCEPT !.at = "push", !.was = raw])
      BY <2>1, <2>3, <2>4 DEF Remember, Begin, Goes, Answer, session, Becomes
    <3> QED
      BY <3>1, <2>0
  <2>5. CASE Push(r)
    <3>1. Becomes([request[r] EXCEPT !.at = "commit"])
      BY <2>1, <2>3, <2>5 DEF Push, Begin, Goes, Answer, session, Becomes
    <3> QED
      BY <3>1, <2>0
  <2>6. CASE Commit(r)
    <3>1. Becomes([request[r] EXCEPT !.at = "show"])
      BY <2>1, <2>3, <2>6 DEF Commit, Begin, Goes, Answer, session, Becomes
    <3> QED
      BY <3>1, <2>0
  <2>7. CASE Show(r)
    <3>1. Becomes(Idle)
      BY <2>1, <2>3, <2>7 DEF Show, Begin, Goes, Answer, session, Becomes
    <3> QED
      BY <3>1, <2>0
  <2>8. CASE Undo(r)
    <3>1. Becomes([Idle EXCEPT !.at = "pop"])
      BY <2>1, <2>3, <2>8 DEF Undo, Begin, Goes, Answer, session, Becomes
    <3> QED
      BY <3>1, <2>0
  <2>9. CASE Pop(r)
    <3>0. Last(undo_stack) \in Doc
      BY <2>1, <2>9, Popped DEF Pop
    <3>1. Becomes([request[r] EXCEPT !.at = "restore", !.doc = Last(undo_stack)])
      BY <2>1, <2>3, <2>9, <3>0 DEF Pop, Begin, Goes, Answer, session, Becomes
    <3> QED
      BY <3>1, <2>0
  <2>10. CASE PopNothing(r)
    <3>1. Becomes(Idle)
      BY <2>1, <2>3, <2>10 DEF PopNothing, Begin, Goes, Answer, session, Becomes
    <3> QED
      BY <3>1, <2>0
  <2>11. CASE Reset(r)
    <3>1. Becomes([Idle EXCEPT !.at = "restore", !.doc = original])
      BY <2>1, <2>3, <2>11 DEF Reset, Begin, Goes, Answer, session, Becomes
    <3> QED
      BY <3>1, <2>0
  <2>12. CASE Restore(r)
    <3>1. Becomes([request[r] EXCEPT !.at = "resolve", !.doc = NoDoc])
      BY <2>1, <2>3, <2>12 DEF Restore, Begin, Goes, Answer, session, Becomes
    <3> QED
      BY <3>1, <2>0
  <2>13. CASE ResolveAgain(r)
    <3>1. Becomes([request[r] EXCEPT !.at = "redraw", !.doc = raw])
      BY <2>1, <2>3, <2>13 DEF ResolveAgain, Begin, Goes, Answer, session, Becomes
    <3> QED
      BY <3>1, <2>0
  <2>14. CASE Redraw(r)
    <3>1. Becomes(Idle)
      BY <2>1, <2>3, <2>14 DEF Redraw, Begin, Goes, Answer, session, Becomes
    <3> QED
      BY <3>1, <2>0
  <2>15. CASE SaveResolved(r)
    <3>1. Becomes([request[r] EXCEPT !.at = "changed", !.doc = NoDoc])
      BY <2>1, <2>3, <2>15 DEF SaveResolved, Begin, Goes, Answer, session, Becomes
    <3> QED
      BY <3>1, <2>0
  <2>16. CASE Dump(r)
    <3>1. Becomes([request[r] EXCEPT !.at = "create", !.doc = raw])
      BY <2>1, <2>3, <2>16 DEF Dump, Begin, Goes, Answer, session, Becomes
    <3> QED
      BY <3>1, <2>0
  <2>17. CASE Write(r)
    <3>1. Becomes(Idle)
      BY <2>1, <2>3, <2>17 DEF Write, Begin, Goes, Answer, session, Becomes
    <3> QED
      BY <3>1, <2>0
  <2>18. CASE Operate(r)
    <3>1. PICK d \in Resolving : Begin(r, [Idle EXCEPT !.at = "copy", !.doc = d])
      BY <2>18 DEF Operate
    <3>2. Becomes([Idle EXCEPT !.at = "copy", !.doc = d])
      BY <2>1, <2>18, <3>1 DEF Operate, Begin, session, Becomes
    <3> QED
      BY <3>2, <2>0
  <2>19. CASE Save(r)
    <3>1. PICK p \in Path : Begin(r, [Idle EXCEPT !.at = "assign", !.doc = raw, !.path = p])
      BY <2>19 DEF Save
    <3>2. Becomes([Idle EXCEPT !.at = "assign", !.doc = raw, !.path = p])
      BY <2>1, <2>19, <3>1 DEF Save, Begin, session, Becomes
    <3> QED
      BY <3>2, <2>0
  <2>20. CASE SaveChanged(r)
    <3>1. PICK q \in {[request[r] EXCEPT !.at = "create", !.doc = original_bytes],
                       [request[r] EXCEPT !.at = "dump", !.doc = NoDoc]} : To(r, q)
      BY <2>20 DEF SaveChanged, Goes
    <3>2. q \in RequestState /\ q.at \in {"create", "dump"}
      BY <2>1, <3>1
    <3>3. Becomes(q)
      BY <2>1, <2>3, <2>20, <3>1, <3>2 DEF SaveChanged, session, Becomes
    <3> QED
      BY <3>3, <2>0
  <2>21. CASE Create(r)
    <3>1. PICK q \in {[request[r] EXCEPT !.at = "write"], Idle} : To(r, q)
      BY <2>1, <2>21 DEF Create, Goes, Answer
    <3>2. q \in RequestState /\ q.at \in {"write", "idle"}
      BY <2>1, <3>1
    <3>3. Becomes(q)
      BY <2>1, <2>3, <2>21, <3>1, <3>2 DEF Create, session, Becomes
    <3> QED
      BY <3>3, <2>0
  <2> QED
    BY <1>4, <2>4, <2>5, <2>6, <2>7, <2>8, <2>9, <2>10, <2>11, <2>12, <2>13, <2>14, <2>15, <2>16, <2>17, <2>18, <2>19, <2>20, <2>21 DEF Operation, Unwind, Copy
<1> QED
  BY <1>0, <1>2, <1>3, <1>4 DEF Next, Drawing

(* What is drawn between requests is the draft, until undo or reset, which *)
(* run in the thread pool, have overlapped another request (server.py): an *)
(* operation draws what it stored, and a save what it is about to copy.    *)
THEOREM DraftsAreDrawn == Spec => []DrawnIsDraft
<1>1. Init => Drawing
  <2> SUFFICES ASSUME Init PROVE Drawing
    OBVIOUS
  <2>1. resolution = raw /\ \A r \in Request : request[r].at = "idle"
    BY DEF Init, Idle
  <2> QED
    BY <2>1 DEF Drawing, OneAtWork, At
<1>2. Inv /\ Drawing /\ [Next]_vars => Drawing'
  BY DrawingInv
<1>3. Drawing => DrawnIsDraft
  BY DEF Drawing, DrawnIsDraft, At, Redrawing
<1> QED
  BY <1>1, <1>2, <1>3, Invariant, PTL DEF Spec
=============================================================================
