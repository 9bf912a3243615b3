-------------------------- MODULE ContractsJobProofs --------------------------
(* Proofs about ContractsJob: types, and that what the job publishes is live, *)
(* in every environment, overlapping jobs included; without overlap, that the *)
(* job keeps Publication, and how many Authorities there are.                 *)
EXTENDS ContractsJob, SequenceTheorems, FiniteSetTheorems, TLAPS

USE ContractsAssumption, ValueAssumption

\* A step that leaves the chain alone leaves alone what is live.
LEMMA ChainStays ==
  ASSUME UNCHANGED chain
  PROVE  /\ \A a : IsAuthority(a)' <=> IsAuthority(a)
         /\ \A d, a : IsDarkOn(d, a)' <=> IsDarkOn(d, a)
         /\ \A pair : Live(pair)' <=> Live(pair)
BY DEF IsAuthority, IsDarkOn, Live

\* A job's step that leaves the network alone has only its own job to answer for.
LEMMA JobChanges ==
  ASSUME JobInvariant, UNCHANGED network,
         NEW j \in Job, NEW job \in JobState, Knows(job),
         jobs' = [jobs EXCEPT ![j] = job]
  PROVE  (jobs \in [Job -> JobState])' /\ \A i \in Job : Knows(jobs[i])'
<1>1. JobState' = JobState
  BY DEF JobState, network
<1>2. jobs' \in [Job -> JobState]
  BY DEF JobInvariant, TypeOK
<1>3. ASSUME NEW i \in Job PROVE Knows(jobs[i])'
  <2>1. Knows(jobs'[i])
    <3>1. CASE i = j
      BY <3>1 DEF JobInvariant, TypeOK
    <3>2. CASE i # j
      BY <3>2 DEF JobInvariant, TypeOK
    <3> QED BY <3>1, <3>2
  <2> QED BY <2>1, ChainStays DEF Knows, network, Transaction
<1> QED BY <1>1, <1>2, <1>3

\* A job that ends, well or badly.
LEMMA JobEnds ==
  ASSUME JobInvariant, UNCHANGED network, NEW j \in Job, Set(j, Off),
         NEW pc \in {"trying", "read"}, Returns(j, pc)
  PROVE  /\ (jobs \in [Job -> JobState])' /\ \A i \in Job : Knows(jobs[i])'
         /\ (control \in ControlState)' /\ control'.payload = control.payload
<1>1. Off \in JobState /\ Knows(Off)
  <2>1. Len(chain) \in Nat
    BY LenProperties DEF JobInvariant, TypeOK
  <2> QED BY <2>1 DEF Off, JobState, Knows
<1>2. (jobs \in [Job -> JobState])' /\ \A i \in Job : Knows(jobs[i])'
  BY <1>1, JobChanges DEF Set
<1>3. control' \in ControlState /\ control'.payload = control.payload
  <2>1. control \in ControlState
    BY DEF JobInvariant, TypeOK
  <2> QED BY <2>1 DEF Returns, ControlState
<1> QED BY <1>2, <1>3

\* A mined transaction adds to the chain, and what is live stays live.
LEMMA ChainGrows ==
  ASSUME chain \in Seq(Mined), NEW block \in Mined, chain' = Append(chain, block)
  PROVE  /\ (chain \in Seq(Mined))' /\ Len(chain)' = Len(chain) + 1
         /\ \A a \in 1..Len(chain) : chain'[a] = chain[a]
         /\ chain'[Len(chain) + 1] = block
         /\ \A a : IsAuthority(a) => IsAuthority(a)'
         /\ \A d, a : IsDarkOn(d, a) => IsDarkOn(d, a)'
         /\ \A pair : Live(pair) => Live(pair)'
<1>1. /\ chain' \in Seq(Mined) /\ Len(chain') = Len(chain) + 1
      /\ \A a \in 1..Len(chain) : chain'[a] = chain[a]
      /\ chain'[Len(chain) + 1] = block /\ Len(chain) \in Nat
  BY AppendProperties, LenProperties
<1>2. \A a : a \in 1..Len(chain) => a \in 1..Len(chain')
  BY <1>1
<1> QED BY <1>1, <1>2 DEF IsAuthority, IsDarkOn, Live

-----------------------------------------------------------------------------
LEMMA InitHolds == Init => JobInvariant
<1> SUFFICES ASSUME Init PROVE JobInvariant
  OBVIOUS
<1>1. Len(chain) = 0 /\ chain \in Seq(Mined)
  BY EmptySeq DEF Init
<1>2. TypeOK
  BY <1>1 DEF Init, TypeOK, JobState, ControlState, File, Off, Idle
<1>3. PublishedIsLive /\ (\A j \in Job : Knows(jobs[j]))
  BY DEF Init, PublishedIsLive, Knows, Off
<1>4. control.payload \notin Pair
  BY DEF Init, Idle
<1> QED BY <1>2, <1>3, <1>4 DEF JobInvariant

\* The controller's steps: none touches a job at work or the chain.
LEMMA ControlSteps ==
  ASSUME JobInvariant,
         \/ Apply \/ GiveUp \/ Abandon \/ ApplyFails \/ ReadEnv \/ GoOn
         \/ \E m \in Recipient : Copy(m) \/ CopyFails(m)
  PROVE  JobInvariant'
<1>1. UNCHANGED <<chain, pool, handoff, jobs>>
  BY DEF Apply, GiveUp, Abandon, ApplyFails, ReadEnv, GoOn, Copy, CopyFails, network
<1>2. (\A j \in Job : Knows(jobs[j]))' /\ JobState' = JobState
  BY <1>1, ChainStays DEF JobInvariant, Knows, JobState, Transaction
<1>3. failures' \in 0..MaxFailures
  BY DEF Apply, GiveUp, Abandon, ApplyFails, ReadEnv, GoOn, Copy, CopyFails, Failure, JobInvariant, TypeOK
<1>4. control' \in ControlState /\ (control'.payload \in Pair => Live(control'.payload))
  <2>1. CASE Apply
    BY <2>1 DEF Apply, Idle, ControlState, File
  <2>2. CASE GiveUp
    BY <2>2 DEF GiveUp, Idle, ControlState, File
  <2>3. CASE Abandon
    BY <2>3 DEF Abandon, ControlState, JobInvariant, TypeOK
  <2>4. CASE ApplyFails
    BY <2>4 DEF ApplyFails, Idle, ControlState, File
  <2>5. CASE ReadEnv
    <3>1. env[Producer] \in File /\ (env[Producer] \in Pair => Live(env[Producer]))
      BY DEF Machine, JobInvariant, TypeOK, PublishedIsLive
    <3> QED BY <2>5, <3>1 DEF ReadEnv, ControlState, JobInvariant, TypeOK
  <2>6. CASE GoOn
    BY <2>6 DEF GoOn, ControlState, JobInvariant, TypeOK
  <2>7. ASSUME NEW m \in Recipient, Copy(m) \/ CopyFails(m)
        PROVE  control' \in ControlState /\ (control'.payload \in Pair => Live(control'.payload))
    <3>1. control' = Idle \/ control' = [control EXCEPT !.todo = @ \ {m}]
      BY <2>7 DEF Copy, CopyFails
    <3>2. CASE control' = Idle
      BY <3>2 DEF Idle, ControlState, File
    <3>3. CASE control' = [control EXCEPT !.todo = @ \ {m}]
      BY <3>3 DEF ControlState, JobInvariant, TypeOK
    <3> QED BY <3>1, <3>2, <3>3
  <2> QED BY <2>1, <2>2, <2>3, <2>4, <2>5, <2>6, <2>7
<1>5. env' \in [Machine -> File] /\ \A m \in Machine : env'[m] \in Pair => Live(env'[m])
  <2>1. CASE UNCHANGED env
    BY <2>1 DEF JobInvariant, TypeOK, PublishedIsLive
  <2>2. ASSUME NEW m \in Recipient, Copy(m)
        PROVE  env' \in [Machine -> File] /\ \A n \in Machine : env'[n] \in Pair => Live(env'[n])
    <3>1. control.payload \in File
      BY DEF JobInvariant, TypeOK, ControlState
    <3> QED BY <2>2, <3>1 DEF Copy, JobInvariant, TypeOK, PublishedIsLive
  <2>3. ASSUME NEW m \in Recipient, CopyFails(m)
        PROVE  env' \in [Machine -> File] /\ \A n \in Machine : env'[n] \in Pair => Live(env'[n])
    BY <2>3 DEF CopyFails, File, JobInvariant, TypeOK, PublishedIsLive
  <2> QED BY <2>1, <2>2, <2>3 DEF Apply, GiveUp, Abandon, ApplyFails, ReadEnv, GoOn
<1> QED
  BY <1>1, <1>2, <1>3, <1>4, <1>5, ChainStays DEF JobInvariant, TypeOK, PublishedIsLive
\* The steps of a job.
LEMMA JobSteps ==
  ASSUME JobInvariant, NEW j \in Job, JobStep(j) \/ Dies(j)
  PROVE  JobInvariant'
<1> DEFINE job == jobs[j]
<1>0. /\ chain \in Seq(Mined) /\ Len(chain) \in Nat
      /\ job \in JobState /\ Knows(job) /\ job.authority \in 0..Len(chain)
      /\ job.nonce \in Nat /\ job.dark \in 0..Len(chain)
  <2>1. chain \in Seq(Mined) /\ job \in JobState /\ Knows(job)
    BY DEF JobInvariant, TypeOK
  <2>2. Len(chain) \in Nat
    BY <2>1, LenProperties
  <2> QED BY <2>1, <2>2 DEF JobState
<1>ends. ASSUME Fails(j), failures' \in 0..MaxFailures PROVE JobInvariant'
  <2>1. UNCHANGED <<chain, pool, handoff, env, network>>
    BY <1>ends DEF Fails, network
  <2>2. /\ (jobs \in [Job -> JobState])' /\ \A i \in Job : Knows(jobs[i])'
        /\ (control \in ControlState)' /\ control'.payload = control.payload
    BY <1>ends, JobEnds DEF Fails, network
  <2> QED
    BY <1>ends, <2>1, <2>2, ChainStays DEF JobInvariant, TypeOK, PublishedIsLive
\* A step that changes the job and, maybe, one of the two files.
<1>moves. ASSUME NEW next \in JobState, Knows(next), Set(j, next),
                 UNCHANGED <<network, control, failures>>,
                 handoff' \in File, env' \in [Machine -> File],
                 handoff' \in Pair => Live(handoff'),
                 \A m \in Machine : env'[m] \in Pair => Live(env'[m])
          PROVE  JobInvariant'
  <2>1. (jobs \in [Job -> JobState])' /\ \A i \in Job : Knows(jobs[i])'
    BY <1>moves, JobChanges DEF Set
  <2> QED
    BY <1>moves, <2>1, ChainStays DEF JobInvariant, TypeOK, PublishedIsLive, network, ControlState
<1>files. /\ handoff \in File /\ env \in [Machine -> File]
          /\ handoff \in Pair => Live(handoff)
          /\ \A m \in Machine : env[m] \in Pair => Live(env[m])
          /\ failures \in 0..MaxFailures
  BY DEF JobInvariant, TypeOK, PublishedIsLive
<1>1. CASE Fresh(j)
  <2> DEFINE next == [job EXCEPT !.pc = "count"]
  <2>1. next \in JobState /\ Knows(next)
    BY <1>0 DEF JobState, Knows
  <2> QED BY <1>1, <1>moves, <1>files, <2>1 DEF Fresh
<1>2. CASE Existing(j)
  <2> DEFINE next == [pc |-> "env", nonce |-> 0, authority |-> handoff.authority,
                      dark |-> handoff.dark]
  <2>1. /\ handoff.authority \in 1..Len(chain) /\ handoff.dark \in 1..Len(chain)
        /\ IsAuthority(handoff.authority) /\ IsDarkOn(handoff.dark, handoff.authority)
    BY <1>2, <1>files DEF Existing, Verified, CodeAt, Live
  <2>2. handoff.authority \in 0..Len(chain) /\ handoff.dark \in 0..Len(chain)
        /\ handoff.authority # 0
    BY <1>0, <2>1
  <2>3. next \in JobState
    BY <2>2 DEF JobState
  <2>4. Knows(next)
    BY <2>1, <2>2 DEF Knows
  <2> QED BY <1>2, <1>moves, <1>files, <2>3, <2>4 DEF Existing
<1>3. CASE Refuse(j) \/ Rejected(j) \/ ReceiptFailed(j)
  BY <1>3, <1>ends, <1>files DEF Refuse, Rejected, ReceiptFailed
<1>4. CASE Dies(j)
  <2>1. failures' \in 0..MaxFailures
    BY <1>4, <1>files DEF Dies, Failure
  <2> QED BY <1>4, <2>1, <1>ends DEF Dies
<1>5. CASE Count(j)
  <2> DEFINE next == [pc |-> "send", nonce |-> Len(chain) + 1, authority |-> 0, dark |-> 0]
  <2>1. next \in JobState
    <3>1. Len(chain) + 1 \in Nat /\ 0 \in 0..Len(chain)
      BY <1>0
    <3> QED BY <3>1 DEF JobState
  <2>2. Knows(next)
    BY DEF Knows
  <2> QED BY <1>5, <1>moves, <1>files, <2>1, <2>2 DEF Count
<1>6. CASE Receipt(j)
  <2>1. /\ job.nonce \in 1..Len(chain) /\ chain[job.nonce].ok
        /\ chain[job.nonce].tx = Transaction(job)
    BY <1>6, <1>0 DEF Receipt, IsMined, Knows
  <2>2. Deployed(job) \in JobState /\ Knows(Deployed(job))
    <3>1. CASE job.authority = 0
      <4>1. job.nonce + 1 \in Nat /\ job.nonce \in 0..Len(chain) /\ 0 \in 0..Len(chain)
        BY <1>0, <2>1
      <4>2. IsAuthority(job.nonce)
        BY <2>1, <3>1 DEF Transaction, IsAuthority
      <4> QED BY <3>1, <4>1, <4>2 DEF Deployed, JobState, Knows
    <3>2. CASE job.authority # 0
      <4>1. job.nonce \in 0..Len(chain) /\ job.nonce \in Nat /\ job.authority \in 0..Len(chain)
        BY <1>0, <2>1
      <4>2. IsDarkOn(job.nonce, job.authority)
        BY <2>1, <3>2 DEF Transaction, IsDarkOn
      <4>3. IsAuthority(job.authority)
        BY <1>0, <3>2 DEF Knows
      <4> QED BY <3>2, <4>1, <4>2, <4>3 DEF Deployed, JobState, Knows
    <3> QED BY <3>1, <3>2
  <2> QED BY <1>6, <1>moves, <1>files, <2>2 DEF Receipt
<1>7. CASE Send(j)
  <2>1. UNCHANGED <<chain, handoff, env, control, failures>> /\ Transaction(job) \in Tx
    BY <1>7, <1>0 DEF Send, Transaction, Tx
  <2>2. \A i \in Job : jobs[i].pc = "wait" => jobs[i].nonce \in 1..Len(chain)
    <3>1. pool = NoTx /\ NoTx \notin Tx
      BY <1>7, ValueAssumption DEF Send, Accepted
    <3>2. ASSUME NEW i \in Job PROVE Transaction(jobs[i]) \in Tx /\ Knows(jobs[i])
      <4>1. jobs[i] \in JobState /\ Knows(jobs[i])
        BY DEF JobInvariant, TypeOK
      <4>2. jobs[i].authority \in 0..Len(chain)
        BY <4>1 DEF JobState
      <4> QED BY <1>0, <4>1, <4>2 DEF Transaction, Tx
    <3> QED BY <3>1, <3>2 DEF Knows
  <2>3. jobs' \in [Job -> JobState] /\ JobState' = JobState
    BY <1>7, <1>0, <2>1 DEF Send, Set, JobState, JobInvariant, TypeOK
  <2>4. ASSUME NEW i \in Job PROVE Knows(jobs[i])'
    <3>1. CASE i = j
      <4>1. /\ jobs'[i] = [job EXCEPT !.pc = "wait"] /\ job.nonce = Len(chain) + 1
            /\ pool' = Transaction(job)
        BY <1>7, <3>1 DEF Send, Set, Accepted, JobInvariant, TypeOK
      <4> QED BY <4>1, <1>0, <2>1, ChainStays DEF Knows, Transaction, JobState
    <3>2. CASE i # j
      <4>1. jobs'[i] = jobs[i]
        BY <1>7, <3>2 DEF Send, Set, JobInvariant, TypeOK
      <4>2. Knows(jobs[i]) /\ (jobs[i].pc = "wait" => jobs[i].nonce # Len(chain) + 1)
        BY <1>0, <2>2 DEF JobInvariant
      <4> QED BY <4>1, <4>2, <2>1, ChainStays DEF Knows, Transaction
    <3> QED BY <3>1, <3>2
  <2> QED
    BY <1>7, <2>1, <2>3, <2>4, ChainStays
    DEF Send, JobInvariant, TypeOK, PublishedIsLive
<1>8. CASE WriteHandoff(j)
  <2> DEFINE next == [job EXCEPT !.pc = "writing"]
  <2>1. next \in JobState /\ Knows(next)
    BY <1>8, <1>0 DEF JobState, Knows, WriteHandoff
  <2> QED BY <1>8, <1>moves, <1>files, <2>1 DEF WriteHandoff, File
<1>written. ASSUME job.pc \in {"writing", "writing env"}
            PROVE  Written(j) \in File /\ Live(Written(j))
  <2>1. IsAuthority(job.authority) /\ IsDarkOn(job.dark, job.authority)
    BY <1>written, <1>0 DEF Knows
  <2>2. job.authority \in Nat /\ job.dark \in Nat
    BY <1>0
  <2> QED BY <2>1, <2>2 DEF Written, Live, Pair, File
<1>9. CASE EndHandoff(j)
  <2> DEFINE next == [job EXCEPT !.pc = "env"]
  <2>1. next \in JobState /\ Knows(next)
    BY <1>9, <1>0 DEF JobState, Knows, EndHandoff
  <2> QED BY <1>9, <1>moves, <1>files, <1>written, <2>1 DEF EndHandoff
<1>10. CASE WriteEnv(j)
  <2> DEFINE next == [job EXCEPT !.pc = "writing env"]
  <2>1. next \in JobState /\ Knows(next)
    BY <1>10, <1>0 DEF JobState, Knows, WriteEnv
  <2>2. env' \in [Machine -> File] /\ \A m \in Machine : env'[m] \in Pair => Live(env'[m])
    BY <1>10, <1>files DEF WriteEnv, File
  <2> QED BY <1>10, <1>moves, <1>files, <2>1, <2>2 DEF WriteEnv
<1>11. CASE EndEnv(j)
  <2>1. env' \in [Machine -> File] /\ \A m \in Machine : env'[m] \in Pair => Live(env'[m])
    BY <1>11, <1>files, <1>written DEF EndEnv
  <2>2. /\ (jobs \in [Job -> JobState])' /\ \A i \in Job : Knows(jobs[i])'
        /\ (control \in ControlState)' /\ control'.payload = control.payload
    BY <1>11, JobEnds DEF EndEnv, network
  <2> QED
    BY <1>11, <1>files, <2>1, <2>2, ChainStays
    DEF EndEnv, JobInvariant, TypeOK, PublishedIsLive, network
<1> QED
  BY <1>1, <1>2, <1>3, <1>4, <1>5, <1>6, <1>7, <1>8, <1>9, <1>10, <1>11 DEF JobStep

\* The network's step.
LEMMA MineStep ==
  ASSUME JobInvariant, Mine
  PROVE  JobInvariant'
<1>1. PICK block \in Mined : chain' = Append(chain, block) /\ block.tx = pool
  <2>1. pool \in Tx
    BY DEF Mine, JobInvariant, TypeOK
  <2>2. \A ok \in BOOLEAN : [tx |-> pool, ok |-> ok] \in Mined
    BY <2>1 DEF Mined
  <2>3. \E ok \in BOOLEAN : chain' = Append(chain, [tx |-> pool, ok |-> ok])
    BY DEF Mine
  <2> QED BY <2>2, <2>3
<1>2. chain \in Seq(Mined) /\ Len(chain) \in Nat
  BY LenProperties DEF JobInvariant, TypeOK
<1>3. /\ chain' \in Seq(Mined) /\ Len(chain') = Len(chain) + 1
      /\ \A a \in 1..Len(chain) : chain'[a] = chain[a]
      /\ chain'[Len(chain) + 1] = block
  BY <1>1, <1>2, ChainGrows
<1>4. /\ \A a : IsAuthority(a) => IsAuthority(a)'
      /\ \A d, a : IsDarkOn(d, a) => IsDarkOn(d, a)'
      /\ \A pair : Live(pair) => Live(pair)'
  BY <1>1, <1>2, ChainGrows
<1>5. UNCHANGED <<handoff, env, jobs, control>> /\ pool' = NoTx /\ pool # NoTx
  BY DEF Mine
<1>6. failures' \in 0..MaxFailures
  BY DEF Mine, Failure, JobInvariant, TypeOK
<1>7. jobs' \in [Job -> JobState']
  <2>1. 0..Len(chain) \subseteq 0..Len(chain')
    BY <1>2, <1>3
  <2>2. JobState \subseteq JobState'
    BY <2>1 DEF JobState
  <2> QED BY <1>5, <2>2 DEF JobInvariant, TypeOK
<1>8. ASSUME NEW j \in Job PROVE Knows(jobs[j])'
  <2>1. Knows(jobs[j]) /\ jobs'[j] = jobs[j]
    BY <1>5 DEF JobInvariant
  <2>2. jobs[j].pc = "wait" =>
          jobs[j].nonce \in 1..Len(chain') /\ chain'[jobs[j].nonce].tx = Transaction(jobs[j])
    BY <1>1, <1>2, <1>3, <2>1 DEF Knows
  <2> QED BY <1>4, <2>1, <2>2 DEF Knows, Transaction
<1>9. PublishedIsLive' /\ (control.payload \in Pair => Live(control.payload))'
  BY <1>4, <1>5 DEF JobInvariant, PublishedIsLive
<1> QED
  BY <1>3, <1>5, <1>6, <1>7, <1>8, <1>9 DEF JobInvariant, TypeOK, ControlState

LEMMA AttemptStep ==
  ASSUME JobInvariant, NEW j \in Job, Attempt(j)
  PROVE  JobInvariant'
<1> DEFINE next == [Off EXCEPT !.pc = "start"]
<1>1. next \in JobState /\ Knows(next)
  <2>1. Len(chain) \in Nat
    BY LenProperties DEF JobInvariant, TypeOK
  <2>2. next = [pc |-> "start", nonce |-> 0, authority |-> 0, dark |-> 0]
    BY DEF Off
  <2> HIDE DEF next
  <2>3. 0 \in 0..Len(chain)
    BY <2>1
  <2> QED BY <2>2, <2>3 DEF JobState, Knows
<1>2. UNCHANGED <<network, chain, pool, handoff, env, failures>>
      /\ jobs' = [jobs EXCEPT ![j] = next]
  BY DEF Attempt, network
<1>3. (jobs \in [Job -> JobState])' /\ \A i \in Job : Knows(jobs[i])'
  BY <1>1, <1>2, JobChanges
<1>4. control' \in ControlState /\ control'.payload = control.payload
  <2>1. control \in ControlState
    BY DEF JobInvariant, TypeOK
  <2> QED BY <2>1 DEF Attempt, ControlState
<1> QED
  BY <1>2, <1>3, <1>4, ChainStays DEF JobInvariant, TypeOK, PublishedIsLive, ControlState

LEMMA StepHolds == JobInvariant /\ [Next]_vars => JobInvariant'
<1> SUFFICES ASSUME JobInvariant, [Next]_vars PROVE JobInvariant'
  OBVIOUS
<1>1. CASE Mine
  BY <1>1, MineStep
<1>2. ASSUME NEW j \in Job, JobStep(j) \/ Dies(j) PROVE JobInvariant'
  BY <1>2, JobSteps
<1>3. ASSUME NEW j \in Job, Attempt(j) PROVE JobInvariant'
  BY <1>3, AttemptStep
<1>4. CASE \/ Apply \/ GiveUp \/ Abandon \/ ApplyFails \/ ReadEnv \/ GoOn
           \/ \E m \in Recipient : Copy(m) \/ CopyFails(m)
  BY <1>4, ControlSteps
<1>5. CASE UNCHANGED vars
  <2>1. UNCHANGED <<chain, pool, handoff, env, jobs, control, failures>>
    BY <1>5 DEF vars, network
  <2> QED
    BY <2>1, ChainStays
    DEF JobInvariant, TypeOK, PublishedIsLive, Knows, JobState, ControlState, Transaction
<1> QED BY <1>1, <1>2, <1>3, <1>4, <1>5 DEF Next, ControlStep

-----------------------------------------------------------------------------
\* The inductive invariant of the job: what each attempt has seen of the chain is
\* still so when it acts on it, whichever other attempts there are.
THEOREM InvariantHolds == Specification => []JobInvariant
BY InitHolds, StepHolds, PTL DEF Specification

\* Every variable of the job, of the controller's loop and of the chain has its
\* type; the addresses a job holds are positions of the chain.
THEOREM TypeCorrect == Specification => []TypeOK
<1>1. JobInvariant => TypeOK
  BY DEF JobInvariant
<1> QED BY <1>1, InvariantHolds, PTL

\* What is published is live (contracts.py, main), for any number of attempts,
\* failures and recipients, abandoned and overlapping attempts included.
THEOREM PublishedStaysLive == Specification => []PublishedIsLive
<1>1. JobInvariant => PublishedIsLive
  BY DEF JobInvariant
<1> QED BY <1>1, InvariantHolds, PTL

-----------------------------------------------------------------------------
(* While attempts do not overlap, one container is at work at most, also one *)
(* that an earlier attempt left behind, and contracts.json is what this one  *)
(* has made of it.                                                           *)

Solo == \A i, j \in Running : i = j

Wrote(j) ==
  /\ jobs[j].pc \in {"count", "send", "wait", "handoff"} => handoff = NoFile
  /\ jobs[j].pc = "writing" => handoff = Torn
  /\ jobs[j].pc \in {"env", "writing env"} => handoff = Written(j) /\ Written(j) \in Pair

Holds(m) == env[m] = handoff \/ "unwritten" \in Environment
Handed ==
  control.pc \in {"read", "copy", "done"} =>
    /\ Running = {} /\ handoff \in Pair /\ env[Producer] = handoff
    /\ control.pc = "copy" =>
         control.payload = handoff /\ \A m \in Recipient : m \in control.todo \/ Holds(m)
    /\ control.pc = "done" => \A m \in Recipient : Holds(m)

SoloInvariant == Solo /\ Handed /\ \A j \in Job : Wrote(j)

LEMMA InitSolo == Init => SoloInvariant
<1> SUFFICES ASSUME Init PROVE SoloInvariant
  OBVIOUS
<1>1. control.pc = "idle" /\ \A j \in Job : jobs[j].pc = "off"
  BY DEF Init, Idle, Off
<1> QED
  BY <1>1 DEF SoloInvariant, Solo, Running, Handed, Wrote

\* A step of the one job that is at work, which leaves the controller in
\* "trying" or elsewhere before the distribution.
LEMMA SoloJob ==
  ASSUME TypeOK, SoloInvariant, NEW j \in Job, jobs[j].pc # "off", NEW job, Set(j, job),
         Wrote(j)', UNCHANGED control
  PROVE  SoloInvariant'
<1>1. jobs'[j] = job /\ \A i \in Job \ {j} : jobs'[i] = jobs[i] /\ jobs[i].pc = "off"
  BY DEF TypeOK, Set, SoloInvariant, Solo, Running
<1>2. control.pc \notin {"read", "copy", "done"}
  BY DEF SoloInvariant, Handed, Holds, Running
<1>3. \A i \in Job : Wrote(i)'
  BY <1>1 DEF Wrote
<1> QED
  BY <1>1, <1>2, <1>3 DEF SoloInvariant, Solo, Running, Handed, Holds

\* A job that ends: nobody is at work after it.
LEMMA SoloEnd ==
  ASSUME TypeOK, SoloInvariant, NEW j \in Job, jobs[j].pc # "off", Set(j, Off),
         NEW pc \in {"trying", "read"}, Returns(j, pc),
         pc = "read" => handoff' \in Pair /\ env'[Producer] = handoff'
  PROVE  SoloInvariant'
<1>1. \A i \in Job : jobs'[i].pc = "off"
  BY DEF TypeOK, Set, Off, SoloInvariant, Solo, Running
<1>2. control.pc \notin {"read", "copy", "done"}
  BY DEF SoloInvariant, Handed, Holds, Running
<1>3. control'.pc = pc \/ control' = control
  BY DEF Returns, TypeOK, ControlState
<1>4. Handed'
  BY <1>1, <1>2, <1>3 DEF Handed, Holds, Running
<1> QED
  BY <1>1, <1>4 DEF SoloInvariant, Solo, Running, Wrote

\* What a job would write is a pair of addresses.
LEMMA WrittenIsPair ==
  ASSUME TypeOK, NEW j \in Job
  PROVE  Written(j) \in Pair
<1>1. jobs[j] \in JobState /\ Len(chain) \in Nat
  BY DEF TypeOK
<1>2. jobs[j].authority \in 0..Len(chain) /\ jobs[j].dark \in 0..Len(chain)
  BY <1>1 DEF JobState
<1>3. jobs[j].authority \in Nat /\ jobs[j].dark \in Nat
  BY <1>1, <1>2
<1> QED
  BY <1>3 DEF Written, Pair

LEMMA SoloJobSteps ==
  ASSUME TypeOK, SoloInvariant, NEW j \in Job, JobStep(j) \/ Dies(j)
  PROVE  SoloInvariant' /\ (handoff \in Pair => handoff' = handoff)
<1>0. jobs[j].pc # "off" /\ Wrote(j) /\ jobs[j] \in JobState
  BY DEF JobStep, Fresh, Existing, Refuse, Count, Send, Rejected, Receipt, ReceiptFailed,
         WriteHandoff, EndHandoff, WriteEnv, EndEnv, Dies, SoloInvariant, TypeOK
<1>1. \A job : Set(j, job) => jobs'[j] = job
  BY DEF Set, TypeOK
<1>2. CASE Fresh(j)
  <2>1. /\ Set(j, [jobs[j] EXCEPT !.pc = "count"]) /\ handoff = NoFile
        /\ UNCHANGED <<handoff, control>>
    BY <1>2 DEF Fresh
  <2>2. jobs'[j].pc = "count"
    BY <1>0, <1>1, <2>1 DEF JobState
  <2> QED
    BY <1>0, <2>1, <2>2, SoloJob DEF Wrote
<1>3. CASE Existing(j)
  <2> DEFINE next == [pc |-> "env", nonce |-> 0, authority |-> handoff.authority,
                      dark |-> handoff.dark]
  <2>1. Set(j, next) /\ handoff \in Pair /\ UNCHANGED <<handoff, control>>
    BY <1>3 DEF Existing, Verified
  <2>2. jobs'[j] = next
    BY <1>1, <2>1
  <2>3. Written(j)' = handoff
    BY <2>1, <2>2 DEF Written, Pair
  <2>4. Wrote(j)'
    BY <2>1, <2>2, <2>3 DEF Wrote
  <2> QED
    BY <1>0, <2>1, <2>4, SoloJob
<1>4. CASE Refuse(j) \/ Rejected(j) \/ ReceiptFailed(j) \/ Dies(j)
  <2>1. Set(j, Off) /\ Returns(j, "trying") /\ UNCHANGED handoff
    BY <1>4 DEF Refuse, Rejected, ReceiptFailed, Dies, Fails
  <2> QED
    BY <1>0, <2>1, SoloEnd
<1>5. CASE Count(j)
  <2> DEFINE next == [pc |-> "send", nonce |-> Len(chain) + 1, authority |-> 0, dark |-> 0]
  <2>1. jobs[j].pc = "count" /\ Set(j, next) /\ UNCHANGED <<handoff, control>>
    BY <1>5 DEF Count
  <2>2. jobs'[j].pc = "send"
    BY <1>1, <2>1
  <2> QED
    BY <1>0, <2>1, <2>2, SoloJob DEF Wrote
<1>6. CASE Send(j)
  <2>1. /\ jobs[j].pc = "send" /\ Set(j, [jobs[j] EXCEPT !.pc = "wait"])
        /\ UNCHANGED <<handoff, control>>
    BY <1>6 DEF Send
  <2>2. jobs'[j].pc = "wait"
    BY <1>0, <1>1, <2>1 DEF JobState
  <2> QED
    BY <1>0, <2>1, <2>2, SoloJob DEF Wrote
<1>7. CASE Receipt(j)
  <2>1. jobs[j].pc = "wait" /\ Set(j, Deployed(jobs[j])) /\ UNCHANGED <<handoff, control>>
    BY <1>7 DEF Receipt
  <2>2. jobs'[j].pc \in {"send", "handoff"}
    BY <1>1, <2>1 DEF Deployed
  <2> QED
    BY <1>0, <2>1, <2>2, SoloJob DEF Wrote
<1>8. CASE WriteHandoff(j)
  <2>1. /\ jobs[j].pc = "handoff" /\ Set(j, [jobs[j] EXCEPT !.pc = "writing"])
        /\ handoff' = Torn /\ UNCHANGED control
    BY <1>8 DEF WriteHandoff
  <2>2. jobs'[j].pc = "writing"
    BY <1>0, <1>1, <2>1 DEF JobState
  <2>3. handoff \notin Pair
    BY <1>0, <2>1, ValueAssumption DEF Wrote
  <2> QED
    BY <1>0, <2>1, <2>2, <2>3, SoloJob DEF Wrote
<1>9. CASE EndHandoff(j)
  <2>1. /\ jobs[j].pc = "writing" /\ Set(j, [jobs[j] EXCEPT !.pc = "env"])
        /\ handoff' = Written(j) /\ UNCHANGED control
    BY <1>9 DEF EndHandoff
  <2>2. jobs'[j].pc = "env" /\ Written(j)' = Written(j)
    BY <1>0, <1>1, <2>1 DEF JobState, Written
  <2>3. Written(j) \in Pair
    BY WrittenIsPair
  <2>4. handoff \notin Pair
    BY <1>0, <2>1, ValueAssumption DEF Wrote
  <2>5. Wrote(j)'
    BY <2>1, <2>2, <2>3 DEF Wrote
  <2> QED
    BY <1>0, <2>1, <2>4, <2>5, SoloJob
<1>10. CASE WriteEnv(j)
  <2>1. /\ jobs[j].pc = "env" /\ Set(j, [jobs[j] EXCEPT !.pc = "writing env"])
        /\ UNCHANGED <<handoff, control>>
    BY <1>10 DEF WriteEnv
  <2>2. jobs'[j].pc = "writing env" /\ Written(j)' = Written(j)
    BY <1>0, <1>1, <2>1 DEF JobState, Written
  <2>3. Wrote(j)'
    BY <1>0, <2>1, <2>2 DEF Wrote
  <2> QED
    BY <1>0, <2>1, <2>3, SoloJob
<1>11. CASE EndEnv(j)
  <2>1. /\ jobs[j].pc = "writing env" /\ Set(j, Off) /\ Returns(j, "read")
        /\ env' = [env EXCEPT ![Producer] = Written(j)] /\ UNCHANGED handoff
    BY <1>11 DEF EndEnv
  <2>2. env'[Producer] = Written(j)
    BY <2>1 DEF TypeOK, Machine
  <2>3. handoff' \in Pair /\ env'[Producer] = handoff'
    BY <1>0, <2>1, <2>2 DEF Wrote
  <2> QED
    BY <1>0, <2>1, <2>3, SoloEnd
<1> QED
  BY <1>2, <1>3, <1>4, <1>5, <1>6, <1>7, <1>8, <1>9, <1>10, <1>11 DEF JobStep

LEMMA SoloControl ==
  ASSUME "overlap" \notin Environment, TypeOK, SoloInvariant,
         \/ Apply \/ GiveUp \/ Abandon \/ ApplyFails \/ ControlStep
         \/ \E m \in Recipient : CopyFails(m)
  PROVE  SoloInvariant' /\ handoff' = handoff
<1>1. ASSUME UNCHANGED <<handoff, jobs>>, Handed' PROVE SoloInvariant' /\ handoff' = handoff
  BY <1>1 DEF SoloInvariant, Solo, Running, Wrote, Written
<1>2. CASE Apply \/ GiveUp \/ ApplyFails
  <2>1. control'.pc \in {"idle", "trying"} /\ UNCHANGED <<handoff, jobs>>
    BY <1>2 DEF Apply, GiveUp, ApplyFails, Idle
  <2> QED
    BY <1>1, <2>1 DEF Handed
<1>3. CASE Abandon
  <2>1. /\ control'.pc = control.pc /\ control'.payload = control.payload
        /\ control'.todo = control.todo /\ UNCHANGED <<handoff, env, jobs>>
    BY <1>3 DEF Abandon, TypeOK, ControlState
  <2> QED
    BY <1>1, <2>1 DEF SoloInvariant, Handed, Holds, Running
<1>4. CASE ReadEnv
  <2>1. /\ control.pc = "read" /\ control'.pc = "copy" /\ control'.payload = env[Producer]
        /\ control'.todo = Recipient /\ UNCHANGED <<handoff, env, jobs>>
    BY <1>4 DEF ReadEnv, TypeOK, ControlState
  <2> QED
    BY <1>1, <2>1 DEF SoloInvariant, Handed, Holds, Running
<1>5. ASSUME NEW m \in Recipient, Copy(m) PROVE SoloInvariant' /\ handoff' = handoff
  <2>1. /\ control.pc = "copy" /\ control'.pc = "copy" /\ control'.payload = control.payload
        /\ control'.todo = control.todo \ {m} /\ UNCHANGED <<handoff, jobs>>
    BY <1>5 DEF Copy, TypeOK, ControlState
  <2>2. /\ env'[m] = control.payload
        /\ \A other \in Machine : other # m => env'[other] = env[other]
    BY <1>5 DEF Copy, TypeOK, Machine
  <2>3. Producer \in Machine /\ Producer # m /\ Recipient \subseteq Machine
    BY ContractsAssumption DEF Machine
  <2>4. Handed'
    BY <2>1, <2>2, <2>3 DEF SoloInvariant, Handed, Holds, Running
  <2> QED
    BY <1>1, <2>1, <2>4
<1>6. CASE GoOn
  <2>1. /\ control.pc = "copy" /\ control.todo = {} /\ control'.pc = "done"
        /\ UNCHANGED <<handoff, env, jobs>>
    BY <1>6 DEF GoOn, TypeOK, ControlState
  <2> QED
    BY <1>1, <2>1 DEF SoloInvariant, Handed, Holds, Running
<1>7. ASSUME NEW j \in Job, Attempt(j) PROVE SoloInvariant' /\ handoff' = handoff
  <2>1. /\ \A i \in Job : jobs[i].pc = "off"
        /\ jobs'[j].pc = "start" /\ \A i \in Job \ {j} : jobs'[i] = jobs[i]
        /\ control'.pc = "trying" /\ handoff' = handoff
    BY <1>7 DEF Attempt, Running, Off, TypeOK, ControlState
  <2>2. Solo' /\ Handed'
    BY <2>1 DEF Solo, Running, Handed, Holds
  <2>3. \A i \in Job : jobs'[i].pc \in {"off", "start"}
    BY <2>1
  <2>4. \A i \in Job : Wrote(i)'
    BY <2>3 DEF Wrote
  <2> QED
    BY <2>1, <2>2, <2>4 DEF SoloInvariant
<1>8. ASSUME NEW m \in Recipient, CopyFails(m) PROVE SoloInvariant' /\ handoff' = handoff
  <2>1. /\ control.pc = "copy" /\ UNCHANGED <<handoff, jobs>> /\ m # Producer /\ Producer \in Machine
        /\ \A other \in Machine : other # m => env'[other] = env[other]
    BY <1>8, ContractsAssumption DEF CopyFails, TypeOK, Machine
  <2>2. CASE control' = Idle
    BY <1>1, <2>1, <2>2 DEF Handed, Idle
  <2>3. CASE "unwritten" \in Environment /\ control' = [control EXCEPT !.todo = @ \ {m}]
    <3>1. control'.pc = "copy" /\ control'.payload = control.payload
      BY <2>1, <2>3 DEF TypeOK, ControlState
    <3>2. Handed'
      BY <2>1, <2>3, <3>1 DEF SoloInvariant, Handed, Holds, Running
    <3> QED
      BY <1>1, <2>1, <3>2
  <2> QED
    BY <1>8, <2>2, <2>3 DEF CopyFails
<1> QED
  BY <1>2, <1>3, <1>4, <1>5, <1>6, <1>7, <1>8 DEF ControlStep

LEMMA SoloStep ==
  ASSUME "overlap" \notin Environment, TypeOK, SoloInvariant, [Next]_vars
  PROVE  SoloInvariant' /\ (handoff \in Pair => handoff' = handoff)
<1>1. CASE Apply \/ GiveUp \/ Abandon \/ ApplyFails \/ ControlStep \/ \E m \in Recipient : CopyFails(m)
  BY <1>1, SoloControl
<1>2. CASE \E j \in Job : JobStep(j) \/ Dies(j)
  BY <1>2, SoloJobSteps
<1>3. CASE Mine \/ UNCHANGED vars
  <2>1. UNCHANGED <<handoff, env, jobs, control>>
    BY <1>3 DEF Mine, vars
  <2>2. Solo' /\ Handed'
    BY <2>1 DEF SoloInvariant, Solo, Running, Handed, Holds
  <2>3. \A j \in Job : Wrote(j)'
    BY <2>1 DEF SoloInvariant, Wrote, Written
  <2> QED
    BY <2>1, <2>2, <2>3 DEF SoloInvariant
<1> QED
  BY <1>1, <1>2, <1>3 DEF Next

LEMMA SoloHolds ==
  ASSUME "overlap" \notin Environment
  PROVE  Specification => []SoloInvariant
<1>1. TypeOK /\ SoloInvariant /\ [Next]_vars => SoloInvariant'
  BY SoloStep
<1> QED
  BY <1>1, InitSolo, TypeCorrect, PTL DEF Specification

\* apply goes on to the consumers with one pair on all machines, the one of
\* contracts.json, for any number of kills, broken connections and reverts, as
\* long as no recipient fails to write what it is sent.
THEOREM ConsumersHaveOnePair ==
  ASSUME "overlap" \notin Environment, "unwritten" \notin Environment
  PROVE  Specification => []ConsumersAgree
<1>1. SoloInvariant => ConsumersAgree
  <2> SUFFICES ASSUME SoloInvariant, control.pc = "done"
               PROVE  handoff \in Pair /\ \A m \in Machine : env[m] = handoff
    BY DEF ConsumersAgree
  <2> QED
    BY DEF SoloInvariant, Handed, Holds, Machine
<1> QED
  BY <1>1, SoloHolds, PTL

\* What a machine's contracts.env says is what contracts.json says.
OnePair == \A m \in Machine : env[m] \in Pair => env[m] = handoff

\* A step of a job: contracts.json is published, or the producer's file is cut or
\* written, or neither file says anything new.
LEMMA JobPromise ==
  ASSUME "overlap" \notin Environment, TypeOK, SoloInvariant, OnePair,
         NEW j \in Job, JobStep(j) \/ Dies(j)
  PROVE  OnePair' /\ [Promise!Next]_(Promise!vars)
<1> USE DEF Said
<1>0. /\ jobs[j].pc # "off" /\ Wrote(j) /\ (handoff \in Pair => handoff' = handoff)
      /\ NoFile \notin Pair /\ Torn \notin Pair
  BY SoloJobSteps, ValueAssumption
     DEF JobStep, Fresh, Existing, Refuse, Count, Send, Rejected, Receipt, ReceiptFailed,
         WriteHandoff, EndHandoff, WriteEnv, EndEnv, Dies, SoloInvariant
<1>1. /\ control.pc # "done" /\ control'.pc # "done"
      /\ Producer \in Machine /\ env \in [Machine -> File]
  BY <1>0
     DEF SoloInvariant, Handed, Running, Machine, TypeOK, ControlState, Returns, Fails,
         JobStep, Fresh, Existing, Refuse, Count, Send, Rejected, Receipt, ReceiptFailed,
         WriteHandoff, EndHandoff, WriteEnv, EndEnv, Dies
<1>2. CASE UNCHANGED <<handoff, env>>
  BY <1>1, <1>2 DEF OnePair, Promise!vars
<1>3. CASE WriteHandoff(j)
  <2>1. handoff \notin Pair /\ handoff' \notin Pair /\ UNCHANGED env
    BY <1>0, <1>3 DEF WriteHandoff, Wrote
  <2> QED
    BY <1>1, <2>1 DEF OnePair, Promise!vars
<1>4. CASE EndHandoff(j)
  <2>1. handoff \notin Pair /\ handoff' = Written(j) /\ UNCHANGED env
    BY <1>0, <1>4 DEF EndHandoff, Wrote
  <2>2. Written(j) \in Pair
    BY WrittenIsPair
  <2>3. OnePair'
    BY <2>1 DEF OnePair
  <2>4. Promise!Publish
    BY <1>0, <1>1, <2>1, <2>2 DEF Promise!Publish
  <2> QED
    BY <2>3, <2>4 DEF Promise!Next
<1>5. CASE WriteEnv(j)
  <2>1. UNCHANGED handoff /\ env' = [env EXCEPT ![Producer] = Torn]
    BY <1>5 DEF WriteEnv
  <2>2. OnePair'
    BY <1>0, <1>1, <2>1 DEF OnePair
  <2>3. Promise!Lose(Producer)
    BY <1>0, <1>1, <2>1 DEF Promise!Lose
  <2> QED
    BY <1>1, <2>2, <2>3 DEF Promise!Next
<1>6. CASE EndEnv(j)
  <2>1. /\ UNCHANGED handoff /\ env' = [env EXCEPT ![Producer] = handoff]
        /\ handoff \in Pair
    BY <1>0, <1>6 DEF EndEnv, Wrote
  <2>2. OnePair'
    BY <1>1, <2>1 DEF OnePair
  <2>3. Promise!Take(Producer)
    BY <1>0, <1>1, <2>1 DEF Promise!Take
  <2> QED
    BY <1>1, <2>2, <2>3 DEF Promise!Next
<1> QED
  BY <1>2, <1>3, <1>4, <1>5, <1>6
     DEF JobStep, Fresh, Existing, Refuse, Count, Send, Rejected, Receipt, ReceiptFailed, Dies, Fails

\* A step of the controller: a machine takes the pair, or apply goes on, or stops.
LEMMA ControlPromise ==
  ASSUME "overlap" \notin Environment, "unwritten" \notin Environment, TypeOK, SoloInvariant, OnePair,
         \/ Apply \/ GiveUp \/ Abandon \/ ApplyFails \/ ControlStep
         \/ \E m \in Recipient : CopyFails(m)
  PROVE  OnePair' /\ [Promise!Next]_(Promise!vars)
<1> USE DEF Said
<1>0. env \in [Machine -> File] /\ control \in ControlState /\ Recipient \subseteq Machine
  BY DEF TypeOK, Machine
<1>1. CASE Apply \/ GiveUp \/ ApplyFails
  <2>1. UNCHANGED <<handoff, env>> /\ control'.pc # "done"
    BY <1>1 DEF Apply, GiveUp, ApplyFails, Idle
  <2>2. Promise!Stop
    BY <2>1 DEF Promise!Stop
  <2> QED
    BY <2>1, <2>2 DEF OnePair, Promise!Next
<1>2. CASE Abandon \/ ReadEnv \/ \E j \in Job : Attempt(j)
  <2>1. UNCHANGED <<handoff, env>> /\ (control'.pc = "done" <=> control.pc = "done")
    BY <1>0, <1>2 DEF Abandon, ReadEnv, Attempt, ControlState
  <2> QED
    BY <2>1 DEF OnePair, Promise!vars
<1>3. CASE GoOn
  <2>1. /\ UNCHANGED <<handoff, env>> /\ control'.pc = "done"
        /\ handoff \in Pair /\ \A m \in Machine : env[m] = handoff
    BY <1>0, <1>3 DEF GoOn, ControlState, SoloInvariant, Handed, Holds, Machine
  <2>2. Promise!Serve
    BY <2>1, ValueAssumption DEF Promise!Serve
  <2> QED
    BY <2>1, <2>2 DEF OnePair, Promise!Next
<1>4. ASSUME NEW m \in Recipient, Copy(m) PROVE OnePair' /\ [Promise!Next]_(Promise!vars)
  <2>1. /\ UNCHANGED handoff /\ env' = [env EXCEPT ![m] = handoff] /\ handoff \in Pair
        /\ control.pc # "done" /\ control'.pc # "done"
    BY <1>0, <1>4 DEF Copy, ControlState, SoloInvariant, Handed
  <2>2. OnePair'
    BY <1>0, <2>1 DEF OnePair
  <2>3. Promise!Take(m)
    BY <1>0, <2>1, ValueAssumption DEF Promise!Take
  <2> QED
    BY <1>0, <2>2, <2>3 DEF Promise!Next
<1>5. ASSUME NEW m \in Recipient, CopyFails(m) PROVE OnePair' /\ [Promise!Next]_(Promise!vars)
  <2>1. /\ UNCHANGED handoff /\ env' = [env EXCEPT ![m] = Torn] /\ Torn \notin Pair
        /\ control.pc # "done" /\ control'.pc # "done"
    BY <1>0, <1>5, ValueAssumption DEF CopyFails, ControlState, Idle
  <2>2. OnePair'
    BY <1>0, <2>1 DEF OnePair
  <2>3. Promise!Lose(m)
    BY <1>0, <2>1 DEF Promise!Lose
  <2> QED
    BY <1>0, <2>2, <2>3 DEF Promise!Next
<1> QED
  BY <1>1, <1>2, <1>3, <1>4, <1>5 DEF ControlStep

\* contracts.json, the copies and the controller keep what Publication promises:
\* one pair, written once, which every machine has while apply is at the consumers.
THEOREM JobKeepsPublication ==
  ASSUME "overlap" \notin Environment, "unwritten" \notin Environment
  PROVE  Specification => PublicationKept
<1>1. Init => OnePair /\ Promise!Init
  BY ValueAssumption DEF Init, Idle, OnePair, Said, Promise!Init
<1>2. TypeOK /\ SoloInvariant /\ OnePair /\ [Next]_vars
        => OnePair' /\ [Promise!Next]_(Promise!vars)
  <2> SUFFICES ASSUME TypeOK, SoloInvariant, OnePair, [Next]_vars
               PROVE  OnePair' /\ [Promise!Next]_(Promise!vars)
    OBVIOUS
  <2>1. CASE Mine \/ UNCHANGED vars
    BY <2>1 DEF Mine, vars, OnePair, Promise!vars
  <2> QED
    BY <2>1, JobPromise, ControlPromise DEF Next
<1> QED
  BY <1>1, <1>2, SoloHolds, TypeCorrect, PTL
     DEF Specification, PublicationKept, Promise!Specification

-----------------------------------------------------------------------------
(* How many Authorities are deployed: another one is sent only when the last *)
(* was given up with the job that sent it, which takes a failure.            *)

Authorities == {a \in 1..Len(chain) : IsAuthority(a)}
Sent == IF pool # NoTx /\ pool.kind = "authority" THEN 1 ELSE 0
Strays == Cardinality(Authorities) + Sent

Reverted(j) == jobs[j].pc = "wait" /\ jobs[j].nonce \in 1..Len(chain) /\ ~chain[jobs[j].nonce].ok
HasOne(j) ==
  jobs[j].pc # "off" /\ ~Reverted(j) /\ (jobs[j].authority # 0 \/ jobs[j].pc = "wait")

InStep(j) ==
  /\ jobs[j].pc \in {"start", "count"} => jobs[j].authority = 0
  /\ jobs[j].pc = "send" /\ jobs[j].authority # 0 =>
       jobs[j].nonce = Len(chain) + 1 /\ pool = NoTx
  /\ jobs[j].pc = "wait" =>
       \/ jobs[j].nonce = Len(chain) + 1 /\ pool # NoTx
       \/ jobs[j].nonce = Len(chain) /\ Len(chain) > 0 /\ pool = NoTx

Explained ==
  /\ Strays <= failures + 1
  /\ handoff = NoFile /\ (\A j \in Job : ~HasOne(j)) => Strays <= failures

StraysInvariant == Explained /\ \A j \in Job : InStep(j)

LEMMA StraysAreNumbers ==
  ASSUME TypeOK
  PROVE  /\ IsFiniteSet(Authorities) /\ Cardinality(Authorities) \in Nat
         /\ Sent \in {0, 1} /\ Strays \in Nat /\ failures \in Nat /\ Len(chain) \in Nat
<1>1. Len(chain) \in Nat
  BY DEF TypeOK
<1>2. IsFiniteSet(Authorities)
  <2>1. IsFiniteSet(1..Len(chain))
    BY <1>1, FS_Interval
  <2>2. Authorities \subseteq 1..Len(chain)
    BY DEF Authorities
  <2> QED
    BY <2>1, <2>2, FS_Subset
<1>3. Cardinality(Authorities) \in Nat
  BY <1>2, FS_CardinalityType
<1>4. failures \in Nat
  BY ContractsAssumption DEF TypeOK
<1> QED
  BY <1>1, <1>2, <1>3, <1>4 DEF Sent, Strays

LEMMA InitStrays == Init => StraysInvariant
<1> SUFFICES ASSUME Init PROVE StraysInvariant
  OBVIOUS
<1>1. Authorities = {} /\ Sent = 0 /\ failures = 0
  <2>1. Len(chain) = 0
    BY DEF Init
  <2> QED
    BY <2>1 DEF Init, Authorities, Sent
<1>2. Strays = 0
  BY <1>1, FS_EmptySet DEF Strays
<1>3. \A j \in Job : jobs[j].pc = "off"
  BY DEF Init, Off
<1> QED
  BY <1>1, <1>2, <1>3 DEF StraysInvariant, Explained, InStep

\* A step of one job that neither sends nor mines.
LEMMA NothingSent ==
  ASSUME TypeOK, SoloInvariant, StraysInvariant, NEW j \in Job, NEW job, Set(j, job),
         jobs[j].pc # "off", UNCHANGED network, failures' \in {failures, failures + 1},
         InStep(j)',
         \/ failures' = failures + 1
         \/ handoff' # NoFile
         \/ HasOne(j)'
         \/ handoff = NoFile /\ ~HasOne(j)
  PROVE  StraysInvariant'
<1>1. jobs'[j] = job /\ \A i \in Job \ {j} : jobs'[i] = jobs[i] /\ jobs[i].pc = "off"
  BY DEF TypeOK, Set, SoloInvariant, Solo, Running
<1>2. Strays' = Strays /\ Strays \in Nat /\ failures \in Nat
  BY StraysAreNumbers DEF Strays, Authorities, IsAuthority, Sent, network
<1>3. \A i \in Job : InStep(i)'
  BY <1>1 DEF InStep
<1>4. \A i \in Job \ {j} : ~HasOne(i)
  BY <1>1 DEF HasOne
<1>5. /\ Strays <= failures + 1
      /\ handoff = NoFile /\ (\A i \in Job : ~HasOne(i)) => Strays <= failures
  BY DEF StraysInvariant, Explained
<1>6. Strays' <= failures' + 1
  <2>1. CASE failures' = failures
    BY <1>2, <1>5, <2>1
  <2>2. CASE failures' = failures + 1
    <3>1. Strays \in Nat /\ failures \in Nat /\ Strays <= failures + 1
      BY <1>2, <1>5
    <3>2. Strays <= failures + 1 + 1
      BY <3>1
    <3> QED
      BY <1>2, <2>2, <3>2
  <2> QED
    BY <2>1, <2>2
<1>7. ASSUME handoff' = NoFile, \A i \in Job : ~HasOne(i)' PROVE Strays' <= failures'
  <2>1. CASE failures' = failures + 1
    BY <1>2, <1>5, <2>1
  <2>2. CASE handoff = NoFile /\ ~HasOne(j)
    <3>1. Strays <= failures
      BY <1>4, <1>5, <2>2
    <3> QED
      BY <1>2, <3>1
  <2> QED
    BY <1>7, <2>1, <2>2
<1>8. Explained'
  BY <1>6, <1>7 DEF Explained
<1> QED
  BY <1>3, <1>8 DEF StraysInvariant

LEMMA JobStrays ==
  ASSUME JobInvariant, SoloInvariant, StraysInvariant, NEW j \in Job, JobStep(j) \/ Dies(j)
  PROVE  StraysInvariant'
<1>0. TypeOK /\ jobs[j] \in JobState /\ jobs[j].pc # "off" /\ Wrote(j) /\ InStep(j)
  BY DEF JobInvariant, TypeOK, JobStep, Fresh, Existing, Refuse, Count, Send, Rejected, Receipt,
         ReceiptFailed, WriteHandoff, EndHandoff, WriteEnv, EndEnv, Dies, SoloInvariant, StraysInvariant
<1>1. \A job : Set(j, job) => jobs'[j] = job
  BY <1>0 DEF Set, TypeOK
<1>2. Len(chain) \in Nat /\ failures \in Nat /\ jobs[j].authority \in 0..Len(chain)
      /\ jobs[j].nonce \in Nat
  BY <1>0, StraysAreNumbers DEF JobState
<1>3. CASE Fresh(j)
  <2>1. /\ jobs[j].pc = "start" /\ handoff = NoFile /\ Set(j, [jobs[j] EXCEPT !.pc = "count"])
        /\ UNCHANGED <<network, handoff, failures>>
    BY <1>3 DEF Fresh
  <2>2. jobs'[j].pc = "count" /\ jobs'[j].authority = 0 /\ ~HasOne(j)
    BY <1>0, <1>1, <2>1 DEF JobState, InStep, HasOne
  <2>3. InStep(j)'
    BY <2>2 DEF InStep
  <2> QED
    BY <1>0, <2>1, <2>2, <2>3, NothingSent
<1>4. CASE Existing(j)
  <2> DEFINE next == [pc |-> "env", nonce |-> 0, authority |-> handoff.authority,
                      dark |-> handoff.dark]
  <2>1. Set(j, next) /\ handoff' # NoFile /\ UNCHANGED <<network, failures>>
    BY <1>4, ValueAssumption DEF Existing, Verified
  <2>2. jobs'[j].pc = "env"
    BY <1>1, <2>1
  <2>3. InStep(j)'
    BY <2>2 DEF InStep
  <2> QED
    BY <1>0, <2>1, <2>3, NothingSent
<1>5. CASE Refuse(j) \/ Dies(j) \/ ReceiptFailed(j) \/ Rejected(j)
  <2>1. Set(j, Off) /\ UNCHANGED <<network, handoff>>
    BY <1>5 DEF Refuse, Dies, ReceiptFailed, Rejected, Fails
  <2>2. InStep(j)'
    BY <1>1, <2>1 DEF InStep, Off
  <2>3. \/ failures' = failures + 1
        \/ failures' = failures /\ handoff' # NoFile
        \/ failures' = failures /\ ~HasOne(j)
    <3>1. CASE Refuse(j)
      BY <2>1, <3>1 DEF Refuse
    <3>2. CASE Dies(j)
      BY <3>2 DEF Dies, Failure
    <3>3. CASE ReceiptFailed(j)
      <4>1. jobs[j].nonce \in 1..Len(chain)
        BY <1>0, <1>2, <3>3 DEF ReceiptFailed, IsMined, InStep
      <4> QED
        BY <3>3, <4>1 DEF ReceiptFailed, HasOne, Reverted
    <3>4. CASE Rejected(j)
      BY <1>0, <3>4 DEF Rejected, Accepted, InStep, HasOne
    <3> QED
      BY <1>5, <3>1, <3>2, <3>3, <3>4
  <2> QED
    BY <1>0, <2>1, <2>2, <2>3, NothingSent
<1>6. CASE Count(j)
  <2> DEFINE next == [pc |-> "send", nonce |-> Len(chain) + 1, authority |-> 0, dark |-> 0]
  <2>1. jobs[j].pc = "count" /\ Set(j, next) /\ UNCHANGED <<network, handoff, failures>>
    BY <1>6 DEF Count
  <2>2. jobs'[j].pc = "send" /\ jobs'[j].authority = 0
    BY <1>1, <2>1
  <2>3. handoff = NoFile /\ ~HasOne(j)
    BY <1>0, <2>1 DEF Wrote, InStep, HasOne
  <2>4. InStep(j)'
    BY <2>2 DEF InStep
  <2> QED
    BY <1>0, <2>1, <2>3, <2>4, NothingSent
<1>7. CASE Send(j)
  <2>1. /\ jobs[j].pc = "send" /\ pool = NoTx /\ jobs[j].nonce = Len(chain) + 1
        /\ pool' = Transaction(jobs[j]) /\ Set(j, [jobs[j] EXCEPT !.pc = "wait"])
        /\ UNCHANGED <<chain, handoff, failures>>
    BY <1>7 DEF Send, Accepted
  <2>2. /\ jobs'[j].pc = "wait" /\ jobs'[j].nonce = jobs[j].nonce
        /\ jobs'[j].authority = jobs[j].authority
    BY <1>0, <1>1, <2>1 DEF JobState
  <2>3. pool' # NoTx /\ pool'.kind = (IF jobs[j].authority = 0 THEN "authority" ELSE "dark")
    BY <1>2, <2>1, ValueAssumption DEF Transaction, Tx
  <2>4. \A i \in Job \ {j} : jobs'[i] = jobs[i] /\ jobs[i].pc = "off"
    BY <1>0, <2>1 DEF TypeOK, Set, SoloInvariant, Solo, Running
  <2>5. \A i \in Job : InStep(i)'
    BY <2>1, <2>2, <2>3, <2>4 DEF InStep
  <2>6. HasOne(j)'
    BY <1>2, <2>1, <2>2 DEF HasOne, Reverted
  <2>7. handoff = NoFile
    BY <1>0, <2>1 DEF Wrote
  <2>8. Cardinality(Authorities)' = Cardinality(Authorities) /\ Sent = 0
        /\ Sent' = (IF jobs[j].authority = 0 THEN 1 ELSE 0)
    BY <2>1, <2>3 DEF Authorities, IsAuthority, Sent
  <2>9. jobs[j].authority = 0 => \A i \in Job : ~HasOne(i)
    BY <2>1, <2>4 DEF HasOne
  <2>10. Strays' <= failures' + 1
    <3>1. CASE jobs[j].authority = 0
      BY <1>0, <2>1, <2>7, <2>8, <2>9, <3>1, StraysAreNumbers DEF StraysInvariant, Explained, Strays
    <3>2. CASE jobs[j].authority # 0
      BY <1>0, <2>1, <2>8, <3>2, StraysAreNumbers DEF StraysInvariant, Explained, Strays
    <3> QED
      BY <3>1, <3>2
  <2> QED
    BY <2>5, <2>6, <2>10 DEF StraysInvariant, Explained
<1>8. CASE Receipt(j)
  <2>1. /\ jobs[j].pc = "wait" /\ IsMined(j) /\ Set(j, Deployed(jobs[j]))
        /\ UNCHANGED <<network, handoff, failures>>
    BY <1>8 DEF Receipt
  <2>2. jobs[j].nonce = Len(chain) /\ Len(chain) > 0 /\ pool = NoTx
    BY <1>0, <1>2, <2>1 DEF IsMined, InStep
  <2>3. /\ jobs'[j].pc \in {"send", "handoff"} /\ jobs'[j].authority # 0
        /\ jobs'[j].pc = "send" => jobs'[j].nonce = Len(chain) + 1
    BY <1>1, <1>2, <2>1, <2>2 DEF Deployed
  <2>4. InStep(j)' /\ HasOne(j)'
    BY <2>1, <2>2, <2>3 DEF InStep, HasOne, Reverted, network
  <2> QED
    BY <1>0, <2>1, <2>4, NothingSent
<1>9. CASE WriteHandoff(j) \/ EndHandoff(j) \/ WriteEnv(j) \/ EndEnv(j)
  <2>1. ASSUME NEW job, Set(j, job), job.pc \in {"writing", "env", "writing env", "off"},
               handoff' # NoFile
        PROVE  StraysInvariant'
    <3>1. InStep(j)'
      BY <1>1, <2>1 DEF InStep
    <3>2. UNCHANGED <<network, failures>>
      BY <1>9 DEF WriteHandoff, EndHandoff, WriteEnv, EndEnv
    <3> QED
      BY <1>0, <2>1, <3>1, <3>2, NothingSent
  <2>2. CASE WriteHandoff(j)
    <3>1. Set(j, [jobs[j] EXCEPT !.pc = "writing"]) /\ handoff' # NoFile
      BY <2>2, ContractsAssumption DEF WriteHandoff
    <3>2. [jobs[j] EXCEPT !.pc = "writing"].pc = "writing"
      BY <1>0 DEF JobState
    <3> QED
      BY <2>1, <3>1, <3>2
  <2>3. CASE EndHandoff(j)
    <3>1. Set(j, [jobs[j] EXCEPT !.pc = "env"]) /\ handoff' = Written(j)
      BY <2>3 DEF EndHandoff
    <3>2. [jobs[j] EXCEPT !.pc = "env"].pc = "env"
      BY <1>0 DEF JobState
    <3>3. jobs[j].authority \in Nat /\ jobs[j].dark \in Nat
      <4>1. jobs[j].authority \in 0..Len(chain) /\ jobs[j].dark \in 0..Len(chain)
        BY <1>0 DEF JobState
      <4>2. \A n \in 0..Len(chain) : n \in Nat
        BY <1>2
      <4> QED
        BY <4>1, <4>2
    <3>4. Written(j) \in Pair
      BY <3>3 DEF Written, Pair
    <3> QED
      BY <2>1, <3>1, <3>2, <3>4, ValueAssumption
  <2>4. CASE WriteEnv(j)
    <3>1. Set(j, [jobs[j] EXCEPT !.pc = "writing env"]) /\ handoff' # NoFile
      BY <1>0, <2>4, ValueAssumption DEF WriteEnv, Wrote
    <3>2. [jobs[j] EXCEPT !.pc = "writing env"].pc = "writing env"
      BY <1>0 DEF JobState
    <3> QED
      BY <2>1, <3>1, <3>2
  <2>5. CASE EndEnv(j)
    <3>1. Set(j, Off) /\ handoff' # NoFile
      BY <1>0, <2>5, ValueAssumption DEF EndEnv, Wrote
    <3>2. Off.pc = "off"
      BY DEF Off
    <3> QED
      BY <2>1, <3>1, <3>2
  <2> QED
    BY <1>9, <2>2, <2>3, <2>4, <2>5
<1> QED
  BY <1>3, <1>4, <1>5, <1>6, <1>7, <1>8, <1>9 DEF JobStep

LEMMA MineStrays ==
  ASSUME JobInvariant, SoloInvariant, StraysInvariant, Mine
  PROVE  StraysInvariant'
<1>1. TypeOK /\ pool \in Tx
  BY DEF JobInvariant, TypeOK, Mine
<1>2. Len(chain) \in Nat /\ failures \in Nat
  BY <1>1, StraysAreNumbers
<1>3. PICK ok \in BOOLEAN :
        /\ chain' = Append(chain, [tx |-> pool, ok |-> ok])
        /\ failures' = IF ok THEN failures ELSE failures + 1
  BY DEF Mine, Failure
<1>4. pool # NoTx /\ pool' = NoTx /\ UNCHANGED <<handoff, jobs>>
  BY DEF Mine
<1>5. /\ Len(chain') = Len(chain) + 1 /\ chain'[Len(chain) + 1] = [tx |-> pool, ok |-> ok]
      /\ \A i \in 1..Len(chain) : chain'[i] = chain[i]
  BY <1>1, <1>2, <1>3 DEF TypeOK
<1>6. Authorities' = IF ok /\ pool.kind = "authority" THEN Authorities \cup {Len(chain) + 1}
                     ELSE Authorities
  BY <1>2, <1>5 DEF Authorities, IsAuthority
<1>7. Strays' <= Strays /\ Strays \in Nat
  <2>1. Sent' = 0 /\ Sent = IF pool.kind = "authority" THEN 1 ELSE 0
    BY <1>4 DEF Sent
  <2>2. Len(chain) + 1 \notin Authorities
    BY <1>2 DEF Authorities
  <2>3. Cardinality(Authorities \cup {Len(chain) + 1}) = Cardinality(Authorities) + 1
    BY <1>1, <2>2, StraysAreNumbers, FS_AddElement
  <2> QED
    BY <1>1, <1>6, <2>1, <2>3, StraysAreNumbers DEF Strays
<1>8. ASSUME NEW j \in Job PROVE InStep(j)' /\ (ok /\ HasOne(j) => HasOne(j)')
  <2>1. InStep(j) /\ jobs[j] \in JobState
    BY <1>1 DEF StraysInvariant, TypeOK
  <2>2. jobs[j].pc = "wait" => jobs[j].nonce = Len(chain) + 1
    BY <1>4, <2>1 DEF InStep
  <2>3. InStep(j)'
    BY <1>2, <1>4, <1>5, <2>1, <2>2 DEF InStep
  <2>4. ok /\ HasOne(j) => HasOne(j)'
    BY <1>4, <1>5, <2>2 DEF HasOne, Reverted
  <2> QED
    BY <2>3, <2>4
<1>9. Explained'
  <2>0. /\ Strays <= failures + 1
        /\ handoff = NoFile /\ (\A j \in Job : ~HasOne(j)) => Strays <= failures
    BY DEF StraysInvariant, Explained
  <2>9. Strays' \in Nat
    <3>1. Sent' = 0
      BY <1>4 DEF Sent
    <3>2. IsFiniteSet(Authorities')
      BY <1>1, <1>6, StraysAreNumbers, FS_AddElement
    <3> QED
      BY <3>1, <3>2, FS_CardinalityType DEF Strays
  <2>1. CASE ok
    <3>1. failures' = failures
      BY <1>3, <2>1
    <3>2. ASSUME handoff' = NoFile, \A j \in Job : ~HasOne(j)' PROVE Strays' <= failures'
      <4>1. Strays <= failures
        BY <1>4, <1>8, <2>0, <2>1, <3>2
      <4> QED
        BY <1>2, <1>7, <2>9, <3>1, <4>1
    <3>3. Strays' <= failures' + 1
      BY <1>2, <1>7, <2>0, <2>9, <3>1
    <3> QED
      BY <3>2, <3>3 DEF Explained
  <2>2. CASE ~ok
    <3>1. failures' = failures + 1
      BY <1>3, <2>2
    <3>2. Strays' <= failures'
      BY <1>2, <1>7, <2>0, <2>9, <3>1
    <3>3. Strays' <= failures' + 1
      BY <1>2, <2>9, <3>1, <3>2
    <3> QED
      BY <3>2, <3>3 DEF Explained
  <2> QED
    BY <2>1, <2>2
<1> QED
  BY <1>8, <1>9 DEF StraysInvariant

LEMMA ControlStrays ==
  ASSUME "overlap" \notin Environment, JobInvariant, SoloInvariant, StraysInvariant,
         \/ Apply \/ GiveUp \/ Abandon \/ ApplyFails \/ ControlStep
         \/ \E m \in Recipient : CopyFails(m)
  PROVE  StraysInvariant'
<1>0. TypeOK
  BY DEF JobInvariant
<1>1. failures \in Nat /\ Strays \in Nat
  BY <1>0, StraysAreNumbers
<1>2. ASSUME UNCHANGED <<network, handoff, jobs>>, failures' \in {failures, failures + 1}
      PROVE  StraysInvariant'
  <2>1. Strays' = Strays
    BY <1>2 DEF Strays, Authorities, IsAuthority, Sent, network
  <2>2. \A j \in Job : (InStep(j) => InStep(j)') /\ (HasOne(j) => HasOne(j)')
    BY <1>2 DEF InStep, HasOne, Reverted, network
  <2>3. /\ Strays <= failures + 1
        /\ handoff = NoFile /\ (\A j \in Job : ~HasOne(j)) => Strays <= failures
    BY DEF StraysInvariant, Explained
  <2>4. Strays' <= failures' + 1
    <3>1. CASE failures' = failures
      BY <2>1, <2>3, <3>1
    <3>2. CASE failures' = failures + 1
      <4>1. Strays <= failures + 1 + 1
        BY <1>1, <2>3
      <4> QED
        BY <2>1, <3>2, <4>1
    <3> QED
      BY <1>2, <3>1, <3>2
  <2>5. handoff' = NoFile /\ (\A j \in Job : ~HasOne(j)') => Strays' <= failures'
    <3>1. handoff = NoFile /\ (\A j \in Job : ~HasOne(j)') => Strays <= failures
      BY <2>2, <2>3
    <3> QED
      BY <1>1, <1>2, <2>1, <3>1
  <2> QED
    BY <2>2, <2>4, <2>5 DEF StraysInvariant, Explained
<1>3. ASSUME NEW j \in Job, Attempt(j) PROVE StraysInvariant'
  <2>1. /\ \A i \in Job : jobs[i].pc = "off"
        /\ jobs' = [jobs EXCEPT ![j] = [Off EXCEPT !.pc = "start"]]
        /\ UNCHANGED <<network, handoff, failures>>
    BY <1>3 DEF Attempt, Running
  <2>2. jobs'[j].pc = "start" /\ jobs'[j].authority = 0 /\ \A i \in Job \ {j} : jobs'[i] = jobs[i]
    BY <1>0, <2>1 DEF TypeOK, Off
  <2>3. Strays' = Strays
    BY <2>1 DEF Strays, Authorities, IsAuthority, Sent, network
  <2>4. \A i \in Job : InStep(i)' /\ ~HasOne(i) /\ ~HasOne(i)'
    BY <2>1, <2>2 DEF InStep, HasOne
  <2> QED
    BY <2>1, <2>3, <2>4 DEF StraysInvariant, Explained
<1>4. CASE Apply \/ GiveUp \/ Abandon \/ ApplyFails \/ ReadEnv \/ GoOn
           \/ (\E m \in Recipient : Copy(m) \/ CopyFails(m))
  BY <1>2, <1>4 DEF Apply, GiveUp, Abandon, ApplyFails, Failure, ReadEnv, GoOn, Copy, CopyFails
<1> QED
  BY <1>3, <1>4 DEF ControlStep

\* One Authority more than there were failures, at most, however often the job
\* is retried, for any number of failures.
THEOREM StraysAreExplained ==
  ASSUME "overlap" \notin Environment
  PROVE  Specification => []StraysExplained
<1>1. JobInvariant /\ SoloInvariant /\ StraysInvariant /\ [Next]_vars => StraysInvariant'
  <2> SUFFICES ASSUME JobInvariant, SoloInvariant, StraysInvariant, [Next]_vars
               PROVE  StraysInvariant'
    OBVIOUS
  <2>1. CASE UNCHANGED vars
    <3>1. Strays' = Strays
      BY <2>1 DEF Strays, Authorities, IsAuthority, Sent, network, vars
    <3> QED
      BY <2>1, <3>1 DEF vars, network, StraysInvariant, Explained, InStep, HasOne, Reverted
  <2> QED
    BY <2>1, MineStrays, ControlStrays, JobStrays DEF Next
<1>2. JobInvariant /\ StraysInvariant => StraysExplained
  <2> SUFFICES ASSUME TypeOK, Explained PROVE StraysExplained
    BY DEF JobInvariant, StraysInvariant
  <2> QED
    BY StraysAreNumbers DEF Explained, Strays, StraysExplained, Authorities
<1> QED
  BY <1>1, <1>2, InitStrays, SoloHolds, InvariantHolds, PTL DEF Specification
=============================================================================
