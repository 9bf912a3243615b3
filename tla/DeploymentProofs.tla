-------------------------- MODULE DeploymentProofs --------------------------
(* Proofs about Deployment: type correctness, for every choice of the        *)
(* constants, and the soundness of the recorded fingerprints when operators  *)
(* run one command at a time and let a push end; then what apply's plan      *)
(* guarantees: the handoff, the order of phases, complete records.           *)
EXTENDS Deployment, TLAPS

USE DEF Slots, Nothing, runtime, files

-----------------------------------------------------------------------------
(* Types.                                                                    *)

LEMMA ConstantTypes ==
  /\ NoStatus \in Status /\ IdleRun \in Run
  /\ NoVerify \in Verifier /\ NoPush \in Pusher

<1>1. NoStatus \in Status
  BY DEF NoStatus, Status, ServiceState
<1>2. IdleRun \in Run
  BY <1>1, ServiceAssumption DEF IdleRun, Run, Action
<1> QED
  BY <1>1, <1>2 DEF NoVerify, Verifier, NoPush, Pusher, Run

LEMMA IdlePc == IdleRun.pc = "idle"
  BY DEF IdleRun

LEMMA InitTypes == Init => TypeOK
  BY ConstantTypes DEF Init, TypeOK

\* What apply does before its first status write changes its own record, the
\* persistent data and contracts.env, and nothing else.
LEMMA BeforeFrame ==
  ASSUME TypeOK, BeforeStatus
  PROVE  /\ run.pc \in {"planned", "cleaning"} /\ run'.pc \in {"cleaning", "checked"}
         /\ run'.plan = run.plan /\ run'.todo = run.todo /\ run'.phase = run.phase
         /\ run'.memory = run.memory /\ run'.resume = run.resume
         /\ run.changed \subseteq run'.changed /\ run'.changed \subseteq run.changed \cup run.plan
         /\ run' \in Run
         /\ data' \in [Service -> {"none", "old", "own"}]
         /\ \A s \in Service : data'[s] # data[s] => data'[s] = "none"
         /\ contractsEnv' \in [Machine -> {"absent", "empty", "filled"}]
         /\ UNCHANGED <<bundle, staged, container, up, vouched, status, verifier, pusher>>
<1> USE DEF TypeOK
<1>1. ASSUME NEW unanswered \in SUBSET Service, NEW unseen \in Unseen,
             Reconcile(unanswered, unseen)
      PROVE  /\ run.pc = "planned" /\ run'.pc \in {"cleaning", "checked"}
             /\ run'.plan = run.plan /\ run'.todo = run.todo /\ run'.phase = run.phase
             /\ run'.memory = run.memory /\ run'.resume = run.resume
             /\ run'.changed = run.changed \cup MissingInRuntime(unanswered)
             /\ run' \in Run
             /\ UNCHANGED <<bundle, staged, runtime, vouched, status, verifier, pusher>>
  <2> DEFINE existing == IF CheckedInstall THEN ExistingData(unseen) ELSE {}
             pc == IF existing = {} THEN "checked" ELSE "cleaning"
             changed == run.changed \cup MissingInRuntime(unanswered)
  <2>1. existing \in SUBSET Service /\ changed \in SUBSET Service
    BY DEF ExistingData, MissingInRuntime, Run
  <2>2. pc \in {"cleaning", "checked"}
    OBVIOUS
  <2>3. run' = [run EXCEPT !.pc = pc, !.changed = changed, !.wipe = existing]
    BY <1>1 DEF Reconcile
  <2>4. run.pc = "planned" /\ UNCHANGED <<bundle, staged, runtime, vouched, status, verifier, pusher>>
    BY <1>1 DEF Reconcile
  <2> HIDE DEF existing, pc, changed
  <2>5. /\ run'.pc = pc /\ run'.plan = run.plan /\ run'.todo = run.todo /\ run'.phase = run.phase
        /\ run'.memory = run.memory /\ run'.resume = run.resume /\ run'.changed = changed
        /\ run' \in Run
    BY <2>1, <2>2, <2>3 DEF Run
  <2> QED
    BY <2>2, <2>4, <2>5 DEF changed
<1>2. CASE CleanContracts
  BY <1>2 DEF CleanContracts, Run
<1>3. ASSUME NEW s \in Service, CleanData(s)
      PROVE  /\ run.pc = "cleaning" /\ run'.pc = "cleaning"
             /\ run'.plan = run.plan /\ run'.todo = run.todo /\ run'.phase = run.phase
             /\ run'.memory = run.memory /\ run'.resume = run.resume
             /\ run'.changed = run.changed /\ run' \in Run
             /\ data' = [data EXCEPT ![s] = "none"]
             /\ UNCHANGED <<bundle, staged, container, up, contractsEnv, vouched, status,
                           verifier, pusher>>
  BY <1>3 DEF CleanData, Run
<1>4. \A unanswered \in SUBSET Service : MissingInRuntime(unanswered) \subseteq run.plan
  BY DEF MissingInRuntime
<1> QED
  BY <1>1, <1>2, <1>3, <1>4 DEF BeforeStatus

LEMMA StepTypes == TypeOK /\ [Next]_vars => TypeOK'
<1> SUFFICES ASSUME TypeOK, [Next]_vars PROVE TypeOK'
  OBVIOUS
<1> USE ConstantTypes
<1>1. ASSUME NEW inv \in Inventory, Prepare(inv) PROVE TypeOK'
  BY <1>1, InventoryAssumption DEF Prepare, TypeOK
<1>2. ASSUME NEW inv \in Inventory, NEW resume \in BOOLEAN, NEW clean \in BOOLEAN,
             StartApply(inv, resume, clean)
      PROVE TypeOK'
  <2>1. bundle' \in Slots
    BY <1>2, InventoryAssumption DEF StartApply, TypeOK
  <2>2. run' \in Run
    <3>1. InPlan(inv) \subseteq Service /\ status \in Status
      BY DEF InPlan, TypeOK
    <3> QED
      BY <1>2, <3>1 DEF StartApply, Run
  <2> QED
    BY <1>2, <2>1, <2>2 DEF StartApply, TypeOK
<1>3. ASSUME NEW s \in Service, NEW action \in Action, Lifecycle(s, action)
      PROVE TypeOK'
  <2>1. run' \in Run
    BY <1>3 DEF Lifecycle, Run
  <2>2. staged[s] \in Version /\ container[s] \in Version \cup {NoVersion}
    BY <1>3 DEF Lifecycle, InPlan, TypeOK
  <2>3. action \in {"start", "restart"} => container[s] \in Version
    BY <1>3, <2>2 DEF Lifecycle, ExistsInRuntime
  <2>4. AfterAction(s, action) \in Version \cup {NoVersion}
    BY <2>2, <2>3 DEF AfterAction, Version
  <2>5. container' \in Slots /\ up' \subseteq Service
    BY <1>3, <2>4 DEF Lifecycle, TypeOK
  <2> QED
    BY <1>3, <2>1, <2>5 DEF Lifecycle, TypeOK
<1>4. CASE BeginApply
  <2> DEFINE stage == {MachineOf[s] : s \in run.changed}
  <2>1. Begun(run.memory) \in Status
    BY DEF Begun, TypeOK, Run, Status
  <2>2. stage \in SUBSET Machine
    BY ServiceAssumption DEF TypeOK, Run
  <2>3. run' = [run EXCEPT !.pc = "staging", !.memory = Begun(run.memory), !.stage = stage]
    BY <1>4 DEF BeginApply, TypeOK, Run
  <2> HIDE DEF stage
  <2>4. run' \in Run
    BY <2>1, <2>2, <2>3 DEF TypeOK, Run
  <2> QED
    BY <1>4, <2>1, <2>4 DEF BeginApply, TypeOK
<1>20. CASE BeforeStatus
  BY <1>20, BeforeFrame DEF TypeOK
<1>5. CASE StartSteps
  BY <1>5 DEF StartSteps, TypeOK, Run
<1>6. CASE Record
  BY <1>6 DEF Record, TypeOK, Run, Status, Completed, ServiceState
<1>7. CASE PassGate
  BY <1>7, ServiceAssumption DEF PassGate, AtGate, TypeOK, Run
<1>8. CASE GateTimeout
  BY <1>8 DEF GateTimeout, TypeOK
<1>9. CASE FinishApply
  BY <1>9 DEF FinishApply, TypeOK, Run, Status
<1>10. ASSUME NEW m \in Machine, Stage(m) PROVE TypeOK'
  BY <1>10 DEF Stage, StagedOn, TypeOK, Run
<1>11. ASSUME NEW m \in Machine, Distribute(m) PROVE TypeOK'
  BY <1>11 DEF Distribute, TypeOK, Run
<1>12. ASSUME NEW s \in Service, Reuse(s) PROVE TypeOK'
  BY <1>12 DEF Reuse, NextService, Completed, TypeOK, Run, Status
<1>13. ASSUME NEW s \in Service, Up(s) PROVE TypeOK'
  <2>1. container' \in Slots /\ up' \subseteq Service
    <3>1. staged[s] \in Version /\ container[s] \in Version \cup {NoVersion}
      BY <1>13 DEF Up, TypeOK
    <3>2. Upped(s, staged[s], run.clean) \in Version
      BY <3>1 DEF Upped, Version
    <3> QED
      BY <1>13, <3>2 DEF Up, TypeOK
  <2>2. run' \in Run
    <3> DEFINE next == IF s = Producer THEN "handoff" ELSE "up"
               targets == IF s = Producer
                 THEN {MachineOf[c] : c \in Consumer \cap run.plan} \ {MachineOf[s]}
                 ELSE {}
    <3>1. targets \in SUBSET Machine
      BY ServiceAssumption DEF TypeOK, Run
    <3>2. run' = [run EXCEPT !.pc = next, !.service = s, !.targets = targets]
      BY <1>13 DEF Up
    <3>3. next \in {"up", "handoff"}
      OBVIOUS
    <3> HIDE DEF next, targets
    <3> QED
      BY <3>1, <3>2, <3>3 DEF TypeOK, Run
  <2>3. /\ data' \in [Service -> {"none", "old", "own"}]
        /\ contractsEnv' \in [Machine -> {"absent", "empty", "filled"}]
    BY <1>13, ServiceAssumption DEF Up, NextService, TypeOK
  <2> QED
    BY <1>13, <2>1, <2>2, <2>3 DEF Up, TypeOK
<1>14. CASE RecordLifecycle
  <2>1. LifecycleState(run.action) \in ServiceState /\ run.service \in Service
    BY DEF LifecycleState, ServiceState, TypeOK, Run
  <2>2. status' \in Status
    BY <1>14, <2>1 DEF RecordLifecycle, TypeOK, Status
  <2> QED
    BY <1>14, <2>2 DEF RecordLifecycle, TypeOK
<1>15. CASE Abort
  BY <1>15 DEF Abort, TypeOK
<1>16. CASE VerifyStep
  <2>1. CASE VerifyProbe
    BY <2>1 DEF VerifyProbe, Healthy, TypeOK, Verifier
  <2>2. CASE VerifyRead
    BY <2>2 DEF VerifyRead, TypeOK, Verifier
  <2>3. CASE VerifyWrite
    BY <2>3 DEF VerifyWrite, TypeOK, Verifier, Status
  <2>4. CASE VerifyAbort
    BY <2>4 DEF VerifyAbort, TypeOK
  <2> QED
    BY <1>16, <2>1, <2>2, <2>3, <2>4 DEF VerifyStep
<1>17. CASE PushStep
  <2>1. CASE PushStart
    BY <2>1 DEF PushStart, TypeOK, Pusher
  <2>2. ASSUME NEW m \in Machine, PushStage(m) PROVE TypeOK'
    BY <2>2 DEF PushStage, StagedOn, TypeOK, Pusher
  <2>3. CASE PushFinish
    BY <2>3 DEF PushFinish, Pushed, TypeOK, Status
  <2>4. CASE PushAbort
    BY <2>4 DEF PushAbort, TypeOK
  <2> QED
    BY <1>17, <2>1, <2>2, <2>3, <2>4 DEF PushStep, PushEnds
<1>18. CASE Outside
  BY <1>18 DEF Outside, OutsideRemove, OutsideStop, TypeOK
<1>19. CASE UNCHANGED vars
  BY <1>19 DEF vars, TypeOK
<1> QED
  BY <1>1, <1>2, <1>3, <1>4, <1>5, <1>6, <1>7, <1>8, <1>9, <1>10, <1>11, <1>12,
     <1>13, <1>14, <1>15, <1>16, <1>17, <1>18, <1>19, <1>20
  DEF Next, StartCommand, ApplyStep

\* Type correctness: every value the files, the containers and the commands
\* take is one the code can write, for every choice of the constants.
THEOREM TypeCorrect == Specification => []TypeOK
  BY InitTypes, StepTypes, PTL DEF Specification
-----------------------------------------------------------------------------
(* Fingerprints.  Claims is ControllerInvariant without the types.           *)

Claims == JobsLeaveNothing /\ Alone /\ FingerprintsSound /\ MemoryClaims /\ ReuseClaims /\ StagingClaims
            /\ VerifierCopy

LEMMA InitClaims == Init => Claims
<1> SUFFICES ASSUME Init PROVE Claims
  OBVIOUS
<1>1. run.pc = "idle" /\ verifier.pc = "idle" /\ pusher.pc = "idle"
  BY DEF Init, IdleRun, NoVerify, NoPush
<1>2. \A s \in Service : status.fingerprints[s] = NoVersion
  BY DEF Init, NoStatus
<1>3. JobsLeaveNothing
  BY ServiceAssumption DEF Init, JobsLeaveNothing
<1> QED
  BY <1>1, <1>2, <1>3 DEF Claims, Alone, FingerprintsSound, MemoryClaims, ReuseClaims, StagingClaims,
                    VerifierCopy

\* A command that gives up the lock leaves no claim but those of status.json.
LEMMA IdleClaims ==
  ASSUME TypeOK, Claims, run' = IdleRun, FingerprintsSound',
         UNCHANGED <<verifier, pusher, status, container>>
  PROVE  Claims'
  BY DEF IdleRun, Claims, JobsLeaveNothing, Alone, MemoryClaims, ReuseClaims, StagingClaims, VerifierCopy

LEMMA StepClaims ==
  ASSUME OneCommandAtATime, TypeOK, Claims, [Next]_vars
  PROVE  Claims'
<1> USE DEF OneCommandAtATime
<1> DEFINE Busy == run.pc # "idle"
<1>0. Busy => verifier.pc = "idle" /\ pusher.pc = "idle"
  BY DEF Claims, JobsLeaveNothing, Alone
<1>1. ASSUME NEW inv \in Inventory, Prepare(inv) PROVE Claims'
  BY <1>1 DEF Prepare, LockedMayStart, Locked, Claims, JobsLeaveNothing, Alone, FingerprintsSound, DefinedAs, MemoryClaims,
              ReuseClaims, StagingClaims, VerifierCopy
<1>2. ASSUME NEW inv \in Inventory, NEW resume \in BOOLEAN, NEW clean \in BOOLEAN,
             StartApply(inv, resume, clean)
      PROVE Claims'
  <2>1. /\ run'.pc = "planned" /\ run'.plan = InPlan(inv) /\ run'.todo = InPlan(inv)
        /\ run'.changed = {s \in InPlan(inv) : \/ status.services[s] # "applied"
                                               \/ status.fingerprints[s] # bundle'[s]}
    BY <1>2 DEF StartApply, IdleRun
  <2>2. verifier.pc = "idle" /\ pusher.pc = "idle"
    BY <1>2 DEF StartApply, LockedMayStart
  <2>3. InPlan(inv) \subseteq InPlan(bundle)' /\ InPlan(inv) \subseteq Service
    BY <1>2 DEF StartApply, InPlan
  <2>4. FingerprintsSound' /\ VerifierCopy'
    BY <1>2 DEF StartApply, Claims, FingerprintsSound, DefinedAs, VerifierCopy
  <2>5. ASSUME NEW s \in run'.plan \ run'.changed PROVE Claim(s, bundle[s])'
    <3>1. s \in Service /\ status.fingerprints[s] = bundle'[s] /\ bundle'[s] # NoVersion
      BY <2>1, <2>3, <2>5 DEF InPlan
    <3> QED
      BY <3>1, <1>2, <2>2 DEF StartApply, Claims, FingerprintsSound, Claim, DefinedAs
  <2>6. ReuseClaims'
    BY <2>1, <2>3, <2>5 DEF ReuseClaims
  <2> QED
    BY <1>2, <2>1, <2>2, <2>4, <2>6
    DEF StartApply, Claims, JobsLeaveNothing, Alone, MemoryClaims, StagingClaims
<1>3. ASSUME NEW s \in Service, NEW action \in Action, Lifecycle(s, action)
      PROVE Claims'
  <2>1. ~Busy /\ verifier.pc = "idle" /\ pusher.pc = "idle"
    BY <1>3 DEF Lifecycle, LockedMayStart, Locked
  <2>2. run'.pc = "lifecycle"
    BY <1>3 DEF Lifecycle, IdleRun
  <2>4. status' = status /\ staged' = staged
    BY <1>3 DEF Lifecycle
  <2>5. JobsLeaveNothing'
    <3>1. \A t \in Job : t # s /\ t \in Service
      BY <1>3, ServiceAssumption DEF Lifecycle
    <3>2. \A t \in Service : t # s => container'[t] = container[t]
      BY <1>3 DEF Lifecycle, TypeOK
    <3> QED
      BY <3>1, <3>2 DEF Claims, JobsLeaveNothing
  <2>3. ASSUME NEW t \in Service, status.fingerprints[t] # NoVersion
        PROVE DefinedAs(t, status.fingerprints[t])'
    <3>1. Claim(t, status.fingerprints[t])
      BY <2>1, <2>3 DEF Claims, FingerprintsSound, Claim
    <3>2. CASE t # s
      BY <3>1, <3>2, <1>3 DEF Lifecycle, DefinedAs, Claim, TypeOK
    <3>3. CASE t = s
      <4>1. container'[s] = AfterAction(s, action)
        BY <1>3 DEF Lifecycle, TypeOK
      <4>2. action \in {"start", "restart"} => container[s] # NoVersion
        BY <1>3 DEF Lifecycle, ExistsInRuntime
      <4>3. CASE action = "recreate"
        BY <4>1, <4>3, <3>1, <3>3, <1>3 DEF AfterAction, Lifecycle, DefinedAs, Claim
      <4>4. CASE action = "remove"
        BY <4>1, <4>4, <3>3 DEF AfterAction, DefinedAs
      <4>5. CASE action = "restart" \/ (action = "start" /\ s \notin up)
        <5>1. AfterAction(s, action).spec = container[s].spec
          <6> DEFINE next == [spec |-> container[s].spec, file |-> staged[s].file]
          <6>0. next.spec = container[s].spec
            OBVIOUS
          <6> HIDE DEF next
          <6>1. CASE action = "restart"
            <7>1. AfterAction(s, action) = next
              BY <6>1 DEF AfterAction, next
            <7> QED
              BY <6>0, <7>1
          <6>2. CASE action = "start" /\ s \notin up
            <7>1. AfterAction(s, action) = next
              BY <6>2 DEF AfterAction, next
            <7> QED
              BY <6>0, <7>1
          <6> QED
            BY <4>5, <6>1, <6>2
        <5>2. container[s].spec = status.fingerprints[s].spec
          BY <4>2, <4>5, <3>1, <3>3 DEF DefinedAs, Claim
        <5>3. container'[s].spec = container[s].spec
          BY <4>1, <5>1
        <5> QED
          BY <5>2, <5>3, <3>3, <2>4 DEF DefinedAs
      <4>6. CASE action \in {"build", "stop"} \/ (action = "start" /\ s \in up)
        <5>1. container'[s] = container[s]
          BY <4>1, <4>6 DEF AfterAction
        <5> QED
          BY <5>1, <3>1, <3>3, <1>3 DEF Lifecycle, DefinedAs, Claim
      <4> QED
        BY <4>3, <4>4, <4>5, <4>6 DEF Action
    <3> QED
      BY <3>2, <3>3
  <2> QED
    BY <1>3, <2>1, <2>2, <2>3, <2>5
    DEF Lifecycle, Claims, Alone, FingerprintsSound, MemoryClaims, ReuseClaims,
        StagingClaims, VerifierCopy
<1>4. CASE BeginApply
  <2>1. /\ run.pc = "checked" /\ run'.pc = "staging"
        /\ run'.memory.fingerprints = Nothing /\ status'.fingerprints = Nothing
        /\ run'.plan = run.plan /\ run'.todo = run.todo
        /\ run'.changed = run.changed
        /\ run'.stage = {MachineOf[s] : s \in run'.changed}
    BY <1>4 DEF BeginApply, Begun, TypeOK, Run, Status
  <2>2. /\ UNCHANGED <<bundle, staged, container, verifier, pusher>>
    BY <1>4 DEF BeginApply
  <2>3. FingerprintsSound' /\ MemoryClaims'
    BY <2>1 DEF FingerprintsSound, MemoryClaims
  <2>4. ReuseClaims'
    BY <2>1, <2>2 DEF Claims, ReuseClaims, InPlan, Claim, DefinedAs
  <2>5. StagingClaims'
    BY <2>1 DEF StagingClaims
  <2> QED
    BY <1>0, <2>1, <2>2, <2>3, <2>4, <2>5 DEF Claims, JobsLeaveNothing, Alone, VerifierCopy
<1>19. CASE BeforeStatus
  <2>1. /\ run.pc \in {"planned", "cleaning"} /\ run'.pc \in {"cleaning", "checked"}
        /\ run'.plan = run.plan /\ run'.todo = run.todo
        /\ run.changed \subseteq run'.changed /\ run'.changed \subseteq run.changed \cup run.plan
        /\ UNCHANGED <<bundle, staged, container, status, verifier, pusher>>
    BY <1>19, BeforeFrame
  <2>2. ReuseClaims' /\ FingerprintsSound'
    BY <2>1 DEF Claims, ReuseClaims, FingerprintsSound, InPlan, Claim, DefinedAs
  <2> QED
    BY <1>0, <2>1, <2>2 DEF Claims, JobsLeaveNothing, Alone, MemoryClaims, StagingClaims, VerifierCopy
<1>5. CASE StartSteps
  <2>1. /\ run.pc = "staging" /\ run.stage = {} /\ run'.pc = "steps"
        /\ run'.memory = run.memory /\ run'.plan = run.plan /\ run'.todo = run.todo
        /\ run'.changed = run.changed
        /\ UNCHANGED <<bundle, staged, container, status, verifier, pusher>>
    BY <1>5 DEF StartSteps, TypeOK, Run
  <2>2. FingerprintsSound'
    BY <2>1 DEF Claims, FingerprintsSound, DefinedAs
  <2>3. MemoryClaims'
    BY <2>1 DEF Claims, MemoryClaims, Claim, DefinedAs
  <2>4. ReuseClaims'
    BY <2>1 DEF Claims, ReuseClaims, Claim, DefinedAs, InPlan
  <2>5. StagingClaims'
    BY <2>1 DEF Claims, StagingClaims
  <2> QED
    BY <1>0, <2>1, <2>2, <2>3, <2>4, <2>5 DEF Claims, JobsLeaveNothing, Alone, VerifierCopy
<1>6. CASE Record
  <2> DEFINE s == run.service
  <2>1. /\ run.pc \in {"up", "handoff"} /\ run'.pc = "steps"
        /\ run'.todo = run.todo \ {s} /\ run'.plan = run.plan /\ run'.changed = run.changed
        /\ run'.memory.fingerprints = [run.memory.fingerprints EXCEPT ![s] = bundle[s]]
        /\ status'.fingerprints = [run.memory.fingerprints EXCEPT ![s] = bundle[s]]
        /\ UNCHANGED <<bundle, staged, container, verifier, pusher>>
    BY <1>6 DEF Record, Completed, TypeOK, Run, Status
  <2>2. ASSUME NEW t \in Service,
               [run.memory.fingerprints EXCEPT ![s] = bundle[s]][t] # NoVersion
        PROVE  Claim(t, [run.memory.fingerprints EXCEPT ![s] = bundle[s]][t])
    <3>1. run.memory.fingerprints \in [Service -> Version \cup {NoVersion}]
      BY DEF TypeOK, Run, Status
    <3>2. CASE t = s
      BY <3>1, <3>2, <2>1 DEF Claims, StagingClaims
    <3>3. CASE t # s
      <4>1. [run.memory.fingerprints EXCEPT ![s] = bundle[s]][t] = run.memory.fingerprints[t]
        BY <3>1, <3>3
      <4> QED
        BY <4>1, <2>1, <2>2 DEF Claims, MemoryClaims
    <3> QED
      BY <3>2, <3>3
  <2>3. FingerprintsSound' /\ MemoryClaims'
    BY <2>1, <2>2 DEF FingerprintsSound, MemoryClaims, Claim, DefinedAs
  <2> QED
    BY <1>0, <2>1, <2>3 DEF Claims, JobsLeaveNothing, Alone, ReuseClaims, StagingClaims, VerifierCopy,
                            Claim, DefinedAs, InPlan
<1>7. CASE PassGate
  <2>1. /\ run.pc = "steps" /\ run'.pc = "steps" /\ run'.todo = run.todo
        /\ run'.plan = run.plan /\ run'.changed = run.changed /\ run'.memory = run.memory
        /\ status' = run.memory /\ UNCHANGED <<bundle, staged, container, verifier, pusher>>
    BY <1>7 DEF PassGate, AtGate, TypeOK, Run
  <2>2. FingerprintsSound' /\ MemoryClaims'
    BY <2>1 DEF Claims, FingerprintsSound, MemoryClaims, Claim, DefinedAs
  <2> QED
    BY <1>0, <2>1, <2>2 DEF Claims, JobsLeaveNothing, Alone, ReuseClaims, StagingClaims, VerifierCopy,
                            Claim, DefinedAs, InPlan
<1>8. CASE GateTimeout \/ Abort
  <2>1. FingerprintsSound'
    BY <1>8 DEF GateTimeout, Abort, Claims, FingerprintsSound, DefinedAs
  <2> QED
    BY <1>8, <2>1, IdleClaims DEF GateTimeout, Abort
<1>9. CASE FinishApply
  <2>1. /\ run.pc = "steps" /\ run'.pc = "idle"
        /\ status'.fingerprints = run.memory.fingerprints
        /\ UNCHANGED <<staged, container, verifier, pusher>>
    BY <1>9 DEF FinishApply, IdleRun, TypeOK, Run, Status
  <2>2. FingerprintsSound'
    BY <2>1 DEF Claims, FingerprintsSound, MemoryClaims, Claim, DefinedAs
  <2> QED
    BY <1>0, <2>1, <2>2 DEF Claims, JobsLeaveNothing, Alone, MemoryClaims, ReuseClaims, StagingClaims,
                            VerifierCopy
<1>10. ASSUME NEW m \in Machine, Stage(m) PROVE Claims'
  <2>1. /\ run.pc = "staging" /\ run'.pc = "staging" /\ run'.stage = run.stage \ {m}
        /\ run'.todo = run.todo /\ run'.plan = run.plan /\ run'.changed = run.changed
        /\ run'.memory = run.memory
        /\ staged' = StagedOn(m) /\ UNCHANGED <<bundle, status, container, verifier, pusher>>
    BY <1>10 DEF Stage, TypeOK, Run
  <2>2. ASSUME NEW s \in Service, bundle[s] # NoVersion
        PROVE  /\ staged'[s] = IF MachineOf[s] = m THEN bundle[s] ELSE staged[s]
    BY <2>1, <2>2 DEF StagedOn
  <2>3. FingerprintsSound' /\ MemoryClaims'
    <3>1. status'.fingerprints = Nothing /\ run'.memory.fingerprints = Nothing
      BY <2>1 DEF Claims, StagingClaims
    <3>2. \A s \in Service : status'.fingerprints[s] = NoVersion /\ run'.memory.fingerprints[s] = NoVersion
      BY <3>1
    <3> QED
      BY <3>2 DEF FingerprintsSound, MemoryClaims
  <2>4. ReuseClaims'
    BY <2>1, <2>2 DEF Claims, ReuseClaims, InPlan, Claim, DefinedAs
  <2>5. StagingClaims'
    BY <2>1, <2>2 DEF Claims, StagingClaims, ReuseClaims, InPlan
  <2> QED
    BY <1>0, <2>1, <2>3, <2>4, <2>5 DEF Claims, JobsLeaveNothing, Alone, VerifierCopy
<1>11. ASSUME NEW m \in Machine, Distribute(m) PROVE Claims'
  <2>1. /\ run.pc = "handoff" /\ run'.pc = "handoff" /\ run'.service = run.service
        /\ run'.todo = run.todo /\ run'.plan = run.plan /\ run'.changed = run.changed
        /\ run'.memory = run.memory
        /\ UNCHANGED <<bundle, staged, status, container, verifier, pusher>>
    BY <1>11 DEF Distribute, TypeOK, Run
  <2>2. FingerprintsSound' /\ JobsLeaveNothing' /\ Alone' /\ VerifierCopy'
    BY <1>0, <2>1 DEF Claims, JobsLeaveNothing, Alone, FingerprintsSound, VerifierCopy, DefinedAs
  <2>3. MemoryClaims'
    BY <2>1 DEF Claims, MemoryClaims, Claim, DefinedAs
  <2>4. ReuseClaims'
    BY <2>1 DEF Claims, ReuseClaims, InPlan, Claim, DefinedAs
  <2>5. StagingClaims'
    BY <2>1 DEF Claims, StagingClaims, Claim, DefinedAs
  <2> QED
    BY <2>2, <2>3, <2>4, <2>5 DEF Claims
<1>12. ASSUME NEW s \in Service, Reuse(s) PROVE Claims'
  <2>1. /\ run.pc = "steps" /\ run'.pc = "steps" /\ s \in run.todo /\ s \notin run.changed
        /\ run'.todo = run.todo \ {s} /\ run'.plan = run.plan /\ run'.changed = run.changed
        /\ run'.memory.fingerprints = [run.memory.fingerprints EXCEPT ![s] = bundle[s]]
        /\ status'.fingerprints = [run.memory.fingerprints EXCEPT ![s] = bundle[s]]
        /\ UNCHANGED <<bundle, staged, container, verifier, pusher>>
    BY <1>12 DEF Reuse, NextService, Completed, TypeOK, Run, Status
  <2>2. Claim(s, bundle[s])
    BY <2>1 DEF Claims, ReuseClaims
  <2>3. ASSUME NEW t \in Service,
               [run.memory.fingerprints EXCEPT ![s] = bundle[s]][t] # NoVersion
        PROVE  Claim(t, [run.memory.fingerprints EXCEPT ![s] = bundle[s]][t])
    BY <2>1, <2>2, <2>3 DEF Claims, MemoryClaims, TypeOK, Run, Status
  <2>4. FingerprintsSound' /\ MemoryClaims'
    <3> DEFINE recorded == [run.memory.fingerprints EXCEPT ![s] = bundle[s]]
    <3>1. /\ status'.fingerprints = recorded /\ run'.memory.fingerprints = recorded
          /\ UNCHANGED <<staged, container>>
      BY <2>1
    <3>2. \A t \in Service : recorded[t] # NoVersion => /\ staged[t] = recorded[t]
                                                     /\ DefinedAs(t, recorded[t])
      BY <2>3 DEF Claim
    <3> HIDE DEF recorded
    <3>3. FingerprintsSound'
      BY <3>1, <3>2 DEF FingerprintsSound, DefinedAs
    <3>4. MemoryClaims'
      BY <3>1, <3>2 DEF MemoryClaims, Claim, DefinedAs
    <3> QED
      BY <3>3, <3>4
  <2> QED
    BY <1>0, <2>1, <2>4 DEF Claims, JobsLeaveNothing, Alone, ReuseClaims, StagingClaims, VerifierCopy,
                            Claim, DefinedAs, InPlan
<1>13. ASSUME NEW s \in Service, Up(s) PROVE Claims'
  <2>1. /\ run.pc = "steps" /\ run'.pc \in {"up", "handoff"} /\ run'.service = s
        /\ s \in run.changed /\ s \in run.todo
        /\ run'.todo = run.todo /\ run'.plan = run.plan /\ run'.changed = run.changed
        /\ run'.memory = run.memory
        /\ UNCHANGED <<bundle, staged, status, verifier, pusher>>
    BY <1>13 DEF Up, NextService, TypeOK, Run
  <2>2. staged[s] = bundle[s] /\ s \in run.plan
    BY <2>1 DEF Claims, StagingClaims, ReuseClaims
  <2>3. \A t \in Service : t # s => container'[t] = container[t]
    BY <1>13 DEF Up, TypeOK
  <2>4. DefinedAs(s, bundle[s])' /\ JobsLeaveNothing'
    <3>1. CASE s \in Job
      BY <3>1, <2>1, <1>13 DEF Up, Claims, JobsLeaveNothing, DefinedAs
    <3>2. CASE s \notin Job
      <4>1. container'[s] = Upped(s, staged[s], run.clean)
        BY <3>2, <1>13 DEF Up, TypeOK
      <4>2. Upped(s, staged[s], run.clean).spec = staged[s].spec
        BY DEF Upped
      <4>3. JobsLeaveNothing'
        BY <3>2, <2>3, ServiceAssumption DEF Claims, JobsLeaveNothing
      <4> QED
        BY <4>1, <4>2, <4>3, <2>1, <2>2 DEF DefinedAs
    <3> QED
      BY <3>1, <3>2
  <2>5. ASSUME NEW t \in Service, NEW v, Claim(t, v) PROVE Claim(t, v)'
    BY <2>1, <2>2, <2>3, <2>4, <2>5 DEF Claim, DefinedAs
  <2>6. FingerprintsSound'
    BY <2>1, <2>5, <1>0 DEF Claims, FingerprintsSound, Claim
  <2>7. MemoryClaims' /\ ReuseClaims'
    BY <2>1, <2>5 DEF Claims, MemoryClaims, ReuseClaims, InPlan
  <2>8. StagingClaims'
    BY <2>1, <2>2, <2>4 DEF Claims, StagingClaims, Claim
  <2> QED
    BY <1>0, <2>1, <2>4, <2>6, <2>7, <2>8 DEF Claims, Alone, VerifierCopy
<1>14. CASE RecordLifecycle
  <2>1. /\ run.pc = "lifecycle" /\ run'.pc = "idle"
        /\ status'.fingerprints = status.fingerprints
        /\ UNCHANGED <<bundle, staged, container, verifier, pusher>>
    BY <1>14 DEF RecordLifecycle, IdleRun, TypeOK, Status
  <2> QED
    BY <1>0, <2>1 DEF Claims, JobsLeaveNothing, Alone, FingerprintsSound, MemoryClaims, ReuseClaims,
                      StagingClaims, VerifierCopy, DefinedAs
<1>15. CASE VerifyStep
  <2>1. /\ pusher.pc = "idle" /\ run.pc = "idle" /\ run'.pc = "idle"
        /\ UNCHANGED <<bundle, staged, container, pusher>>
        /\ status'.fingerprints = status.fingerprints
        /\ verifier'.pc = "read" => verifier'.read = status'
    <3>1. CASE VerifyProbe
      BY <3>1 DEF VerifyProbe, NoVerify, UnlockedMayStart, Locked
    <3>2. ASSUME verifier.pc # "idle" PROVE run.pc = "idle" /\ pusher.pc = "idle"
      BY <1>0, <3>2 DEF Claims, Alone
    <3>3. CASE VerifyRead
      BY <3>2, <3>3 DEF VerifyRead, TypeOK, Verifier
    <3>4. CASE VerifyWrite
      BY <3>2, <3>4 DEF VerifyWrite, NoVerify, Claims, VerifierCopy, TypeOK, Verifier, Status
    <3>5. CASE VerifyAbort
      BY <3>2, <3>5 DEF VerifyAbort, NoVerify
    <3> QED
      BY <1>15, <3>1, <3>3, <3>4, <3>5 DEF VerifyStep
  <2> QED
    BY <2>1 DEF Claims, JobsLeaveNothing, Alone, FingerprintsSound, MemoryClaims, ReuseClaims,
                StagingClaims, VerifierCopy, DefinedAs
<1>16. CASE PushStep
  <2>1. run.pc = "idle" /\ verifier.pc = "idle" /\ UNCHANGED <<run, verifier, container>>
    BY <1>16 DEF PushStep, PushEnds, PushStart, PushStage, PushFinish, PushAbort, UnlockedMayStart,
                 Locked, Claims, Alone
  <2>2. FingerprintsSound'
    <3>1. CASE PushStart
      BY <3>1 DEF PushStart, Claims, FingerprintsSound, DefinedAs
    <3>2. ASSUME NEW m \in Machine, PushStage(m) PROVE FingerprintsSound'
      BY <3>2 DEF PushStage, Claims, FingerprintsSound, DefinedAs, TypeOK, Pusher
    <3>3. CASE PushFinish
      BY <3>3 DEF PushFinish, Pushed, NoStatus, FingerprintsSound
    <3> QED
      BY <1>16, <3>1, <3>2, <3>3 DEF PushStep, PushEnds, PushAbort
  <2> QED
    BY <2>1, <2>2 DEF Claims, JobsLeaveNothing, Alone, MemoryClaims, ReuseClaims,
                      StagingClaims, VerifierCopy
<1>17. CASE Outside
  <2>1. /\ \A s \in Service : container'[s] \in {container[s], NoVersion}
        /\ UNCHANGED <<bundle, staged, status, run, verifier, pusher>>
    BY <1>17 DEF Outside, OutsideRemove, OutsideStop, TypeOK
  <2>2. JobsLeaveNothing'
    BY <2>1, ServiceAssumption DEF Claims, JobsLeaveNothing
  <2>3. ASSUME NEW s \in Service, NEW v, DefinedAs(s, v) PROVE DefinedAs(s, v)'
    BY <2>1, <2>3 DEF DefinedAs
  <2> QED
    BY <2>1, <2>2, <2>3 DEF Claims, Alone, FingerprintsSound, MemoryClaims, ReuseClaims,
       StagingClaims, VerifierCopy, Claim, InPlan, TypeOK, Run
<1>18. CASE UNCHANGED vars
  BY <1>18 DEF vars, Claims, JobsLeaveNothing, Alone, FingerprintsSound, MemoryClaims, ReuseClaims,
     StagingClaims, VerifierCopy, Claim, DefinedAs, InPlan
<1> QED
  BY <1>1, <1>2, <1>3, <1>4, <1>5, <1>6, <1>7, <1>8, <1>9, <1>10, <1>11, <1>12, <1>13,
     <1>14, <1>15, <1>16, <1>17, <1>18, <1>19
  DEF Next, StartCommand, ApplyStep

THEOREM InvariantHolds ==
  ASSUME OneCommandAtATime
  PROVE  Specification => []ControllerInvariant
<1>1. Init => TypeOK /\ Claims
  BY InitTypes, InitClaims
<1>2. TypeOK /\ Claims /\ [Next]_vars => (TypeOK /\ Claims)'
  BY StepTypes, StepClaims
<1>3. TypeOK /\ Claims => ControllerInvariant
  BY DEF Claims, ControllerInvariant
<1> QED
  BY <1>1, <1>2, <1>3, PTL DEF Specification

\* The fingerprints that the next apply trusts are those of what is staged, the
\* mounted files included, and of the definitions that the containers have,
\* whatever failed or died before, for any inventories and machines, as long as
\* operators run one command at a time and let a push end.
THEOREM FingerprintsAreSound ==
  ASSUME OneCommandAtATime
  PROVE  Specification => []FingerprintsSound
<1>1. ControllerInvariant => FingerprintsSound
  BY DEF ControllerInvariant
<1> QED
  BY <1>1, InvariantHolds, PTL

-----------------------------------------------------------------------------
(* The plan: what an apply has done of it, in any environment.  A reused     *)
(* service was on record as applied; the job never is reused, since it       *)
(* leaves no container; the gates empty one phase after the other.           *)

AtSteps == run.pc \in {"steps", "up", "handoff"}
AtWork == AtSteps \/ run.pc = "staging"
Before == run.pc \in {"planned", "cleaning", "checked"}
Filled == \A c \in Consumer \cap run.plan : contractsEnv[MachineOf[c]] = "filled"

PlanClaims ==
  /\ Before \/ run.pc = "staging" => run.phase = 1 /\ run.todo = run.plan
  /\ AtWork \/ Before =>
       /\ run.todo \subseteq run.plan
       /\ Producer \notin run.plan => Consumer \cap run.plan = {}
       /\ \A s \in run.plan \ run.changed : run.memory.services[s] = "applied"
  /\ AtWork => run.memory.state = "running"
  /\ AtWork \/ run.pc \in {"cleaning", "checked"} =>
       (Producer \in run.plan => Producer \in run.changed)
  /\ AtSteps => \A s \in run.todo : run.phase <= PhaseOf[s]
  /\ run.pc \in {"up", "handoff"} =>
       /\ run.service \in run.todo /\ PhaseOf[run.service] = run.phase
       /\ run.pc = "handoff" <=> run.service = Producer

HandoffClaims ==
  /\ AtSteps /\ Producer \notin run.todo => Filled
  /\ run.pc = "handoff" =>
       \A c \in Consumer \cap run.plan :
         MachineOf[c] \in run.targets \/ contractsEnv[MachineOf[c]] = "filled"

DoneClaims ==
  AtSteps => \A s \in run.plan \ run.todo : /\ run.memory.services[s] = "applied"
                                            /\ run.memory.fingerprints[s] = bundle[s]

ApplyInvariant == TypeOK /\ JobsLeaveNothing /\ PlanClaims /\ HandoffClaims /\ DoneClaims

LEMMA InitApply == Init => ApplyInvariant
<1> SUFFICES ASSUME Init PROVE ApplyInvariant
  OBVIOUS
<1>1. run.pc = "idle"
  BY DEF Init, IdleRun
<1>2. JobsLeaveNothing
  BY ServiceAssumption DEF Init, JobsLeaveNothing
<1> QED
  BY <1>1, <1>2, InitTypes
  DEF ApplyInvariant, PlanClaims, HandoffClaims, DoneClaims, AtSteps, AtWork, Before

\* No command leaves a container of a job: apply runs it with `--rm`, and the
\* lifecycle actions take no jobs.
LEMMA JobStep == TypeOK /\ JobsLeaveNothing /\ [Next]_vars => JobsLeaveNothing'
<1> SUFFICES ASSUME TypeOK, JobsLeaveNothing, [Next]_vars PROVE JobsLeaveNothing'
  OBVIOUS
<1>1. ASSUME NEW s \in Service, Up(s) PROVE JobsLeaveNothing'
  <2>1. CASE s \in Job
    BY <1>1, <2>1 DEF Up, JobsLeaveNothing
  <2>2. CASE s \notin Job
    BY <1>1, <2>2, ServiceAssumption DEF Up, JobsLeaveNothing, TypeOK
  <2> QED
    BY <2>1, <2>2
<1>2. ASSUME NEW s \in Service, NEW action \in Action, Lifecycle(s, action)
      PROVE JobsLeaveNothing'
  BY <1>2, ServiceAssumption DEF Lifecycle, JobsLeaveNothing, TypeOK
<1>3. CASE Outside
  BY <1>3, ServiceAssumption DEF Outside, OutsideRemove, OutsideStop, JobsLeaveNothing, TypeOK
<1>4. CASE VerifyStep \/ PushStep
  BY <1>4 DEF VerifyStep, VerifyProbe, VerifyRead, VerifyWrite, VerifyAbort, PushStep, PushEnds,
              PushStart, PushStage, PushFinish, PushAbort, JobsLeaveNothing
<1>5. CASE BeginApply \/ StartSteps \/ Record \/ PassGate \/ GateTimeout \/ FinishApply
           \/ RecordLifecycle \/ Abort \/ (\E m \in Machine : Stage(m) \/ Distribute(m))
           \/ (\E s \in Service : Reuse(s)) \/ (\E inv \in Inventory : Prepare(inv))
  BY <1>5 DEF BeginApply, StartSteps, Record, PassGate, GateTimeout, FinishApply, RecordLifecycle,
              Abort, Stage, Distribute, Reuse, Prepare, JobsLeaveNothing
<1>6. CASE \E inv \in Inventory, resume \in BOOLEAN, clean \in BOOLEAN :
             StartApply(inv, resume, clean)
  BY <1>6 DEF StartApply, JobsLeaveNothing
<1>7. CASE UNCHANGED vars
  BY <1>7 DEF vars, JobsLeaveNothing
<1>8. CASE BeforeStatus
  BY <1>8, BeforeFrame DEF JobsLeaveNothing
<1> QED
  BY <1>1, <1>2, <1>3, <1>4, <1>5, <1>6, <1>7, <1>8 DEF Next, StartCommand, ApplyStep

LEMMA StepApply ==
  ASSUME ApplyInvariant, [Next]_vars
  PROVE  PlanClaims' /\ HandoffClaims' /\ DoneClaims'
<1> USE DEF AtSteps, AtWork, Before, Filled
<1>0. TypeOK /\ JobsLeaveNothing
  BY DEF ApplyInvariant
<1>1. CASE run'.pc \in {"idle", "lifecycle"}
  BY <1>1 DEF PlanClaims, HandoffClaims, DoneClaims
<1>2. CASE UNCHANGED <<bundle, contractsEnv, run>>
  BY <1>2 DEF ApplyInvariant, PlanClaims, HandoffClaims, DoneClaims
<1>3. ASSUME NEW inv \in Inventory, NEW resume \in BOOLEAN, NEW clean \in BOOLEAN,
             StartApply(inv, resume, clean)
      PROVE  PlanClaims' /\ HandoffClaims' /\ DoneClaims'
  <2>1. /\ run'.pc = "planned" /\ run'.phase = 1 /\ run'.plan = InPlan(inv)
        /\ run'.todo = InPlan(inv) /\ run'.memory = status
        /\ run'.changed = {s \in InPlan(inv) : \/ status.services[s] # "applied"
                                               \/ status.fingerprints[s] # bundle'[s]}
    BY <1>3 DEF StartApply, IdleRun
  <2>2. Producer \notin InPlan(inv) => Consumer \cap InPlan(inv) = {}
    BY <1>3, InventoryAssumption, ServiceAssumption DEF InPlan
  <2> QED
    BY <2>1, <2>2 DEF PlanClaims, HandoffClaims, DoneClaims
<1>4. CASE BeginApply
  <2>1. /\ run.pc = "checked" /\ run'.pc = "staging" /\ run'.phase = run.phase
        /\ run'.memory.state = "running" /\ run'.memory.services = run.memory.services
        /\ run'.plan = run.plan /\ run'.todo = run.todo /\ run'.changed = run.changed
    BY <1>0, <1>4 DEF BeginApply, Begun, TypeOK, Run, Status
  <2> QED
    BY <2>1 DEF ApplyInvariant, PlanClaims, HandoffClaims, DoneClaims
<1>15. CASE BeforeStatus
  <2>1. /\ run.pc \in {"planned", "cleaning"} /\ run'.pc \in {"cleaning", "checked"}
        /\ run'.phase = run.phase /\ run'.memory = run.memory
        /\ run'.plan = run.plan /\ run'.todo = run.todo /\ run.changed \subseteq run'.changed
    BY <1>0, <1>15, BeforeFrame
  <2>2. Producer \in run.plan => Producer \in run'.changed
    <3>1. CASE run.pc = "planned"
      <4>1. PICK unanswered \in SUBSET Service, unseen \in Unseen : Reconcile(unanswered, unseen)
        BY <1>15, <3>1 DEF BeforeStatus, CleanContracts, CleanData
      <4>2. run'.changed = run.changed \cup MissingInRuntime(unanswered)
        BY <1>0, <4>1 DEF Reconcile, TypeOK, Run
      <4> QED
        BY <1>0, <4>2, ServiceAssumption DEF MissingInRuntime, ExistsInRuntime, JobsLeaveNothing
    <3>2. CASE run.pc = "cleaning"
      BY <2>1, <3>2 DEF ApplyInvariant, PlanClaims
    <3> QED
      BY <2>1, <3>1, <3>2
  <2> QED
    BY <2>1, <2>2 DEF ApplyInvariant, PlanClaims, HandoffClaims, DoneClaims
<1>5. ASSUME NEW m \in Machine, Stage(m)
      PROVE  PlanClaims' /\ HandoffClaims' /\ DoneClaims'
  <2>1. /\ run.pc = "staging" /\ run'.pc = "staging" /\ run'.phase = run.phase
        /\ run'.memory = run.memory /\ run'.plan = run.plan /\ run'.todo = run.todo
        /\ run'.changed = run.changed
    BY <1>0, <1>5 DEF Stage, TypeOK, Run
  <2> QED
    BY <2>1 DEF ApplyInvariant, PlanClaims, HandoffClaims, DoneClaims
<1>6. CASE StartSteps
  <2>1. /\ run.pc = "staging" /\ run'.pc = "steps" /\ run'.phase = run.phase
        /\ run'.memory = run.memory /\ run'.plan = run.plan /\ run'.todo = run.todo
        /\ run'.changed = run.changed /\ run.plan \subseteq Service
    BY <1>0, <1>6 DEF StartSteps, TypeOK, Run
  <2>2. run.phase = 1 /\ run.todo = run.plan
    BY <2>1 DEF ApplyInvariant, PlanClaims
  <2>3. \A s \in run.todo : 1 <= PhaseOf[s]
    BY <2>1, <2>2, ServiceAssumption
  <2> QED
    BY <2>1, <2>2, <2>3 DEF ApplyInvariant, PlanClaims, HandoffClaims, DoneClaims
<1>7. ASSUME NEW s \in Service, Reuse(s)
      PROVE  PlanClaims' /\ HandoffClaims' /\ DoneClaims'
  <2>1. /\ run.pc = "steps" /\ run'.pc = "steps" /\ s \in run.todo /\ s \notin run.changed
        /\ run'.phase = run.phase /\ run'.plan = run.plan /\ run'.todo = run.todo \ {s}
        /\ run'.changed = run.changed
        /\ run'.memory.state = run.memory.state /\ run'.memory.services = run.memory.services
        /\ run'.memory.fingerprints = [run.memory.fingerprints EXCEPT ![s] = bundle[s]]
        /\ run.memory.fingerprints \in Slots
        /\ UNCHANGED <<bundle, contractsEnv>>
    BY <1>0, <1>7 DEF Reuse, NextService, Completed, TypeOK, Run, Status
  <2>2. s # Producer /\ s \in run.plan
    BY <2>1 DEF ApplyInvariant, PlanClaims
  <2>3. PlanClaims' /\ HandoffClaims'
    BY <2>1, <2>2 DEF ApplyInvariant, PlanClaims, HandoffClaims
  <2>4. ASSUME NEW t \in run.plan \ run'.todo
        PROVE  run'.memory.services[t] = "applied" /\ run'.memory.fingerprints[t] = bundle[t]
    <3>1. t = s \/ t \in run.plan \ run.todo
      BY <2>1, <2>4
    <3> QED
      BY <2>1, <2>2, <3>1 DEF ApplyInvariant, PlanClaims, DoneClaims
  <2> QED
    BY <2>1, <2>3, <2>4 DEF DoneClaims
<1>8. ASSUME NEW s \in Service, Up(s)
      PROVE  PlanClaims' /\ HandoffClaims' /\ DoneClaims'
  <2>1. /\ run.pc = "steps" /\ s \in run.todo /\ run'.service = s /\ PhaseOf[s] = run.phase
        /\ run'.pc = IF s = Producer THEN "handoff" ELSE "up"
        /\ run'.phase = run.phase /\ run'.plan = run.plan /\ run'.todo = run.todo
        /\ run'.changed = run.changed /\ run'.memory = run.memory
        /\ run'.targets = IF s = Producer
                            THEN {MachineOf[c] : c \in Consumer \cap run.plan} \ {MachineOf[s]}
                            ELSE {}
        /\ bundle' = bundle
    BY <1>0, <1>8 DEF Up, NextService, TypeOK, Run
  <2>2. ASSUME NEW m \in Machine, contractsEnv[m] = "filled" PROVE contractsEnv'[m] = "filled"
    BY <1>0, <1>8, <2>2 DEF Up, TypeOK
  <2>3. s = Producer => contractsEnv'[MachineOf[s]] = "filled"
    BY <1>0, <1>8, ServiceAssumption DEF Up, TypeOK
  <2>4. \A c \in Consumer : MachineOf[c] \in Machine
    BY ServiceAssumption
  <2>5. PlanClaims' /\ DoneClaims'
    BY <2>1 DEF ApplyInvariant, PlanClaims, DoneClaims
  <2> QED
    BY <2>1, <2>2, <2>3, <2>4, <2>5 DEF ApplyInvariant, HandoffClaims
<1>9. ASSUME NEW m \in Machine, Distribute(m)
      PROVE  PlanClaims' /\ HandoffClaims' /\ DoneClaims'
  <2>1. /\ run.pc = "handoff" /\ run'.pc = "handoff" /\ run'.service = run.service
        /\ run'.phase = run.phase /\ run'.plan = run.plan /\ run'.todo = run.todo
        /\ run'.changed = run.changed /\ run'.memory = run.memory
        /\ run'.targets = run.targets \ {m} /\ bundle' = bundle
    BY <1>0, <1>9 DEF Distribute, TypeOK, Run
  <2>2. contractsEnv'[m] = "filled"
        /\ \A other \in Machine : other # m => contractsEnv'[other] = contractsEnv[other]
    BY <1>0, <1>9 DEF Distribute, TypeOK
  <2>3. \A c \in Consumer : MachineOf[c] \in Machine
    BY ServiceAssumption
  <2>4. PlanClaims' /\ DoneClaims'
    BY <2>1 DEF ApplyInvariant, PlanClaims, DoneClaims
  <2> QED
    BY <2>1, <2>2, <2>3, <2>4 DEF ApplyInvariant, HandoffClaims
<1>10. CASE Record
  <2> DEFINE s == run.service
  <2>1. /\ run.pc \in {"up", "handoff"} /\ (run.pc = "handoff" => run.targets = {})
        /\ run'.pc = "steps" /\ run'.phase = run.phase /\ run'.plan = run.plan
        /\ run'.todo = run.todo \ {s} /\ run'.changed = run.changed
        /\ run'.memory.state = run.memory.state
        /\ run'.memory.services = [run.memory.services EXCEPT ![s] = "applied"]
        /\ run'.memory.fingerprints = [run.memory.fingerprints EXCEPT ![s] = bundle[s]]
        /\ UNCHANGED <<bundle, contractsEnv>>
    BY <1>0, <1>10 DEF Record, Completed, TypeOK, Run, Status
  <2>2. /\ run.memory.services \in [Service -> ServiceState] /\ run.memory.fingerprints \in Slots
        /\ run.plan \subseteq Service /\ s \in Service
    BY <1>0 DEF TypeOK, Run, Status
  <2>3. \A t \in Service : t # s => /\ run'.memory.services[t] = run.memory.services[t]
                                    /\ run'.memory.fingerprints[t] = run.memory.fingerprints[t]
    BY <2>1, <2>2
  <2>4. run'.memory.services[s] = "applied" /\ run'.memory.fingerprints[s] = bundle[s]
    BY <2>1, <2>2
  <2>5. PlanClaims'
    BY <2>1, <2>2, <2>3, <2>4 DEF ApplyInvariant, PlanClaims
  <2>6. HandoffClaims'
    BY <2>1 DEF ApplyInvariant, PlanClaims, HandoffClaims
  <2>7. DoneClaims'
    BY <2>1, <2>2, <2>3, <2>4 DEF ApplyInvariant, DoneClaims
  <2> QED
    BY <2>5, <2>6, <2>7
<1>11. CASE PassGate
  <2>1. /\ run.pc = "steps" /\ run'.pc = "steps" /\ run'.phase = run.phase + 1
        /\ \A s \in run.todo : PhaseOf[s] # run.phase
        /\ run'.plan = run.plan /\ run'.todo = run.todo /\ run'.changed = run.changed
        /\ run'.memory = run.memory /\ UNCHANGED <<bundle, contractsEnv>>
        /\ run.phase \in Nat /\ run.todo \subseteq Service
    BY <1>0, <1>11, ServiceAssumption DEF PassGate, AtGate, TypeOK, Run
  <2>2. \A s \in run.todo : PhaseOf[s] \in Nat /\ run.phase <= PhaseOf[s]
    BY <2>1, ServiceAssumption DEF ApplyInvariant, PlanClaims
  <2>3. \A s \in run.todo : run.phase + 1 <= PhaseOf[s]
    BY <2>1, <2>2
  <2> QED
    BY <2>1, <2>3 DEF ApplyInvariant, PlanClaims, HandoffClaims, DoneClaims
<1>12. CASE GateTimeout \/ FinishApply \/ Abort \/ RecordLifecycle
  BY <1>1, <1>12 DEF GateTimeout, FinishApply, Abort, RecordLifecycle, IdleRun
<1>13. CASE VerifyStep \/ PushStep \/ Outside \/ UNCHANGED vars
  BY <1>2, <1>13 DEF VerifyStep, VerifyProbe, VerifyRead, VerifyWrite, VerifyAbort, PushStep, PushEnds,
                     PushStart, PushStage, PushFinish, PushAbort, Outside, OutsideRemove,
                     OutsideStop, vars
<1>14. CASE (\E inv \in Inventory : Prepare(inv))
            \/ (\E s \in Service, action \in Action : Lifecycle(s, action))
  BY <1>1, <1>14 DEF Prepare, Lifecycle, LockedMayStart, Locked, IdleRun
<1> QED
  BY <1>3, <1>4, <1>5, <1>6, <1>7, <1>8, <1>9, <1>10, <1>11, <1>12, <1>13, <1>14, <1>15
  DEF Next, StartCommand, ApplyStep

\* ApplyInvariant is inductive in every environment, overlap included.
THEOREM ApplyInvariantHolds == Specification => []ApplyInvariant
<1>1. ApplyInvariant /\ [Next]_vars => ApplyInvariant'
  <2>1. ApplyInvariant => TypeOK /\ JobsLeaveNothing
    BY DEF ApplyInvariant
  <2>2. ASSUME ApplyInvariant, [Next]_vars PROVE ApplyInvariant'
    <3>1. TypeOK' /\ JobsLeaveNothing'
      BY <2>1, <2>2, StepTypes, JobStep
    <3>2. PlanClaims' /\ HandoffClaims' /\ DoneClaims'
      BY <2>2, StepApply
    <3> QED
      BY <3>1, <3>2 DEF ApplyInvariant
  <2> QED
    BY <2>2
<1> QED
  BY <1>1, InitApply, PTL DEF Specification

\* apply starts no consumer before its machine has the contracts, whatever was
\* reused, killed, removed or overlapped, for any services and inventories.
THEOREM HandoffComesFirst == Specification => []HandoffFirst
<1>1. ApplyInvariant => HandoffFirst
  <2> SUFFICES ASSUME ApplyInvariant, run.pc = "up", run.service \in Consumer
               PROVE  contractsEnv[MachineOf[run.service]] = "filled"
    BY DEF HandoffFirst
  <2>1. /\ run.service \in run.todo /\ PhaseOf[run.service] = run.phase
        /\ run.service \in run.plan
        /\ \A s \in run.todo : run.phase <= PhaseOf[s]
    BY DEF ApplyInvariant, PlanClaims, AtWork, AtSteps
  <2>2. PhaseOf[Producer] < run.phase /\ PhaseOf[Producer] \in Nat /\ run.phase \in Nat
    BY <2>1, InventoryAssumption, ServiceAssumption
  <2>3. Producer \notin run.todo
    BY <2>1, <2>2
  <2> QED
    BY <2>1, <2>3 DEF ApplyInvariant, HandoffClaims, Filled, AtSteps
<1> QED
  BY <1>1, ApplyInvariantHolds, PTL

-----------------------------------------------------------------------------
\* The step that writes "applied" is the last of an apply, whose phases are
\* through, so that nothing of the plan is left to do.
LEMMA CompleteStep ==
  ASSUME ApplyInvariant, ControllerInvariant, [Next]_vars,
         status'.state = "applied", status.state # "applied", NEW s \in run.plan
  PROVE  /\ status'.services[s] = "applied"
         /\ status'.fingerprints[s] = bundle[s]
         /\ DefinedAs(s, bundle[s])
<1>0. TypeOK
  BY DEF ApplyInvariant
<1>1. CASE FinishApply
  <2>1. /\ run.pc = "steps" /\ run.phase = LastPhase + 1
        /\ status'.services = run.memory.services
        /\ status'.fingerprints = run.memory.fingerprints
        /\ run.todo \subseteq Service /\ run.plan \subseteq Service
    BY <1>0, <1>1 DEF FinishApply, TypeOK, Run, Status
  <2>2. \A t \in run.todo : LastPhase + 1 <= PhaseOf[t] /\ PhaseOf[t] \in 1..LastPhase
    BY <2>1, ServiceAssumption DEF ApplyInvariant, PlanClaims, AtSteps
  <2>3. run.todo = {}
    BY <2>2, ServiceAssumption
  <2>4. run.memory.services[s] = "applied" /\ run.memory.fingerprints[s] = bundle[s]
    BY <2>1, <2>3 DEF ApplyInvariant, DoneClaims, AtSteps
  <2>5. bundle[s] # NoVersion
    BY <2>1 DEF ControllerInvariant, ReuseClaims, InPlan
  <2>6. DefinedAs(s, bundle[s])
    BY <2>1, <2>4, <2>5 DEF ControllerInvariant, MemoryClaims, Claim
  <2> QED
    BY <2>1, <2>4, <2>6
<1>2. CASE UNCHANGED status
  BY <1>2
<1>3. ASSUME run.pc \in {"steps", "up", "handoff"}, status'.state = run.memory.state PROVE FALSE
  BY <1>3 DEF ApplyInvariant, PlanClaims, AtWork, AtSteps
<1>4. CASE BeginApply
  BY <1>0, <1>4 DEF BeginApply, Begun, TypeOK, Run, Status
<1>5. CASE Record
  BY <1>0, <1>3, <1>5 DEF Record, Completed, TypeOK, Run, Status
<1>6. CASE PassGate \/ (\E t \in Service : Reuse(t))
  BY <1>0, <1>3, <1>6 DEF PassGate, AtGate, Reuse, NextService, Completed, TypeOK, Run, Status
<1>7. CASE RecordLifecycle
  BY <1>0, <1>7 DEF RecordLifecycle, TypeOK, Status
<1>8. CASE VerifyStep
  BY <1>0, <1>2, <1>8 DEF VerifyStep, VerifyProbe, VerifyRead, VerifyWrite, VerifyAbort, TypeOK,
                          Verifier, Status
<1>9. CASE PushStep
  BY <1>2, <1>9 DEF PushStep, PushEnds, PushStart, PushStage, PushFinish, PushAbort, Pushed, NoStatus
<1>10. CASE StartCommand
  BY <1>2, <1>10 DEF StartCommand, Prepare, StartApply, Lifecycle
<1>11. CASE StartSteps \/ GateTimeout \/ (\E m \in Machine : Stage(m) \/ Distribute(m))
            \/ (\E t \in Service : Up(t)) \/ Abort \/ Outside \/ UNCHANGED vars
  BY <1>2, <1>11 DEF StartSteps, GateTimeout, Stage, Distribute, Up, Abort, Outside, OutsideRemove,
                     OutsideStop, vars
<1>12. CASE BeforeStatus
  BY <1>0, <1>2, <1>12, BeforeFrame
<1> QED
  BY <1>1, <1>4, <1>5, <1>6, <1>7, <1>8, <1>9, <1>10, <1>11, <1>12 DEF Next, ApplyStep

\* An apply that ends in "applied" has its whole plan on record, with the
\* versions whose definitions the containers have.
THEOREM AppliesAreComplete ==
  ASSUME OneCommandAtATime
  PROVE  Specification => CompleteApply
<1>1. ApplyInvariant /\ ControllerInvariant /\ [Next]_vars =>
        [status'.state = "applied" /\ status.state # "applied" =>
           \A s \in run.plan : /\ status'.services[s] = "applied"
                               /\ status'.fingerprints[s] = bundle[s]
                               /\ DefinedAs(s, bundle[s])]_vars
  BY CompleteStep
<1> QED
  BY <1>1, ApplyInvariantHolds, InvariantHolds, PTL DEF Specification, CompleteApply

-----------------------------------------------------------------------------
\* Nothing stops a service under an apply at work but who is at the machine:
\* the other commands that stop one take the lock.
LEMMA GateStep ==
  ASSUME "stops" \notin Environment, "removes" \notin Environment,
         ApplyInvariant, GateOrder, [Next]_vars
  PROVE  GateOrder'
<1>0. TypeOK
  BY DEF ApplyInvariant
<1>1. CASE run'.pc \notin {"steps", "up", "handoff"}
  BY <1>1 DEF GateOrder
<1>2. ASSUME run.pc \in {"steps", "up", "handoff"}, up \subseteq up',
             run'.plan = run.plan, run'.phase = run.phase
      PROVE  GateOrder'
  BY <1>2 DEF GateOrder
<1>3. CASE UNCHANGED <<up, run>>
  BY <1>3 DEF GateOrder
<1>4. CASE StartSteps
  <2>1. run'.phase = 1 /\ run'.plan \subseteq Service
    BY <1>0, <1>4 DEF StartSteps, ApplyInvariant, PlanClaims, TypeOK, Run
  <2>2. \A s \in run'.plan \cap Probed : PhaseOf[s] \in Nat /\ 1 <= PhaseOf[s]
    BY <2>1, ServiceAssumption
  <2>3. \A s \in run'.plan \cap Probed : ~(PhaseOf[s] < run'.phase)
    BY <2>1, <2>2
  <2> QED
    BY <2>3 DEF GateOrder
<1>5. CASE PassGate
  <2>1. /\ run.pc = "steps" /\ run'.plan = run.plan /\ run'.phase = run.phase + 1 /\ up' = up
        /\ run.phase \in Nat /\ run.plan \subseteq Service
        /\ \A s \in run.plan \cap Probed : PhaseOf[s] = run.phase => s \in up
    BY <1>0, <1>5, ServiceAssumption DEF PassGate, AtGate, PhaseReady, TypeOK, Run, runtime
  <2>2. ASSUME NEW s \in run.plan \cap Probed, PhaseOf[s] < run.phase + 1 PROVE s \in up
    <3>1. PhaseOf[s] \in Nat
      BY <2>1, ServiceAssumption
    <3>2. PhaseOf[s] < run.phase \/ PhaseOf[s] = run.phase
      BY <2>1, <2>2, <3>1
    <3> QED
      BY <2>1, <3>2 DEF GateOrder
  <2> QED
    BY <2>1, <2>2 DEF GateOrder
<1>6. CASE Record \/ (\E m \in Machine : Distribute(m)) \/ (\E s \in Service : Reuse(s) \/ Up(s))
  <2>1. /\ run.pc \in {"steps", "up", "handoff"} /\ up \subseteq up'
        /\ run'.plan = run.plan /\ run'.phase = run.phase
    <3>1. CASE Record
      BY <1>0, <3>1 DEF Record, TypeOK, Run, runtime
    <3>2. ASSUME NEW m \in Machine, Distribute(m)
          PROVE  /\ run.pc \in {"steps", "up", "handoff"} /\ up \subseteq up'
                 /\ run'.plan = run.plan /\ run'.phase = run.phase
      BY <1>0, <3>2 DEF Distribute, TypeOK, Run
    <3>3. ASSUME NEW s \in Service, Reuse(s)
          PROVE  /\ run.pc \in {"steps", "up", "handoff"} /\ up \subseteq up'
                 /\ run'.plan = run.plan /\ run'.phase = run.phase
      BY <1>0, <3>3 DEF Reuse, NextService, TypeOK, Run
    <3>4. ASSUME NEW s \in Service, Up(s)
          PROVE  /\ run.pc \in {"steps", "up", "handoff"} /\ up \subseteq up'
                 /\ run'.plan = run.plan /\ run'.phase = run.phase
      <4>1. run.pc = "steps" /\ run'.plan = run.plan /\ run'.phase = run.phase
        BY <1>0, <3>4 DEF Up, NextService, TypeOK, Run
      <4>2. up \subseteq up'
        BY <3>4 DEF Up
      <4> QED
        BY <4>1, <4>2
    <3> QED
      BY <1>6, <3>1, <3>2, <3>3, <3>4
  <2> QED
    BY <1>2, <2>1
<1>7. CASE BeforeStatus \/ BeginApply \/ (\E m \in Machine : Stage(m))
  <2>1. run'.pc \in {"cleaning", "checked", "staging"}
    <3>1. CASE BeforeStatus
      BY <1>0, <3>1, BeforeFrame
    <3>2. CASE BeginApply \/ (\E m \in Machine : Stage(m))
      BY <1>0, <3>2 DEF BeginApply, Stage, TypeOK, Run
    <3> QED
      BY <1>7, <3>1, <3>2
  <2> QED
    BY <1>1, <2>1
<1>8. CASE GateTimeout \/ FinishApply \/ Abort \/ RecordLifecycle \/ StartCommand
  <2>1. run'.pc \in {"idle", "planned", "lifecycle"}
    <3>1. CASE GateTimeout \/ FinishApply \/ Abort \/ RecordLifecycle
      BY <3>1 DEF GateTimeout, FinishApply, Abort, RecordLifecycle, IdleRun
    <3>2. ASSUME NEW inv \in Inventory, Prepare(inv) PROVE run'.pc = "idle"
      BY <3>2 DEF Prepare, LockedMayStart, Locked
    <3>3. ASSUME NEW inv \in Inventory, NEW resume \in BOOLEAN, NEW clean \in BOOLEAN,
                 StartApply(inv, resume, clean)
          PROVE  run'.pc = "planned"
      BY <3>3 DEF StartApply, IdleRun
    <3>4. ASSUME NEW s \in Service, NEW action \in Action, Lifecycle(s, action)
          PROVE  run'.pc = "lifecycle"
      BY <3>4 DEF Lifecycle, IdleRun
    <3> QED
      BY <1>8, <3>1, <3>2, <3>3, <3>4 DEF StartCommand
  <2> QED
    BY <1>1, <2>1
<1>9. CASE VerifyStep \/ PushStep \/ UNCHANGED vars
  BY <1>3, <1>9 DEF VerifyStep, VerifyProbe, VerifyRead, VerifyWrite, VerifyAbort, PushStep, PushEnds,
                    PushStart, PushStage, PushFinish, PushAbort, vars
<1>10. ~ Outside
  BY DEF Outside, OutsideRemove, OutsideStop
<1> QED
  BY <1>4, <1>5, <1>6, <1>7, <1>8, <1>9, <1>10 DEF Next, ApplyStep

\* A phase is worked on only when every probed service of the earlier phases
\* runs, reused ones included, as long as nobody stops containers by hand.
THEOREM GatesAreInOrder ==
  ASSUME "stops" \notin Environment, "removes" \notin Environment
  PROVE  Specification => []GateOrder
<1>1. Init => GateOrder
  <2> SUFFICES ASSUME Init PROVE GateOrder
    OBVIOUS
  <2>1. run.pc = "idle"
    BY DEF Init, IdleRun
  <2> QED
    BY <2>1 DEF GateOrder
<1>2. ApplyInvariant /\ GateOrder /\ [Next]_vars => GateOrder'
  BY GateStep
<1> QED
  BY <1>1, <1>2, ApplyInvariantHolds, PTL DEF Specification

-----------------------------------------------------------------------------
\* The status that an apply holds in memory has the services of the file.
Applying ==
  run.pc \in {"planned", "cleaning", "checked", "staging", "steps", "up", "handoff"}
MemoryAgrees == Applying => run.memory.services = status.services

LEMMA StatusStep ==
  ASSUME "push" \notin Commands, ControllerInvariant, MemoryAgrees, pusher.pc = "idle", [Next]_vars
  PROVE  /\ MemoryAgrees' /\ pusher'.pc = "idle"
         /\ \A s \in Service : status.services[s] = "applied" => status'.services[s] # "none"
<1> DEFINE Goal == /\ MemoryAgrees' /\ pusher'.pc = "idle"
                   /\ \A s \in Service : status.services[s] = "applied" => status'.services[s] # "none"
<1>0. TypeOK
  BY DEF ControllerInvariant
<1>1. ASSUME UNCHANGED <<run, pusher>>, status'.services = status.services PROVE Goal
  BY <1>1 DEF MemoryAgrees, Applying
<1>2. CASE BeforeStatus \/ BeginApply \/ StartSteps \/ PassGate \/ (\E m \in Machine : Stage(m) \/ Distribute(m))
           \/ (\E s \in Service : Reuse(s) \/ Up(s))
  <2>1. /\ Applying /\ run'.memory.services = run.memory.services /\ UNCHANGED pusher
        /\ status'.services \in {status.services, run.memory.services}
    <3> USE <1>0 DEF Applying, TypeOK, Run
    <3> DEFINE Carried == /\ Applying /\ run'.memory.services = run.memory.services /\ UNCHANGED pusher
                          /\ status'.services \in {status.services, run.memory.services}
    <3>1. CASE BeginApply
      BY <3>1 DEF BeginApply, Begun, Status
    <3>6. CASE BeforeStatus
      BY <3>6, BeforeFrame
    <3>2. CASE StartSteps \/ PassGate
      BY <3>2 DEF StartSteps, PassGate, AtGate
    <3>3. ASSUME NEW m \in Machine, Stage(m) \/ Distribute(m) PROVE Carried
      BY <3>3 DEF Stage, Distribute
    <3>4. ASSUME NEW s \in Service, Reuse(s) PROVE Carried
      BY <3>4 DEF Reuse, NextService, Completed, Status
    <3>5. ASSUME NEW s \in Service, Up(s) PROVE Carried
      BY <3>5 DEF Up, NextService
    <3> QED
      BY <1>2, <3>1, <3>2, <3>3, <3>4, <3>5, <3>6
  <2> QED
    BY <2>1 DEF MemoryAgrees, Applying
<1>3. CASE Record
  <2>1. /\ Applying /\ UNCHANGED pusher
        /\ run'.memory.services = [run.memory.services EXCEPT ![run.service] = "applied"]
        /\ status'.services = run'.memory.services
        /\ run.memory.services \in [Service -> ServiceState]
    BY <1>0, <1>3 DEF Record, Completed, Applying, TypeOK, Run, Status
  <2> QED
    BY <2>1 DEF MemoryAgrees
<1>4. CASE FinishApply
  <2>1. /\ Applying /\ run'.pc = "idle" /\ UNCHANGED pusher
        /\ status'.services = run.memory.services
    BY <1>0, <1>4 DEF FinishApply, IdleRun, Applying, TypeOK, Run, Status
  <2> QED
    BY <2>1 DEF MemoryAgrees, Applying
<1>5. CASE GateTimeout \/ Abort
  BY <1>5 DEF GateTimeout, Abort, IdleRun, MemoryAgrees, Applying
<1>6. CASE RecordLifecycle
  <2>1. /\ run'.pc = "idle" /\ UNCHANGED pusher
        /\ status'.services = [status.services EXCEPT ![run.service] = LifecycleState(run.action)]
        /\ status.services \in [Service -> ServiceState]
    BY <1>0, <1>6 DEF RecordLifecycle, IdleRun, TypeOK, Status
  <2>2. LifecycleState(run.action) # "none"
    BY DEF LifecycleState
  <2> QED
    BY <2>1, <2>2 DEF MemoryAgrees, Applying
<1>7. ASSUME NEW inv \in Inventory, NEW resume \in BOOLEAN, NEW clean \in BOOLEAN,
             StartApply(inv, resume, clean)
      PROVE  Goal
  BY <1>7 DEF StartApply, IdleRun, MemoryAgrees
<1>8. CASE (\E inv \in Inventory : Prepare(inv))
           \/ (\E s \in Service, action \in Action : Lifecycle(s, action))
  <2>1. ASSUME NEW inv \in Inventory, Prepare(inv) PROVE Goal
    BY <1>1, <2>1 DEF Prepare
  <2>2. ASSUME NEW s \in Service, NEW action \in Action, Lifecycle(s, action) PROVE Goal
    <3>1. UNCHANGED <<status, pusher>> /\ run'.pc = "lifecycle"
      BY <2>2 DEF Lifecycle, IdleRun
    <3> QED
      BY <3>1 DEF MemoryAgrees, Applying
  <2> QED
    BY <1>8, <2>1, <2>2
<1>9. CASE VerifyStep
  <2>1. UNCHANGED <<run, pusher>> /\ status'.services = status.services
    BY <1>0, <1>9 DEF VerifyStep, VerifyProbe, VerifyRead, VerifyWrite, VerifyAbort,
                      ControllerInvariant, VerifierCopy, TypeOK, Verifier, Status
  <2> QED
    BY <1>1, <2>1
<1>10. ~ PushStep
  BY DEF PushStep, PushEnds, PushStart, PushStage, PushFinish, PushAbort
<1>11. CASE Outside \/ UNCHANGED vars
  BY <1>1, <1>11 DEF Outside, OutsideRemove, OutsideStop, vars
<1> QED
  BY <1>2, <1>3, <1>4, <1>5, <1>6, <1>7, <1>8, <1>9, <1>10, <1>11 DEF Next, StartCommand, ApplyStep

\* No command but push forgets a service that is recorded as applied: apply
\* carries the services over from the status it read, and verify writes back
\* what it read, which overlapping commands would have made stale.
THEOREM ManagedIsRemembered ==
  ASSUME OneCommandAtATime, "push" \notin Commands
  PROVE  Specification => ManagedRemembered
<1> DEFINE Agrees == MemoryAgrees /\ pusher.pc = "idle"
<1>1. Init => Agrees
  <2> SUFFICES ASSUME Init PROVE Agrees
    OBVIOUS
  <2>1. run.pc = "idle" /\ pusher.pc = "idle"
    BY DEF Init, IdleRun, NoPush
  <2> QED
    BY <2>1 DEF MemoryAgrees, Applying
<1>2. ControllerInvariant /\ Agrees /\ [Next]_vars => Agrees'
  BY StatusStep
<1>3. ControllerInvariant /\ Agrees /\ [Next]_vars =>
        [\A s \in Service : status.services[s] = "applied" => status'.services[s] # "none"]_vars
  BY StatusStep
<1> QED
  BY <1>1, <1>2, <1>3, InvariantHolds, PTL DEF Specification, ManagedRemembered
-----------------------------------------------------------------------------
(* Data of another deployment.  The check for it is skipped once there is a   *)
(* status, so it says something only of the services it has looked at: those  *)
(* of every inventory, when all inventories have the same stateful services.  *)

OneStateful ==
  \A inv1, inv2 \in Inventory :
    /\ Stateful \cap InPlan(inv1) = Stateful \cap InPlan(inv2)
    /\ Stateful \cap InPlan(inv1) \subseteq Guarded

\* Nothing foreign is left where a service of an inventory keeps its data, or
\* an operator vouched for it.  No step undoes either.
Safe == vouched \/ \A inv \in Inventory : \A s \in InPlan(inv) : data[s] # "old"

\* Whatever makes a later command trust the data that is there.
Trusting ==
  \/ status.state # "absent" \/ verifier.pc # "idle"
  \/ \E s \in Service : staged[s] # NoVersion
  \/ Before /\ run.memory.state # "absent"
  \/ AtWork \/ run.pc = "lifecycle"

\* Once the data was looked at, what is left of another deployment's is what
\* --clean is about to remove.
Looked ==
  run.pc \in {"cleaning", "checked"} /\ CheckedInstall =>
    \A s \in run.plan \cap Guarded :
      data[s] = "old" => run.pc = "cleaning" /\ s \in run.wipe

ForeignClaims ==
  /\ Trusting => Safe
  /\ Looked
  /\ Applying => \E inv \in Inventory : run.plan = InPlan(inv)
  /\ \A s \in Service : data[s] = "old" => s \in Stateful
  /\ pusher.pc = "idle"

LEMMA SafeStays ==
  ASSUME TypeOK, ForeignClaims, [Next]_vars
  PROVE  /\ Safe => Safe'
         /\ \A s \in Service : data'[s] = "old" => data[s] = "old"
<1>1. /\ vouched => vouched'
      /\ \A s \in Service : data'[s] = "old" => data[s] = "old"
  <2>1. CASE BeginApply
    BY <2>1 DEF BeginApply, runtime
  <2>6. CASE BeforeStatus
    BY <2>6, BeforeFrame
  <2>2. ASSUME NEW s \in Service, Up(s)
        PROVE  /\ UNCHANGED vouched
               /\ \A t \in Service : data'[t] = "old" => data[t] = "old"
    BY <2>2 DEF Up, TypeOK
  <2>3. CASE UNCHANGED <<vouched, data>>
    BY <2>3
  <2>4. CASE StartCommand \/ RecordLifecycle \/ Abort \/ VerifyStep \/ PushStep \/ Outside \/ UNCHANGED vars
    BY <2>3, <2>4 DEF StartCommand, Prepare, StartApply, Lifecycle, RecordLifecycle, Abort,
       VerifyStep, VerifyProbe, VerifyRead, VerifyWrite, VerifyAbort,
       PushStep, PushEnds, PushStart, PushStage, PushFinish, PushAbort,
       Outside, OutsideRemove, OutsideStop, vars
  <2>5. CASE StartSteps \/ Record \/ PassGate \/ GateTimeout \/ FinishApply
             \/ (\E m \in Machine : Stage(m) \/ Distribute(m)) \/ (\E s \in Service : Reuse(s))
    BY <2>3, <2>5 DEF StartSteps, Record, PassGate, GateTimeout, FinishApply, Stage, Distribute, Reuse
  <2> QED
    BY <2>1, <2>2, <2>4, <2>5, <2>6 DEF Next, ApplyStep
<1>2. \A inv \in Inventory : InPlan(inv) \subseteq Service
  BY DEF InPlan
<1> QED
  BY <1>1, <1>2 DEF Safe

LEMMA ForeignStep ==
  ASSUME OneStateful, "push" \notin Commands, "probe fails" \notin Environment,
         TypeOK, ForeignClaims, [Next]_vars
  PROVE  ForeignClaims'
<1> USE DEF Before
<1>1. \A s \in Service : data'[s] = "old" => s \in Stateful
  BY SafeStays DEF ForeignClaims
<1>2. Safe => Safe'
  BY SafeStays
<1>3. ASSUME UNCHANGED <<staged, status, run, verifier, pusher>> PROVE ForeignClaims'
  <2>1. Looked'
    BY <1>1, <1>3, SafeStays DEF ForeignClaims, Looked, CheckedInstall, TypeOK, Run
  <2> QED
    BY <1>1, <1>2, <1>3, <2>1 DEF ForeignClaims, Trusting, AtWork, AtSteps, Applying
<1>4. ASSUME Safe', pusher' = pusher, Applying' => Applying, run'.pc # "idle" => run'.plan = run.plan,
             run'.pc \notin {"cleaning", "checked"}
      PROVE  ForeignClaims'
  <2>1. Applying' => \E inv \in Inventory : run'.plan = InPlan(inv)
    BY <1>4 DEF ForeignClaims, Applying
  <2> QED
    BY <1>1, <1>4, <2>1 DEF ForeignClaims, Looked
<1>5. CASE BeginApply
  <2>1. /\ run.pc = "checked" /\ run'.pc = "staging" /\ run'.plan = run.plan /\ UNCHANGED pusher
    BY <1>5 DEF BeginApply, TypeOK, Run
  <2>2. Safe'
    <3>1. CASE run.resume \/ run.memory.state # "absent"
      BY <1>2, <1>5, <2>1, <3>1 DEF BeginApply, ForeignClaims, Trusting, Safe
    <3>2. CASE CheckedInstall
      <4>1. PICK inv \in Inventory : run.plan = InPlan(inv)
        BY <2>1 DEF ForeignClaims, Applying
      <4>2. \A s \in Service : s \in run.plan \cap Guarded => data'[s] \notin {"old"}
        BY <1>5, <2>1, <3>2 DEF BeginApply, ForeignClaims, Looked
      <4>3. ASSUME NEW i \in Inventory, NEW s \in InPlan(i) PROVE data'[s] # "old"
        BY <1>1, <4>1, <4>2 DEF OneStateful, InPlan
      <4> QED
        BY <4>3 DEF Safe
    <3> QED
      BY <3>1, <3>2 DEF CheckedInstall
  <2> QED
    BY <1>4, <2>1, <2>2 DEF Applying
<1>13. CASE BeforeStatus
  <2>1. /\ run.pc \in {"planned", "cleaning"} /\ run'.pc \in {"cleaning", "checked"}
        /\ run'.plan = run.plan /\ run'.memory = run.memory /\ run'.resume = run.resume
        /\ UNCHANGED <<staged, status, verifier, pusher>>
    BY <1>13, BeforeFrame
  <2>2. Trusting' => Safe'
    BY <1>2, <2>1 DEF ForeignClaims, Trusting, AtWork, AtSteps
  <2>3. ASSUME NEW unanswered \in SUBSET Service, NEW unseen \in Unseen,
               Reconcile(unanswered, unseen)
        PROVE  Looked'
    <3>1. unseen = {}
      BY DEF Unseen
    <3>2. /\ UNCHANGED data
          /\ CheckedInstall => /\ run'.wipe = ExistingData(unseen)
                               /\ run'.pc = "checked" => ExistingData(unseen) = {}
      BY <2>3 DEF Reconcile, TypeOK, Run
    <3>3. CheckedInstall' => CheckedInstall
      BY <2>1 DEF CheckedInstall
    <3>4. \A s \in run.plan \cap Guarded : data[s] = "old" => s \in ExistingData(unseen)
      BY <3>1 DEF ExistingData
    <3>5. SUFFICES ASSUME CheckedInstall', NEW s \in (run.plan \cap Guarded)', data'[s] = "old"
                   PROVE  run'.pc = "cleaning" /\ s \in run'.wipe
      BY DEF Looked
    <3>6. CheckedInstall /\ s \in ExistingData(unseen)
      BY <2>1, <3>2, <3>3, <3>4, <3>5
    <3>7. s \in run'.wipe /\ run'.pc # "checked"
      BY <3>2, <3>6
    <3> QED
      BY <2>1, <3>7
  <2>4. ASSUME CleanContracts PROVE Looked'
    <3>1. run.pc = "cleaning" /\ run.wipe = {} /\ UNCHANGED data
      BY <2>4 DEF CleanContracts
    <3> QED
      BY <2>1, <3>1 DEF ForeignClaims, Looked, CheckedInstall
  <2>5. ASSUME NEW s \in Service, CleanData(s) PROVE Looked'
    <3>1. /\ run.pc = "cleaning" /\ run'.pc = "cleaning" /\ run'.wipe = run.wipe \ {s}
          /\ data' = [data EXCEPT ![s] = "none"]
      BY <2>5 DEF CleanData, TypeOK, Run
    <3>2. \A t \in Service : data'[t] = "old" => t # s /\ data[t] = "old"
      BY <3>1 DEF TypeOK
    <3>3. run.plan \subseteq Service
      BY DEF TypeOK, Run
    <3> QED
      BY <2>1, <3>1, <3>2, <3>3 DEF ForeignClaims, Looked, CheckedInstall
  <2> QED
    BY <1>1, <1>13, <2>1, <2>2, <2>3, <2>4, <2>5 DEF ForeignClaims, BeforeStatus, Applying
<1>6. CASE StartSteps \/ Record \/ PassGate \/ FinishApply \/ GateTimeout \/ RecordLifecycle
           \/ (\E m \in Machine : Stage(m) \/ Distribute(m)) \/ (\E s \in Service : Reuse(s) \/ Up(s))
  <2>1. /\ AtWork \/ run.pc = "lifecycle"
        /\ UNCHANGED pusher /\ (run'.pc # "idle" => AtWork /\ run'.plan = run.plan)
    <3>2. CASE FinishApply \/ GateTimeout \/ RecordLifecycle
      BY <3>2, IdlePc DEF FinishApply, GateTimeout, AtGate, RecordLifecycle, AtWork, AtSteps
    <3> USE DEF AtWork, AtSteps, TypeOK, Run
    <3>1. CASE StartSteps \/ Record \/ PassGate
      BY <3>1 DEF StartSteps, Record, PassGate, AtGate
    <3>3. ASSUME NEW m \in Machine, Stage(m) \/ Distribute(m)
          PROVE  AtWork /\ UNCHANGED pusher /\ run'.plan = run.plan
      BY <3>3 DEF Stage, Distribute
    <3>4. ASSUME NEW s \in Service, Reuse(s) \/ Up(s)
          PROVE  AtWork /\ UNCHANGED pusher /\ run'.plan = run.plan
      BY <3>4 DEF Reuse, Up, NextService
    <3> QED
      BY <1>6, <3>1, <3>2, <3>3, <3>4
  <2>2. Safe'
    BY <1>2, <2>1 DEF ForeignClaims, Trusting
  <2>3. Applying' => Applying
    BY <2>1 DEF Applying, AtWork, AtSteps
  <2>4. run'.pc \notin {"cleaning", "checked"}
    <3>2. CASE FinishApply \/ GateTimeout \/ RecordLifecycle
      BY <3>2, IdlePc DEF FinishApply, GateTimeout, RecordLifecycle
    <3> USE DEF TypeOK, Run
    <3>1. CASE StartSteps \/ Record \/ PassGate
      BY <3>1 DEF StartSteps, Record, PassGate, AtGate
    <3>3. ASSUME NEW m \in Machine, Stage(m) \/ Distribute(m)
          PROVE  run'.pc \notin {"cleaning", "checked"}
      BY <3>3 DEF Stage, Distribute
    <3>4. ASSUME NEW s \in Service, Reuse(s) \/ Up(s)
          PROVE  run'.pc \notin {"cleaning", "checked"}
      BY <3>4 DEF Reuse, Up, NextService
    <3> QED
      BY <1>6, <3>1, <3>2, <3>3, <3>4
  <2> QED
    BY <1>4, <2>1, <2>2, <2>3, <2>4
<1>7. CASE Abort
  <2>1. run'.pc = "idle" /\ UNCHANGED <<staged, status, verifier, pusher>>
    BY <1>7 DEF Abort, IdleRun
  <2> QED
    BY <1>1, <1>2, <2>1 DEF ForeignClaims, Looked, Trusting, AtWork, AtSteps, Applying
<1>8. ASSUME NEW inv \in Inventory, NEW resume \in BOOLEAN, NEW clean \in BOOLEAN,
             StartApply(inv, resume, clean)
      PROVE  ForeignClaims'
  <2>1. /\ run'.pc = "planned" /\ run'.memory = status /\ run'.plan = InPlan(inv)
        /\ UNCHANGED <<staged, status, verifier, pusher>>
    BY <1>8 DEF StartApply, IdleRun
  <2> QED
    BY <1>1, <1>2, <2>1 DEF ForeignClaims, Looked, Trusting, AtWork, AtSteps
<1>9. ASSUME NEW s \in Service, NEW action \in Action, Lifecycle(s, action) PROVE ForeignClaims'
  <2>1. staged[s] # NoVersion /\ run'.pc = "lifecycle" /\ UNCHANGED pusher
    BY <1>9 DEF Lifecycle, IdleRun
  <2> QED
    BY <1>1, <1>2, <2>1 DEF ForeignClaims, Looked, Trusting, Applying
<1>10. CASE VerifyStep
  <2>1. UNCHANGED <<run, pusher>> /\ (status.state # "absent" \/ verifier.pc # "idle")
    BY <1>10 DEF VerifyStep, VerifyProbe, VerifyRead, VerifyWrite, VerifyAbort
  <2>2. UNCHANGED data
    BY <1>10 DEF VerifyStep, VerifyProbe, VerifyRead, VerifyWrite, VerifyAbort
  <2> QED
    BY <1>1, <1>2, <2>1, <2>2 DEF ForeignClaims, Looked, CheckedInstall, Trusting, Applying
<1>11. CASE (\E inv \in Inventory : Prepare(inv)) \/ Outside \/ UNCHANGED vars
  BY <1>3, <1>11 DEF Prepare, Outside, OutsideRemove, OutsideStop, vars
<1>12. ~ PushStep
  BY DEF ForeignClaims, PushStep, PushEnds, PushStart, PushStage, PushFinish, PushAbort
<1> QED
  BY <1>5, <1>6, <1>7, <1>8, <1>9, <1>10, <1>11, <1>12, <1>13 DEF Next, StartCommand, ApplyStep

\* Without push, which leaves a status that nobody checked, when every probe for
\* data answers, and when all inventories have the same stateful services and all of these are guarded, no
\* service is started on another deployment's data unless an operator ran
\* --resume: in every environment, --clean and overlapping commands included.
THEOREM DataIsOwn ==
  ASSUME OneStateful, "push" \notin Commands, "probe fails" \notin Environment
  PROVE  Specification => []NoForeignData
<1>1. Init => ForeignClaims
  <2> SUFFICES ASSUME Init PROVE ForeignClaims
    OBVIOUS
  <2>1. /\ status.state = "absent" /\ verifier.pc = "idle" /\ run.pc = "idle" /\ pusher.pc = "idle"
        /\ \A s \in Service : staged[s] = NoVersion
    BY DEF Init, NoStatus, NoVerify, IdleRun, NoPush
  <2> QED
    BY <2>1 DEF Init, ForeignClaims, Looked, Trusting, AtWork, AtSteps, Before, Applying
<1>2. TypeOK /\ ForeignClaims /\ [Next]_vars => ForeignClaims'
  BY ForeignStep
<1>3. ApplyInvariant /\ ForeignClaims => NoForeignData
  <2> SUFFICES ASSUME ApplyInvariant, ForeignClaims, run.pc = "up", data[run.service] = "old", ~ vouched
               PROVE  FALSE
    BY DEF NoForeignData
  <2>1. run.service \in run.plan
    BY DEF ApplyInvariant, PlanClaims, AtWork, AtSteps
  <2>2. Safe
    BY DEF ForeignClaims, Trusting, AtWork, AtSteps
  <2> QED
    BY <2>1, <2>2 DEF ForeignClaims, Applying, Safe
<1> QED
  BY <1>1, <1>2, <1>3, TypeCorrect, ApplyInvariantHolds, PTL DEF Specification
=============================================================================
