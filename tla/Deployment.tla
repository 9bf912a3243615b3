----------------------------- MODULE Deployment -----------------------------
(***************************************************************************)
(* The controller of one deployment run (deployment_v3/runner.py, with     *)
(* state.py and verify.py): what `prepare`, `push`, `apply`, `services     *)
(* <action>` and `verify` do to the prepared bundle, to the staged machine *)
(* directories, to the containers and to status.json.                      *)
(*                                                                         *)
(* `apply`, `prepare` and the lifecycle commands hold the run lock, so at  *)
(* most one of them is in progress: `run` is that command.  `push` and     *)
(* `verify` take no lock, and each has a variable of its own.  A command   *)
(* that raises, and a controller that is killed, both leave the files as   *)
(* they are and drop the lock: Abort is either.                            *)
(***************************************************************************)
EXTENDS Naturals, FiniteSets

CONSTANTS
  Service,      \* service ids of all the inventories considered
  Job,          \* one-shot services: `run --rm` leaves no container behind
  Producer,     \* the contracts-deploy job
  Consumer,     \* services whose env_file lists contracts.env
  Stateful,     \* services with a data directory of their own
  Guarded,      \* the ones persistent_data_inventory looks at
  Probed,       \* services that the readiness gate of their phase probes
  Machine, MachineOf,
  LocalMachine, \* machines staged by copytree; the others by rsync and symlink
  PhaseOf,      \* position of a service's phase in the plan, 1..LastPhase
  LastPhase,
  Spec, File,   \* rendered service definitions; contents of mounted files
  NoVersion,
  Inventory,    \* the inventories operators apply
  Commands,     \* the commands operators use
  Environment   \* what happens around the controller

Version == [spec : Spec, file : File]
Slots == [Service -> Version \cup {NoVersion}]

ASSUME ServiceAssumption ==
  /\ Job \subseteq Service /\ Producer \in Job
  /\ Consumer \subseteq Service \ Job /\ Stateful \subseteq Service \ Job
  /\ Guarded \subseteq Stateful /\ Probed \subseteq Service \ Job
  /\ MachineOf \in [Service -> Machine] /\ LocalMachine \subseteq Machine
  /\ LastPhase \in Nat /\ PhaseOf \in [Service -> 1..LastPhase]
  /\ NoVersion \notin Version

\* inventory.py requires a contracts connection of every consumer, and the
\* planner puts the contracts phase before the applications.
ASSUME InventoryAssumption ==
  /\ Inventory \subseteq Slots
  /\ \A inv \in Inventory, c \in Consumer :
       inv[c] # NoVersion => inv[Producer] # NoVersion
  /\ \A c \in Consumer : PhaseOf[Producer] < PhaseOf[c]

ASSUME CommandAssumption ==
  /\ Commands \subseteq {"prepare", "push", "verify", "lifecycle", "clean"}
  /\ Environment \subseteq {"overlap", "push fails", "removes", "stops", "old data",
                            "probe fails"}

\* Operators run one command at a time and let a push end: what the inductive
\* argument below takes for granted.
OneCommandAtATime ==
  "overlap" \notin Environment /\ "push fails" \notin Environment

VARIABLES
  bundle,     \* the prepared bundle: the version of each service in it
  staged,     \* the machine directories: what the Compose files there start
  container,  \* the definition and file contents each container runs with
  up,         \* the services whose container is running
  data,       \* the persistent directories
  contractsEnv, \* contracts.env on each machine
  vouched,    \* an operator ran --resume, vouching for the data that is there
  status,     \* status.json
  run,        \* the command that holds the lock
  verifier,   \* `verify`
  pusher      \* `push`

runtime == <<container, up, data, contractsEnv>>
files == <<bundle, staged>>
vars == <<bundle, staged, container, up, data, contractsEnv, vouched, status, run,
          verifier, pusher>>

ServiceState == {"none", "applied", "stopped", "removed"}
Status == [state : {"absent", "running", "applied", "pushed", "managed",
                    "verified", "verification_failed"},
           services : [Service -> ServiceState], fingerprints : Slots]
Nothing == [s \in Service |-> NoVersion]
NoStatus == [state |-> "absent", services |-> [s \in Service |-> "none"],
             fingerprints |-> Nothing]

Action == {"build", "stop", "start", "restart", "recreate", "remove"}
Run == [pc : {"idle", "planned", "cleaning", "checked", "staging", "steps", "up",
              "handoff", "lifecycle"},
        resume : BOOLEAN, clean : BOOLEAN, plan : SUBSET Service,
        memory : Status, changed : SUBSET Service, wipe : SUBSET Service,
        stage : SUBSET Machine,
        todo : SUBSET Service, phase : 1..(LastPhase + 1), service : Service,
        action : Action, targets : SUBSET Machine]
IdleRun == [pc |-> "idle", resume |-> FALSE, clean |-> FALSE, plan |-> {},
            memory |-> NoStatus, changed |-> {}, wipe |-> {}, stage |-> {}, todo |-> {},
            phase |-> 1, service |-> Producer, action |-> "build", targets |-> {}]

NoVerify == [pc |-> "idle", ok |-> FALSE, read |-> NoStatus]
Verifier == [pc : {"idle", "probed", "read"}, ok : BOOLEAN, read : Status]
NoPush == [pc |-> "idle", left |-> {}]
Pusher == [pc : {"idle", "staging"}, left : SUBSET Machine]

InPlan(slots) == {s \in Service : slots[s] # NoVersion}
Prepared == InPlan(bundle) # {}

TypeOK ==
  /\ bundle \in Slots /\ staged \in Slots /\ container \in Slots
  /\ up \subseteq Service
  /\ data \in [Service -> {"none", "old", "own"}]
  /\ contractsEnv \in [Machine -> {"absent", "empty", "filled"}]
  /\ vouched \in BOOLEAN
  /\ status \in Status /\ run \in Run
  /\ verifier \in Verifier /\ pusher \in Pusher

Init ==
  /\ bundle = Nothing /\ staged = Nothing /\ container = Nothing /\ up = {}
  /\ data \in [Service -> {"none", "old"}]
  /\ \A s \in Service : data[s] = "old" => s \in Stateful /\ "old data" \in Environment
  /\ contractsEnv = [m \in Machine |-> "absent"] /\ vouched = FALSE
  /\ status = NoStatus /\ run = IdleRun /\ verifier = NoVerify /\ pusher = NoPush

-----------------------------------------------------------------------------
(* What may start.  deployment_lock refuses a second locked command; push   *)
(* and verify look at no lock, so with "overlap" they start at any time and *)
(* commands start during them.                                              *)

Locked == run.pc # "idle"
UnlockedMayStart ==
  \/ "overlap" \in Environment
  \/ ~Locked /\ verifier.pc = "idle" /\ pusher.pc = "idle"
LockedMayStart ==
  /\ ~Locked
  /\ "overlap" \in Environment \/ (verifier.pc = "idle" /\ pusher.pc = "idle")

(* prepare, and the _prepare_bundle of an apply that fails right after it.  *)
Prepare(inv) ==
  /\ "prepare" \in Commands /\ LockedMayStart
  /\ bundle' = inv
  /\ UNCHANGED <<staged, runtime, vouched, status, run, verifier, pusher>>

-----------------------------------------------------------------------------
(* apply: prepare or reuse the bundle, read status.json and classify every  *)
(* service of the plan by its recorded state and fingerprint.  The plan is  *)
(* the inventory's; the fingerprints are computed from the bundle.          *)

StartApply(inv, resume, clean) ==
  /\ LockedMayStart
  /\ clean => "clean" \in Commands
  /\ bundle' = IF resume /\ Prepared THEN bundle ELSE inv
  /\ InPlan(inv) \subseteq InPlan(bundle')
  /\ \A s \in Service : status.services[s] = "applied" => s \in InPlan(inv)
  /\ run' = [IdleRun EXCEPT
       !.pc = "planned", !.resume = resume, !.clean = clean,
       !.plan = InPlan(inv), !.todo = InPlan(inv), !.memory = status,
       !.changed = {s \in InPlan(inv) : \/ status.services[s] # "applied"
                                        \/ status.fingerprints[s] # bundle'[s]}]
  /\ UNCHANGED <<staged, runtime, vouched, status, verifier, pusher>>

ExistsOrJob(s) == s \in Job \/ container[s] # NoVersion  \* mutant: jobs always exist
ExistsInRuntime(s) == container[s] # NoVersion

\* Mutant: status.json is believed.
NoneMissing(unanswered) == {}
\* Services recorded as applied whose container is gone are applied again, and
\* so are those whose `docker compose ps -a` fails.  One-shot jobs never leave
\* a container, so they always are.  A stopped container is there.
MissingInRuntime(unanswered) ==
  {s \in run.plan \ run.changed : s \in unanswered \/ ~ExistsInRuntime(s)}

\* The data directories found in use; one whose probe fails counts as empty.
ExistingData(unseen) == {s \in (run.plan \cap Guarded) \ unseen : data[s] # "none"}
Unseen == IF "probe fails" \in Environment THEN SUBSET Guarded ELSE {{}}

\* _reject_existing_chain_data: skipped by --resume and by any status.json.
\* Mutant: --clean skips the check, and with it the removal.
CheckedUnlessClean == ~run.resume /\ run.memory.state = "absent" /\ ~run.clean
CheckedInstall == ~run.resume /\ run.memory.state = "absent"

\* Classify the plan against the containers that exist, and look for data that
\* another deployment left: --clean removes it, and without it apply refuses.
Reconcile(unanswered, unseen) ==
  /\ run.pc = "planned"
  /\ LET existing == IF CheckedInstall THEN ExistingData(unseen) ELSE {}
     IN /\ existing = {} \/ run.clean
        /\ run' = [run EXCEPT !.pc = IF existing = {} THEN "checked" ELSE "cleaning",
                              !.changed = @ \cup MissingInRuntime(unanswered),
                              !.wipe = existing]
  /\ UNCHANGED <<files, runtime, vouched, status, verifier, pusher>>

\* The removal, one directory at a time; last the contracts' runtime, which is
\* removed only where data was.
CleanData(s) ==
  /\ run.pc = "cleaning" /\ s \in run.wipe
  /\ data' = [data EXCEPT ![s] = "none"]
  /\ run' = [run EXCEPT !.wipe = @ \ {s}]
  /\ UNCHANGED <<files, container, up, contractsEnv, vouched, status, verifier, pusher>>

CleanContracts ==
  /\ run.pc = "cleaning" /\ run.wipe = {}
  /\ contractsEnv' = IF Producer \in run.plan
                       THEN [contractsEnv EXCEPT ![MachineOf[Producer]] = "absent"]
                       ELSE contractsEnv
  /\ run' = [run EXCEPT !.pc = "checked"]
  /\ UNCHANGED <<files, container, up, data, vouched, status, verifier, pusher>>

\* The status an apply starts from: the services stay on record, the
\* fingerprints start afresh.
BegunAfresh(memory) == [NoStatus EXCEPT !.state = "running"]  \* mutant
BegunKeeping(memory) == [memory EXCEPT !.state = "running"]   \* mutant
Begun(memory) == [memory EXCEPT !.state = "running", !.fingerprints = Nothing]

BeginApply ==
  /\ run.pc = "checked"
  /\ run' = [run EXCEPT !.pc = "staging", !.memory = Begun(@),
                        !.stage = {MachineOf[s] : s \in run.changed}]
  /\ status' = Begun(run.memory)
  /\ vouched' = (vouched \/ run.resume)
  /\ UNCHANGED <<files, runtime, verifier, pusher>>

\* _stage: a local copytree leaves what the bundle no longer has; over SSH the
\* `current` symlink moves to a directory that holds the new bundle alone.
StagedOn(m) ==
  [s \in Service |-> IF MachineOf[s] # m \/ (m \in LocalMachine /\ bundle[s] = NoVersion)
                       THEN staged[s] ELSE bundle[s]]

Stage(m) ==
  /\ run.pc = "staging" /\ m \in run.stage
  /\ staged' = StagedOn(m)
  /\ run' = [run EXCEPT !.stage = @ \ {m}]
  /\ UNCHANGED <<bundle, runtime, vouched, status, verifier, pusher>>

StartSteps ==
  /\ run.pc = "staging" /\ run.stage = {}
  /\ run' = [run EXCEPT !.pc = "steps"]
  /\ UNCHANGED <<files, runtime, vouched, status, verifier, pusher>>

-----------------------------------------------------------------------------
(* The plan's steps: services of the current phase, then its gate.          *)

NextService(s) == run.pc = "steps" /\ s \in run.todo /\ PhaseOf[s] = run.phase

\* The step's write_status, with the fingerprint it puts in the status.
CompletedIfApplied(s, memory) ==  \* mutant: a reused service has none
  IF s \in run.changed THEN [memory EXCEPT !.fingerprints[s] = bundle[s]] ELSE memory
Completed(s, memory) ==
  [memory EXCEPT !.fingerprints[s] = bundle[s]]

Reuse(s) ==
  /\ NextService(s) /\ s \notin run.changed
  /\ run' = [run EXCEPT !.todo = @ \ {s}, !.memory = Completed(s, @)]
  /\ status' = Completed(s, run.memory)
  /\ UNCHANGED <<files, runtime, vouched, verifier, pusher>>

\* `docker compose up -d`: Compose recreates a container whose definition
\* changed, starts a stopped one, and leaves a running one alone.  Mounted
\* files are read when the container starts.
Upped(s, v, force) ==
  IF container[s] = NoVersion \/ force \/ container[s].spec # v.spec THEN v
  ELSE IF s \in up THEN container[s]
  ELSE [spec |-> container[s].spec, file |-> v.file]

\* _apply_service up to the docker command; the status is written in Record.
Up(s) ==
  /\ NextService(s) /\ s \in run.changed /\ staged[s] # NoVersion
  /\ IF s \in Job
       THEN UNCHANGED <<container, up>>
       ELSE /\ container' = [container EXCEPT ![s] = Upped(s, staged[s], run.clean)]
            /\ up' = up \cup {s}
  /\ data' = [data EXCEPT ![s] = IF s \in Stateful /\ @ = "none" THEN "own" ELSE @]
  /\ contractsEnv' = [contractsEnv EXCEPT ![MachineOf[s]] =
                        IF s = Producer THEN "filled"
                        ELSE IF @ = "absent" THEN "empty" ELSE @]
  /\ run' = [run EXCEPT
       !.pc = IF s = Producer THEN "handoff" ELSE "up", !.service = s,
       !.targets = IF s = Producer
                     THEN {MachineOf[c] : c \in Consumer \cap run.plan} \ {MachineOf[s]}
                     ELSE {}]
  /\ UNCHANGED <<files, vouched, status, verifier, pusher>>

\* _distribute_contract_runtime: one recipient machine at a time.
Distribute(m) ==
  /\ run.pc = "handoff" /\ m \in run.targets
  /\ contractsEnv' = [contractsEnv EXCEPT ![m] = "filled"]
  /\ run' = [run EXCEPT !.targets = @ \ {m}]
  /\ UNCHANGED <<files, container, up, data, vouched, status, verifier, pusher>>

Record ==
  /\ run.pc = "up" \/ (run.pc = "handoff" /\ run.targets = {})
  /\ LET s == run.service
         memory == [Completed(s, run.memory) EXCEPT !.services[s] = "applied"]
     IN /\ run' = [run EXCEPT !.pc = "steps", !.todo = @ \ {s}, !.memory = memory]
        /\ status' = memory
  /\ UNCHANGED <<files, runtime, vouched, verifier, pusher>>

\* check_phase: every probed service of the phase answers.
ChangedReady(p) ==  \* mutant: reused services are not probed
  \A s \in run.changed \cap Probed : PhaseOf[s] = p => s \in up
PhaseReady(p) ==
  \A s \in run.plan \cap Probed : PhaseOf[s] = p => s \in up

AtAnyGate ==  \* mutant: no last phase
  run.pc = "steps" /\ \A s \in run.todo : PhaseOf[s] # run.phase
AtGate ==
  /\ run.pc = "steps" /\ run.phase <= LastPhase
  /\ \A s \in run.todo : PhaseOf[s] # run.phase

PassGate ==
  /\ AtGate /\ PhaseReady(run.phase)
  /\ run' = [run EXCEPT !.phase = @ + 1]
  /\ status' = run.memory
  /\ UNCHANGED <<files, runtime, vouched, verifier, pusher>>

\* wait_for_phase gives up after 60 attempts.
GateTimeout ==
  /\ AtGate /\ ~PhaseReady(run.phase)
  /\ run' = IdleRun
  /\ UNCHANGED <<files, runtime, vouched, status, verifier, pusher>>

FinishApply ==
  /\ run.pc = "steps" /\ run.phase = LastPhase + 1
  /\ status' = [run.memory EXCEPT !.state = "applied"]
  /\ run' = IdleRun
  /\ UNCHANGED <<files, runtime, vouched, verifier, pusher>>

\* A failed check, a command that fails or times out, or the death of the
\* controller.
Abort ==
  /\ Locked
  /\ run' = IdleRun
  /\ UNCHANGED <<files, runtime, vouched, status, verifier, pusher>>

-----------------------------------------------------------------------------
(* manage_service: one docker command on one service of the deployed        *)
(* snapshot, from the directory staged on its machine, then the status.     *)

AfterAction(s, action) ==
  CASE action = "recreate" -> staged[s]
    [] action = "remove" -> NoVersion
    [] action = "restart" \/ (action = "start" /\ s \notin up) ->
         [spec |-> container[s].spec, file |-> staged[s].file]
    [] OTHER -> container[s]

Lifecycle(s, action) ==
  /\ "lifecycle" \in Commands /\ LockedMayStart
  /\ s \in InPlan(bundle) \ Job /\ staged[s] # NoVersion
  /\ action \in {"stop", "start", "restart", "remove"} => ExistsInRuntime(s)
  /\ action = "recreate" /\ s \in Consumer => contractsEnv[MachineOf[s]] # "absent"
  /\ container' = [container EXCEPT ![s] = AfterAction(s, action)]
  /\ up' = IF action \in {"stop", "remove"} THEN up \ {s}
           ELSE IF action = "build" THEN up ELSE up \cup {s}
  /\ run' = [IdleRun EXCEPT !.pc = "lifecycle", !.service = s, !.action = action]
  /\ UNCHANGED <<files, data, contractsEnv, vouched, status, verifier, pusher>>

LifecycleState(action) ==
  CASE action = "remove" -> "removed" [] action = "stop" -> "stopped" [] OTHER -> "applied"

\* _write_lifecycle_state creates status.json when there is none.
RecordLifecycle ==
  /\ run.pc = "lifecycle"
  /\ status' = [status EXCEPT !.services[run.service] = LifecycleState(run.action),
                              !.state = IF @ = "absent" THEN "managed" ELSE @]
  /\ run' = IdleRun
  /\ UNCHANGED <<files, runtime, vouched, verifier, pusher>>

-----------------------------------------------------------------------------
(* verify: probe, read status.json again, write it back.  No lock.          *)

Healthy == \A s \in InPlan(bundle) \ Job : s \in up

VerifyProbe ==
  /\ "verify" \in Commands /\ UnlockedMayStart
  /\ verifier.pc = "idle" /\ status.state # "absent" /\ Prepared
  /\ verifier' = [NoVerify EXCEPT !.pc = "probed", !.ok = Healthy]
  /\ UNCHANGED <<files, runtime, vouched, status, run, pusher>>

VerifyRead ==
  /\ verifier.pc = "probed"
  /\ verifier' = [verifier EXCEPT !.pc = "read", !.read = status]
  /\ UNCHANGED <<files, runtime, vouched, status, run, pusher>>

VerifyWrite ==
  /\ verifier.pc = "read"
  /\ status' = [verifier.read EXCEPT
                  !.state = IF verifier.ok THEN "verified" ELSE "verification_failed"]
  /\ verifier' = NoVerify
  /\ UNCHANGED <<files, runtime, vouched, run, pusher>>

VerifyAbort ==
  /\ verifier.pc # "idle" /\ verifier' = NoVerify
  /\ UNCHANGED <<files, runtime, vouched, status, run, pusher>>

(* push: stage every machine of the bundle, then start the status afresh.   *)

PushStart ==
  /\ "push" \in Commands /\ UnlockedMayStart
  /\ pusher.pc = "idle" /\ Prepared
  /\ pusher' = [pc |-> "staging", left |-> Machine]
  /\ UNCHANGED <<files, runtime, vouched, status, run, verifier>>

PushStage(m) ==
  /\ pusher.pc = "staging" /\ m \in pusher.left
  /\ staged' = StagedOn(m)
  /\ pusher' = [pusher EXCEPT !.left = @ \ {m}]
  /\ UNCHANGED <<bundle, runtime, vouched, status, run, verifier>>

PushedOver == [status EXCEPT !.state = "pushed"]  \* mutant
Pushed == [NoStatus EXCEPT !.state = "pushed"]
PushFinish ==
  /\ pusher.pc = "staging" /\ pusher.left = {}
  /\ status' = Pushed
  /\ pusher' = NoPush
  /\ UNCHANGED <<files, runtime, vouched, run, verifier>>

PushAbort ==
  /\ "push fails" \in Environment
  /\ pusher.pc = "staging" /\ pusher' = NoPush
  /\ UNCHANGED <<files, runtime, vouched, status, run, verifier>>

-----------------------------------------------------------------------------
(* docker commands given by hand on a machine.                              *)

OutsideRemove(s) ==
  /\ "removes" \in Environment /\ container[s] # NoVersion
  /\ container' = [container EXCEPT ![s] = NoVersion] /\ up' = up \ {s}
  /\ UNCHANGED <<files, data, contractsEnv, vouched, status, run, verifier, pusher>>

OutsideStop(s) ==
  /\ "stops" \in Environment /\ s \in up
  /\ up' = up \ {s}
  /\ UNCHANGED <<files, container, data, contractsEnv, vouched, status, run, verifier, pusher>>

-----------------------------------------------------------------------------
StartCommand ==
  \/ \E inv \in Inventory : Prepare(inv)
  \/ \E inv \in Inventory, resume \in BOOLEAN, clean \in BOOLEAN :
       StartApply(inv, resume, clean)
  \/ \E s \in Service, action \in Action : Lifecycle(s, action)

BeforeStatus ==
  \/ \E unanswered \in SUBSET Service, unseen \in Unseen : Reconcile(unanswered, unseen)
  \/ CleanContracts \/ \E s \in Service : CleanData(s)

ApplyStep ==
  \/ BeforeStatus \/ BeginApply \/ StartSteps \/ Record \/ PassGate \/ GateTimeout \/ FinishApply
  \/ \E m \in Machine : Stage(m) \/ Distribute(m)
  \/ \E s \in Service : Reuse(s) \/ Up(s)

VerifyStep == VerifyProbe \/ VerifyRead \/ VerifyWrite \/ VerifyAbort
PushEnds == PushFinish \/ PushAbort \/ (\E m \in Machine : PushStage(m))
PushStep == PushStart \/ PushEnds
Outside == \E s \in Service : OutsideRemove(s) \/ OutsideStop(s)

Next == StartCommand \/ ApplyStep \/ RecordLifecycle \/ Abort
          \/ VerifyStep \/ PushStep \/ Outside

Specification == Init /\ [][Next]_vars

-----------------------------------------------------------------------------
(* What the controller promises.                                           *)

\* The container of s, if there is one, was created from v's definition.  The
\* mounted files it reads may be of an earlier version: see FilesSound.
DefinedAs(s, v) == container[s] # NoVersion => container[s].spec = v.spec

\* A fingerprint in status.json is the version staged on the service's machine,
\* definition and mounted files, unless a push is under way, and the definition
\* that the service's container has.  The next apply reuses a service on the
\* word of that fingerprint alone, without staging anything for it (runner.py,
\* apply), so a wrong one leaves an old configuration there for good.  A failed
\* or killed apply must not leave one behind.
FingerprintsSound ==
  \A s \in Service : status.fingerprints[s] # NoVersion =>
    /\ DefinedAs(s, status.fingerprints[s])
    /\ pusher.pc = "idle" => staged[s] = status.fingerprints[s]

\* Why FingerprintsSound holds, command by command: what the status in memory
\* and the plan's reused services claim about the staged directories and the
\* containers, and who can be at work at the same time.
Claim(s, v) == staged[s] = v /\ DefinedAs(s, v)

Alone ==
  /\ run.pc # "idle" => verifier.pc = "idle" /\ pusher.pc = "idle"
  /\ verifier.pc # "idle" => pusher.pc = "idle"

MemoryClaims ==
  run.pc \in {"staging", "steps", "up", "handoff"} =>
    \A s \in Service : run.memory.fingerprints[s] # NoVersion =>
                         Claim(s, run.memory.fingerprints[s])

ReuseClaims ==
  run.pc \in {"planned", "cleaning", "checked", "staging", "steps", "up", "handoff"} =>
    /\ run.plan \subseteq InPlan(bundle)
    /\ run.todo \subseteq run.plan
    /\ run.changed \subseteq run.plan
    /\ \A s \in run.plan \ run.changed : Claim(s, bundle[s])

StagingClaims ==
  /\ run.pc = "staging" =>
       /\ status.fingerprints = Nothing /\ run.memory.fingerprints = Nothing
       /\ \A s \in run.changed : MachineOf[s] \in run.stage \/ staged[s] = bundle[s]
  /\ run.pc \in {"steps", "up", "handoff"} =>
       \A s \in run.changed : staged[s] = bundle[s]
  /\ run.pc \in {"up", "handoff"} =>
       run.service \in run.plan /\ Claim(run.service, bundle[run.service])

VerifierCopy == verifier.pc = "read" => verifier.read = status

JobsLeaveNothing == \A s \in Job : container[s] = NoVersion

ControllerInvariant ==
  /\ TypeOK /\ JobsLeaveNothing /\ Alone /\ FingerprintsSound /\ MemoryClaims /\ ReuseClaims
  /\ StagingClaims /\ VerifierCopy

\* Every service of the plan is recorded, with the bundle's fingerprint, by
\* an apply that ends in state "applied", and its container is of the bundle's
\* definition (runner.py, apply).
CompleteApply ==
  [][status'.state = "applied" /\ status.state # "applied" =>
       \A s \in run.plan : /\ status'.services[s] = "applied"
                           /\ status'.fingerprints[s] = bundle[s]
                           /\ DefinedAs(s, bundle[s])]_vars

\* apply starts a consumer of the contracts only when contracts.env is filled
\* on its machine, whichever services were reused and whenever an earlier run
\* stopped (_distribute_contract_runtime).
HandoffFirst ==
  run.pc = "up" /\ run.service \in Consumer =>
    contractsEnv[MachineOf[run.service]] = "filled"

\* The plan works on a phase only when every probed service of the earlier
\* phases runs: reused services count, and those may have been stopped
\* (readiness.py, wait_for_phase).
GateOrder ==
  run.pc \in {"steps", "up", "handoff"} =>
    \A s \in run.plan \cap Probed : PhaseOf[s] < run.phase => s \in up

\* Nobody but an operator who ran --resume gets a service started on a data
\* directory left there by another deployment (_reject_existing_chain_data).
NoForeignData ==
  run.pc = "up" /\ data[run.service] = "old" => vouched

\* A service recorded as managed stays on record: no command forgets it (apply
\* refuses to drop one; stop and remove record what they did).
ManagedRemembered ==
  [][\A s \in Service : status.services[s] = "applied" =>
       status'.services[s] # "none"]_vars

\* A service that apply records with the bundle's fingerprint runs with the
\* files of that version too (docs/deployment-v3-revisions.md: changed services
\* are recreated).
FilesSound ==
  \A s \in up : status.fingerprints[s] # NoVersion =>
                  container[s] = status.fingerprints[s]

-----------------------------------------------------------------------------
(* Recovery: an operator who keeps running `apply --resume`, whatever push  *)
(* was under way.  Transfers and commands have timeouts, so a push ends.    *)

Resume == \E inv \in Inventory : inv = bundle /\ StartApply(inv, TRUE, FALSE)

Recovery ==
  /\ Init /\ [][Next]_vars
  /\ WF_vars(ApplyStep) /\ WF_vars(Resume) /\ WF_vars(RecordLifecycle) /\ WF_vars(PushEnds)

Running(s) == container[s] # NoVersion /\ container[s].spec = bundle[s].spec /\ s \in up
Converged == \A s \in InPlan(bundle) \ Job : Running(s)

\* A container that was stopped by hand, of a service on record as applied.
LeftStopped(s) ==
  /\ s \in InPlan(bundle) \ Job /\ status.services[s] = "applied"
  /\ container[s] # NoVersion /\ container[s].spec = bundle[s].spec /\ s \notin up

\* A fingerprint that FingerprintsSound does not allow: a push that failed half
\* way has left a definition that recreate then started.
Misrecorded(s) ==
  s \in InPlan(bundle) /\ status.fingerprints[s] # NoVersion
    /\ ~DefinedAs(s, status.fingerprints[s])

\* When commands stop failing and nobody else touches the machines, resuming
\* ends with every service of the bundle up and of its definition, unless a
\* service was stopped by hand: `docker compose ps -a` still lists it, so every
\* resume reuses it without starting it, and the gate of its phase times out
\* (runner.py, _service_exists_in_runtime and apply).  Nor can resume repair
\* what status.json vouches for after a push that failed, and only after one:
\* where pushes end, FingerprintsSound leaves no service Misrecorded.
ResumeConverges ==
  <>[][ApplyStep \/ Resume]_vars /\ []<>Prepared =>
    <>[]Converged \/ \E s \in Service : <>[]LeftStopped(s) \/ []<>Misrecorded(s)

\* Without the exceptions.
ResumeStartsAll == <>[][ApplyStep \/ Resume]_vars /\ []<>Prepared => <>[]Converged
=============================================================================
