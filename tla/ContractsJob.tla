---------------------------- MODULE ContractsJob ----------------------------
(***************************************************************************)
(* The contracts job (deployment_v3/contracts.py), the loop that retries   *)
(* it (runner.py, _apply_service) and the distribution of what it leaves   *)
(* (_distribute_contract_runtime).  Deployment.tla takes all three as      *)
(* steps that fill contracts.env.                                          *)
(*                                                                         *)
(* The address of a contract is a function of the signer and the nonce, so *)
(* an address is a position in the signer's sequence of transactions.      *)
(***************************************************************************)
EXTENDS Naturals, Sequences, FiniteSets

CONSTANTS
  Job, NoJob,       \* containers of the job
  Producer,         \* the machine that runs the job
  Recipient,        \* the machines of its consumers
  NoFile, Torn,     \* a file that is absent or empty; one that is cut
  NoTx,
  MaxFailures,      \* bound on what goes wrong in one behaviour
  Environment

ASSUME ContractsAssumption ==
  /\ NoJob \notin Job /\ Producer \notin Recipient /\ NoFile # Torn
  /\ MaxFailures \in Nat
  /\ Environment \subseteq {"kills", "abandons", "overlap", "reverts", "unwritten"}

Tx == [kind : {"authority", "dark"}, on : Nat]  \* on: the Authority a dARK is given
Mined == [tx : Tx, ok : BOOLEAN]
Pair == [authority : Nat, dark : Nat]

ASSUME ValueAssumption ==
  /\ {NoFile, Torn} \cap Pair = {}
  /\ NoTx \notin Tx

VARIABLES
  chain,     \* the signer's transactions, in order
  pool,      \* the one that is sent and not mined
  handoff,   \* contracts.json
  env,       \* contracts.env on each machine
  jobs,      \* the job's containers
  control,   \* apply, at the contracts-deploy step
  failures

network == <<chain, pool>>
vars == <<network, handoff, env, jobs, control, failures>>

Machine == Recipient \cup {Producer}
File == Pair \cup {NoFile, Torn}
Off == [pc |-> "off", nonce |-> 0, authority |-> 0, dark |-> 0]
Idle == [pc |-> "idle", job |-> NoJob, tried |-> FALSE, payload |-> NoFile, todo |-> {}]

JobState ==
  [pc : {"off", "start", "count", "send", "wait", "handoff", "writing", "env", "writing env"},
   nonce : Nat, authority : 0..Len(chain), dark : 0..Len(chain)]
ControlState ==
  [pc : {"idle", "trying", "read", "copy", "done"}, job : Job \cup {NoJob},
   tried : BOOLEAN, payload : File, todo : SUBSET Recipient]

TypeOK ==
  /\ chain \in Seq(Mined) /\ pool \in Tx \cup {NoTx}
  /\ handoff \in File /\ env \in [Machine -> File]
  /\ jobs \in [Job -> JobState] /\ control \in ControlState
  /\ failures \in 0..MaxFailures

Init ==
  /\ chain = <<>> /\ pool = NoTx /\ handoff = NoFile /\ env = [m \in Machine |-> NoFile]
  /\ jobs = [j \in Job |-> Off] /\ control = Idle /\ failures = 0

Failure == failures < MaxFailures /\ failures' = failures + 1

-----------------------------------------------------------------------------
(* The controller.                                                         *)

Apply ==
  /\ control.pc \in {"idle", "done"}
  /\ control' = [Idle EXCEPT !.pc = "trying"]
  /\ UNCHANGED <<network, handoff, env, jobs, failures>>

Running == {j \in Job : jobs[j].pc # "off"}

\* An attempt: `docker compose run --rm`.
Attempt(j) ==
  /\ control.pc = "trying" /\ control.job = NoJob /\ jobs[j].pc = "off"
  /\ Running = {} \/ "overlap" \in Environment
  /\ control' = [control EXCEPT !.job = j, !.tried = TRUE]
  /\ jobs' = [jobs EXCEPT ![j] = [Off EXCEPT !.pc = "start"]]
  /\ UNCHANGED <<network, handoff, env, failures>>

\* The deadline of 120 seconds is looked at between attempts.
GiveUp ==
  /\ control.pc = "trying" /\ control.job = NoJob /\ control.tried
  /\ control' = Idle
  /\ UNCHANGED <<network, handoff, env, jobs, failures>>

\* How an attempt looks to the controller.
Returns(j, pc) ==
  control' = IF control.job = j THEN [control EXCEPT !.pc = pc, !.job = NoJob] ELSE control

\* The SSH connection breaks: an attempt that failed, and a container that runs on.
Abandon ==
  /\ "abandons" \in Environment /\ control.job # NoJob /\ Failure
  /\ control' = [control EXCEPT !.job = NoJob]
  /\ UNCHANGED <<network, handoff, env, jobs>>

\* Any later step of apply may fail, and the controller may die.
ApplyFails ==
  /\ "abandons" \in Environment /\ control.pc # "idle" /\ Failure
  /\ control' = Idle
  /\ UNCHANGED <<network, handoff, env, jobs>>

ReadEnv ==
  /\ control.pc = "read"
  /\ control' = [control EXCEPT !.pc = "copy", !.payload = env[Producer], !.todo = Recipient]
  /\ UNCHANGED <<network, handoff, env, jobs, failures>>

Copy(m) ==
  /\ control.pc = "copy" /\ m \in control.todo
  /\ env' = [env EXCEPT ![m] = control.payload]
  /\ control' = [control EXCEPT !.todo = @ \ {m}]
  /\ UNCHANGED <<network, handoff, jobs, failures>>

\* The shell truncates the file before base64 has written it.  A transfer that
\* breaks is noticed; a write that fails is not, for the command that the shell
\* answers with is the chmod that follows.
CopyFails(m) ==
  /\ control.pc = "copy" /\ m \in control.todo /\ Failure
  /\ env' = [env EXCEPT ![m] = Torn]
  /\ \E noticed \in BOOLEAN :
       /\ (IF noticed THEN "abandons" ELSE "unwritten") \in Environment
       /\ control' = IF noticed THEN Idle ELSE [control EXCEPT !.todo = @ \ {m}]
  /\ UNCHANGED <<network, handoff, jobs>>

GoOn ==
  /\ control.pc = "copy" /\ control.todo = {}
  /\ control' = [control EXCEPT !.pc = "done"]
  /\ UNCHANGED <<network, handoff, env, jobs, failures>>

-----------------------------------------------------------------------------
(* The job.                                                                *)

Set(j, job) == jobs' = [jobs EXCEPT ![j] = job]
Fails(j) == Set(j, Off) /\ Returns(j, "trying") /\ UNCHANGED <<network, handoff, env>>

FreshAlways(j) ==  \* mutant: an existing handoff is not looked at
  /\ jobs[j].pc = "start"
  /\ Set(j, [jobs[j] EXCEPT !.pc = "count"])
  /\ UNCHANGED <<network, handoff, env, control, failures>>
Fresh(j) ==
  /\ jobs[j].pc = "start" /\ handoff = NoFile
  /\ Set(j, [jobs[j] EXCEPT !.pc = "count"])
  /\ UNCHANGED <<network, handoff, env, control, failures>>

\* _verify_existing: there is code at both addresses.
CodeBelow(a) == a \in 1..(Len(chain) - 1) /\ chain[a].ok  \* mutant: off by one
CodeAt(a) == a \in 1..Len(chain) /\ chain[a].ok
Verified == handoff \in Pair /\ CodeAt(handoff.authority) /\ CodeAt(handoff.dark)

ExistingRewritten(j) ==  \* mutant: a verified handoff is written again
  /\ jobs[j].pc = "start" /\ Verified
  /\ Set(j, [pc |-> "handoff", nonce |-> 0, authority |-> handoff.authority,
             dark |-> handoff.dark])
  /\ UNCHANGED <<network, handoff, env, control, failures>>
ExistingOnly(j) ==  \* mutant: contracts.env is taken to be there
  /\ jobs[j].pc = "start" /\ Verified
  /\ Set(j, Off) /\ Returns(j, "read")
  /\ UNCHANGED <<network, handoff, env, failures>>
Existing(j) ==
  /\ jobs[j].pc = "start" /\ Verified
  /\ Set(j, [pc |-> "env", nonce |-> 0, authority |-> handoff.authority,
             dark |-> handoff.dark])
  /\ UNCHANGED <<network, handoff, env, control, failures>>

\* Half a file fails in json.loads; one that does not match is refused.
Refuse(j) ==
  /\ jobs[j].pc = "start" /\ handoff # NoFile /\ ~Verified
  /\ Fails(j) /\ UNCHANGED failures

\* get_transaction_count counts what is mined.
Count(j) ==
  /\ jobs[j].pc = "count"
  /\ Set(j, [pc |-> "send", nonce |-> Len(chain) + 1, authority |-> 0, dark |-> 0])
  /\ UNCHANGED <<network, handoff, env, control, failures>>

Transaction(job) ==
  [kind |-> IF job.authority = 0 THEN "authority" ELSE "dark", on |-> job.authority]
Accepted(j) == pool = NoTx /\ jobs[j].nonce = Len(chain) + 1

Send(j) ==
  /\ jobs[j].pc = "send" /\ Accepted(j)
  /\ pool' = Transaction(jobs[j])
  /\ Set(j, [jobs[j] EXCEPT !.pc = "wait"])
  /\ UNCHANGED <<chain, handoff, env, control, failures>>

\* The node refuses a nonce that is used or that a pending transaction has.
Rejected(j) ==
  /\ jobs[j].pc = "send" /\ ~Accepted(j)
  /\ Fails(j) /\ UNCHANGED failures

Mine ==
  /\ pool # NoTx /\ pool' = NoTx
  /\ \/ chain' = Append(chain, [tx |-> pool, ok |-> TRUE]) /\ UNCHANGED failures
     \/ /\ "reverts" \in Environment /\ Failure
        /\ chain' = Append(chain, [tx |-> pool, ok |-> FALSE])
  /\ UNCHANGED <<handoff, env, jobs, control>>

IsMined(j) == jobs[j].nonce <= Len(chain)

DeployedAhead(job) ==  \* mutant: the address of the next nonce
  IF job.authority = 0
    THEN [pc |-> "send", nonce |-> job.nonce + 1, authority |-> job.nonce + 1, dark |-> 0]
    ELSE [pc |-> "handoff", nonce |-> 0, authority |-> job.authority, dark |-> job.nonce + 1]
Deployed(job) ==
  IF job.authority = 0
    THEN [pc |-> "send", nonce |-> job.nonce + 1, authority |-> job.nonce, dark |-> 0]
    ELSE [pc |-> "handoff", nonce |-> 0, authority |-> job.authority, dark |-> job.nonce]

ReceiptAny(j) ==  \* mutant: the receipt's status is not looked at
  /\ jobs[j].pc = "wait" /\ IsMined(j)
  /\ Set(j, Deployed(jobs[j]))
  /\ UNCHANGED <<network, handoff, env, control, failures>>
Receipt(j) ==
  /\ jobs[j].pc = "wait" /\ IsMined(j) /\ chain[jobs[j].nonce].ok
  /\ Set(j, Deployed(jobs[j]))
  /\ UNCHANGED <<network, handoff, env, control, failures>>

ReceiptFailed(j) ==
  /\ jobs[j].pc = "wait" /\ IsMined(j) /\ ~chain[jobs[j].nonce].ok
  /\ Fails(j) /\ UNCHANGED failures

Written(j) == [authority |-> jobs[j].authority, dark |-> jobs[j].dark]

\* write_text truncates the file before it has written it.
WriteHandoff(j) ==
  /\ jobs[j].pc = "handoff"
  /\ handoff' = Torn /\ Set(j, [jobs[j] EXCEPT !.pc = "writing"])
  /\ UNCHANGED <<network, env, control, failures>>

EndHandoff(j) ==
  /\ jobs[j].pc = "writing"
  /\ handoff' = Written(j) /\ Set(j, [jobs[j] EXCEPT !.pc = "env"])
  /\ UNCHANGED <<network, env, control, failures>>

WriteEnv(j) ==
  /\ jobs[j].pc = "env"
  /\ env' = [env EXCEPT ![Producer] = Torn]
  /\ Set(j, [jobs[j] EXCEPT !.pc = "writing env"])
  /\ UNCHANGED <<network, handoff, control, failures>>

EndEnv(j) ==
  /\ jobs[j].pc = "writing env"
  /\ env' = [env EXCEPT ![Producer] = Written(j)]
  /\ Set(j, Off) /\ Returns(j, "read")
  /\ UNCHANGED <<network, handoff, failures>>

\* No RPC, no balance, a receipt that takes longer than 180 seconds, a kill.
Dies(j) ==
  /\ "kills" \in Environment /\ jobs[j].pc # "off" /\ Failure /\ Fails(j)

-----------------------------------------------------------------------------
JobStep(j) ==
  \/ Fresh(j) \/ Existing(j) \/ Refuse(j) \/ Count(j) \/ Send(j) \/ Rejected(j)
  \/ Receipt(j) \/ ReceiptFailed(j) \/ WriteHandoff(j) \/ EndHandoff(j)
  \/ WriteEnv(j) \/ EndEnv(j)

ControlStep == ReadEnv \/ GoOn \/ (\E j \in Job : Attempt(j)) \/ (\E m \in Recipient : Copy(m))

Next ==
  \/ Apply \/ GiveUp \/ Abandon \/ ApplyFails \/ ControlStep \/ Mine
  \/ \E m \in Recipient : CopyFails(m)
  \/ \E j \in Job : JobStep(j) \/ Dies(j)

Specification ==
  /\ Init /\ [][Next]_vars
  /\ WF_vars(Apply) /\ WF_vars(ControlStep) /\ WF_vars(Mine)
  /\ \A j \in Job : WF_vars(JobStep(j))

-----------------------------------------------------------------------------
(* Properties.                                                             *)

IsAuthority(a) == a \in 1..Len(chain) /\ chain[a].ok /\ chain[a].tx.kind = "authority"
IsDarkOn(d, a) == d \in 1..Len(chain) /\ chain[d].ok /\ chain[d].tx = [kind |-> "dark", on |-> a]
Live(pair) == IsAuthority(pair.authority) /\ IsDarkOn(pair.dark, pair.authority)

\* What contracts.json and every contracts.env name is an Authority and a dARK
\* that was given this Authority, whatever died, timed out or ran twice
\* (contracts.py, main).
PublishedIsLive ==
  /\ handoff \in Pair => Live(handoff)
  /\ \A m \in Machine : env[m] \in Pair => Live(env[m])

\* Why it holds: what a job at work knows of the chain, and what is on its way
\* to the recipients.
Knows(job) ==
  /\ job.authority # 0 => IsAuthority(job.authority)
  /\ job.pc = "wait" =>
       \/ job.nonce = Len(chain) + 1 /\ pool = Transaction(job)
       \/ job.nonce \in 1..Len(chain) /\ chain[job.nonce].tx = Transaction(job)
  /\ job.pc \in {"handoff", "writing", "env", "writing env"} =>
       job.authority # 0 /\ IsDarkOn(job.dark, job.authority)

JobInvariant ==
  /\ TypeOK /\ PublishedIsLive
  /\ \A j \in Job : Knows(jobs[j])
  /\ control.payload \in Pair => Live(control.payload)

\* apply goes on to the consumers only when their machines and the producer's
\* have the contracts of contracts.json, also after attempts that stopped between
\* the two files, half way through the distribution or half way through a copy.
ConsumersAgree ==
  control.pc = "done" => handoff \in Pair /\ \A m \in Machine : env[m] = handoff

\* What a file says, if it can be read.
Said(file) == IF file \in Pair THEN file ELSE NoFile
Promise == INSTANCE Publication
  WITH Value <- Pair, Nothing <- NoFile,
       published <- Said(handoff), held <- [m \in Machine |-> Said(env[m])],
       consumers <- IF control.pc = "done" THEN "served" ELSE "waiting"

\* The job, its retries and the distribution keep Publication: once written,
\* contracts.json stays (main: refusing redeployment), every contracts.env is
\* this pair or none, and none changes while apply is at the consumers.
PublicationKept == Promise!Specification

\* A second Authority is deployed only after something went wrong with the first.
StraysExplained == Cardinality({a \in 1..Len(chain) : IsAuthority(a)}) <= failures + 1

\* When failures have ceased, each apply that is repeated gets to its consumers,
\* unless one of them left half a contracts.json (runner.py, _apply_service).
JobSucceeds == <>[](handoff = Torn) \/ []<>(control.pc = "done")
=============================================================================
