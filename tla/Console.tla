------------------------------ MODULE Console ------------------------------
(***************************************************************************)
(* The operations console (operations_tui.py): one loop that handles one   *)
(* event at a time, threads that read logs, and the lifecycle operations   *)
(* that it runs on the deployments (runner.py), while their containers and *)
(* run directories change under it and other commands hold the lock.       *)
(***************************************************************************)
EXTENDS Naturals, Sequences, SequencesExt

CONSTANTS
  Deployments,  \* ids, in the order of their directories
  Services,     \* ids of the services of a deployment, in their order
  Job,          \* the one-shot ones
  Levelled,     \* the ones with a log level that can be set (Besu RPC and observers)
  None,
  MaxChanges, MaxReads  \* bounds: on what is run, opened or happens outside, on reads in flight

Deployment == Range(Deployments)
Service == Range(Services)

ASSUME ConsoleAssumption ==
  Job \subseteq Service /\ Levelled \subseteq Service \ Job /\ None \notin Deployment \cup Service

VARIABLES
  directory,  \* of a run: there is none, it has no topology, or it is ready
  container,  \* state of each service's container
  reachable,  \* whether the Docker hosts answer
  locked,     \* deployments at which another command is at work
  changes,
  deployment_id, table, rows,  \* the deployment shown, and both tables
  cursor,     \* row of the service table
  confirm, question,           \* the action to confirm, and the row that the question is about
  buttons,    \* those that can be pressed
  work,       \* the operation that the loop is in
  logs, pane, reads            \* the service whose logs are open, what is shown, reads in flight
outside == <<directory, container, reachable, locked>>
tables == <<deployment_id, table, rows>>
logging == <<logs, pane, reads>>
vars == <<outside, changes, tables, cursor, confirm, question, buttons, work, logging>>

Confirmed == {"build", "stop", "restart", "recreate", "remove", "log-level"}
Idle == [pc |-> "idle", dep |-> None, service |-> None, action |-> "none", seen |-> "none", asked |-> None]

-----------------------------------------------------------------------------
(* What is read for the tables. *)

Known == SelectSeq(Deployments, LAMBDA d : directory[d] # "none")
Observed(d, s) == IF reachable THEN container[d][s] ELSE "unreachable"
RowsOf(d) == [i \in DOMAIN Services |->
               [dep |-> d, service |-> Services[i], state |-> Observed(d, Services[i])]]

LifecycleOnce(s, state) ==   \* mutant: a container that is missing is like one that has exited
  IF state = "running" /\ s \notin Job THEN {"build", "stop", "restart", "recreate", "remove"}
  ELSE {"build", "start", "recreate", "remove"}

Lifecycle(s, state) ==
  CASE s \in Job -> {"build"}
    [] s \notin Job /\ state = "unreachable" -> {}
    [] s \notin Job /\ state = "missing" -> {"build", "recreate"}
    [] s \notin Job /\ state = "running" -> {"build", "stop", "restart", "recreate", "remove"}
    [] s \notin Job /\ state = "exited" -> {"build", "start", "recreate", "remove"}
    [] s \notin Job /\ state = "paused" -> {"restart", "recreate", "remove"}
    [] OTHER -> {"build", "start", "stop", "restart", "recreate", "remove"}

ActionChoices(row) ==
  {"logs"} \cup Lifecycle(row.service, row.state)
  \cup (IF row.state = "running" /\ row.service \in Levelled THEN {"log-level"} ELSE {})

Selected(rs, i) == IF i \in DOMAIN rs THEN rs[i] ELSE None
Available(rs, i, pending) ==
  IF pending # None \/ Selected(rs, i) = None THEN {} ELSE ActionChoices(rs[i])
Offer(rs, i, pending) == buttons' = Available(rs, i, pending)

(* Reading fails at a deployment without a topology: the tables stay. *)
Readable(d) == d \notin Range(Known) \/ directory[d] = "ready"
Read(d) == IF d \in Range(Known) THEN RowsOf(d) ELSE <<>>
Shown(wanted) == IF wanted = None /\ Known # <<>> THEN Known[1] ELSE wanted

(* The deployment that is wanted is shown, with the cursor on its first row. *)
Refreshed(wanted, pending) ==
  LET d == Shown(wanted) IN
  IF d = None \/ Readable(d)
  THEN /\ deployment_id' = d /\ table' = Known /\ rows' = Read(d)
       /\ cursor' = 1 /\ Offer(rows', 1, pending)
  ELSE deployment_id' = wanted /\ UNCHANGED <<table, rows, cursor, buttons>>

Init ==
  /\ directory \in [Deployment -> {"none", "invalid", "ready"}]
  /\ container = [d \in Deployment |-> [s \in Service |-> IF s \in Job THEN "missing" ELSE "running"]]
  /\ reachable = TRUE /\ locked = {} /\ changes = 0
  /\ deployment_id = None /\ table = <<>> /\ rows = <<>> /\ cursor = 1 /\ buttons = {}
  /\ confirm = None /\ question = None
  /\ work = [Idle EXCEPT !.pc = "mount"]
  /\ logs = None /\ pane = None /\ reads = {}

-----------------------------------------------------------------------------
(* The loop: what the operator does. *)

Awake == work.pc = "idle"

Mount ==
  /\ work.pc = "mount" /\ work' = Idle
  /\ Refreshed(None, confirm)
  /\ UNCHANGED <<outside, changes, confirm, question, logging>>

Refresh ==
  /\ Awake /\ Refreshed(deployment_id, confirm)
  /\ UNCHANGED <<outside, changes, confirm, question, work, logging>>

SelectDeployment ==
  /\ Awake
  /\ \E d \in Range(table) : Refreshed(d, confirm)
  /\ UNCHANGED <<outside, changes, confirm, question, work, logging>>

Move ==
  /\ Awake
  /\ \E i \in DOMAIN rows \ {cursor} : cursor' = i /\ Offer(rows, i, confirm)
  /\ UNCHANGED <<outside, changes, tables, confirm, question, work, logging>>

Change == changes < MaxChanges /\ changes' = changes + 1

(* An operation is for the row that is selected when it is run. *)
Run(action, asked) ==
  LET row == rows[cursor] IN
  /\ Change
  /\ work' = [pc |-> "lock", dep |-> deployment_id, service |-> row.service, action |-> action,
              seen |-> row.state, asked |-> asked]

Press ==
  /\ Awake
  /\ \E action \in buttons \ (Confirmed \cup {"logs"}) : Run(action, None)
  /\ UNCHANGED <<outside, tables, cursor, confirm, question, buttons, logging>>

Ask ==
  /\ Awake
  /\ \E action \in buttons \cap Confirmed :
       confirm' = action /\ question' = [dep |-> rows[cursor].dep, service |-> rows[cursor].service] /\ Offer(rows, cursor, action)
  /\ UNCHANGED <<outside, changes, tables, cursor, work, logging>>

Confirm ==
  /\ Awake /\ confirm # None
  /\ confirm' = None /\ question' = None /\ Offer(rows, cursor, None)
  /\ IF Selected(rows, cursor) = None THEN UNCHANGED <<changes, work>>
     ELSE Run(confirm, question)
  /\ UNCHANGED <<outside, tables, cursor, logging>>

CancelLate ==   \* mutant: the buttons are drawn before the action is forgotten
  /\ Awake /\ confirm # None
  /\ confirm' = None /\ question' = None /\ Offer(rows, cursor, confirm)
  /\ UNCHANGED <<outside, changes, tables, cursor, work, logging>>

Cancel ==
  /\ Awake /\ confirm # None
  /\ confirm' = None /\ question' = None /\ Offer(rows, cursor, None)
  /\ UNCHANGED <<outside, changes, tables, cursor, work, logging>>

(* The terminal is handed over to a stream, and the tables are read after it. *)
Stream ==
  /\ Awake /\ Selected(rows, cursor) # None /\ directory[deployment_id] = "ready"
  /\ work' = [Idle EXCEPT !.pc = "refresh"]
  /\ UNCHANGED <<outside, changes, tables, cursor, confirm, question, buttons, logging>>

-----------------------------------------------------------------------------
(* An operation; the loop waits for it. *)

Goto(pc) == work' = [work EXCEPT !.pc = pc]
Fail == work' = Idle

(* A lock that another command has is an error that nothing here catches. *)
Lock ==
  /\ work.pc = "lock"
  /\ CASE directory[work.dep] # "ready" -> Fail
       [] directory[work.dep] = "ready" /\ work.dep \in locked -> Goto("dead")
       [] directory[work.dep] = "ready" /\ work.dep \notin locked ->
            IF work.service \in Job THEN Fail ELSE Goto("inspect")
  /\ UNCHANGED <<outside, changes, tables, cursor, confirm, question, buttons, logging>>

NoContainer(state) == work.action \in {"stop", "start", "restart", "remove"} /\ state = "missing"
NoLevel(state) == work.action = "log-level" /\ (work.service \notin Levelled \/ state # "running")
Refuses(state) == NoContainer(state) \/ NoLevel(state)

Inspect ==
  /\ work.pc = "inspect"
  /\ IF ~ reachable \/ Refuses(container[work.dep][work.service]) THEN Fail ELSE Goto("command")
  /\ UNCHANGED <<outside, changes, tables, cursor, confirm, question, buttons, logging>>

After(action, state) ==
  CASE action \in {"build", "log-level"} -> state
    [] action = "stop" -> IF state = "missing" THEN state ELSE "exited"
    [] action = "remove" -> "missing"
    [] OTHER -> "running"

Command ==
  /\ work.pc = "command"
  /\ \/ /\ reachable /\ ~ Refuses(container[work.dep][work.service])
        /\ container' = [container EXCEPT ![work.dep][work.service] = After(work.action, @)]
        /\ work' = [Idle EXCEPT !.pc = "refresh"]
     \/ Fail /\ UNCHANGED container
  /\ UNCHANGED <<directory, reachable, locked, changes, tables, cursor, confirm, question, buttons, logging>>

RefreshAfter ==
  /\ work.pc = "refresh" /\ work' = Idle
  /\ Refreshed(deployment_id, confirm)
  /\ UNCHANGED <<outside, changes, confirm, question, logging>>

-----------------------------------------------------------------------------
(* Logs.  A new read cancels the one before it, but not its thread. *)

Reading(d, s) ==
  reads' = {[r EXCEPT !.cancelled = TRUE] : r \in reads} \cup {[dep |-> d, service |-> s, cancelled |-> FALSE]}

OpenLogs ==
  /\ Awake /\ Change /\ Cardinality(reads) < MaxReads /\ Selected(rows, cursor) # None
  /\ logs' = rows[cursor].service /\ Reading(deployment_id, rows[cursor].service)
  /\ UNCHANGED <<outside, tables, cursor, confirm, question, buttons, work, pane>>

CloseLogs ==
  /\ Awake /\ logs # None /\ logs' = None
  /\ UNCHANGED <<outside, changes, tables, cursor, confirm, question, buttons, work, pane, reads>>

Tick ==
  /\ Awake /\ Cardinality(reads) < MaxReads /\ logs # None /\ Reading(deployment_id, logs)
  /\ UNCHANGED <<outside, changes, tables, cursor, confirm, question, buttons, work, logs, pane>>

ShowLogsAlways ==   \* mutant: whatever is shown by now
  /\ Awake
  /\ \E r \in reads : reads' = reads \ {r} /\ pane' = [dep |-> r.dep, service |-> r.service]
  /\ UNCHANGED <<outside, changes, tables, cursor, confirm, question, buttons, work, logs>>

ShowLatest ==   \* mutant: a cancelled read shows nothing
  /\ Awake
  /\ \E r \in reads :
       /\ reads' = reads \ {r}
       /\ pane' = IF r.dep = deployment_id /\ r.service = logs /\ ~ r.cancelled
                  THEN [dep |-> r.dep, service |-> r.service] ELSE pane
  /\ UNCHANGED <<outside, changes, tables, cursor, confirm, question, buttons, work, logs>>

ShowLogs ==
  /\ Awake
  /\ \E r \in reads :
       /\ reads' = reads \ {r}
       /\ pane' = IF r.dep = deployment_id /\ r.service = logs
                  THEN [dep |-> r.dep, service |-> r.service] ELSE pane
  /\ UNCHANGED <<outside, changes, tables, cursor, confirm, question, buttons, work, logs>>

-----------------------------------------------------------------------------
(* What happens outside. *)

Inside == <<tables, cursor, confirm, question, buttons, work, logging>>

(* An install takes the bundle away and prepares another. *)
Directory ==
  /\ Change
  /\ \E d \in Deployment :
       /\ directory' = [directory EXCEPT ![d] = IF @ = "invalid" THEN "ready" ELSE "invalid"]
       /\ ~ (work.dep = d /\ work.pc \in {"inspect", "command"})
  /\ UNCHANGED <<container, reachable, locked, Inside>>

Container ==
  /\ Change
  /\ \E d \in Deployment, s \in Service \ Job, state \in {"missing", "running", "exited", "paused"} :
       container[d][s] # state /\ container' = [container EXCEPT ![d][s] = state]
  /\ UNCHANGED <<directory, reachable, locked, Inside>>

Hosts ==
  /\ Change /\ reachable' = ~ reachable
  /\ UNCHANGED <<directory, container, locked, Inside>>

OtherCommand ==
  /\ \E d \in Deployment :
       \/ d \in locked /\ locked' = locked \ {d} /\ UNCHANGED changes
       \/ /\ Change /\ d \notin locked /\ locked' = locked \cup {d}
          /\ ~ (work.dep = d /\ work.pc \in {"inspect", "command"})
  /\ UNCHANGED <<directory, container, reachable, Inside>>

Operation == Mount \/ Lock \/ Inspect \/ Command \/ RefreshAfter
Operator == Refresh \/ SelectDeployment \/ Move \/ Press \/ Ask \/ Confirm \/ Cancel \/ Stream
              \/ OpenLogs \/ CloseLogs
Outside == Directory \/ Container \/ Hosts \/ OtherCommand

Next == Operation \/ Operator \/ Tick \/ ShowLogs \/ Outside

(* The loop handles every event in its turn, and a call to a host returns. *)
Spec == Init /\ [][Next]_vars /\ WF_vars(Operation) /\ SF_vars(Tick) /\ SF_vars(ShowLogs)

-----------------------------------------------------------------------------
(* What can be pressed is what the selected row allows, and nothing while  *)
(* a question is open, after whatever was moved, refreshed or cancelled.   *)
ButtonsFit == Awake => buttons = Available(rows, cursor, confirm)

(* An operation that was offered for the row it is run on is refused only  *)
(* when the container has changed since the row was read.  (A job's build  *)
(* is always offered and always refused.)                                  *)
OffersAreTaken ==
  [][(/\ work.pc = "inspect" /\ work'.pc = "idle" /\ reachable
      /\ work.action \in ActionChoices([service |-> work.service, state |-> work.seen]))
     => container[work.dep][work.service] # work.seen]_vars

(* The log panel only changes to the logs of the service that is open, of  *)
(* the deployment that is shown, whichever reads come late.                *)
LogsOfShown ==
  [][pane' # pane => pane' = [dep |-> deployment_id, service |-> logs]]_vars

(* Logs that are left open, of a deployment that is left shown, are shown   *)
(* in the end, however slow their host and whatever else is done.          *)
LogsArrive ==
  \/ []<>(\/ logs = None \/ work.pc = "dead"
         \/ pane = [dep |-> deployment_id, service |-> logs])
  \/ []<><<logs' # logs \/ deployment_id' # deployment_id>>_vars

(* "Confirm remove for SERVICE?" (operations_tui.py): what was confirmed   *)
(* is done to the service that the question named.                         *)
DoneAsConfirmed ==
  [][(work.pc = "command" /\ work'.pc = "refresh" /\ work.asked # None)
     => work.asked = [dep |-> work.dep, service |-> work.service]]_vars
=============================================================================
