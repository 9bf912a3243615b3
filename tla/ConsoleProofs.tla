--------------------------- MODULE ConsoleProofs ---------------------------
(***************************************************************************)
(* Console.tla for any deployments, services and reads in flight: what can *)
(* be pressed, what is refused, and what the log panel shows.              *)
(***************************************************************************)
EXTENDS Console, TLAPS

(* The buttons are those of the selected row also while the loop is busy,  *)
(* so that they are when it is free again.                                 *)
Drawn == buttons = Available(rows, cursor, confirm)

LEMMA InitDrawn == Init => Drawn
<1> SUFFICES ASSUME Init PROVE Drawn
  OBVIOUS
<1>1. rows = <<>> /\ cursor = 1 /\ buttons = {}
  BY DEF Init
<1> QED
  BY <1>1 DEF Drawn, Available, Selected

LEMMA RefreshedDrawn ==
  ASSUME NEW wanted, Drawn, Refreshed(wanted, confirm), UNCHANGED confirm
  PROVE  Drawn'
<1>1. \/ /\ cursor' = 1 /\ buttons' = Available(rows', 1, confirm)
      \/ UNCHANGED <<rows, cursor, buttons>>
  BY DEF Refreshed, Offer
<1>2. ASSUME cursor' = 1, buttons' = Available(rows', 1, confirm) PROVE Drawn'
  BY <1>2 DEF Drawn
<1>3. ASSUME UNCHANGED <<rows, cursor, buttons>> PROVE Drawn'
  BY <1>3 DEF Drawn
<1> QED
  BY <1>1, <1>2, <1>3

LEMMA StepDrawn == Drawn /\ [Next]_vars => Drawn'
<1> SUFFICES ASSUME Drawn, [Next]_vars PROVE Drawn'
  OBVIOUS
<1>1. CASE Mount
  BY <1>1, RefreshedDrawn DEF Mount
<1>2. CASE Refresh
  BY <1>2, RefreshedDrawn DEF Refresh
<1>3. CASE SelectDeployment
  BY <1>3, RefreshedDrawn DEF SelectDeployment
<1>4. CASE RefreshAfter
  BY <1>4, RefreshedDrawn DEF RefreshAfter
<1>5. CASE Move
  BY <1>5 DEF Move, Offer, Drawn, tables
<1>6. CASE Ask
  BY <1>6 DEF Ask, Offer, Drawn, tables
<1>7. CASE Confirm
  BY <1>7 DEF Confirm, Offer, Drawn, tables
<1>8. CASE Cancel
  BY <1>8 DEF Cancel, Offer, Drawn, tables
<1>9. CASE Press \/ Stream \/ Lock \/ Inspect \/ Command \/ OpenLogs \/ CloseLogs \/ Tick \/ ShowLogs
           \/ Outside \/ UNCHANGED vars
  <2>1. UNCHANGED <<rows, cursor, buttons, confirm>>
    BY <1>9 DEF Press, Stream, Lock, Inspect, Command, OpenLogs, CloseLogs, Tick, ShowLogs,
                Outside, Directory, Container, Hosts, OtherCommand, Inside, vars, tables
  <2> QED
    BY <2>1 DEF Drawn
<1> QED
  BY <1>1, <1>2, <1>3, <1>4, <1>5, <1>6, <1>7, <1>8, <1>9 DEF Next, Operation, Operator

-----------------------------------------------------------------------------
(* However the rows are moved through, read again or found gone while a    *)
(* question is open or an operation runs, what can be pressed is what      *)
(* _action_choices gives for the selected row (operations_tui.py calls the *)
(* update of the buttons in each handler by itself).                       *)
THEOREM ButtonsAlwaysFit == Spec => []ButtonsFit
<1>1. Drawn => ButtonsFit
  BY DEF Drawn, ButtonsFit
<1> QED
  BY <1>1, InitDrawn, StepDrawn, PTL DEF Spec

(* What the lifecycle operation of runner.py refuses and what the console  *)
(* offers are two tables; they agree: an operation that was offered is     *)
(* refused only when the container is no longer as it was read.            *)
THEOREM OffersAreHonoured == Spec => OffersAreTaken
<1> DEFINE Offered == work.action \in ActionChoices([service |-> work.service, state |-> work.seen])
           Changed == container[work.dep][work.service] # work.seen
<1>1. [Next]_vars =>
        [(work.pc = "inspect" /\ work'.pc = "idle" /\ reachable /\ Offered) => Changed]_vars
  <2> SUFFICES ASSUME Next, work.pc = "inspect", work'.pc = "idle", reachable, Offered, ~ Changed
               PROVE  FALSE
    OBVIOUS
  <2>1. Inspect \/ UNCHANGED work
    BY DEF Next, Operation, Operator, Outside, Mount, Lock, Command, RefreshAfter, Refresh,
           SelectDeployment, Move, Press, Ask, Confirm, Cancel, Stream, OpenLogs, CloseLogs, Tick,
           ShowLogs, Directory, Container, Hosts, OtherCommand, Inside, Awake
  <2>2. Inspect
    BY <2>1
  <2>3. Refuses(work.seen)
    <3>1. CASE Refuses(container[work.dep][work.service])
      BY <3>1
    <3>2. CASE ~ Refuses(container[work.dep][work.service])
      <4>1. work' = [work EXCEPT !.pc = "command"]
        BY <2>2, <3>2 DEF Inspect, Goto
      <4> QED
        BY <4>1
    <3> QED
      BY <3>1, <3>2
  <2>4. CASE NoContainer(work.seen)
    <3>1. work.seen = "missing" /\ work.action \in {"stop", "start", "restart", "remove"}
      BY <2>4 DEF NoContainer
    <3>2. Lifecycle(work.service, work.seen) \subseteq {"build", "recreate"}
      BY <3>1 DEF Lifecycle
    <3> QED
      BY <3>1, <3>2 DEF ActionChoices
  <2>5. CASE NoLevel(work.seen)
    <3>1. work.action = "log-level" /\ ~ (work.seen = "running" /\ work.service \in Levelled)
      BY <2>5 DEF NoLevel
    <3>2. "log-level" \notin Lifecycle(work.service, work.seen)
      BY DEF Lifecycle
    <3> QED
      BY <3>1, <3>2 DEF ActionChoices
  <2> QED
    BY <2>3, <2>4, <2>5 DEF Refuses
<1> QED
  BY <1>1, PTL DEF Spec, OffersAreTaken

(* A worker that reads logs is a thread that no cancellation stops; the    *)
(* panel never shows what it brings for a service or deployment that is    *)
(* not open any more (operations_tui.py, show_logs).                       *)
THEOREM LogsShownAreOpen == Spec => LogsOfShown
<1>1. [Next]_vars => [pane' # pane => pane' = [dep |-> deployment_id, service |-> logs]]_vars
  <2> SUFFICES ASSUME Next, pane' # pane PROVE pane' = [dep |-> deployment_id, service |-> logs]
    OBVIOUS
  <2>1. ShowLogs
    BY DEF Next, Operation, Operator, Outside, Mount, Lock, Inspect, Command, RefreshAfter, Refresh,
           SelectDeployment, Move, Press, Ask, Confirm, Cancel, Stream, OpenLogs, CloseLogs, Tick,
           Directory, Container, Hosts, OtherCommand, Inside, logging
  <2> QED
    BY <2>1 DEF ShowLogs
<1> QED
  BY <1>1, PTL DEF Spec, LogsOfShown
=============================================================================
