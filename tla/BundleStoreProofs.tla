-------------------------- MODULE BundleStoreProofs --------------------------
(* Proofs about BundleStore, for any number of bundles and machines: what no  *)
(* crash can do to bundle/ and current-revision.json, and that a prepare that *)
(* is not killed keeps the promise of BundlePromise; and, undisturbed, that   *)
(* machines run on whole copies of the revision they were promised.           *)
EXTENDS BundleStore, TLAPS

USE DEF local, machines, Working, MatchesManifest

-----------------------------------------------------------------------------
(* Types, variable by variable.                                              *)

LEMMA LockerStays ==
  ASSUME locker \in Locker, [Next]_vars
  PROVE  locker' \in Locker
<1> USE DEF Locker
<1>1. Idle \in Locker
  BY DEF Idle, Name
<1>2. ASSUME NEW pc, NEW next \in {"render", "built", "swap", "drop", "record", "recording",
                                  "point", "undo"}, At(pc, next)
      PROVE  locker' \in Locker
  BY <1>2 DEF At
<1>3. CASE Clear \/ Build \/ SwapOut \/ SwapIn \/ Drop \/ EndRecord
  BY <1>3, <1>2 DEF Clear, Build, SwapOut, SwapIn, Drop, EndRecord
<1>4. CASE BeginRecord
  BY <1>4, <1>2 DEF BeginRecord
<1>5. CASE StartPrepare \/ Undo \/ Crash
  BY <1>5, <1>1 DEF StartPrepare, Undo, Crash, Idle
<1>6. CASE Point
  BY <1>6, <1>1 DEF Point
<1>7. CASE Raise \/ Discard
  BY <1>7 DEF Raise, Discard
<1>8. ASSUME NEW c \in Content, Render(c) PROVE locker' \in Locker
  BY <1>8 DEF Render, Name
<1>9. ASSUME NEW r \in Name, NEW resume \in BOOLEAN, NEW todo \in SUBSET Machine,
             StartApply(r, resume, todo)
      PROVE  locker' \in Locker
  BY <1>9, <1>1 DEF StartApply, Idle
<1>10. ASSUME NEW r \in Name, PushStart(r) PROVE locker' \in Locker
  BY <1>10 DEF PushStart
<1>11. ASSUME NEW a \in Shipper, ActivateFails(a) \/ Shipped(a) PROVE locker' \in Locker
  BY <1>11, <1>1 DEF ActivateFails, Shipped, Fail
<1>12. ASSUME NEW a \in Shipper, NEW m \in Machine,
              Transfer(a, m) \/ TransferFails(a, m) \/ Activate(a, m)
       PROVE  locker' \in Locker
  BY <1>12, <1>1 DEF Transfer, TransferFails, Activate, Fail
<1>13. CASE UNCHANGED vars
  BY <1>13 DEF vars
<1> QED
  BY <1>3, <1>4, <1>5, <1>6, <1>7, <1>8, <1>9, <1>10, <1>11, <1>12, <1>13
  DEF Next, PrepareStep, ShipStep

\* What is being staged keeps its fields, and `apply` stages only while its lock
\* is in that phase.
LEMMA ShipStays ==
  ASSUME TypeOK, [Next]_vars
  PROVE  /\ ship' \in [Shipper -> Shipment]
         /\ (ship["apply"].pc # "idle" => locker.pc = "ship")
              => (ship["apply"].pc # "idle" => locker.pc = "ship")'
<1> DEFINE Bound == ship["apply"].pc # "idle" => locker.pc = "ship"
           Stays == ship' \in [Shipper -> Shipment] /\ (Bound => Bound')
<1> USE DEF TypeOK, Locker
<1>1. /\ Docked \in Shipment /\ Docked.pc = "idle"
      /\ Idle.pc = "idle" /\ Shipper = {"apply", "push"}
  BY DEF Docked, Shipment, Name, Idle, Shipper
<1>2. CASE /\ UNCHANGED ship
           /\ Clear \/ Build \/ SwapOut \/ SwapIn \/ Drop \/ BeginRecord \/ EndRecord
  BY <1>2, <1>1 DEF Clear, Build, SwapOut, SwapIn, Drop, BeginRecord, EndRecord, At
<1>3. Clear \/ Build \/ SwapOut \/ SwapIn \/ Drop \/ BeginRecord \/ EndRecord => UNCHANGED ship
  BY DEF Clear, Build, SwapOut, SwapIn, Drop, BeginRecord, EndRecord
<1>4. CASE StartPrepare \/ Raise \/ Undo \/ Discard
  BY <1>4, <1>1 DEF StartPrepare, MayLock, Raise, Undo, Discard, Idle
<1>5. CASE Point
  <2>1. CASE locker.kind = "prepare"
    BY <1>5, <2>1, <1>1 DEF Point
  <2>2. CASE locker.kind # "prepare"
    <3> PICK todo \in SUBSET Machine :
          ship' = [ship EXCEPT !["apply"] = [Docked EXCEPT
                     !.pc = "next", !.asked = locker.asked, !.left = todo]]
      BY <1>5, <2>2 DEF Point
    <3>1. [Docked EXCEPT !.pc = "next", !.asked = locker.asked, !.left = todo] \in Shipment
      BY DEF Docked, Shipment, Name
    <3>2. locker'.pc = "ship"
      BY <1>5, <2>2 DEF Point
    <3> QED  BY <3>1, <3>2, <1>1
  <2> QED  BY <2>1, <2>2
<1>6. CASE Crash
  BY <1>6, <1>1 DEF Crash
<1>7. ASSUME NEW c \in Content, Render(c) PROVE Stays
  BY <1>7, <1>1 DEF Render
<1>8. ASSUME NEW r \in Name, NEW resume \in BOOLEAN, NEW todo \in SUBSET Machine,
             StartApply(r, resume, todo)
      PROVE  Stays
  <2>1. [Docked EXCEPT !.pc = "next", !.asked = r, !.left = todo] \in Shipment
    BY DEF Docked, Shipment, Name
  <2>2. CASE resume /\ bundle # NoContent
    BY <1>8, <2>1, <2>2, <1>1 DEF StartApply, Idle
  <2>3. CASE ~(resume /\ bundle # NoContent)
    BY <1>8, <2>3, <1>1 DEF StartApply, MayLock, Idle
  <2> QED  BY <2>2, <2>3
<1>9. ASSUME NEW r \in Name, PushStart(r) PROVE Stays
  <2>1. [Docked EXCEPT !.pc = "next", !.asked = r, !.left = Machine] \in Shipment
    BY DEF Docked, Shipment, Name
  <2> QED  BY <1>9, <2>1, <1>1 DEF PushStart
<1>10. ASSUME NEW a \in Shipper, Fail(a) PROVE Stays
  BY <1>10, <1>1 DEF Fail
<1>11. ASSUME NEW a \in Shipper, NEW m \in Machine, Transfer(a, m) \/ Activate(a, m)
       PROVE  Stays
  <2>1. PICK next \in Shipment : next.pc # "idle" /\ ship' = [ship EXCEPT ![a] = next]
    <3>1. CASE Transfer(a, m)
      <4>1. [ship[a] EXCEPT !.pc = "sent", !.at = {m}, !.name = pointer] \in Shipment
        BY DEF Shipment
      <4>2. ship' = [ship EXCEPT ![a] =
                       [ship[a] EXCEPT !.pc = "sent", !.at = {m}, !.name = pointer]]
        BY <3>1 DEF Transfer
      <4> QED  BY <4>1, <4>2 DEF Shipment
    <3>2. CASE Activate(a, m)
      <4>1. [ship[a] EXCEPT !.pc = "next", !.at = {}, !.left = @ \ {m}] \in Shipment
        BY DEF Shipment
      <4>2. ship' = [ship EXCEPT ![a] =
                       [ship[a] EXCEPT !.pc = "next", !.at = {}, !.left = @ \ {m}]]
        BY <3>2 DEF Activate
      <4> QED  BY <4>1, <4>2 DEF Shipment
    <3> QED  BY <1>11, <3>1, <3>2
  <2>2. ship[a].pc # "idle" /\ UNCHANGED locker
    BY <1>11 DEF Transfer, Activate
  <2> QED  BY <2>1, <2>2, <1>1
<1>12. ASSUME NEW a \in Shipper, NEW m \in Machine,
              ActivateFails(a) \/ Shipped(a) \/ TransferFails(a, m)
       PROVE  Fail(a)
  BY <1>12 DEF ActivateFails, Shipped, TransferFails
<1>13. ASSUME NEW a \in Shipper, ActivateFails(a) \/ Shipped(a) PROVE Fail(a)
  BY <1>13 DEF ActivateFails, Shipped
<1>14. CASE UNCHANGED vars
  BY <1>14 DEF vars
<1> QED
  BY <1>2, <1>3, <1>4, <1>5, <1>6, <1>7, <1>8, <1>9, <1>10, <1>11, <1>12, <1>13, <1>14
  DEF Next, PrepareStep, ShipStep

\* The machines' trees, links and promises.
LEMMA MachinesStay ==
  ASSUME TypeOK, [Next]_vars
  PROVE  /\ remote' \in [Machine -> [Name -> Tree]]
         /\ link' \in [Machine -> Name \cup {NoLink}] /\ promised' \in [Machine -> Name]
         /\ mixed' \subseteq Machine
<1> DEFINE Stay == /\ remote' \in [Machine -> [Name -> Tree]]
                   /\ link' \in [Machine -> Name \cup {NoLink}]
                   /\ promised' \in [Machine -> Name] /\ mixed' \subseteq Machine
<1> USE DEF TypeOK
<1>1. CASE PrepareStep
  BY <1>1 DEF PrepareStep, StartPrepare, Clear, Build, SwapOut, SwapIn, Drop, BeginRecord,
              EndRecord, Point, Raise, Undo, Crash, Discard, Render
<1>2. ASSUME NEW m \in Machine, NEW tree \in Tree
      PROVE  [remote EXCEPT ![m][pointer] = tree] \in [Machine -> [Name -> Tree]]
  OBVIOUS
<1>3. ASSUME NEW a \in Shipper, NEW m \in Machine, Transfer(a, m)
      PROVE  Stay
  <2>1. Overlay(remote[m][pointer], bundle) \in Tree
    <3>1. remote[m][pointer].entries \in SUBSET Entry /\ bundle \in Directory
      BY DEF Tree
    <3>2. Entries[bundle] \in SUBSET Entry
      BY <1>3, ContentAssumption DEF Transfer
    <3> QED  BY <3>1, <3>2 DEF Overlay, Tree
  <2> QED  BY <1>3, <2>1, <1>2 DEF Transfer, Mixing
<1>4. ASSUME NEW a \in Shipper, NEW m \in Machine, TransferFails(a, m)
      PROVE  Stay
  <2>1. ASSUME bundle \in Content, NEW some \in SUBSET Entries[bundle]
        PROVE  Cut(remote[m][pointer], bundle, some) \in Tree
    <3>1. remote[m][pointer].entries \in SUBSET Entry
      BY DEF Tree
    <3>2. some \in SUBSET Entry /\ bundle \in Directory /\ Torn \in Directory
      BY <2>1, ContentAssumption DEF Directory
    <3>3. remote[m][pointer].entries \cup some \in SUBSET Entry
      BY <3>1, <3>2
    <3> QED  BY <3>2, <3>3 DEF Cut, Tree
  <2>2. CASE UNCHANGED <<remote, mixed>>
    BY <1>4, <2>2 DEF TransferFails
  <2>3. CASE /\ bundle \in Content /\ Mixing(m)
             /\ \E some \in SUBSET Entries[bundle] :
                  remote' = [remote EXCEPT ![m][pointer] = Cut(@, bundle, some)]
    <3>1. PICK some \in SUBSET Entries[bundle] :
                 remote' = [remote EXCEPT ![m][pointer] = Cut(@, bundle, some)]
      BY <2>3
    <3>2. Cut(remote[m][pointer], bundle, some) \in Tree
      BY <2>1, <2>3
    <3>3. remote' = [remote EXCEPT ![m][pointer] = Cut(remote[m][pointer], bundle, some)]
      BY <3>1
    <3>4. UNCHANGED <<link, promised>> /\ mixed' \subseteq Machine
      BY <1>4, <2>3 DEF TransferFails, Mixing
    <3> QED  BY <3>2, <3>3, <3>4, <1>2
  <2> QED  BY <1>4, <2>2, <2>3 DEF TransferFails
<1>5. ASSUME NEW a \in Shipper, NEW m \in Machine, Activate(a, m)
      PROVE  Stay
  BY <1>5 DEF Activate, Shipment
<1>6. CASE \/ \E r \in Name, resume \in BOOLEAN, todo \in SUBSET Machine :
                 StartApply(r, resume, todo)
           \/ \E r \in Name : PushStart(r)
           \/ \E a \in Shipper : ActivateFails(a) \/ Shipped(a)
  BY <1>6 DEF StartApply, PushStart, ActivateFails, Shipped
<1>7. CASE UNCHANGED vars
  BY <1>7 DEF vars
<1> QED
  BY <1>1, <1>3, <1>4, <1>5, <1>6, <1>7 DEF Next, ShipStep

\* The steps of push and of apply's staging leave the prepared bundle alone, and
\* the lock as it is, taken from or back to idle.
LEMMA ShipKeeps ==
  ASSUME ShipStep
  PROVE  /\ UNCHANGED local
         /\ locker' = locker \/ locker'.pc \in {"idle", "clear", "ship"}
<1>1. ASSUME NEW r \in Name, NEW resume \in BOOLEAN, NEW todo \in SUBSET Machine,
             StartApply(r, resume, todo)
      PROVE  UNCHANGED local /\ locker'.pc \in {"clear", "ship"}
  BY <1>1 DEF StartApply, Idle
<1>2. ASSUME NEW r \in Name, PushStart(r) PROVE UNCHANGED <<local, locker>>
  BY <1>2 DEF PushStart
<1>3. ASSUME NEW a \in Shipper, Fail(a) PROVE locker' = locker \/ locker'.pc = "idle"
  BY <1>3 DEF Fail, Idle
<1>4. ASSUME NEW a \in Shipper, ActivateFails(a) \/ Shipped(a)
      PROVE  UNCHANGED local /\ Fail(a)
  BY <1>4 DEF ActivateFails, Shipped
<1>5. ASSUME NEW a \in Shipper, NEW m \in Machine, Transfer(a, m) \/ Activate(a, m)
      PROVE  UNCHANGED <<local, locker>>
  BY <1>5 DEF Transfer, Activate
<1>6. ASSUME NEW a \in Shipper, NEW m \in Machine, TransferFails(a, m)
      PROVE  UNCHANGED local /\ Fail(a)
  BY <1>6 DEF TransferFails
<1> QED
  BY <1>1, <1>2, <1>3, <1>4, <1>5, <1>6 DEF ShipStep

-----------------------------------------------------------------------------
(* What prepare has at hand.                                                 *)

LEMMA StepPrepared ==
  ASSUME TypeOK, PrepareInvariant, [Next]_vars
  PROVE  PrepareInvariant'
<1> USE DEF PrepareInvariant, BundleWhole, PointerRecorded
<1>0. locker \in Locker /\ locker' \in Locker
  BY LockerStays DEF TypeOK
<1> USE <1>0 DEF Locker
<1>1. CASE StartPrepare
  BY <1>1 DEF StartPrepare, Idle
<1>2. CASE Clear
  BY <1>2, ContentAssumption DEF Clear, At
<1>3. CASE Build
  BY <1>3 DEF Build, At
<1>4. CASE SwapOut
  BY <1>4, ContentAssumption DEF SwapOut, At
<1>5. CASE SwapIn
  BY <1>5, ContentAssumption DEF SwapIn, At
<1>6. CASE Drop
  BY <1>6, ContentAssumption DEF Drop, At
<1>7. CASE BeginRecord
  BY <1>7 DEF BeginRecord, At
<1>8. CASE EndRecord
  BY <1>8 DEF EndRecord, At
<1>9. CASE Point
  <2>1. UNCHANGED <<bundle, previous, revisions>> /\ locker'.pc \in {"idle", "ship"}
    <3>1. CASE locker.kind = "prepare"
      BY <1>9, <3>1 DEF Point, Idle
    <3>2. CASE locker.kind # "prepare"
      BY <1>9, <3>2 DEF Point
    <3> QED  BY <3>1, <3>2
  <2>2. pointer' \in revisions
    BY <1>9 DEF Point
  <2> QED  BY <2>1, <2>2
<1>10. CASE Raise
  BY <1>10 DEF Raise
<1>11. CASE Undo
  BY <1>11, ContentAssumption DEF Undo, Idle
<1>12. CASE Crash
  BY <1>12 DEF Crash, Idle
<1>13. CASE Discard
  BY <1>13, ContentAssumption DEF Discard
<1>14. ASSUME NEW c \in Content, Render(c) PROVE PrepareInvariant'
  BY <1>14 DEF Render
<1>15. CASE ShipStep
  BY <1>15, ShipKeeps
<1>16. CASE UNCHANGED vars
  BY <1>16 DEF vars
<1> QED
  BY <1>1, <1>2, <1>3, <1>4, <1>5, <1>6, <1>7, <1>8, <1>9, <1>10, <1>11, <1>12,
     <1>13, <1>14, <1>15, <1>16
  DEF Next, PrepareStep

\* What is recorded and rendered is a bundle because of what prepare has at hand.
LEMMA StepTyped ==
  ASSUME TypeOK, PrepareInvariant, [Next]_vars
  PROVE  TypeOK'
<1> DEFINE Files == /\ bundle \in Directory /\ pending \in Directory /\ previous \in Directory
                    /\ revisions \subseteq Content /\ recording \subseteq Content
                    /\ pointer \in Name
<1>1. Files'
  <2> USE DEF TypeOK, Directory, Name
  <2>1. CASE Clear \/ SwapOut \/ SwapIn \/ Drop \/ Undo \/ Discard
    BY <2>1 DEF Clear, SwapOut, SwapIn, Drop, Undo, Discard
  <2>2. CASE Build
    BY <2>2 DEF Build, Locker
  <2>3. CASE BeginRecord \/ EndRecord
    BY <2>3 DEF BeginRecord, EndRecord, At, PrepareInvariant
  <2>4. CASE Point
    BY <2>4 DEF Point, PrepareInvariant
  <2>5. CASE Crash
    BY <2>5 DEF Crash, Crumbs
  <2>6. CASE StartPrepare \/ Raise \/ \E c \in Content : Render(c)
    BY <2>6 DEF StartPrepare, Raise, Render
  <2>7. CASE ShipStep
    BY <2>7, ShipKeeps
  <2>8. CASE UNCHANGED vars
    BY <2>8 DEF vars
  <2> QED
    BY <2>1, <2>2, <2>3, <2>4, <2>5, <2>6, <2>7, <2>8 DEF Next, PrepareStep
<1> QED
  BY <1>1, LockerStays, ShipStays, MachinesStay DEF TypeOK

LEMMA InitPrepared ==
  ASSUME Init
  PROVE  TypeOK /\ PrepareInvariant
<1>1. PrepareInvariant
  BY ContentAssumption DEF Init, Idle, PrepareInvariant, BundleWhole, PointerRecorded
<1>2. Empty \in Tree /\ Docked \in Shipment /\ Idle \in Locker
  BY DEF Empty, Tree, Docked, Shipment, Idle, Locker, Name, Directory
<1> QED
  BY <1>1, <1>2 DEF Init, TypeOK, Directory, Name

\* The types hold, whatever the environment.
THEOREM TypeCorrect == Specification => []TypeOK
<1>1. TypeOK /\ PrepareInvariant /\ [Next]_vars => (TypeOK /\ PrepareInvariant)'
  BY StepPrepared, StepTyped
<1> QED
  BY <1>1, InitPrepared, PTL DEF Specification

\* Whatever is killed or runs at the same time, bundle/ is never half a tree.
THEOREM BundleIsWhole == Specification => []BundleWhole
<1>1. TypeOK /\ PrepareInvariant /\ [Next]_vars => (TypeOK /\ PrepareInvariant)'
  BY StepPrepared, StepTyped
<1>2. PrepareInvariant => BundleWhole
  BY DEF PrepareInvariant
<1> QED
  BY <1>1, <1>2, InitPrepared, PTL DEF Specification

\* Whatever is killed or runs at the same time, current-revision.json names a
\* complete revision record.
THEOREM PointerIsRecorded == Specification => []PointerRecorded
<1>1. TypeOK /\ PrepareInvariant /\ [Next]_vars => (TypeOK /\ PrepareInvariant)'
  BY StepPrepared, StepTyped
<1>2. PrepareInvariant => PointerRecorded
  BY DEF PrepareInvariant
<1> QED
  BY <1>1, <1>2, InitPrepared, PTL DEF Specification

-----------------------------------------------------------------------------
(* The refinement.                                                           *)

Quiet == "crash" \notin Environment /\ "discard" \notin Environment

LEMMA StepPromise ==
  ASSUME Quiet, TypeOK, PrepareInvariant, SwapInvariant, [Next]_vars
  PROVE  SwapInvariant' /\ [Promise!Replace]_Kept
<1> DEFINE Goal == /\ bundle' \in Name /\ previous' \in Name
                   /\ (bundle = NoContent /\ previous # NoContent
                         => locker.pc \in {"swap", "undo"})'
                   /\ [Promise!Replace]_Kept
<1>0. (ship["apply"].pc # "idle" => locker.pc = "ship")'
  BY ShipStays DEF SwapInvariant
<1> USE DEF SwapInvariant, Kept, Name, Promise!Replace
<1>a. locker \in Locker /\ locker' \in Locker
  BY LockerStays DEF TypeOK
<1> USE <1>a DEF Locker
<1>1. CASE StartPrepare
  BY <1>1 DEF StartPrepare, MayLock
<1>2. CASE Clear
  BY <1>2 DEF Clear, At
<1>3. CASE Build
  BY <1>3 DEF Build, At
<1>4. CASE SwapOut
  BY <1>4, ContentAssumption DEF SwapOut, At
<1>5. CASE SwapIn
  BY <1>5, ContentAssumption DEF SwapIn, At, PrepareInvariant
<1>6. CASE Drop
  BY <1>6 DEF Drop, At
<1>7. CASE BeginRecord
  BY <1>7 DEF BeginRecord, At
<1>8. CASE EndRecord
  BY <1>8 DEF EndRecord, At
<1>9. CASE Point
  BY <1>9 DEF Point
<1>10. CASE Raise
  BY <1>10 DEF Raise
<1>11. CASE Undo
  BY <1>11 DEF Undo
<1>12. CASE Crash \/ Discard
  BY <1>12 DEF Crash, Discard, Quiet
<1>13. ASSUME NEW c \in Content, Render(c) PROVE Goal
  BY <1>13 DEF Render
<1>14. CASE ShipStep
  <2>1. locker' = locker \/ locker.pc \in {"idle", "ship"}
    <3>1. ASSUME NEW r \in Name, NEW resume \in BOOLEAN, NEW todo \in SUBSET Machine,
                 StartApply(r, resume, todo)
          PROVE  locker.pc = "idle"
      BY <3>1 DEF StartApply, MayLock
    <3>2. ASSUME NEW a \in Shipper, NEW m \in Machine,
                 ActivateFails(a) \/ Shipped(a) \/ TransferFails(a, m)
          PROVE  Fail(a) /\ ship[a].pc # "idle"
      BY <3>2 DEF ActivateFails, Shipped, TransferFails
    <3>3. ASSUME NEW a \in Shipper, ActivateFails(a) \/ Shipped(a)
          PROVE  Fail(a) /\ ship[a].pc # "idle"
      BY <3>3 DEF ActivateFails, Shipped
    <3>4. ASSUME NEW a \in Shipper, Fail(a), ship[a].pc # "idle"
          PROVE  locker' = locker \/ locker.pc = "ship"
      BY <3>4 DEF Fail, Shipper
    <3>5. ASSUME NEW r \in Name, PushStart(r) PROVE locker' = locker
      BY <3>5 DEF PushStart
    <3>6. ASSUME NEW a \in Shipper, NEW m \in Machine, Transfer(a, m) \/ Activate(a, m)
          PROVE  locker' = locker
      BY <3>6 DEF Transfer, Activate
    <3> QED
      BY <1>14, <3>1, <3>2, <3>3, <3>4, <3>5, <3>6 DEF ShipStep
  <2> QED  BY <1>0, <1>14, <2>1, ShipKeeps
<1>15. CASE UNCHANGED vars
  BY <1>15 DEF vars
<1>16. Goal
  BY <1>1, <1>2, <1>3, <1>4, <1>5, <1>6, <1>7, <1>8, <1>9, <1>10, <1>11, <1>12,
     <1>13, <1>14, <1>15
  DEF Next, PrepareStep
<1> QED
  BY <1>0, <1>16

\* A prepare that is not killed, whichever of its steps raises, replaces the
\* bundle in one step and never loses it.
THEOREM PrepareKeepsPromise == ASSUME Quiet PROVE Specification => PromiseKept
<1>1. Init => SwapInvariant /\ Promise!Init
  BY DEF Init, Docked, Shipper, SwapInvariant, Name, Kept, Promise!Init
<1>2. TypeOK /\ PrepareInvariant /\ SwapInvariant /\ [Next]_vars
        => (TypeOK /\ PrepareInvariant /\ SwapInvariant)' /\ [Promise!Replace]_Kept
  BY StepPrepared, StepTyped, StepPromise
<1> QED
  BY <1>1, <1>2, InitPrepared, PTL DEF Specification, PromiseKept, Promise!Specification

-----------------------------------------------------------------------------
(* What is behind a machine's `current`: on machines that were only sent the  *)
(* bundle current-revision.json names, each directory holds files of its own  *)
(* revision, whatever was killed, overlapped or discarded.                    *)

OfRevision(tree, n) ==
  tree = Empty \/ (n \in Content /\ tree.holds \in {n, Torn} /\ tree.entries \subseteq Entries[n])

Activated ==
  \A m \in Machine \ mixed :
    /\ \A n \in Name : OfRevision(remote[m][n], n)
    /\ link[m] # NoLink => Whole(remote[m][link[m]])

\* The transfer of a bundle, whole or cut, into the directory of its own revision.
LEMMA TransferKeeps ==
  ASSUME TypeOK, Activated, bundle \in Content, NEW m \in Machine,
         NEW some \in SUBSET Entries[bundle],
         NEW tree \in {Overlay(remote[m][pointer], bundle), Cut(remote[m][pointer], bundle, some)},
         remote' = [remote EXCEPT ![m][pointer] = tree], Mixing(m), UNCHANGED link
  PROVE  Activated'
<1>1. ASSUME m \notin mixed' PROVE m \notin mixed /\ bundle = pointer
  BY <1>1 DEF Mixing
<1>2. mixed \subseteq mixed' /\ mixed' \subseteq mixed \cup {m}
  BY DEF Mixing
<1>3. \A k \in Machine, n \in Name :
        remote'[k][n] = IF k = m /\ n = pointer THEN tree ELSE remote[k][n]
  BY DEF TypeOK
<1>4. \A k \in Machine : link[k] # NoLink => link[k] \in Name
  BY DEF TypeOK
<1>5. ASSUME NEW k \in Machine \ mixed', k # m
      PROVE  /\ \A n \in Name : OfRevision(remote'[k][n], n)
             /\ link'[k] # NoLink => Whole(remote'[k][link'[k]])
  BY <1>2, <1>3, <1>4, <1>5 DEF Activated
<1>6. ASSUME m \notin mixed'
      PROVE  /\ \A n \in Name : OfRevision(remote'[m][n], n)
             /\ link'[m] # NoLink => Whole(remote'[m][link'[m]])
  <2> DEFINE old == remote[m][pointer]
  <2>1. OfRevision(old, bundle) /\ bundle \in Name /\ bundle = pointer
    BY <1>1, <1>6 DEF Activated, Name
  <2>2. tree.holds \in {bundle, Torn} /\ tree.entries \subseteq Entries[bundle]
        /\ (Whole(old) => tree.holds = bundle /\ tree.entries = Entries[bundle])
    <3>1. CASE tree = Overlay(old, bundle)
      BY <2>1, <3>1 DEF OfRevision, Empty, Overlay
    <3>2. CASE tree = Cut(old, bundle, some)
      <4>1. /\ tree.holds = (IF old.holds = bundle THEN bundle ELSE Torn)
            /\ tree.entries = old.entries \cup some
        BY <3>2 DEF Cut
      <4>2. old.entries \subseteq Entries[bundle]
        BY <2>1 DEF OfRevision, Empty
      <4>3. Whole(old) => old.holds = bundle /\ old.entries = Entries[bundle]
        <5>1. old = Empty => old.holds = NoContent
          BY DEF Empty
        <5> QED
          BY <2>1, <5>1, ContentAssumption DEF OfRevision, Whole
      <4> QED
        BY <4>1, <4>2, <4>3
    <3> QED
      BY <3>1, <3>2
  <2>3. \A n \in Name : OfRevision(remote'[m][n], n)
    BY <1>1, <1>3, <1>6, <2>1, <2>2 DEF Activated, OfRevision
  <2>4. \A n \in Name : Whole(remote[m][n]) => Whole(remote'[m][n])
    BY <1>3, <2>1, <2>2 DEF Whole
  <2> QED
    BY <1>1, <1>4, <1>6, <2>3, <2>4 DEF Activated
<1> QED
  BY <1>5, <1>6 DEF Activated

LEMMA StepActivated ==
  ASSUME TypeOK, Activated, [Next]_vars
  PROVE  Activated'
<1>1. ASSUME UNCHANGED <<remote, link, mixed>> PROVE Activated'
  BY <1>1 DEF Activated, Whole, OfRevision
<1>2. CASE PrepareStep
  BY <1>1, <1>2 DEF PrepareStep, StartPrepare, Clear, Build, SwapOut, SwapIn, Drop, BeginRecord,
                    EndRecord, Point, Raise, Undo, Crash, Discard, Render
<1>3. CASE \/ \E r \in Name, resume \in BOOLEAN, todo \in SUBSET Machine : StartApply(r, resume, todo)
           \/ \E r \in Name : PushStart(r)
           \/ \E a \in Shipper : ActivateFails(a) \/ Shipped(a)
           \/ UNCHANGED vars
  BY <1>1, <1>3 DEF StartApply, PushStart, ActivateFails, Shipped, vars
<1>4. ASSUME NEW a \in Shipper, NEW m \in Machine, Transfer(a, m) PROVE Activated'
  <2>1. /\ bundle \in Content /\ Mixing(m) /\ UNCHANGED link
        /\ remote' = [remote EXCEPT ![m][pointer] = Overlay(remote[m][pointer], bundle)]
    BY <1>4 DEF Transfer, TypeOK
  <2>2. {} \in SUBSET Entries[bundle]
    OBVIOUS
  <2> QED
    BY <2>1, <2>2, TransferKeeps
<1>5. ASSUME NEW a \in Shipper, NEW m \in Machine, TransferFails(a, m) PROVE Activated'
  <2>1. CASE UNCHANGED <<remote, mixed>>
    BY <1>1, <1>5, <2>1 DEF TransferFails
  <2>2. CASE bundle \in Content /\ Mixing(m) /\ \E some \in SUBSET Entries[bundle] :
               remote' = [remote EXCEPT ![m][pointer] = Cut(@, bundle, some)]
    <3>1. PICK some \in SUBSET Entries[bundle] :
            remote' = [remote EXCEPT ![m][pointer] = Cut(remote[m][pointer], bundle, some)]
      BY <2>2 DEF TypeOK
    <3>2. UNCHANGED link
      BY <1>5 DEF TransferFails
    <3> QED
      BY <2>2, <3>1, <3>2, TransferKeeps
  <2> QED
    BY <1>5, <2>1, <2>2 DEF TransferFails
<1>6. ASSUME NEW a \in Shipper, NEW m \in Machine, Activate(a, m) PROVE Activated'
  <2>1. Whole(remote[m][ship[a].name]) /\ UNCHANGED <<remote, mixed>>
    BY <1>6 DEF Activate
  <2>2. \A k \in Machine : link'[k] = IF k = m THEN ship[a].name ELSE link[k]
    BY <1>6 DEF Activate, TypeOK
  <2> QED
    BY <2>1, <2>2 DEF Activated, Whole
<1> QED
  BY <1>2, <1>3, <1>4, <1>5, <1>6 DEF Next, ShipStep

LEMMA ActivatedHolds == Specification => []Activated
<1>1. Init => Activated
  BY DEF Init, Activated, OfRevision
<1>2. TypeOK /\ Activated /\ [Next]_vars => Activated'
  BY StepActivated
<1> QED
  BY <1>1, <1>2, TypeCorrect, PTL DEF Specification

\* A machine's `current` keeps passing its manifest check while later transfers
\* into its directory succeed or are cut, in every environment, unless the machine
\* was sent a bundle that current-revision.json did not name (_stage).
THEOREM ActiveStaysVerified == Specification => []ActiveVerified
<1>1. Activated => ActiveVerified
  BY DEF Activated, ActiveVerified
<1> QED
  BY <1>1, ActivatedHolds, PTL

-----------------------------------------------------------------------------
(* What a machine was promised, when the controller is not killed, nothing    *)
(* runs next to a command at work and no install discards the bundle.         *)

Undisturbed == Quiet /\ "overlap" \notin Environment

\* A revision can be asked for only while there is a bundle to reuse, and while
\* it is staged neither bundle/ nor the pointer changes.
Aligned ==
  /\ pointer # NoContent => Kept # NoContent
  /\ locker.pc \in {"drop", "record", "recording", "point"} => bundle = locker.content
  /\ locker.pc \in Working \cup {"clear"} => locker.asked = NoContent

Shipping ==
  /\ ship["push"].pc # "idle" => locker.pc = "idle"
  /\ \A a \in Shipper :
       /\ ship[a].pc # "idle" => ship[a].asked \in {NoContent, bundle, pointer}
       /\ ship[a].pc = "sent" =>
            \A m \in ship[a].at \ mixed : ship[a].asked \in {NoContent, ship[a].name}

Promised ==
  \A m \in Machine \ mixed : link[m] # NoLink => promised[m] \in {NoContent, link[m]}

Staged == Aligned /\ Shipping /\ Promised

LEMMA InitStaged == Init => Staged
<1> SUFFICES ASSUME Init PROVE Staged
  OBVIOUS
<1>1. locker.pc = "idle" /\ \A a \in Shipper : ship[a].pc = "idle"
  BY DEF Init, Idle, Docked
<1> QED
  BY <1>1 DEF Init, Staged, Aligned, Shipping, Promised, Shipper

\* A prepare at work: nobody stages meanwhile.
LEMMA PrepareStaged ==
  ASSUME Undisturbed, TypeOK, PrepareInvariant, SwapInvariant, Staged, PrepareStep
  PROVE  Staged'
<1> USE DEF Undisturbed, Quiet, SwapInvariant
<1>0. [Promise!Replace]_Kept /\ SwapInvariant'
  BY StepPromise DEF Next
<1>1. Kept # NoContent => Kept' # NoContent
  BY <1>0, ContentAssumption DEF Promise!Replace
<1>2. UNCHANGED machines
  BY DEF PrepareStep, StartPrepare, Clear, Build, SwapOut, SwapIn, Drop, BeginRecord, EndRecord,
         Point, Raise, Undo, Crash, Discard, Render
<1>3. Promised'
  BY <1>2 DEF Staged, Promised
<1>4. ASSUME UNCHANGED <<pointer, ship>>, locker.pc \in Working \cup {"clear"},
             locker' = [locker EXCEPT !.pc = locker'.pc] \/ locker'.pc = "idle",
             locker'.pc \in {"drop", "record", "recording", "point"} => bundle' = locker'.content
      PROVE  Staged'
  <2>1. \A a \in Shipper : ship[a].pc = "idle"
    BY <1>4 DEF Staged, Shipping, Shipper
  <2>2. locker'.pc # "idle" => locker'.asked = NoContent
    BY <1>4 DEF Staged, Aligned, TypeOK, Locker
  <2> QED
    BY <1>1, <1>3, <1>4, <2>1, <2>2 DEF Staged, Aligned, Shipping, Shipper
<1>5. CASE StartPrepare
  <2>1. locker'.pc = "clear" /\ locker'.asked = NoContent /\ locker.pc = "idle" /\ ship["push"].pc = "idle"
        /\ UNCHANGED <<local, ship>>
    BY <1>5 DEF StartPrepare, MayLock, Idle
  <2>2. \A a \in Shipper : ship[a].pc = "idle"
    BY <2>1 DEF Shipper
  <2> QED
    BY <1>1, <1>3, <2>1, <2>2 DEF Staged, Aligned, Shipping, Shipper
<1>6. CASE Clear \/ Build \/ SwapOut
  BY <1>4, <1>6 DEF Clear, Build, SwapOut, At, TypeOK, Locker
<1>7. ASSUME NEW c \in Content, Render(c) PROVE Staged'
  <2>1. locker'.pc = "build" /\ locker'.asked = locker.asked /\ locker.pc = "render"
        /\ UNCHANGED <<pointer, ship>>
    BY <1>7 DEF Render, TypeOK, Locker
  <2>2. \A a \in Shipper : ship[a].pc = "idle"
    BY <2>1 DEF Staged, Shipping, Shipper
  <2> QED
    BY <1>1, <1>3, <2>1, <2>2 DEF Staged, Aligned, Shipping, Shipper
<1>8. CASE SwapIn
  <2>1. /\ locker.pc = "swap" /\ locker'.pc = "drop" /\ locker'.content = locker.content
        /\ bundle' = pending /\ pending = locker.content
        /\ locker' = [locker EXCEPT !.pc = locker'.pc] /\ UNCHANGED <<pointer, ship>>
    BY <1>8 DEF SwapIn, At, TypeOK, Locker, PrepareInvariant
  <2> QED
    BY <1>4, <2>1
<1>9. CASE Drop \/ BeginRecord \/ EndRecord
  <2>1. /\ locker.pc \in {"drop", "record", "recording"} /\ UNCHANGED <<bundle, pointer, ship>>
        /\ locker' = [locker EXCEPT !.pc = locker'.pc] /\ locker'.content = locker.content
    BY <1>9 DEF Drop, BeginRecord, EndRecord, At, TypeOK, Locker
  <2> QED
    BY <1>4, <2>1 DEF Staged, Aligned
<1>10. CASE Point
  <2>1. /\ locker.pc = "point" /\ pointer' = locker.content /\ bundle = locker.content
        /\ UNCHANGED <<bundle, previous>> /\ locker.content \in Content
    BY <1>10 DEF Point, Staged, Aligned, PrepareInvariant
  <2>2. /\ \A a \in Shipper : ship[a].pc = "idle"
        /\ locker.asked = NoContent
    BY <2>1 DEF Staged, Shipping, Shipper, Aligned
  <2>3. Kept' # NoContent
    BY <2>1, ContentAssumption DEF Kept
  <2>4. CASE locker.kind = "prepare"
    <3>1. locker'.pc = "idle" /\ UNCHANGED ship
      BY <1>10, <2>4 DEF Point, Idle
    <3> QED
      BY <1>3, <2>2, <2>3, <3>1 DEF Staged, Aligned, Shipping, Shipper
  <2>5. CASE locker.kind # "prepare"
    <3>1. locker'.pc = "ship"
      BY <1>10, <2>5 DEF Point, TypeOK, Locker
    <3>2. /\ ship'["push"] = ship["push"]
          /\ ship'["apply"].asked = NoContent /\ ship'["apply"].pc = "next"
      <4>1. PICK todo \in SUBSET Machine :
              ship' = [ship EXCEPT !["apply"] = [Docked EXCEPT
                         !.pc = "next", !.asked = locker.asked, !.left = todo]]
        BY <1>10, <2>5 DEF Point
      <4>2. DOMAIN ship = Shipper /\ "apply" \in Shipper /\ "push" \in Shipper
        BY DEF TypeOK, Shipper
      <4> QED
        BY <2>2, <4>1, <4>2 DEF Docked
    <3> QED
      BY <1>3, <2>2, <2>3, <3>1, <3>2 DEF Staged, Aligned, Shipping, Shipper
  <2> QED
    BY <2>4, <2>5
<1>11. CASE Raise
  BY <1>4, <1>11 DEF Raise, TypeOK, Locker
<1>12. CASE Undo
  <2>1. locker'.pc = "idle" /\ locker.pc = "undo" /\ UNCHANGED <<pointer, ship>>
    BY <1>12 DEF Undo, Idle
  <2> QED
    BY <1>4, <2>1
<1>13. ~ Crash /\ ~ Discard
  BY DEF Crash, Discard
<1> QED
  BY <1>5, <1>6, <1>7, <1>8, <1>9, <1>10, <1>11, <1>12, <1>13 DEF PrepareStep

\* A push or an apply at work: bundle/ and the pointer stay as they are.
LEMMA ShipStaged ==
  ASSUME Undisturbed, TypeOK, SwapInvariant, Staged, ShipStep
  PROVE  Staged'
<1> USE DEF Undisturbed
<1>0. UNCHANGED local /\ (pointer # NoContent => Kept' # NoContent)
  BY ShipKeeps DEF Staged, Aligned, Kept
<1>1. ASSUME NEW a \in Shipper, Fail(a), ship[a].pc # "idle" PROVE Aligned'
  BY <1>0, <1>1 DEF Fail, Idle, Staged, Aligned
<1>2. ASSUME NEW a \in Shipper, Fail(a), ship[a].pc # "idle", mixed \subseteq mixed'
      PROVE  Shipping'
  <2>1. ship'[a].pc = "idle" /\ \A b \in Shipper : b # a => ship'[b] = ship[b]
    BY <1>2 DEF Fail, Docked, TypeOK
  <2>2. locker' = locker \/ locker'.pc = "idle"
    BY <1>2 DEF Fail, Idle
  <2> QED
    BY <1>0, <1>2, <2>1, <2>2 DEF Staged, Shipping, Shipper
<1>3. ASSUME UNCHANGED <<link, promised>>, mixed \subseteq mixed' PROVE Promised'
  BY <1>3 DEF Staged, Promised
<1>4. ASSUME NEW r \in Name, NEW resume \in BOOLEAN, NEW todo \in SUBSET Machine,
             StartApply(r, resume, todo)
      PROVE  Staged'
  <2>1. /\ locker.pc = "idle" /\ ship["push"].pc = "idle" /\ ship["apply"].pc = "idle"
        /\ r \in {NoContent, pointer} /\ (r # NoContent => resume)
        /\ UNCHANGED machines
    BY <1>4 DEF StartApply, MayLock, SwapInvariant
  <2>2. CASE resume /\ bundle # NoContent
    <3>1. /\ locker' = [Idle EXCEPT !.pc = "ship", !.kind = "apply", !.asked = r]
          /\ ship' = [ship EXCEPT !["apply"] = [Docked EXCEPT
                        !.pc = "next", !.asked = r, !.left = todo]]
      BY <1>4, <2>2 DEF StartApply
    <3>2. locker'.pc = "ship"
      BY <3>1 DEF Idle
    <3>3. /\ ship'["push"] = ship["push"]
          /\ ship'["apply"].pc = "next" /\ ship'["apply"].asked = r
      BY <3>1 DEF TypeOK, Shipper, Docked
    <3> QED
      BY <1>0, <1>3, <2>1, <3>2, <3>3 DEF Staged, Aligned, Shipping, Shipper
  <2>3. CASE ~(resume /\ bundle # NoContent)
    <3>1. locker'.pc = "clear" /\ locker'.asked = r /\ UNCHANGED ship
      BY <1>4, <2>3 DEF StartApply, Idle
    <3>2. r = NoContent
      BY <2>1, <2>3 DEF Staged, Aligned, SwapInvariant, Kept
    <3> QED
      BY <1>0, <1>3, <2>1, <3>1, <3>2 DEF Staged, Aligned, Shipping, Shipper
  <2> QED
    BY <2>2, <2>3
<1>5. ASSUME NEW r \in Name, PushStart(r) PROVE Staged'
  <2>1. /\ locker.pc = "idle" /\ r \in {NoContent, bundle}
        /\ UNCHANGED <<local, locker, machines>>
    BY <1>5 DEF PushStart, MayPush
  <2>2. ship'["apply"] = ship["apply"] /\ ship'["push"].pc = "next" /\ ship'["push"].asked = r
    BY <1>5 DEF PushStart, Docked, TypeOK, Shipper
  <2> QED
    BY <1>0, <1>3, <2>1, <2>2 DEF Staged, Aligned, Shipping, Shipper
<1>6. ASSUME NEW a \in Shipper, ActivateFails(a) \/ Shipped(a) PROVE Staged'
  <2>1. Fail(a) /\ ship[a].pc # "idle" /\ UNCHANGED machines
    BY <1>6 DEF ActivateFails, Shipped
  <2> QED
    BY <1>1, <1>2, <1>3, <2>1 DEF Staged
<1>7. ASSUME NEW a \in Shipper, NEW m \in Machine, TransferFails(a, m) PROVE Staged'
  <2>1. Fail(a) /\ ship[a].pc # "idle" /\ UNCHANGED <<link, promised>> /\ mixed \subseteq mixed'
    BY <1>7 DEF TransferFails, Mixing
  <2> QED
    BY <1>1, <1>2, <1>3, <2>1 DEF Staged
<1>8. ASSUME NEW a \in Shipper, NEW m \in Machine, Transfer(a, m) PROVE Staged'
  <2>1. /\ ship[a].pc = "next" /\ UNCHANGED <<locker, link, promised>>
        /\ mixed \subseteq mixed' /\ (m \notin mixed' => bundle = pointer)
    BY <1>8 DEF Transfer, Mixing
  <2>2. /\ ship'[a].pc = "sent" /\ ship'[a].name = pointer /\ ship'[a].asked = ship[a].asked
        /\ ship'[a].at = {m} /\ \A b \in Shipper : b # a => ship'[b] = ship[b]
    BY <1>8 DEF Transfer, TypeOK, Shipment
  <2>3. Shipping'
    BY <1>0, <2>1, <2>2 DEF Staged, Shipping, Shipper
  <2> QED
    BY <1>0, <1>3, <2>1, <2>3 DEF Staged, Aligned
<1>9. ASSUME NEW a \in Shipper, NEW m \in Machine, Activate(a, m) PROVE Staged'
  <2>1. /\ ship[a].pc = "sent" /\ ship[a].at = {m} /\ UNCHANGED <<locker, mixed>>
        /\ ship'[a].pc = "next" /\ ship'[a].asked = ship[a].asked
        /\ \A b \in Shipper : b # a => ship'[b] = ship[b]
    BY <1>9 DEF Activate, TypeOK, Shipment
  <2>2. \A k \in Machine : /\ link'[k] = IF k = m THEN ship[a].name ELSE link[k]
                           /\ promised'[k] = IF k = m THEN ship[a].asked ELSE promised[k]
    BY <1>9 DEF Activate, TypeOK
  <2>3. Promised'
    BY <2>1, <2>2 DEF Staged, Shipping, Promised
  <2>4. Shipping'
    BY <1>0, <2>1 DEF Staged, Shipping, Shipper
  <2> QED
    BY <1>0, <2>1, <2>3, <2>4 DEF Staged, Aligned
<1> QED
  BY <1>4, <1>5, <1>6, <1>7, <1>8, <1>9 DEF ShipStep

LEMMA StagedHolds ==
  ASSUME Undisturbed
  PROVE  Specification => []Staged
<1>1. Init => SwapInvariant
  BY DEF Init, Docked, Shipper, SwapInvariant, Name
<1>2. TypeOK /\ PrepareInvariant /\ SwapInvariant /\ Staged /\ [Next]_vars
        => (TypeOK /\ PrepareInvariant /\ SwapInvariant /\ Staged)'
  <2> SUFFICES ASSUME TypeOK, PrepareInvariant, SwapInvariant, Staged, [Next]_vars
               PROVE  (TypeOK /\ PrepareInvariant /\ SwapInvariant /\ Staged)'
    OBVIOUS
  <2>1. (TypeOK /\ PrepareInvariant /\ SwapInvariant)'
    BY StepPrepared, StepTyped, StepPromise DEF Undisturbed
  <2>2. CASE UNCHANGED vars
    BY <2>1, <2>2 DEF vars, Staged, Aligned, Shipping, Promised, Kept
  <2> QED
    BY <2>1, <2>2, PrepareStaged, ShipStaged DEF Next
<1> QED
  BY <1>1, <1>2, InitPrepared, InitStaged, PTL DEF Specification

\* A machine whose last push or apply named a revision runs on its files, when
\* nothing is killed, overlapped or discarded, and whatever raises, unless it was
\* sent a bundle that current-revision.json did not name.
THEOREM ActiveIsAsPromised ==
  ASSUME Undisturbed
  PROVE  Specification => []ActiveIsPromised
<1>1. TypeOK /\ Activated /\ Staged => ActiveIsPromised
  <2> SUFFICES ASSUME TypeOK, Activated, Staged, NEW m \in Machine \ mixed,
                      link[m] # NoLink, promised[m] # NoContent
               PROVE  remote[m][link[m]].holds = promised[m]
    BY DEF ActiveIsPromised
  <2>1. Whole(remote[m][link[m]]) /\ promised[m] = link[m] /\ link[m] \in Name
    BY DEF TypeOK, Staged, Activated, Promised
  <2>2. OfRevision(remote[m][link[m]], link[m])
    BY <2>1 DEF Activated
  <2>3. remote[m][link[m]] # Empty
    <3>1. Empty.holds = NoContent
      BY DEF Empty
    <3> QED
      BY <2>1, <3>1, ContentAssumption DEF Whole
  <2> QED
    BY <2>1, <2>2, <2>3, ContentAssumption DEF OfRevision, Whole
<1> QED
  BY <1>1, StagedHolds, ActivatedHolds, TypeCorrect, PTL
=============================================================================
