----------------------------- MODULE BundleStore -----------------------------
(***************************************************************************)
(* The prepared bundle on the controller and its copies on the machines    *)
(* (deployment_v3/runner.py): _prepare_bundle and _write_revision file     *)
(* operation by file operation, and _stage as `push` and `apply` use it.   *)
(*                                                                         *)
(* A revision id is a hash of everything in the bundle, so a Content is    *)
(* its own revision id.  `prepare` and `apply` run under the run lock, one *)
(* at a time: `locker`.  `push` takes no lock.  Deployment.tla is the rest *)
(* of `apply` and takes the bundle to be replaced in one step.             *)
(***************************************************************************)
CONSTANTS
  Content,      \* complete bundles
  NoContent,    \* no directory, no pointer, no revision
  Torn,         \* a directory with some files of a bundle
  Entry, Entries, \* the files of each bundle
  Machine,      \* the machines reached over SSH
  NoLink,
  Environment   \* what happens around the commands

ASSUME ContentAssumption ==
  /\ NoContent \notin Content /\ Torn \notin Content /\ NoContent # Torn
  /\ Entries \in [Content -> SUBSET Entry]
  /\ NoLink \notin Content \cup {NoContent}
  /\ Environment \subseteq {"crash", "full disk", "overlap", "discard"}

Directory == Content \cup {NoContent, Torn}
Name == Content \cup {NoContent}  \* bundles/<revision>; NoContent is bundles/current

VARIABLES
  bundle, pending, previous,  \* bundle/, bundle.prepare/ and bundle.previous/
  revisions,    \* revisions/<id>/
  recording,    \* revisions/.<id>.prepare/
  pointer,      \* current-revision.json
  locker,       \* the command that holds the lock
  remote,       \* bundles/<name>/ on each machine
  link,         \* the `current` symlink of each machine
  promised,     \* the --revision of the command that switched it
  mixed,        \* machines that were sent a bundle under another one's name
  ship          \* what `apply` and `push` have yet to stage

local == <<bundle, pending, previous, revisions, recording, pointer>>
machines == <<remote, link, promised, mixed>>
vars == <<local, locker, machines, ship>>

Shipper == {"apply", "push"}
Idle == [pc |-> "idle", kind |-> "prepare", content |-> NoContent, asked |-> NoContent]
Docked == [pc |-> "idle", asked |-> NoContent, left |-> {}, at |-> {}, name |-> NoContent]
Empty == [holds |-> NoContent, entries |-> {}]

Locker ==
  [pc : {"idle", "clear", "render", "build", "built", "swap", "drop", "record",
         "recording", "point", "undo", "ship"},
   kind : {"prepare", "apply"}, content : Name, asked : Name]

Tree == [holds : Directory, entries : SUBSET Entry]
Shipment == [pc : {"idle", "next", "sent"}, asked : Name, left : SUBSET Machine,
             at : SUBSET Machine, name : Name]

TypeOK ==
  /\ bundle \in Directory /\ pending \in Directory /\ previous \in Directory
  /\ revisions \subseteq Content /\ recording \subseteq Content /\ pointer \in Name
  /\ locker \in Locker
  /\ remote \in [Machine -> [Name -> Tree]]
  /\ link \in [Machine -> Name \cup {NoLink}] /\ promised \in [Machine -> Name]
  /\ mixed \subseteq Machine
  /\ ship \in [Shipper -> Shipment]

Init ==
  /\ bundle = NoContent /\ pending = NoContent /\ previous = NoContent
  /\ revisions = {} /\ recording = {} /\ pointer = NoContent /\ locker = Idle
  /\ remote = [m \in Machine |-> [n \in Name |-> Empty]]
  /\ link = [m \in Machine |-> NoLink] /\ promised = [m \in Machine |-> NoContent]
  /\ mixed = {}
  /\ ship = [a \in Shipper |-> Docked]

-----------------------------------------------------------------------------
(* prepare, and the head of apply.                                          *)

MayLock == locker.pc = "idle" /\ ("overlap" \in Environment \/ ship["push"].pc = "idle")
MayPush == ship["push"].pc = "idle" /\ ("overlap" \in Environment \/ locker.pc = "idle")

StartPrepare ==
  /\ MayLock
  /\ locker' = [Idle EXCEPT !.pc = "clear"]
  /\ UNCHANGED <<local, machines, ship>>

\* apply [--revision r] [--resume]: with a revision, only if current-revision.json
\* names it; the bundle that is there is used when resuming.
StartApply(r, resume, todo) ==
  /\ MayLock
  /\ r # NoContent => r \in revisions /\ pointer = r /\ resume
  /\ IF resume /\ bundle # NoContent
       THEN /\ locker' = [Idle EXCEPT !.pc = "ship", !.kind = "apply", !.asked = r]
            /\ ship' = [ship EXCEPT !["apply"] = [Docked EXCEPT
                          !.pc = "next", !.asked = r, !.left = todo]]
       ELSE /\ locker' = [Idle EXCEPT !.pc = "clear", !.kind = "apply", !.asked = r]
            /\ UNCHANGED ship
  /\ UNCHANGED <<local, machines>>

At(pc, next) == locker.pc = pc /\ locker' = [locker EXCEPT !.pc = next]

\* rmtree of what an interrupted prepare left behind.
ClearPending ==  \* mutant: bundle.previous stays
  /\ At("clear", "render")
  /\ pending' = NoContent
  /\ UNCHANGED <<bundle, previous, revisions, recording, pointer, machines, ship>>
Clear ==
  /\ At("clear", "render")
  /\ pending' = NoContent /\ previous' = NoContent
  /\ UNCHANGED <<bundle, revisions, recording, pointer, machines, ship>>

Render(c) ==
  /\ locker.pc = "render" /\ locker' = [locker EXCEPT !.pc = "build", !.content = c]
  /\ pending' = Torn
  /\ UNCHANGED <<bundle, previous, revisions, recording, pointer, machines, ship>>

Build ==
  /\ At("build", "built")
  /\ pending' = locker.content
  /\ UNCHANGED <<bundle, previous, revisions, recording, pointer, machines, ship>>

SwapOutByRemoval ==  \* mutant: the old bundle goes before the new one is in place
  /\ At("built", "swap")
  /\ bundle' = NoContent
  /\ UNCHANGED <<pending, previous, revisions, recording, pointer, machines, ship>>
SwapOut ==
  /\ At("built", "swap")
  /\ bundle' = NoContent
  /\ previous' = IF bundle # NoContent THEN bundle ELSE previous
  /\ UNCHANGED <<pending, revisions, recording, pointer, machines, ship>>

SwapIn ==
  /\ At("swap", "drop")
  /\ bundle' = pending /\ pending' = NoContent
  /\ UNCHANGED <<previous, revisions, recording, pointer, machines, ship>>

Drop ==
  /\ At("drop", "record")
  /\ previous' = NoContent
  /\ UNCHANGED <<bundle, pending, revisions, recording, pointer, machines, ship>>

\* _write_revision: an existing record is kept; mkdir(exist_ok=False) raises when
\* an interrupted prepare left revisions/.<id>.prepare behind.
BeginRecordTrusting ==  \* mutant: a record that was begun is taken for one
  /\ locker.pc = "record"
  /\ LET c == locker.content IN
       IF c \in revisions \cup recording THEN At("record", "point") /\ UNCHANGED recording
       ELSE At("record", "recording") /\ recording' = recording \cup {c}
  /\ UNCHANGED <<bundle, pending, previous, revisions, pointer, machines, ship>>
BeginRecord ==
  /\ locker.pc = "record"
  /\ LET c == locker.content IN
       IF c \in revisions THEN At("record", "point") /\ UNCHANGED recording
       ELSE IF c \in recording THEN At("record", "undo") /\ UNCHANGED recording
       ELSE At("record", "recording") /\ recording' = recording \cup {c}
  /\ UNCHANGED <<bundle, pending, previous, revisions, pointer, machines, ship>>

EndRecordOld ==  \* mutant: records the revision that was current
  /\ At("recording", "point")
  /\ revisions' = revisions \cup {pointer}
  /\ recording' = recording \ {locker.content}
  /\ UNCHANGED <<bundle, pending, previous, pointer, machines, ship>>
EndRecord ==
  /\ At("recording", "point")
  /\ revisions' = revisions \cup {locker.content}
  /\ recording' = recording \ {locker.content}
  /\ UNCHANGED <<bundle, pending, previous, pointer, machines, ship>>

Point ==
  /\ locker.pc = "point"
  /\ pointer' = locker.content
  /\ IF locker.kind = "prepare"
       THEN locker' = Idle /\ UNCHANGED ship
       ELSE /\ locker' = [locker EXCEPT !.pc = "ship"]
            /\ \E todo \in SUBSET Machine :
                 ship' = [ship EXCEPT !["apply"] = [Docked EXCEPT
                            !.pc = "next", !.asked = locker.asked, !.left = todo]]
  /\ UNCHANGED <<bundle, pending, previous, revisions, recording, machines>>

\* An exception: compilation, rendering or the sources fail before the swap, a
\* file operation after it.
Raise ==
  /\ \/ locker.pc = "build"
     \/ /\ "full disk" \in Environment
        /\ locker.pc \in {"built", "swap", "drop", "record", "recording", "point"}
  /\ locker' = [locker EXCEPT !.pc = "undo"]
  /\ UNCHANGED <<local, machines, ship>>

Undo ==
  /\ locker.pc = "undo" /\ locker' = Idle
  /\ pending' = NoContent
  /\ LET restore == bundle = NoContent /\ previous # NoContent IN
       /\ bundle' = IF restore THEN previous ELSE bundle
       /\ previous' = IF restore THEN NoContent ELSE previous
  /\ UNCHANGED <<revisions, recording, pointer, machines, ship>>

\* The controller is killed; an rmtree may be half done.
Crumbs(tree) == IF tree = NoContent THEN {NoContent} ELSE {tree, Torn, NoContent}

Crash ==
  /\ "crash" \in Environment /\ locker.pc # "idle"
  /\ locker' = Idle /\ ship' = [ship EXCEPT !["apply"] = Docked]
  /\ pending' \in IF locker.pc \in {"clear", "undo"} THEN Crumbs(pending) ELSE {pending}
  /\ previous' \in IF locker.pc \in {"clear", "drop"} THEN Crumbs(previous) ELSE {previous}
  /\ UNCHANGED <<bundle, revisions, recording, pointer, machines>>

\* cli.py, _install: without the lock, the bundle is renamed away and removed.
Discard ==
  /\ "discard" \in Environment /\ bundle # NoContent
  /\ "overlap" \in Environment \/ (locker.pc = "idle" /\ ship["push"].pc = "idle")
  /\ bundle' = NoContent
  /\ UNCHANGED <<pending, previous, revisions, recording, pointer, locker, machines, ship>>

-----------------------------------------------------------------------------
(* push, and the staging of apply.                                          *)

PushUnchecked(r) ==  \* mutant: the revision's digests are not compared
  /\ MayPush /\ bundle \in Content
  /\ r # NoContent => r \in revisions
  /\ ship' = [ship EXCEPT !["push"] = [Docked EXCEPT
                !.pc = "next", !.asked = r, !.left = Machine]]
  /\ UNCHANGED <<local, locker, machines>>
PushStart(r) ==
  /\ MayPush /\ bundle \in Content
  /\ r # NoContent => r \in revisions /\ bundle = r
  /\ ship' = [ship EXCEPT !["push"] = [Docked EXCEPT
                !.pc = "next", !.asked = r, !.left = Machine]]
  /\ UNCHANGED <<local, locker, machines>>

\* rsync -a without --delete: files the bundle does not have stay.
Overlay(tree, c) == [holds |-> c, entries |-> tree.entries \cup Entries[c]]
Cut(tree, c, some) ==
  [holds |-> IF tree.holds = c THEN c ELSE Torn, entries |-> tree.entries \cup some]

Whole(tree) == tree.holds \in Content /\ tree.entries = Entries[tree.holds]

\* verify_machine_manifest: a whole bundle and nothing else.
MatchesManifest == bundle \in Content

\* After an exception between the swap and the pointer, bundle/ is new and
\* current-revision.json is not: what is sent goes into the other's directory.
Mixing(m) == mixed' = IF bundle = pointer THEN mixed ELSE mixed \cup {m}

\* _stage, up to the transfer: the directory is named after current-revision.json.
TransferInPlace(a, m) ==  \* mutant: one directory for all revisions
  /\ ship[a].pc = "next" /\ m \in ship[a].left /\ MatchesManifest
  /\ remote' = [remote EXCEPT ![m][NoContent] = Overlay(@, bundle)]
  /\ ship' = [ship EXCEPT ![a].pc = "sent", ![a].at = {m}, ![a].name = NoContent]
  /\ Mixing(m) /\ UNCHANGED <<local, locker, link, promised>>
Transfer(a, m) ==
  /\ ship[a].pc = "next" /\ m \in ship[a].left /\ MatchesManifest
  /\ remote' = [remote EXCEPT ![m][pointer] = Overlay(@, bundle)]
  /\ ship' = [ship EXCEPT ![a].pc = "sent", ![a].at = {m}, ![a].name = pointer]
  /\ Mixing(m) /\ UNCHANGED <<local, locker, link, promised>>

\* A command that raises: apply gives up the lock as well.
Fail(a) ==
  /\ ship' = [ship EXCEPT ![a] = Docked]
  /\ locker' = IF a = "apply" THEN Idle ELSE locker

TransferFails(a, m) ==
  /\ ship[a].pc = "next" /\ m \in ship[a].left /\ Fail(a)
  /\ \/ UNCHANGED <<remote, mixed>>
     \/ /\ MatchesManifest /\ Mixing(m)
        /\ \E some \in SUBSET Entries[bundle] :
             remote' = [remote EXCEPT ![m][pointer] = Cut(@, bundle, some)]
  /\ UNCHANGED <<local, link, promised>>

\* The remote manifest check, then `mv -Tf` of the new symlink.
Activate(a, m) ==
  /\ ship[a].pc = "sent" /\ ship[a].at = {m} /\ Whole(remote[m][ship[a].name])
  /\ link' = [link EXCEPT ![m] = ship[a].name]
  /\ promised' = [promised EXCEPT ![m] = ship[a].asked]
  /\ ship' = [ship EXCEPT ![a].pc = "next", ![a].at = {}, ![a].left = @ \ {m}]
  /\ UNCHANGED <<local, locker, remote, mixed>>

ActivateFails(a) ==
  /\ ship[a].pc = "sent" /\ Fail(a)
  /\ UNCHANGED <<local, machines>>

Shipped(a) ==
  /\ ship[a].pc = "next" /\ ship[a].left = {} /\ Fail(a)
  /\ UNCHANGED <<local, machines>>

-----------------------------------------------------------------------------
PrepareStep ==
  \/ StartPrepare \/ Clear \/ Build \/ SwapOut \/ SwapIn \/ Drop
  \/ BeginRecord \/ EndRecord \/ Point \/ Raise \/ Undo \/ Crash \/ Discard
  \/ \E c \in Content : Render(c)

ShipStep ==
  \/ \E r \in Name, resume \in BOOLEAN, todo \in SUBSET Machine : StartApply(r, resume, todo)
  \/ \E r \in Name : PushStart(r)
  \/ \E a \in Shipper : ActivateFails(a) \/ Shipped(a)
  \/ \E a \in Shipper, m \in Machine : Transfer(a, m) \/ TransferFails(a, m) \/ Activate(a, m)

Next == PrepareStep \/ ShipStep
Specification == Init /\ [][Next]_vars

-----------------------------------------------------------------------------
(* Properties.                                                              *)

Working == {"render", "build", "built", "swap", "drop", "record", "recording", "point", "undo"}

\* Whatever is killed and whatever runs at the same time, bundle/ never holds a
\* half-rendered or half-removed tree (_prepare_bundle renders beside it and
\* removes only what was renamed away).
BundleWhole == bundle # Torn

\* current-revision.json names a revision whose record is complete
\* (_write_revision), whenever the controller is killed.
PointerRecorded == pointer # NoContent => pointer \in revisions

\* Why both hold: what a prepare has at hand at each step, after it cleared away
\* what an earlier one left.
PrepareInvariant ==
  /\ BundleWhole /\ PointerRecorded
  /\ locker.pc \in Working \ {"render", "undo"} => locker.content \in Content
  /\ locker.pc \in {"built", "swap"} => pending = locker.content
  /\ locker.pc \in Working => previous # Torn
  /\ locker.pc = "point" => locker.content \in revisions

\* Where the last bundle is when bundle/ is missing, and that no other command
\* can end the one that has it.
SwapInvariant ==
  /\ bundle \in Name /\ previous \in Name
  /\ bundle = NoContent /\ previous # NoContent => locker.pc \in {"swap", "undo"}
  /\ ship["apply"].pc # "idle" => locker.pc = "ship"

\* A machine whose last push or apply named a revision runs on the files of that
\* revision (docs/deployment-v3-revisions.md: a stale bundle cannot be pushed
\* against a named revision; apply --revision reuses that prepared bundle),
\* unless it was ever sent a bundle that current-revision.json did not name: the
\* code does that after an exception past the swap (_prepare_bundle, _stage).
ActiveIsPromised ==
  \A m \in Machine \ mixed : link[m] # NoLink /\ promised[m] # NoContent =>
                               remote[m][link[m]].holds = promised[m]

\* The directory behind a machine's `current` passes its manifest check, from
\* the moment it was activated on (_stage), with the same exception.
ActiveVerified ==
  \A m \in Machine \ mixed : link[m] # NoLink => Whole(remote[m][link[m]])

\* Without the exception.
NothingMixed ==
  \A m \in Machine : link[m] # NoLink =>
    /\ Whole(remote[m][link[m]])
    /\ promised[m] # NoContent => remote[m][link[m]].holds = promised[m]

\* The bundle a reader can get back: bundle/, or the one set aside for the swap.
Kept == IF bundle = NoContent THEN previous ELSE bundle
Promise == INSTANCE BundlePromise WITH current <- Kept
\* _prepare_bundle keeps BundlePromise when it is not killed.
PromiseKept == Promise!Specification

\* Once there is a complete bundle, bundle/ or bundle.previous/ holds one
\* (runner.py, _prepare_bundle: replace the previous one atomically).
BundleNotLost == [][(Kept \in Content) => (Kept' \in Content)]_vars
=============================================================================
