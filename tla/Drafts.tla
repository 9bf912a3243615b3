------------------------------- MODULE Drafts -------------------------------
(***************************************************************************)
(* The two programs that edit an operator's inventory, and its files: a    *)
(* draft session of the web workbench (session.py) under requests that     *)
(* overlap, and terminal editors (inventory_editor/).  What the operations *)
(* do to an inventory is Wizard's; here an edit is any other inventory.    *)
(*                                                                         *)
(* Operations and saves run one at a time, on the server's event loop.     *)
(* Undo and reset run in its thread pool, and nothing locks the session:   *)
(* between two steps of a request any other may take one.                  *)
(***************************************************************************)
EXTENDS Naturals, Sequences, SequencesExt, FiniteSets

CONSTANTS
  Doc,        \* inventories
  Resolving,  \* those that resolve
  Sorted,     \* an inventory as it is read back when its keys were sorted
  Path,       \* inventory files
  Source,     \* the one that the session was opened on
  Request,    \* requests to the session at one time
  Editor,     \* terminal editors at one time
  NoDoc, Half,  \* of no inventory, and of a file that is being written
  MaxUndo, MaxSecond, MaxRequests, MaxEdits

ASSUME DocsAssumption ==
  /\ Resolving \subseteq Doc /\ Sorted \in [Doc -> Doc]
  /\ NoDoc \notin Doc /\ Half \notin Doc \cup {NoDoc}
  /\ Request \cap {"nobody", "operator", "web", "editor"} = {}
  /\ Source \in Path /\ MaxUndo \in Nat /\ MaxSecond \in Nat \ {0}

VARIABLES
  original, original_bytes, raw, undo_stack, resolution,  \* the session; of a resolution, what it resolves
  request,  \* of every request, where it is and its local variables
  files,    \* what every inventory file holds, and who wrote it
  backup,   \* the backups of a file, by second
  second,   \* the time, as backups are named by it
  editor,   \* of every editor, where it is and its document
  raced,    \* kept for the properties: undo or reset has overlapped another request
  requests, edits  \* for the bounds: requests begun, documents opened or saved
session == <<original, original_bytes, raw, undo_stack, resolution>>
vars == <<session, request, files, backup, second, editor, raced, requests, edits>>

Idle == [at |-> "idle", doc |-> NoDoc, was |-> NoDoc, path |-> Source]
Closed == [at |-> "closed", raw |-> NoDoc, original |-> NoDoc, path |-> Source,
           stamp |-> 1, read |-> NoDoc, alone |-> TRUE]
NoFile == [doc |-> NoDoc, by |-> "nobody"]

SameDict(a, b) == Sorted[a] = Sorted[b]   \* Python compares dictionaries whatever their order

Init ==
  /\ original = NoDoc /\ original_bytes = NoDoc /\ raw = NoDoc /\ resolution = NoDoc
  /\ undo_stack = <<>>
  /\ request = [r \in Request |-> Idle]
  /\ \E d \in Resolving :
       files = [p \in Path |-> IF p = Source THEN [doc |-> d, by |-> "operator"] ELSE NoFile]
  /\ backup = [p \in Path |-> [t \in 1..MaxSecond |-> NoDoc]] /\ second = 1
  /\ editor = [e \in Editor |-> Closed] /\ raced = FALSE
  /\ requests = 0 /\ edits = 0

Disk == <<files, backup, second, editor, edits>>

-----------------------------------------------------------------------------
(* A session is opened from two readings of the file: what is edited, and  *)
(* the bytes of it.  One that does not resolve is refused.                 *)

Opened == resolution # NoDoc

ReadInventory ==
  /\ original = NoDoc /\ files[Source].doc \in Doc
  /\ original' = files[Source].doc /\ raw' = original'
  /\ UNCHANGED <<original_bytes, undo_stack, resolution, request, raced, requests, Disk>>

ReadBytes ==
  /\ original # NoDoc /\ ~ Opened
  /\ IF original \in Resolving
     THEN /\ original_bytes' = files[Source].doc /\ resolution' = original
          /\ UNCHANGED <<original, raw>>
     ELSE original' = NoDoc /\ raw' = NoDoc /\ UNCHANGED <<original_bytes, resolution>>
  /\ UNCHANGED <<undo_stack, request, raced, requests, Disk>>

-----------------------------------------------------------------------------
(* Requests.  The loop is busy from the first step of an operation or save *)
(* to its last.                                                            *)

OnLoop == {"copy", "push", "commit", "show", "assign", "changed", "dump", "create", "write"}
InPool == {"pop", "restore", "resolve", "redraw"}
LoopFree == \A r \in Request : request[r].at \notin OnLoop
At(r, place) == request[r].at = place
Overlapped ==
  \E r, s \in Request : r # s /\ request[r].at \in InPool /\ request[s].at # "idle"

To(r, state) ==
  /\ request' = [request EXCEPT ![r] = state]
  /\ raced' = (raced \/ Overlapped')
Begin(r, state) ==
  /\ Opened /\ At(r, "idle") /\ requests < MaxRequests
  /\ requests' = requests + 1 /\ To(r, state)
Goes(r, place, doc) == To(r, [request[r] EXCEPT !.at = place, !.doc = doc]) /\ UNCHANGED requests
Answer(r) == To(r, Idle) /\ UNCHANGED requests

OperateUnchecked(r) ==   \* mutant: the edit is not resolved
  /\ LoopFree /\ Len(undo_stack) < MaxUndo
  /\ \E candidate \in Doc : Begin(r, [Idle EXCEPT !.at = "copy", !.doc = candidate])
  /\ UNCHANGED <<session, Disk>>

(* An operation: the edit of a copy, which must resolve, or a rejection. *)
Operate(r) ==
  /\ LoopFree /\ Len(undo_stack) < MaxUndo
  /\ \E candidate \in Resolving : Begin(r, [Idle EXCEPT !.at = "copy", !.doc = candidate])
  /\ UNCHANGED <<session, Disk>>

(* The draft is copied for undo, which may not be the one that was edited. *)
Remember(r) ==
  /\ At(r, "copy")
  /\ To(r, [request[r] EXCEPT !.at = "push", !.was = raw]) /\ UNCHANGED requests
  /\ UNCHANGED <<session, Disk>>

Push(r) ==
  /\ At(r, "push")
  /\ undo_stack' = Append(undo_stack, request[r].was)
  /\ Goes(r, "commit", request[r].doc)
  /\ UNCHANGED <<original, original_bytes, raw, resolution, Disk>>

Commit(r) ==
  /\ At(r, "commit")
  /\ raw' = request[r].doc /\ Goes(r, "show", request[r].doc)
  /\ UNCHANGED <<original, original_bytes, undo_stack, resolution, Disk>>

Show(r) ==
  /\ At(r, "show")
  /\ resolution' = request[r].doc /\ Answer(r)
  /\ UNCHANGED <<original, original_bytes, raw, undo_stack, Disk>>

(* Undo.  The stack may be empty by the time it pops; that request fails. *)
Undo(r) ==
  /\ undo_stack # <<>>
  /\ Begin(r, [Idle EXCEPT !.at = "pop"])
  /\ UNCHANGED <<session, Disk>>

Pop(r) ==
  /\ At(r, "pop") /\ undo_stack # <<>>
  /\ undo_stack' = Front(undo_stack) /\ Goes(r, "restore", Last(undo_stack))
  /\ UNCHANGED <<original, original_bytes, raw, resolution, Disk>>

PopNothing(r) ==
  /\ At(r, "pop") /\ undo_stack = <<>>
  /\ Answer(r)
  /\ UNCHANGED <<session, Disk>>

Reset(r) ==
  /\ undo_stack' = <<>>
  /\ Begin(r, [Idle EXCEPT !.at = "restore", !.doc = original])
  /\ UNCHANGED <<original, original_bytes, raw, resolution, Disk>>

Restore(r) ==
  /\ At(r, "restore")
  /\ raw' = request[r].doc /\ Goes(r, "resolve", NoDoc)
  /\ UNCHANGED <<original, original_bytes, undo_stack, resolution, Disk>>

RestoreOnly(r) ==   \* mutant: the restored draft is not resolved
  /\ At(r, "resolve")
  /\ Goes(r, "redraw", resolution)
  /\ UNCHANGED <<session, Disk>>

ResolveAgain(r) ==
  /\ At(r, "resolve")
  /\ Goes(r, "redraw", raw)
  /\ UNCHANGED <<session, Disk>>

Redraw(r) ==
  /\ At(r, "redraw")
  /\ resolution' = request[r].doc /\ Answer(r)
  /\ UNCHANGED <<original, original_bytes, raw, undo_stack, Disk>>

-----------------------------------------------------------------------------
(* Saving a copy, in a file that must not exist. *)

Save(r) ==
  /\ LoopFree
  /\ \E p \in Path \ {Source} :
       Begin(r, [Idle EXCEPT !.at = "assign", !.doc = raw, !.path = p])
  /\ UNCHANGED <<session, Disk>>

SaveResolved(r) ==
  /\ At(r, "assign")
  /\ resolution' = request[r].doc /\ Goes(r, "changed", NoDoc)
  /\ UNCHANGED <<original, original_bytes, raw, undo_stack, Disk>>

(* An inventory that was not changed, its order aside, is copied from the bytes. *)
SaveChanged(r) ==
  /\ At(r, "changed")
  /\ IF SameDict(raw, original) THEN Goes(r, "create", original_bytes) ELSE Goes(r, "dump", NoDoc)
  /\ UNCHANGED <<session, Disk>>

Dump(r) ==
  /\ At(r, "dump")
  /\ Goes(r, "create", raw)
  /\ UNCHANGED <<session, Disk>>

CreateOver(r) ==   \* mutant: opened for writing, whatever is there
  /\ At(r, "create")
  /\ files' = [files EXCEPT ![request[r].path] = [doc |-> Half, by |-> r]]
  /\ Goes(r, "write", request[r].doc)
  /\ UNCHANGED <<session, backup, second, editor, edits>>

Create(r) ==
  LET p == request[r].path IN
  /\ At(r, "create")
  /\ \/ /\ files[p] = NoFile
        /\ files' = [files EXCEPT ![p] = [doc |-> Half, by |-> r]]
        /\ Goes(r, "write", request[r].doc)
     \/ files[p] # NoFile /\ Answer(r) /\ UNCHANGED files
  /\ UNCHANGED <<session, backup, second, editor, edits>>

(* The disk may be full: what was created then stays. *)
Write(r) ==
  LET p == request[r].path IN
  /\ At(r, "write")
  /\ \/ files' = [files EXCEPT ![p] = [doc |-> request[r].doc, by |-> "web"]]
     \/ UNCHANGED files
  /\ Answer(r)
  /\ UNCHANGED <<session, backup, second, editor, edits>>

-----------------------------------------------------------------------------
(* Terminal editors.  A document is not validated when it is loaded. *)

Web == <<session, request, raced, requests>>

Load(e) ==
  /\ editor[e].at = "closed" /\ edits < MaxEdits /\ edits' = edits + 1
  /\ \E p \in Path :
       /\ files[p].doc \in Doc
       /\ editor' = [editor EXCEPT ![e] =
            [Closed EXCEPT !.at = "edit", !.raw = files[p].doc, !.original = files[p].doc, !.path = p]]
  /\ UNCHANGED <<Web, files, backup, second>>

(* Leaving a section, or validating it: the whole inventory must resolve. *)
CommitSection(e) ==
  /\ editor[e].at = "edit"
  /\ \E d \in Resolving : editor' = [editor EXCEPT ![e].raw = d]
  /\ UNCHANGED <<Web, files, backup, second, edits>>

(* Saving commits the section first, and does nothing without a change.    *)
(* The second is read here by which the backup will be named.              *)
SaveInventory(e) ==
  /\ editor[e].at = "edit" /\ edits < MaxEdits
  /\ \E d \in Resolving :
       editor' = [editor EXCEPT ![e] =
         IF SameDict(d, @.original) THEN [@ EXCEPT !.raw = d]
         ELSE [@ EXCEPT !.raw = d, !.stamp = second, !.at = "read"]]
  /\ UNCHANGED <<Web, files, backup, second, edits>>

ReadAsLoaded(e) ==   \* mutant: the document is backed up as it was loaded
  /\ editor[e].at = "read"
  /\ editor' = [editor EXCEPT ![e] =
       [@ EXCEPT !.at = "cut", !.read = editor[e].original, !.alone = TRUE]]
  /\ UNCHANGED <<Web, files, backup, second, edits>>

(* The backup is written as files are: what it would hold is read, it is   *)
(* cut to nothing if it is there, and filled.                              *)
ReadFile(e) ==
  /\ editor[e].at = "read"
  /\ editor' = [editor EXCEPT ![e] =
       [@ EXCEPT !.at = "cut", !.read = files[editor[e].path].doc, !.alone = TRUE]]
  /\ UNCHANGED <<Web, files, backup, second, edits>>

(* What the others of some have read or written is not theirs alone any more. *)
Disturb(e, some) ==
  [x \in Editor |-> IF x \in some \ {e} THEN [editor[x] EXCEPT !.alone = FALSE] ELSE editor[x]]
Saving(p) == {x \in Editor : editor[x].path = p /\ editor[x].at \in {"cut", "fill", "replace"}}
SavingAs(p, t) == {x \in Saving(p) : editor[x].stamp = t}

CutBackup(e) ==
  LET p == editor[e].path
      t == editor[e].stamp
  IN
  /\ editor[e].at = "cut"
  /\ backup' = [backup EXCEPT ![p][t] = Half]
  /\ editor' = [Disturb(e, SavingAs(p, t)) EXCEPT ![e].at = "fill"]
  /\ UNCHANGED <<Web, files, second, edits>>

(* Over what another has filled meanwhile, the longer of the two leaves its end. *)
FillBackup(e) ==
  LET p == editor[e].path
      t == editor[e].stamp
  IN
  /\ editor[e].at = "fill"
  /\ \E d \in {editor[e].read} \cup (IF backup[p][t] = Half THEN {} ELSE {Half}) :
       backup' = [backup EXCEPT ![p][t] = d]
  /\ editor' = [Disturb(e, SavingAs(p, t)) EXCEPT ![e].at = "replace"]
  /\ UNCHANGED <<Web, files, second, edits>>

(* A temporary file takes the place of the inventory. *)
Replace(e) ==
  LET p == editor[e].path IN
  /\ editor[e].at = "replace"
  /\ files' = [files EXCEPT ![p] = [doc |-> Sorted[editor[e].raw], by |-> "editor"]]
  /\ editor' = [Disturb(e, Saving(p)) EXCEPT
       ![e] = [Closed EXCEPT !.at = "edit", !.raw = editor[e].raw, !.original = editor[e].raw, !.path = p]]
  /\ edits' = edits + 1
  /\ UNCHANGED <<Web, backup, second>>

(* The editor is left, or killed. *)
Close(e) ==
  /\ editor[e].at # "closed"
  /\ editor' = [editor EXCEPT ![e] = Closed]
  /\ UNCHANGED <<Web, files, backup, second, edits>>

Tick ==
  /\ second < MaxSecond
  /\ second' = second + 1
  /\ UNCHANGED <<Web, files, backup, editor, edits>>

-----------------------------------------------------------------------------
Operation(r) == Operate(r) \/ Remember(r) \/ Push(r) \/ Commit(r) \/ Show(r)
Unwind(r) == \/ Undo(r) \/ Pop(r) \/ PopNothing(r) \/ Reset(r)
             \/ Restore(r) \/ ResolveAgain(r) \/ Redraw(r)
Copy(r) == Save(r) \/ SaveResolved(r) \/ SaveChanged(r) \/ Dump(r) \/ Create(r) \/ Write(r)
Edit(e) == \/ Load(e) \/ CommitSection(e) \/ SaveInventory(e) \/ ReadFile(e)
           \/ CutBackup(e) \/ FillBackup(e) \/ Replace(e) \/ Close(e)

Next ==
  \/ ReadInventory \/ ReadBytes
  \/ \E r \in Request : Operation(r) \/ Unwind(r) \/ Copy(r)
  \/ \E e \in Editor : Edit(e)
  \/ Tick

Spec == Init /\ [][Next]_vars

-----------------------------------------------------------------------------
(* However requests overlap, the draft, everything that undo and reset     *)
(* could bring back and everything that was saved as a copy resolves: the  *)
(* gate is passed before a draft is stored and never asked again by undo,  *)
(* and a save decides, resolves and writes from three readings of the      *)
(* draft.  Only the bytes of the file, read a second time when the session *)
(* was opened, were never asked: an editor may have replaced it in between.*)
DraftResolves ==
  Opened =>
    /\ {original, raw, resolution} \cup Range(undo_stack) \subseteq Resolving
    /\ \A p \in Path : files[p].by = "web" => files[p].doc \in Resolving \cup {original_bytes}

(* "Never write something the deployer could not read back" (session.py). *)
CopiesResolve ==
  \A p \in Path : files[p].by = "web" => files[p].doc \in Resolving

(* As long as undo and reset have had the session to themselves, what is   *)
(* drawn between requests is the draft, and not another inventory.         *)
DrawnIsDraft ==
  Opened /\ ~ raced /\ (\A r \in Request : At(r, "idle")) => resolution = raw

(* When an editor replaces an inventory, what goes is whole in the backup  *)
(* that it has made - unless, since it read it, another editor has         *)
(* replaced the inventory too, or has opened or written a backup of it     *)
(* that is named by the same second.                                       *)
BackedUp ==
  \A e \in Editor : LET p == editor[e].path IN
    editor[e].at = "replace" /\ editor[e].alone => backup[p][editor[e].stamp] = files[p].doc

(* As long as nobody else has replaced it: seconds do not tell two apart. *)
AlwaysBackedUp ==
  \A e \in Editor : LET p == editor[e].path IN
    editor[e].at = "replace" /\ files[p].doc = editor[e].read
      => \E t \in 1..MaxSecond : backup[p][t] = files[p].doc

(* A save of the workbench touches no file that is there, and an inventory *)
(* that is there changes only by an editor's replacement of it as a whole: *)
(* nobody loads half of one, whichever programs have it open.              *)
NeverOverwrites ==
  [][\A p \in Path : files'[p] # files[p] =>
       \/ files[p] = NoFile
       \/ \E r \in Request : files[p] = [doc |-> Half, by |-> r] /\ At(r, "write")
       \/ files'[p].by = "editor" /\ {files[p].doc, files'[p].doc} \subseteq Doc]_vars

(* "Inventory saved safely" (textual_app.py): what an editor saved is what *)
(* it validated, and so resolves when it is next read.                     *)
SavedSafely ==
  \A p \in Path : files[p].by = "editor" => files[p].doc \in Resolving
=============================================================================
