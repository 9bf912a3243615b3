\* An editor replaces the inventory between the two readings of a session that is opened.
CONSTANTS
  Doc <- MCDoc
  Resolving <- MCResolving
  Sorted <- MCSorted
  Path = {"inventory", "copy"}
  Source = "inventory"
  NoDoc = NoDoc
  Half = Half
  l1 = l1
  l2 = l2
  r1 = r1
  r2 = r2
  Request = {r1, r2}
  e1 = e1
  e2 = e2
  Editor = {e1, e2}
  MaxRequests = 3
  MaxEdits = 3
  MaxUndo = 2
  MaxSecond = 2
SYMMETRY Symmetry
SPECIFICATION Spec
INVARIANT CopiesResolve
CHECK_DEADLOCK FALSE
