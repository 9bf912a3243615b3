\* Requests to a session, two at a time, and two editors that have its files open.
CONSTANTS
  Doc <- MCDoc
  Resolving <- MCResolving
  Sorted <- MCSorted
  Path = {"inventory", "copy"}
  Source = "inventory"
  NoDoc = NoDoc
  Half = Half
  l1 = l1
  l2 = l2
  r1 = r1
  r2 = r2
  Request = {r1, r2}
  e1 = e1
  e2 = e2
  Editor = {e1, e2}
  MaxRequests = 3
  MaxEdits = 3
  MaxUndo = 2
  MaxSecond = 2
SYMMETRY Symmetry
SPECIFICATION Spec
INVARIANTS DraftResolves DrawnIsDraft BackedUp
PROPERTIES NeverOverwrites
CHECK_DEADLOCK FALSE
