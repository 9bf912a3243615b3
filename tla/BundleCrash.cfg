CONSTANTS
  Content = {A, B}
  NoContent = NoContent
  Torn = Torn
  NoLink = NoLink
  Entry = {"shared", "only in B"}
  Entries <- MCEntries
  Machine = {}
  Environment = {"crash", "full disk", "overlap", "discard"}
  A = A
  B = B
SPECIFICATION Specification
INVARIANTS BundleWhole PointerRecorded
