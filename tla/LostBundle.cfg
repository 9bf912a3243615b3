CONSTANTS
  Content = {A, B}
  NoContent = NoContent
  Torn = Torn
  NoLink = NoLink
  Entry = {"shared", "only in B"}
  Entries <- MCEntries
  Machine = {m1}
  Environment = {"crash"}
  A = A
  B = B
SPECIFICATION Specification
PROPERTIES BundleNotLost
