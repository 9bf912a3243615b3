SPECIFICATION Spec
CONSTANTS
  n1 = n1
  n2 = n2
  m1 = m1
  m2 = m2
  both = both
  first = first
  Node = {n1, n2}
  Machine = {m1, m2}
  HostOf <- TheHosts
  Inventory = {both, first}
  NodesIn <- TheNodes
  Peered = {both}
  Wallet = {w1, w2}
  Deliveries <- TheDeliveries
  None = None
  Chain = {1, 2, 3}
  MaxRuns = 3
  MaxStops = 1
INVARIANTS SealedIsOneChain PeersKnowEachOther SecretsAgree
PROPERTIES IdentityKept SignerKept Completes
CHECK_DEADLOCK FALSE
