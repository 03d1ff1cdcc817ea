CONSTANTS
  Nodes = {n1, n2, n3}
  Workers = {w1, w2}
  NoNode = NoNode
  ClusterCIDRs <- OneV4Of2
  Mode = "dual-stack"
  PrimaryIPFamily = "ipv6"
  CidrUpdateQueueSize = 3
  Environment = {"delete", "relist", "getFails", "otherLeader"}
  MaxEvents = 2
  MaxFaults = 1
  MaxRestarts = 0
SYMMETRY Symmetric
SPECIFICATION Spec
CHECK_DEADLOCK FALSE
INVARIANTS
  NoSharedBlock
  ReservationsExclusive
  HeldIsMarked
  Ownership
PROPERTIES
  ImplementsNodeAssignment
