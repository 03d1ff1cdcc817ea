CONSTANTS
  Nodes = {n1, n2}
  Workers = {w1, w2}
  NoNode = NoNode
  ClusterCIDRs <- OneV4Of2
  Mode = "ipv4"
  PrimaryIPFamily = "ipv4"
  CidrUpdateQueueSize = 2
  Environment = {"delete", "reuse"}
  MaxEvents = 2
  MaxFaults = 0
  MaxRestarts = 0
SYMMETRY Symmetric
SPECIFICATION Spec
CHECK_DEADLOCK FALSE
INVARIANTS
  NoSharedBlock
