CONSTANTS
  Nodes = {n1, n2, n3}
  Workers = {w1, w2}
  NoNode = NoNode
  ClusterCIDRs <- OneV4Of3
  Mode = "ipv4"
  PrimaryIPFamily = "ipv4"
  CidrUpdateQueueSize = 1
  Environment = {"delete"}
  MaxEvents = 1
  MaxFaults = 0
  MaxRestarts = 0
SYMMETRY Symmetric
SPECIFICATION Spec
CHECK_DEADLOCK FALSE
INVARIANTS
  NoJam
