CONSTANTS
  Nodes = {n1, n2}
  Workers = {w1}
  NoNode = NoNode
  ClusterCIDRs <- V4AndV6Of2
  Mode = "ipv4"
  PrimaryIPFamily = "ipv4"
  CidrUpdateQueueSize = 2
  Environment = {}
  MaxEvents = 2
  MaxFaults = 0
  MaxRestarts = 1
SYMMETRY Symmetric
SPECIFICATION Spec
CHECK_DEADLOCK FALSE
INVARIANTS
  NoSharedBlock
