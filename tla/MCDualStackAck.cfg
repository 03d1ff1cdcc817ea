CONSTANTS
  Nodes = {n1, n2}
  Workers = {w1}
  NoNode = NoNode
  ClusterCIDRs <- OneV4Of2
  Mode = "dual-stack"
  PrimaryIPFamily = "ipv4"
  CidrUpdateQueueSize = 2
  Environment = {"patchLost", "patchUnacked"}
  MaxEvents = 1
  MaxFaults = 3
  MaxRestarts = 0
SYMMETRY Symmetric
SPECIFICATION Spec
CHECK_DEADLOCK FALSE
INVARIANTS
  AckRecognised
