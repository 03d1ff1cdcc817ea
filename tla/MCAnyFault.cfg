CONSTANTS
  Nodes = {n1, n2}
  Workers = {w1, w2}
  NoNode = NoNode
  ClusterCIDRs <- V4AndV6Of1
  Mode = "ipv4"
  PrimaryIPFamily = "ipv4"
  CidrUpdateQueueSize = 1
  Environment = {"earlyDelete", "reuse", "getFails", "patchLost", "patchUnacked", "unknownCIDR", "relist", "otherLeader", "lateWrite"}
  MaxEvents = 1
  MaxFaults = 1
  MaxRestarts = 0
SYMMETRY Symmetric
SPECIFICATION Spec
CHECK_DEADLOCK FALSE
INVARIANTS
  TypeOK
  OneItemPerNode
PROPERTIES
  HandsOutFree
