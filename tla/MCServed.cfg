CONSTANTS
  Nodes = {n1, n2}
  Workers = {w1}
  NoNode = NoNode
  ClusterCIDRs <- OneV4Of2
  Mode = "ipv4"
  PrimaryIPFamily = "ipv4"
  CidrUpdateQueueSize = 2
  Environment = {"delete", "getFails", "patchLost", "patchUnacked", "otherLeader"}
  MaxEvents = 1
  MaxFaults = 3
  MaxRestarts = 1
SPECIFICATION FairSpec
CHECK_DEADLOCK FALSE
INVARIANTS
  MarksAccounted
  Accounting
  AckRecognised
PROPERTIES
  NodeServed
