CONSTANTS
  Nodes = {n1, n2}
  Workers = {w1}
  NoNode = NoNode
  ClusterCIDRs <- OneV4Of2
  Mode = "ipv6"
  PrimaryIPFamily = "ipv6"
  CidrUpdateQueueSize = 2
  Environment = {"delete", "reuse"}
  MaxEvents = 1
  MaxFaults = 0
  MaxRestarts = 0
SPECIFICATION FairSpec
CHECK_DEADLOCK FALSE
PROPERTIES
  ServedInTheEnd
