CONSTANTS
  V4Bits = 4
  V6Bits = 6
  IntBits = 6
  ClusterSubnetMaxDiff = 3
  PrefixMask = 4
  Starts <- AnyStarts
SPECIFICATION Spec
CHECK_DEADLOCK FALSE
INVARIANTS
  TypeOK
  BlockAddresses
  RangeIsOverlap
  ServesIffConsistent
