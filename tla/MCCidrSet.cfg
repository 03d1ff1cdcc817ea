CONSTANT MaxCIDRs = 8
SPECIFICATION FairSpec
INVARIANTS
  TypeOK
  CountMatchesBitmap
PROPERTIES
  ImplementsPool
  EveryFreeBlockIsReused
