SPECIFICATION Spec
CONSTANTS
  a1 = a1
  a2 = a2
  a3 = a3
  Memory <- MCMemory
  Programs <- MCPrograms
  Garbage <- MCGarbage
  SmallLimit = 4
  UnitNodeSize = 2
  BufferQueueNum = 2
  Granule = 4
  MemoryPoolSize = 16
  PageSize = 16
  MaxFailedTimes = 1
  SizeofMemoryBlock = 2
  SizeofBlockNode = 3
  MaxHeld = 3
  MaxPages = 2
  MaxBlocks = 2
  MaxDrift = 1
  MaxTries = 3
SYMMETRY Symmetry
CHECK_DEADLOCK FALSE
INVARIANTS
  TypeOK
  Disjoint
  QuoteCounts
  LargeEnough
  PatienceBounded
