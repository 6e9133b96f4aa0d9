SPECIFICATION Spec
CONSTANTS
  a1 = a1
  a2 = a2
  a3 = a3
  Memory <- MCMemory
  Programs <- SourcePrograms
  Garbage <- MCGarbage
  SmallLimit = 256
  UnitNodeSize = 32
  BufferQueueNum = 8
  Granule = 256
  MemoryPoolSize = 4096
  PageSize = 4096
  MaxFailedTimes = 4
  SizeofMemoryBlock = 24
  SizeofBlockNode = 32
  MaxHeld = 2
  MaxPages = 1
  MaxBlocks = 1
  MaxDrift = 1
  MaxTries = 1
CHECK_DEADLOCK FALSE
INVARIANT
  NoOverrun
