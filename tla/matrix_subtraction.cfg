SPECIFICATION LibrarySpec
CONSTANTS
  t1 = t1
  t2 = t2
  t3 = t3
  t4 = t4
  Threads <- MCThreads
  InitCount = 1
  MaxCount = 3
  MaxSpurious = 1
  MaxSwallowed = 1
  TimeoutTakesSignal = TRUE
  Nodes = {n1, n2, n3}
  NULL = NULL
  HashKeys = {k1, k2}
  HashNodes = {h1, h2, h3}
  NoNode = NoNode
  CountSize = 8
  UnitBits = 2
  UnitNum = 2
  IntBits = 5
  SlotNum = 4
  TreeKeys <- MCTreeKeys
  Items = {i1, i2}
  NoItem = NoItem
  WordMax = 63
  WordSize = 8
  Texts <- MCTexts
  SecretKeys <- MCSecretKeys
  None = None
  MaxDevices = 2
  MaxAddresses = 1
  NoList = NoList
  A = A
  B = B
  C = C
  Matrices <- MCMatrices
  Dimensions = {2, 3}
  DataArrays <- MCDataArrays
  Halves <- MCHalves
  MaxCalls = 3
SYMMETRY Symmetry
INVARIANT SubtractionRight
CHECK_DEADLOCK FALSE
