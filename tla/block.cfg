SPECIFICATION Spec
CONSTANTS
  t1 = t1
  t2 = t2
  t3 = t3
  t4 = t4
  b1 = b1
  b2 = b2
  Threads <- MCThreads
  Blocks <- MCBlocks
  MaxSurplus = 3
  MaxSpurious = 1
  TimeoutTakesSignal = FALSE
SYMMETRY Symmetry
INVARIANTS
  TypeOK
  BlocksConserved
  PermitsAccounted
  ShortageBounded
  SleepJustified
