SPECIFICATION Spec
CONSTANTS
  p1 = p1
  p2 = p2
  c1 = c1
  c2 = c2
  m1 = m1
  m2 = m2
  NoMessage = NoMessage
  Producers <- TwoProducers
  Consumers <- TwoConsumers
  Messages <- TwoMessages
  Size = 2
  MaxSpurious = 0
  TimeoutTakesSignal = FALSE
SYMMETRY Symmetry
CHECK_DEADLOCK FALSE
INVARIANTS
  TypeOK
  PermitsAccounted
  SleepJustified
  LeakBounded
  DeadlockNeedsLeaks
PROPERTY
  ImplementsFifo
