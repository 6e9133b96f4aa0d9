SPECIFICATION LiveSpec
CONSTANTS
  p1 = p1
  p2 = p2
  c1 = c1
  c2 = c2
  m1 = m1
  m2 = m2
  NoMessage = NoMessage
  Producers <- TwoProducers
  Consumers <- OneConsumer
  Messages <- OneMessage
  Size = 4
  MaxSpurious = 1
  TimeoutTakesSignal = FALSE
PROPERTIES
  KeepsMoving
  EveryCallReturns
