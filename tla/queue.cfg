\* Two producers and the socket thread, in every interleaving.
SPECIFICATION Spec
CONSTANTS
  NoEvent = NoEvent
  Producers = {uart, keys}
  Events = {e1, e2, e3}
  Slots = 2
CHECK_DEADLOCK FALSE
INVARIANTS
  TypeOK
  CountNotNegative
  TreatedInOrder
PROPERTIES
  EventuallyTreated
