\* Orders of every kind, overlapping or not; cancellations; a restart or a lost
\* connection.
SPECIFICATION Spec
CONSTANTS
  o1 = o1
  o2 = o2
  Orders = {o1, o2}
  None = None
  Typings <- MCTypings
  MaxQueue = 2
  MaxFaults = 1
INVARIANTS
  TypeOK
  InDispatchHasOpenOrder
  AgreesWithServer
  FinishedOnRecord
PROPERTIES
  AwardReachesDriver
