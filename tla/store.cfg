\* Restarts, headers built at once by several threads, and a counter that wraps.
SPECIFICATION Spec
CONSTANTS
  None = None
  Reports = {r1}
  Operations = {o1}
  MaxNode = 2
  MaxSupplement = 1
  RetryCount = 0
  AckTimeout = 0
  SeqSpace = 2
  OtherSenders = {"socket"}
  MaxAcks = 1
  MaxSeq = 3
  MaxTime = 1
  MaxBoots = 1
SYMMETRY Symmetry
INVARIANTS
  TypeOK
  AckMeansReceived
  OperationQueuedOnce
PROPERTIES
  LeavesForCause
  ImplementsOutbox
