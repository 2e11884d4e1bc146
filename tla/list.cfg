\* Two recording threads, supplement and cancel, in every interleaving.
SPECIFICATION Spec
CONSTANTS
  Free = Free
  Msgs = {r1, r2, o1}
  Operations = {o1}
  Bufs = {b1, b2, b3}
  Recorders = {report, socket}
  Socket = socket
  MaxNode = 1
  MaxSupplement = 2
  RetryCount = 0
SYMMETRY Symmetry
INVARIANTS
  TypeOK
  ListBound
  OwnBuffers
  CopyStillValid
  CancelledStaysOutAlone
  NothingLost
CHECK_DEADLOCK FALSE
