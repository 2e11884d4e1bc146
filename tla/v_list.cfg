\* A stale copy is put back.
SPECIFICATION Spec
CONSTANTS
  Free = Free
  Msgs = {r1, r2, o1}
  Operations = {o1}
  Bufs = {b1, b2, b3}
  Recorders = {report, socket}
  Socket = socket
  MaxNode = 2
  MaxSupplement = 2
  RetryCount = 0
SYMMETRY Symmetry
INVARIANTS
  CancelledStaysOut
CHECK_DEADLOCK FALSE
