\* A power cycle between send and acknowledgement; the counter never comes to a second number.
SPECIFICATION Spec
CONSTANTS
  None = None
  Reports = {}
  Operations = {o1, o2}
  MaxNode = 2
  MaxSupplement = 1
  RetryCount = 0
  AckTimeout = 0
  SeqSpace = 65536
  OtherSenders = {"socket"}
  MaxAcks = 1
  MaxSeq = 1
  MaxTime = 0
  MaxBoots = 1
SYMMETRY Symmetry
INVARIANTS
  SettledIsReceived
