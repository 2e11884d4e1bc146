\* Three bufferevents, two messages at a time, a copy of eight bytes.
SPECIFICATION StreamSpec
CONSTANTS
  NULL = NULL
  Bevs = {b1, b2, b3}
  Threshold = 2
  MaxSilence = 1
  Messages <- MCMessages
  Short = short
  HeaderLen = 1
  Window = 8
  MaxSent = 2
INVARIANTS
  StreamTypeOK
  SendTargetAlive
  InUseIsRecent
  TreatedAsSent
  Heard
PROPERTIES
  Reconnects
