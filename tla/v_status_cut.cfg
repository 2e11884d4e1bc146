\* taxi_status: the power is cut during a save.
SPECIFICATION Spec
CONSTANTS
  Threads = {main_thread, socket_thread}
  Boot = main_thread
  Flags = {order, sleep}
  NoCrc = NoCrc
  Short = Short
  SharedBuffer = FALSE
  MaxCuts = 2
INVARIANTS
  RecoversFromGoodFile
