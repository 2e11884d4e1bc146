\* taxi_status: two setters, one at a time or not, power cuts anywhere.
SPECIFICATION Spec
CONSTANTS
  Threads = {main_thread, socket_thread}
  Boot = main_thread
  Flags = {order, sleep}
  NoCrc = NoCrc
  Short = Short
  SharedBuffer = FALSE
  MaxCuts = 2
INVARIANTS
  SavedSurvives
