\* Four ACC events, a command, two reports outstanding at a time, a restart.
SPECIFICATION AccSpec
CONSTANTS
  MaxEvents = 4
  MaxCommands = 1
  MaxReports = 2
  MaxBoots = 1
INVARIANTS
  AccTypeOK
  
PROPERTIES
  GoesToSleep
  
