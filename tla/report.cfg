\* Two settings, by time and by distance, tracking orders and stops at any time, a
\* request, a restart and an interval left unset.
SPECIFICATION Spec
CONSTANTS
  Settings <- MCTwo
  TimeInterval <- MCTimeUnset
  DistanceInterval <- MCDistance
  Situations <- MCOnRoad
  Speeds = {0, 1}
  Traces <- MCAllTraces
  Garbage = {3}
  Longest = 2
  MaxAge = 3
  MaxRequests = 1
  MaxCommands = 2
  MaxBoots = 1
INVARIANTS
  ReportsInTime
PROPERTIES
  RequestServed
  TraceLasts
  TraceEnds
