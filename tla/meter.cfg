\* Two trips, two evaluations, a trip or a sign-out sent again, two sign-ins, a restart.
SPECIFICATION Spec
CONSTANTS
  Ratings = {good}
  EvalNone = none
  Drivers = {d1, d2}
  NoDriver = nobody
  MaxTrips = 2
  MaxRatings = 2
  MaxResends = 1
  MaxShifts = 2
  MaxBoots = 1
  MaxQueue = 2
INVARIANTS
  TypeOK
  InStep
PROPERTIES
  RecordIsOwnTrip
  RatedTripSent
  LoginNamesDriver
CHECK_DEADLOCK FALSE
