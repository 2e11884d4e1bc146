--------------------------- MODULE MCMeterSession ---------------------------
(* Small instances of MeterSession for TLC: two trips, two evaluations, a     *)
(* trip or a sign-out sent again, two sign-ins, a restart (meter.cfg).        *)
EXTENDS MeterSession
=============================================================================
