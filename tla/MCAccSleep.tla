----------------------------- MODULE MCAccSleep -----------------------------
(* A small instance of AccSleep for TLC: four ACC events, a command, two     *)
(* reports outstanding at a time, a restart (acc.cfg).                       *)
EXTENDS AccSleep
=============================================================================
