----------------------------- MODULE MCEventQueue -----------------------------
(* Small instances of EventQueue for TLC. *)
EXTENDS EventQueue
=============================================================================
