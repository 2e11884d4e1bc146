----------------------------- MODULE MCStatusFile -----------------------------
(* Small instances of StatusFile for TLC. *)
EXTENDS StatusFile
=============================================================================
