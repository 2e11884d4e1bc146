---------------------------- MODULE MCRecordStore ----------------------------
(* Small instances of RecordStore for TLC. *)
EXTENDS RecordStore, TLC

Symmetry == Permutations(Reports) \union Permutations(Operations)
=============================================================================
