---------------------------- MODULE MCRecordList ----------------------------
(* Small instances of RecordList for TLC. *)
EXTENDS RecordList, TLC

Symmetry == Permutations(Msgs \ Operations) \union Permutations(Operations)
            \union Permutations(Bufs)
=============================================================================
