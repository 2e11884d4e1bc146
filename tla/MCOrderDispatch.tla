--------------------------- MODULE MCOrderDispatch ---------------------------
(* Small instances of OrderDispatch for TLC: two orders, at most one of them  *)
(* in real time.                                                              *)
EXTENDS OrderDispatch

CONSTANTS o1, o2
MCTypings == {[o \in Orders |-> IF o = o1 THEN t ELSE u] :
                t \in {"real_time", "appoint"}, u \in {"reserved", "appoint"}}
=============================================================================
