--------------------------- MODULE MCReportThread ---------------------------
(* Small instances of ReportThread for TLC.                                   *)
EXTENDS ReportThread

\* By time, the ACC scheme; by distance, the scheme of login and loading.
MCTwo == {[policy |-> 0, scheme |-> 0], [policy |-> 1, scheme |-> 3]}

MCTime == [n \in Names |-> IF n \in {"alarm", "accon"} THEN 1
                           ELSE IF n = "accoff" THEN 3 ELSE 2]
\* ACC off is left unset.
MCTimeUnset == [MCTime EXCEPT !["accoff"] = 0]
MCDistance == [n \in Names |-> IF n \in {"alarm", "accon"} THEN 2
                               ELSE IF n = "accoff" THEN 4 ELSE 2]

Driving == [acc |-> TRUE, loading |-> TRUE, login |-> TRUE, sleep |-> FALSE,
            emergency |-> FALSE, alarm |-> FALSE]
Parked  == [Driving EXCEPT !.acc = FALSE, !.loading = FALSE]
MCOnRoad == {Driving, Parked}

Order(p, i, t) == [policy |-> p, interval |-> i, threhold |-> t]
MCTraces == {Order("time", 2, 4), Order("distance_time", 2, 3),
             Order("time_distance", 1, 1), Order("distance", 1, 1),
             Order("distance_time", 0, 2)}
MCAllTraces == MCTraces \union {Order("stop", 0, 0)}
=============================================================================
