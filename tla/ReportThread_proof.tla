-------------------------- MODULE ReportThread_proof --------------------------
(* Proofs about ReportThread: its type, how long the terminal may be silent   *)
(* when it is not excused, and how long a trace lasts.                        *)
EXTENDS ReportThread, TLAPS

\* A scheme picks one of the named intervals.
LEMMA SchemeName ==
  ASSUME ReportAssumption, TypeOK, NEW n \in Names
  PROVE  ByScheme(n) \in Names
  <1>1. {"accon", "accoff", "occupied", "vacant", "logout"} \subseteq Names
    BY DEF Names
  <1> QED  BY <1>1 DEF ByScheme

\* The two thresholds are numbers; the time is a configured one, or one second.
LEMMA Thresholds ==
  ASSUME ReportAssumption, TypeOK
  PROVE  /\ Period \in Nat /\ Distance \in Nat
         /\ setting.policy # 0 => Period = 1
         /\ setting.policy = 0 => /\ Distance = 0
                                  /\ \E n \in Names : Period = TimeInterval[n]
  <1>1. "alarm" \in Names /\ "idle" \in Names /\ "accon" \in Names /\ "accoff" \in Names
    BY DEF Names
  <1>2. ByScheme("accoff") \in Names /\ ByScheme("accon") \in Names
    BY <1>1, SchemeName
  <1>3. TimeInterval \in [Names -> Nat] /\ DistanceInterval \in [Names -> Nat]
    BY DEF ReportAssumption
  <1>4. (IF status.emergency THEN "alarm"
         ELSE IF status.sleep THEN "idle" ELSE ByScheme("accoff")) \in Names
    BY <1>1, <1>2
  <1>5. (IF status.alarm THEN "alarm"
         ELSE IF status.sleep THEN "idle" ELSE ByScheme("accon")) \in Names
    BY <1>1, <1>2
  <1> QED  BY <1>3, <1>4, <1>5 DEF Period, Distance

\* Treating keeps the shape, given numbers to count and to wait.
LEMMA TreatedType ==
  ASSUME TypeOK, NEW params \in Params, NEW builds \in BOOLEAN, NEW ends \in BOOLEAN,
         NEW secs \in Nat, Treated(params, builds, ends, secs)
  PROVE  TypeOK'
  <1>1. excused' \in BOOLEAN
    BY DEF TypeOK, Treated
  <1> QED  BY <1>1 DEF TypeOK, Treated

\* Every call of the two functions counts and waits in numbers.
LEMMA TreatingType ==
  ASSUME ReportAssumption, TypeOK, Treating
  PROVE  TypeOK'
  <1>1. report_params \in Params /\ speed \in Nat /\ trace_params \in Trace
    BY DEF ReportAssumption, TypeOK
  <1>2. /\ report_params.distance \in Nat /\ report_params.total_distance \in Nat
        /\ report_params.elapse \in Nat /\ report_params.total_elapse \in Nat
    BY <1>1 DEF Params
  <1>3. trace_params.interval \in Nat /\ trace_params.threhold \in Nat
    BY <1>1 DEF Trace
  <1>4. Period \in Nat /\ Distance \in Nat /\ Driven \in Nat
    BY <1>1, <1>2, Thresholds DEF Driven
  <1>5. CASE PeriodDistance
    <2>1. [report_params EXCEPT !.distance = 0] \in Params
      BY <1>1, <1>2 DEF Params
    <2> QED  BY <1>5, <2>1, TreatedType DEF PeriodDistance
  <1>6. CASE PeriodElapsed
    <2> DEFINE due == Period # 0 /\ report_params.elapse + 1 >= Period
               e   == IF Period = 0 THEN report_params.elapse
                      ELSE IF due THEN 0 ELSE report_params.elapse + 1
    <2>1. Treated([report_params EXCEPT !.distance = Driven, !.elapse = e], due, FALSE, 1)
      BY <1>6 DEF PeriodElapsed
    <2>2. e \in Nat /\ due \in BOOLEAN
      BY <1>2, <1>4
    <2>3. [report_params EXCEPT !.distance = Driven, !.elapse = e] \in Params
      <3> HIDE DEF e
      <3> QED  BY <1>1, <1>2, <1>4, <2>2 DEF Params
    <2> QED
      <3> HIDE DEF e, due
      <3> QED  BY <2>1, <2>2, <2>3, TreatedType
  <1>7. CASE PeriodTimed \/ PeriodUnset
    BY <1>1, <1>4, <1>7, TreatedType DEF PeriodTimed, PeriodUnset
  <1>8. CASE TraceTime
    <2> DEFINE total == report_params.total_elapse + trace_params.interval
               ends  == trace_params.interval # 0 /\ total >= trace_params.threhold
               t     == IF ends THEN 0 ELSE total
               sends == trace_params.interval # 0
    <2>1. Treated([report_params EXCEPT !.total_elapse = t], sends, ends, trace_params.interval)
      BY <1>8 DEF TraceTime
    <2>2. t \in Nat /\ ends \in BOOLEAN /\ sends \in BOOLEAN
      BY <1>2, <1>3
    <2>3. [report_params EXCEPT !.total_elapse = t] \in Params
      <3> HIDE DEF t
      <3> QED  BY <1>1, <1>2, <2>2 DEF Params
    <2> QED
      <3> HIDE DEF t, ends, sends
      <3> QED  BY <1>3, <2>1, <2>2, <2>3, TreatedType
  <1>9. CASE TraceDistance
    <2> DEFINE total == report_params.total_distance + speed
               sends == trace_params.interval # 0 /\ Driven >= trace_params.interval
               ends  == trace_params.interval # 0 /\ total >= trace_params.threhold
               d     == IF sends THEN 0 ELSE Driven
               t     == IF ends THEN 0 ELSE total
               new   == [report_params EXCEPT !.distance = d, !.total_distance = t]
               counted == IF trace_params.interval # 0 THEN new ELSE report_params
    <2>1. Treated(counted, sends, ends, 1)
      BY <1>9 DEF TraceDistance
    <2>2. d \in Nat /\ t \in Nat /\ ends \in BOOLEAN /\ sends \in BOOLEAN
      BY <1>1, <1>2, <1>3, <1>4
    <2>3. counted \in Params
      <3> HIDE DEF d, t
      <3> QED  BY <1>1, <1>2, <2>2 DEF Params
    <2> QED
      <3> HIDE DEF counted, ends, sends
      <3> QED  BY <2>1, <2>2, <2>3, TreatedType
  <1>10. CASE TraceTimeDistance
    <2> DEFINE total == report_params.total_distance + speed
               sends == report_params.elapse >= trace_params.interval
               ends  == total >= trace_params.threhold
               e     == IF sends THEN 1 ELSE report_params.elapse + 1
               t     == IF ends THEN 0 ELSE total
    <2>1. Treated([report_params EXCEPT !.elapse = e, !.total_distance = t], sends, ends, 1)
      BY <1>10 DEF TraceTimeDistance
    <2>2. e \in Nat /\ t \in Nat /\ ends \in BOOLEAN /\ sends \in BOOLEAN
      BY <1>1, <1>2, <1>3
    <2>3. [report_params EXCEPT !.elapse = e, !.total_distance = t] \in Params
      <3> HIDE DEF e, t
      <3> QED  BY <1>1, <1>2, <2>2 DEF Params
    <2> QED
      <3> HIDE DEF e, t, ends, sends
      <3> QED  BY <2>1, <2>2, <2>3, TreatedType
  <1>11. CASE TraceDistanceTime
    <2> DEFINE total == report_params.total_elapse + 1
               sends == trace_params.interval # 0 /\ Driven >= trace_params.interval
               ends  == trace_params.interval # 0 /\ total >= trace_params.threhold
               d     == IF sends THEN 0 ELSE Driven
               t     == IF ends THEN 0 ELSE total
               new   == [report_params EXCEPT !.distance = d, !.total_elapse = t]
               counted == IF trace_params.interval # 0 THEN new ELSE report_params
    <2>1. Treated(counted, sends, ends, 1)
      BY <1>11 DEF TraceDistanceTime
    <2>2. d \in Nat /\ t \in Nat /\ ends \in BOOLEAN /\ sends \in BOOLEAN
      BY <1>1, <1>2, <1>3, <1>4
    <2>3. counted \in Params
      <3> HIDE DEF d, t
      <3> QED  BY <1>1, <1>2, <2>2 DEF Params
    <2> QED
      <3> HIDE DEF counted, ends, sends
      <3> QED  BY <2>1, <2>2, <2>3, TreatedType
  <1>12. CASE TraceNone
    <2>1. PICK secs \in Garbage : Treated(report_params, FALSE, FALSE, secs)
      BY <1>12 DEF TraceNone
    <2>2. secs \in Nat
      BY <2>1 DEF ReportAssumption
    <2> QED  BY <1>1, <2>1, <2>2, TreatedType
  <1> QED  BY <1>5, <1>6, <1>7, <1>8, <1>9, <1>10, <1>11, <1>12 DEF Treating

LEMMA InitType ==
  ASSUME ReportAssumption, Init
  PROVE  TypeOK
  <1>1. ZeroParams \in Params /\ NoTrace \in Trace
    BY DEF ZeroParams, Params, NoTrace, Trace, TracePolicies
  <1>2. requests \in 0..MaxRequests /\ commands \in 0..MaxCommands
        /\ boots \in 0..MaxBoots
    BY DEF Init, ReportAssumption
  <1>3. pc \in {"waiting", "treat", "period", "trace", "sending"}
    BY DEF Init
  <1>4. signalled \in BOOLEAN /\ ending \in BOOLEAN /\ trace \in BOOLEAN /\ kept \in BOOLEAN
        /\ requested \in BOOLEAN /\ urgent \in BOOLEAN /\ undisturbed \in BOOLEAN /\ excused \in BOOLEAN
    BY DEF Init
  <1>5. wait \in Nat /\ silent \in Nat /\ age \in Nat
    BY DEF Init
  <1> QED  BY <1>1, <1>2, <1>3, <1>4, <1>5 DEF Init, TypeOK

LEMMA StepType ==
  ASSUME ReportAssumption, TypeOK, [Next]_vars
  PROVE  TypeOK'
  <1> USE DEF TypeOK
  <1>1. CASE Wake
    BY <1>1 DEF Wake
  <1>2. CASE Choose
    BY <1>2 DEF Choose
  <1>3. CASE Treating
    BY <1>3, TreatingType
  <1>4. CASE Sent
    BY <1>4 DEF Sent
  <1>5. CASE Request
    BY <1>5 DEF Request, Signal, ReportAssumption
  <1>6. CASE TraceOrder
    BY <1>6 DEF TraceOrder, thread, ReportAssumption
  <1>7. CASE StatusChange \/ SetParams
    BY <1>7 DEF StatusChange, SetParams, thread
  <1>8. CASE Tick
    BY <1>8 DEF Tick, Later
  <1>9. CASE Restart
    <2>1. ZeroParams \in Params /\ NoTrace \in Trace
      BY DEF ZeroParams, Params, NoTrace, Trace, TracePolicies
    <2>2. boots' \in 0..MaxBoots
      BY <1>9 DEF Restart, ReportAssumption
    <2>3. /\ signalled' \in BOOLEAN /\ ending' \in BOOLEAN /\ trace' \in BOOLEAN
          /\ requested' \in BOOLEAN /\ undisturbed' \in BOOLEAN /\ excused' \in BOOLEAN
      BY <1>9 DEF Restart
    <2>4. pc' \in {"waiting", "treat", "period", "trace", "sending"}
      BY <1>9 DEF Restart
    <2>5. wait' \in Nat /\ silent' \in Nat /\ age' \in Nat
      BY <1>9 DEF Restart
    <2> QED  BY <1>9, <2>1, <2>2, <2>3, <2>4, <2>5 DEF Restart
  <1>10. CASE UNCHANGED vars
    BY <1>10 DEF vars, thread
  <1> QED  BY <1>1, <1>2, <1>3, <1>4, <1>5, <1>6, <1>7, <1>8, <1>9, <1>10
           DEF Next, ThreadStep, Others

\* The thread's counters, the wait and the tracking order stay numbers and orders,
\* whatever the interleaving with the threads that write them without a lock.
THEOREM ReportTypeCorrect == Spec => []TypeOK
  <1>1. Init => TypeOK
    BY InitType, ReportAssumption
  <1>2. TypeOK /\ [Next]_vars => TypeOK'
    BY StepType, ReportAssumption
  <1> QED  BY <1>1, <1>2, PTL DEF Spec

-----------------------------------------------------------------------------
\* Longest is what its name says; an interval may still be unset (0).
LongestSet ==
  Longest >= 1 /\ \A n \in Names : TimeInterval[n] <= Longest

\* Unless excused, no order is in force and the silence so far and the wait to come
\* are together within the longest interval: a call builds a message before it waits.
LatencyInv ==
  /\ TypeOK
  /\ ~excused => /\ ~trace /\ pc # "trace"
                 /\ silent <= Longest
                 /\ pc \in {"waiting", "sending"} => silent + wait <= Longest

\* A call that leaves no excuse applied the settings and built a message.
LEMMA PeriodBuilds ==
  ASSUME ReportAssumption, LongestSet, LatencyInv, Treating, ~excused'
  PROVE  /\ silent' = 0 /\ wait' \in 1..Longest /\ pc' = "sending" /\ ~trace'
  <1> USE DEF LatencyInv
  <1>1. /\ Period \in Nat /\ Period <= Longest
        /\ Distance # 0 => Period = 1
    BY Thresholds DEF LongestSet, ReportAssumption
  <1>2. ASSUME NEW params, NEW builds \in BOOLEAN, NEW ends, NEW secs,
               Treated(params, builds, ends, secs)
        PROVE  /\ pc' = "sending" /\ ~trace' /\ wait' = secs
               /\ pc = "period" => Period # 0
               /\ pc # "trace"
               /\ builds => silent' = 0
    <2>1. trace' = trace /\ trace \in BOOLEAN
      BY <1>2 DEF Treated, TypeOK
    <2>2. ~excused \/ (~trace /\ pc # "trace" /\ builds)
      BY <1>2 DEF Treated, TypeOK
    <2>3. ~trace /\ pc # "trace"
      BY <2>2
    <2>4. ~trace'
      BY <2>1, <2>3
    <2> QED  BY <1>2, <2>3, <2>4 DEF Treated, TypeOK
  <1>3. ASSUME NEW params, NEW builds \in BOOLEAN, NEW ends, NEW secs,
               Treated(params, builds, ends, secs), pc = "trace"
        PROVE  FALSE
    BY <1>2, <1>3, Zenon
  <1>4. CASE PeriodDistance
    <2>1. Treated([report_params EXCEPT !.distance = 0], TRUE, FALSE, 1)
      BY <1>4 DEF PeriodDistance
    <2>2. silent' = 0 /\ wait' = 1 /\ pc' = "sending" /\ ~trace'
      BY <1>2, <2>1
    <2> QED  BY <2>2 DEF LongestSet, ReportAssumption
  <1>5. CASE PeriodElapsed
    <2> DEFINE due == Period # 0 /\ report_params.elapse + 1 >= Period
               e   == IF Period = 0 THEN report_params.elapse
                      ELSE IF due THEN 0 ELSE report_params.elapse + 1
    <2>1. /\ Treated([report_params EXCEPT !.distance = Driven, !.elapse = e], due, FALSE, 1)
          /\ pc = "period" /\ Distance # 0
      BY <1>5 DEF PeriodElapsed
    <2>2. report_params.elapse \in Nat
      BY DEF TypeOK, Params
    <2>3. due
      BY <1>1, <2>1, <2>2
    <2>4. due \in BOOLEAN
      OBVIOUS
    <2> HIDE DEF due, e
    <2>5. silent' = 0 /\ wait' = 1 /\ pc' = "sending" /\ ~trace'
      BY <1>2, <2>1, <2>3, <2>4
    <2> QED  BY <2>5 DEF LongestSet, ReportAssumption
  <1>6. CASE PeriodTimed
    <2>1. Treated(report_params, TRUE, FALSE, Period) /\ Period # 0
      BY <1>6 DEF PeriodTimed, ByTime
    <2>2. silent' = 0 /\ wait' = Period /\ pc' = "sending" /\ ~trace'
      BY <1>2, <2>1
    <2> QED  BY <1>1, <2>1, <2>2 DEF ReportAssumption
  <1>7. ~PeriodUnset
    <2>1. SUFFICES ASSUME PeriodUnset PROVE FALSE
      OBVIOUS
    <2>2. Treated(report_params, FALSE, FALSE, 1) /\ pc = "period" /\ Period = 0
      BY <2>1 DEF PeriodUnset
    <2> QED  BY <1>2, <2>2
  <1>8. ~TraceTime
    BY <1>3 DEF TraceTime, Tracing
  <1>9. ~TraceDistance
    BY <1>3 DEF TraceDistance, Tracing
  <1>10. ~TraceTimeDistance
    <2>1. SUFFICES ASSUME TraceTimeDistance PROVE FALSE
      OBVIOUS
    <2> DEFINE total == report_params.total_distance + speed
               builds == report_params.elapse >= trace_params.interval
               ends   == total >= trace_params.threhold
               e      == IF builds THEN 1 ELSE report_params.elapse + 1
               t      == IF ends THEN 0 ELSE total
    <2>2. /\ Treated([report_params EXCEPT !.elapse = e, !.total_distance = t], builds, ends, 1)
          /\ pc = "trace"
      BY <2>1 DEF TraceTimeDistance, Tracing
    <2>3. builds \in BOOLEAN
      OBVIOUS
    <2> HIDE DEF builds, ends, e, t
    <2> QED  BY <1>3, <2>2, <2>3
  <1>11. ~TraceDistanceTime
    BY <1>3 DEF TraceDistanceTime, Tracing
  <1>12. ~TraceNone
    BY <1>3 DEF TraceNone, Tracing
  <1> QED  BY <1>4, <1>5, <1>6, <1>7, <1>8, <1>9, <1>10, <1>11, <1>12 DEF Treating

LEMMA StepLatency ==
  ASSUME ReportAssumption, LongestSet, LatencyInv, [Next]_vars
  PROVE  LatencyInv'
  <1>1. TypeOK'
    BY StepType DEF LatencyInv
  <1>2. wait \in Nat /\ silent \in Nat /\ Longest \in Nat
    BY DEF LatencyInv, TypeOK, ReportAssumption
  <1> USE <1>1, <1>2 DEF LatencyInv
  <1>3. CASE Wake
    BY <1>3 DEF Wake
  <1>4. CASE Choose
    BY <1>4 DEF Choose
  <1>5. CASE Treating
    <2>1. CASE excused'
      BY <2>1
    <2>2. CASE ~excused'
      BY <1>5, <2>2, PeriodBuilds
    <2> QED  BY <2>1, <2>2
  <1>6. CASE Sent
    BY <1>6 DEF Sent
  <1>7. CASE Request
    BY <1>7 DEF Request
  <1>8. CASE TraceOrder
    <2>1. excused' = TRUE
      BY <1>8 DEF TraceOrder
    <2> QED  BY <2>1
  <1>9. CASE StatusChange
    BY <1>9 DEF StatusChange, thread
  <1>10. CASE SetParams
    BY <1>10 DEF SetParams, thread
  <1>11. CASE Tick
    BY <1>11 DEF Tick, Later
  <1>12. CASE Restart
    <2>1. CASE excused'
      BY <2>1
    <2>2. CASE ~excused'
      <3>1. ~kept
        BY <1>12, <2>2, Zenon DEF Restart
      <3>2. /\ trace' = kept /\ pc' = "treat" /\ silent' = 0
        BY <1>12 DEF Restart
      <3> QED  BY <3>1, <3>2
    <2> QED  BY <2>1, <2>2
  <1>13. CASE UNCHANGED vars
    BY <1>13 DEF vars, thread
  <1> QED  BY <1>3, <1>4, <1>5, <1>6, <1>7, <1>8, <1>9, <1>10, <1>11, <1>12, <1>13
           DEF Next, ThreadStep, Others

\* Whatever requests, changes of the settings and of the vehicle, tracking orders and
\* restarts interleave with the wait, the terminal is never silent for longer than the
\* longest interval it was given, unless it is excused.
THEOREM ReportsPunctual ==
  ASSUME LongestSet
  PROVE  Spec => []ReportsInTime
  <1>1. Init => LatencyInv
    <2> SUFFICES ASSUME Init PROVE LatencyInv
      OBVIOUS
    <2>1. TypeOK
      BY InitType, ReportAssumption
    <2>2. silent = 0 /\ pc = "treat" /\ Longest >= 1
      BY ReportAssumption DEF Init, LongestSet
    <2>3. ~trace
      BY Zenon DEF Init
    <2>4. silent <= Longest
      BY <2>2, ReportAssumption DEF ReportAssumption
    <2> QED  BY <2>1, <2>2, <2>3, <2>4 DEF LatencyInv
  <1>2. LatencyInv /\ [Next]_vars => LatencyInv'
    BY StepLatency, ReportAssumption
  <1>3. LatencyInv => ReportsInTime
    BY DEF LatencyInv, ReportsInTime
  <1> QED  BY <1>1, <1>2, <1>3, PTL DEF Spec

-----------------------------------------------------------------------------
\* A request still urgent has woken the thread, or found it at work.
UrgentInv ==
  TypeOK /\ (urgent => pc # "sending" /\ (pc = "waiting" => signalled))

\* Under settings by time a call builds a message; any other call leaves nothing urgent.
LEMMA TreatingServes ==
  ASSUME TypeOK, Treating
  PROVE  ~urgent'
  <1>1. ASSUME NEW params, NEW builds, NEW ends, NEW secs, Treated(params, builds, ends, secs),
               pc = "trace" \/ ~ByTime \/ builds
        PROVE  ~urgent'
    <2>1. urgent' = (urgent /\ ~builds /\ pc = "period" /\ ByTime)
      BY <1>1 DEF Treated
    <2> QED  BY <1>1, <2>1
  <1>2. CASE PeriodDistance
    BY <1>1, <1>2 DEF PeriodDistance, ByTime
  <1>3. CASE PeriodElapsed
    BY <1>1, <1>3 DEF PeriodElapsed, ByTime
  <1>4. CASE PeriodTimed
    BY <1>1, <1>4 DEF PeriodTimed
  <1>5. CASE PeriodUnset
    BY <1>1, <1>5 DEF PeriodUnset, ByTime
  <1>6. CASE TraceTime
    BY <1>1, <1>6 DEF TraceTime, Tracing
  <1>7. CASE TraceDistance
    BY <1>1, <1>7 DEF TraceDistance, Tracing
  <1>8. CASE TraceTimeDistance
    BY <1>1, <1>8 DEF TraceTimeDistance, Tracing
  <1>9. CASE TraceDistanceTime
    BY <1>1, <1>9 DEF TraceDistanceTime, Tracing
  <1>10. CASE TraceNone
    BY <1>1, <1>10 DEF TraceNone, Tracing
  <1> QED  BY <1>2, <1>3, <1>4, <1>5, <1>6, <1>7, <1>8, <1>9, <1>10 DEF Treating

LEMMA UrgentStep ==
  ASSUME ReportAssumption, UrgentInv, [Next]_vars
  PROVE  UrgentInv'
  <1>1. TypeOK'
    BY StepType DEF UrgentInv
  <1> SUFFICES ASSUME urgent' PROVE pc' # "sending" /\ (pc' = "waiting" => signalled')
    BY <1>1 DEF UrgentInv
  <1> USE DEF UrgentInv
  <1>2. CASE Wake
    BY <1>2 DEF Wake
  <1>3. CASE Choose
    BY <1>3 DEF Choose
  <1>4. CASE Treating
    BY <1>4, TreatingServes
  <1>5. CASE Sent
    BY <1>5 DEF Sent
  <1>6. CASE Request
    <2>1. /\ (signalled' <=> (signalled \/ pc = "waiting")) /\ pc' = pc
          /\ (urgent' <=> (urgent \/ pc # "sending"))
      BY <1>6 DEF Request, Signal
    <2> QED  BY <2>1
  <1>7. CASE TraceOrder \/ StatusChange \/ SetParams
    BY <1>7 DEF TraceOrder, StatusChange, SetParams, thread
  <1>8. CASE Tick
    BY <1>8 DEF Tick
  <1>9. CASE Restart
    BY <1>9 DEF Restart
  <1>10. CASE UNCHANGED vars
    BY <1>10 DEF vars, thread
  <1> QED  BY <1>2, <1>3, <1>4, <1>5, <1>6, <1>7, <1>8, <1>9, <1>10
           DEF Next, ThreadStep, Others

\* For all settings, orders and interleavings: unless it came while a message was on its
\* way, or a call found no settings by time, a request is served before the next second.
THEOREM RequestsPrompt == Spec => ServedAtOnce
  <1>1. Init => UrgentInv
    <2> SUFFICES ASSUME Init PROVE UrgentInv
      OBVIOUS
    <2>1. TypeOK
      BY InitType, ReportAssumption
    <2>2. pc = "treat"
      BY DEF Init
    <2> QED  BY <2>1, <2>2 DEF UrgentInv
  <1>2. UrgentInv /\ [Next]_vars => UrgentInv'
    BY UrgentStep, ReportAssumption
  <1>3. UrgentInv => [Tick => ~urgent]_vars
    BY DEF UrgentInv, Tick
  <1> QED  BY <1>1, <1>2, <1>3, PTL DEF Spec, ServedAtOnce

-----------------------------------------------------------------------------
(* The invariant behind TraceLasts.                                           *)

\* The history variable counts as far as the traces last.
AgeCounts == \A t \in Traces : t.threhold <= MaxAge + t.interval

Total        == report_params.total_elapse
Covers(secs) == secs >= Total \/ age >= MaxAge

\* No time of an earlier trace is left when an order comes.
NothingLeft ==
  /\ signalled => pc = "waiting"
  /\ undisturbed /\ ~trace => Total = 0 /\ pc # "trace"

\* The order is the server's, it was there when the flag was read, and a thread that was
\* woken early has counted nothing of it.
Ordered ==
  undisturbed /\ trace =>
    /\ trace_params \in Traces /\ pc # "period"
    /\ trace_params.policy \notin TimeLasting => Total = 0
    /\ signalled => Total = 0

\* The seconds counted have passed, or will have when the wait is over.
Passed ==
  undisturbed /\ trace =>
    /\ pc \in {"treat", "trace"} => Covers(age)
    /\ pc \in {"waiting", "sending"} => Covers(age + wait)

\* A call that ends the trace leaves nothing and found that the time was over.
EndsDue ==
  undisturbed /\ trace /\ pc = "sending" /\ ending =>
    /\ Total = 0
    /\ trace_params.policy \in TimeLasting =>
         age + trace_params.interval >= trace_params.threhold

LastingInv == TypeOK /\ NothingLeft /\ Ordered /\ Passed /\ EndsDue

\* What a call has to see to.
LEMMA TreatedLasts ==
  ASSUME LastingInv, TypeOK',
         NEW params \in Params, NEW builds \in BOOLEAN, NEW ends \in BOOLEAN, NEW secs \in Nat,
         Treated(params, builds, ends, secs), pc \in {"period", "trace"},
         undisturbed /\ ~trace => params.total_elapse = 0,
         undisturbed /\ trace =>
           /\ trace_params.policy \notin TimeLasting => params.total_elapse = 0
           /\ age + secs >= params.total_elapse \/ age >= MaxAge,
         undisturbed /\ trace /\ ends =>
           /\ params.total_elapse = 0
           /\ trace_params.policy \in TimeLasting =>
                age + trace_params.interval >= trace_params.threhold
  PROVE  LastingInv'
  <1>1. /\ report_params' = params /\ pc' = "sending" /\ wait' = secs
        /\ UNCHANGED <<signalled, trace, trace_params, age, undisturbed>>
    BY DEF Treated
  <1>2. ending' = ends
    BY DEF Treated
  <1>3. ~signalled
    BY DEF LastingInv, NothingLeft
  <1>4. Total' = params.total_elapse
    BY <1>1 DEF Total
  <1>5. ~signalled'
    BY <1>1, <1>3
  <1>6. NothingLeft'
    BY <1>1, <1>4, <1>5 DEF NothingLeft
  <1>7. Ordered'
    BY <1>1, <1>4, <1>5 DEF LastingInv, Ordered
  <1>8. Passed'
    <2>1. pc' \notin {"treat", "trace"}
      BY <1>1
    <2> QED  BY <1>1, <1>4, <2>1 DEF Passed, Covers
  <1>9. EndsDue'
    <2>1. ending' <=> ends
      BY <1>2
    <2> QED  BY <1>1, <1>4, <2>1 DEF EndsDue
  <1> QED  BY <1>6, <1>7, <1>8, <1>9 DEF LastingInv

\* A call of either function that leaves total_elapse alone and does not end a trace
\* that lasts a time.
LEMMA OtherCallLasts ==
  ASSUME LastingInv, TypeOK',
         NEW params \in Params, NEW builds \in BOOLEAN, NEW ends \in BOOLEAN, NEW secs \in Nat,
         Treated(params, builds, ends, secs), pc \in {"period", "trace"},
         params.total_elapse = Total,
         ends => trace_params.policy \notin TimeLasting
  PROVE  LastingInv'
  <1>1. age \in Nat /\ Total \in Nat
    BY DEF LastingInv, TypeOK, Params, Total
  <1>2. undisturbed /\ ~trace => Total = 0
    BY DEF LastingInv, NothingLeft
  <1>3. undisturbed /\ trace => pc = "trace" /\ (Total <= age \/ age >= MaxAge)
    BY <1>1 DEF LastingInv, Ordered, Passed, Covers
  <1>4. undisturbed /\ trace => (trace_params.policy \notin TimeLasting => Total = 0)
    BY DEF LastingInv, Ordered
  <1>5. undisturbed /\ trace => age + secs >= Total \/ age >= MaxAge
    BY <1>1, <1>3
  <1> QED  BY <1>2, <1>4, <1>5, TreatedLasts

\* A call that counts n seconds more, and waits for as long.
LEMMA TimeCallLasts ==
  ASSUME ReportAssumption, AgeCounts, LastingInv, TypeOK', pc = "trace",
         trace_params.policy \in TimeLasting, NEW n \in Nat, n <= trace_params.interval,
         NEW params \in Params, NEW builds \in BOOLEAN, NEW ends \in BOOLEAN,
         Treated(params, builds, ends, n),
         params.total_elapse = IF ends THEN 0 ELSE Total + n,
         ends => Total + n >= trace_params.threhold
  PROVE  LastingInv'
  <1>1. age \in Nat /\ Total \in Nat /\ MaxAge \in Nat
        /\ trace_params.interval \in Nat /\ trace_params.threhold \in Nat
    BY DEF LastingInv, TypeOK, Params, Total, Trace, ReportAssumption
  <1>2. undisturbed => trace
    BY DEF LastingInv, NothingLeft
  <1>3. undisturbed => /\ Total <= age \/ age >= MaxAge
                       /\ trace_params.threhold <= MaxAge + trace_params.interval
    BY <1>1, <1>2 DEF LastingInv, Passed, Covers, Ordered, AgeCounts
  <1>4. undisturbed => age + n >= params.total_elapse \/ age >= MaxAge
    BY <1>1, <1>3
  <1>5. undisturbed /\ ends => age + trace_params.interval >= trace_params.threhold
    BY <1>1, <1>3
  <1>6. ends => params.total_elapse = 0
    OBVIOUS
  <1> QED  BY <1>2, <1>4, <1>5, <1>6, TreatedLasts

LEMMA TreatingLasts ==
  ASSUME ReportAssumption, AgeCounts, LastingInv, TypeOK', Treating
  PROVE  LastingInv'
  <1>1. report_params \in Params /\ speed \in Nat /\ trace_params \in Trace /\ TypeOK
    BY DEF ReportAssumption, LastingInv, TypeOK
  <1>2. /\ report_params.distance \in Nat /\ report_params.total_distance \in Nat
        /\ report_params.elapse \in Nat /\ report_params.total_elapse \in Nat
    BY <1>1 DEF Params
  <1>3. trace_params.interval \in Nat /\ trace_params.threhold \in Nat
    BY <1>1 DEF Trace
  <1>4. Period \in Nat /\ Distance \in Nat /\ Driven \in Nat
    BY <1>1, <1>2, Thresholds DEF Driven
  <1>5. ASSUME NEW d \in Nat
        PROVE  /\ [report_params EXCEPT !.distance = d] \in Params
               /\ [report_params EXCEPT !.distance = d].total_elapse = Total
    BY <1>1, <1>2 DEF Params, Total
  <1>6. ASSUME NEW t \in Nat
        PROVE  /\ [report_params EXCEPT !.total_elapse = t] \in Params
               /\ [report_params EXCEPT !.total_elapse = t].total_elapse = t
    BY <1>1, <1>2 DEF Params
  <1>7. CASE PeriodDistance
    BY <1>5, <1>7, OtherCallLasts DEF PeriodDistance
  <1>8. CASE PeriodElapsed
    <2> DEFINE due == Period # 0 /\ report_params.elapse + 1 >= Period
               e   == IF Period = 0 THEN report_params.elapse
                      ELSE IF due THEN 0 ELSE report_params.elapse + 1
    <2>1. /\ Treated([report_params EXCEPT !.distance = Driven, !.elapse = e], due, FALSE, 1)
          /\ pc = "period"
      BY <1>8 DEF PeriodElapsed
    <2>2. e \in Nat /\ due \in BOOLEAN
      BY <1>2, <1>4
    <2> HIDE DEF due, e
    <2> DEFINE new == [report_params EXCEPT !.distance = Driven, !.elapse = e]
    <2>3. new \in Params /\ new.total_elapse = Total
      BY <1>1, <1>2, <1>4, <2>2 DEF Params, Total
    <2>4. Treated(new, due, FALSE, 1)
      BY <2>1
    <2> HIDE DEF new
    <2> QED  BY <2>1, <2>2, <2>3, <2>4, OtherCallLasts
  <1>9. CASE PeriodTimed \/ PeriodUnset
    BY <1>1, <1>4, <1>9, OtherCallLasts DEF PeriodTimed, PeriodUnset, Total
  <1>10. CASE TraceTime
    <2> DEFINE total == report_params.total_elapse + trace_params.interval
               ends  == trace_params.interval # 0 /\ total >= trace_params.threhold
               t     == IF ends THEN 0 ELSE total
               sends == trace_params.interval # 0
    <2>1. /\ Treated([report_params EXCEPT !.total_elapse = t], sends, ends, trace_params.interval)
          /\ pc = "trace" /\ trace_params.policy \in TimeLasting
      BY <1>10 DEF TraceTime, Tracing, TimeLasting
    <2>2. t \in Nat /\ ends \in BOOLEAN /\ sends \in BOOLEAN /\ trace_params.interval <= trace_params.interval
      BY <1>2, <1>3
    <2>3. t = IF ends THEN 0 ELSE Total + trace_params.interval
      BY DEF Total
    <2>4. ends => Total + trace_params.interval >= trace_params.threhold
      BY DEF Total
    <2> HIDE DEF t, ends, sends
    <2> QED  BY <1>3, <1>6, <2>1, <2>2, <2>3, <2>4, TimeCallLasts
  <1>11. CASE TraceDistance
    <2> DEFINE total == report_params.total_distance + speed
               sends == trace_params.interval # 0 /\ Driven >= trace_params.interval
               ends  == trace_params.interval # 0 /\ total >= trace_params.threhold
               d     == IF sends THEN 0 ELSE Driven
               t     == IF ends THEN 0 ELSE total
               new   == [report_params EXCEPT !.distance = d, !.total_distance = t]
               counted == IF trace_params.interval # 0 THEN new ELSE report_params
    <2>1. /\ Treated(counted, sends, ends, 1)
          /\ pc = "trace" /\ trace_params.policy \notin TimeLasting
      BY <1>11 DEF TraceDistance, Tracing, TimeLasting
    <2>2. d \in Nat /\ t \in Nat /\ ends \in BOOLEAN /\ sends \in BOOLEAN
      BY <1>1, <1>2, <1>3, <1>4
    <2>3. counted \in Params /\ counted.total_elapse = Total
      <3>1. new \in Params /\ new.total_elapse = Total
        <4> HIDE DEF d, t
        <4> QED  BY <1>1, <1>2, <2>2 DEF Params, Total
      <3> HIDE DEF new
      <3> QED  BY <1>1, <3>1 DEF Total
    <2> HIDE DEF counted, ends, sends
    <2> QED  BY <2>1, <2>2, <2>3, OtherCallLasts
  <1>12. CASE TraceTimeDistance
    <2> DEFINE total == report_params.total_distance + speed
               sends == report_params.elapse >= trace_params.interval
               ends  == total >= trace_params.threhold
               e     == IF sends THEN 1 ELSE report_params.elapse + 1
               t     == IF ends THEN 0 ELSE total
    <2>1. /\ Treated([report_params EXCEPT !.elapse = e, !.total_distance = t], sends, ends, 1)
          /\ pc = "trace" /\ trace_params.policy \notin TimeLasting
      BY <1>12 DEF TraceTimeDistance, Tracing, TimeLasting
    <2>2. e \in Nat /\ t \in Nat /\ ends \in BOOLEAN /\ sends \in BOOLEAN
      BY <1>1, <1>2, <1>3
    <2> HIDE DEF e, t, ends, sends
    <2> DEFINE new == [report_params EXCEPT !.elapse = e, !.total_distance = t]
    <2>3. new \in Params /\ new.total_elapse = Total
      BY <1>1, <1>2, <2>2 DEF Params, Total
    <2>4. Treated(new, sends, ends, 1)
      BY <2>1
    <2> HIDE DEF new
    <2> QED  BY <2>1, <2>2, <2>3, <2>4, OtherCallLasts
  <1>13. CASE TraceDistanceTime
    <2> DEFINE total == report_params.total_elapse + 1
               sends == trace_params.interval # 0 /\ Driven >= trace_params.interval
               ends  == trace_params.interval # 0 /\ total >= trace_params.threhold
               d     == IF sends THEN 0 ELSE Driven
               t     == IF ends THEN 0 ELSE total
               new   == [report_params EXCEPT !.distance = d, !.total_elapse = t]
               counted == IF trace_params.interval # 0 THEN new ELSE report_params
    <2>1. /\ Treated(counted, sends, ends, 1)
          /\ pc = "trace" /\ trace_params.policy \in TimeLasting
      BY <1>13 DEF TraceDistanceTime, Tracing, TimeLasting
    <2>2. d \in Nat /\ t \in Nat /\ ends \in BOOLEAN /\ sends \in BOOLEAN
      BY <1>1, <1>2, <1>3, <1>4
    <2>3. CASE trace_params.interval = 0
      <3>1. counted = report_params /\ ~ends
        BY <2>3
      <3> HIDE DEF counted, ends, sends
      <3>2. Treated(report_params, sends, ends, 1)
        BY <2>1, <3>1
      <3> QED  BY <1>1, <2>1, <2>2, <3>1, <3>2, OtherCallLasts DEF Total
    <2>4. CASE trace_params.interval # 0
      <3>1. counted = new /\ 1 <= trace_params.interval
        BY <1>3, <2>4
      <3>2. new \in Params /\ new.total_elapse = t
        <4> HIDE DEF d, t
        <4> QED  BY <1>1, <1>2, <2>2 DEF Params
      <3>3. t = IF ends THEN 0 ELSE Total + 1
        BY DEF Total
      <3>4. ends => Total + 1 >= trace_params.threhold
        BY DEF Total
      <3> HIDE DEF counted, new, t, ends, sends
      <3>5. Treated(new, sends, ends, 1)
        BY <2>1, <3>1
      <3> QED  BY <2>1, <2>2, <3>1, <3>2, <3>3, <3>4, <3>5, TimeCallLasts
    <2> QED  BY <2>3, <2>4
  <1>14. CASE TraceNone
    <2>1. PICK secs \in Garbage : Treated(report_params, FALSE, FALSE, secs)
      BY <1>14 DEF TraceNone
    <2>2. secs \in Nat /\ pc = "trace"
      BY <1>14, <2>1 DEF ReportAssumption, TraceNone, Tracing
    <2> QED  BY <1>1, <2>1, <2>2, OtherCallLasts DEF Total
  <1> QED  BY <1>7, <1>8, <1>9, <1>10, <1>11, <1>12, <1>13, <1>14 DEF Treating

LEMMA LastingStep ==
  ASSUME ReportAssumption, AgeCounts, LastingInv, [Next]_vars
  PROVE  LastingInv'
  <1>1. TypeOK'
    BY StepType DEF LastingInv
  <1>2. /\ age \in Nat /\ wait \in Nat /\ Total \in Nat /\ MaxAge \in Nat /\ TypeOK
        /\ report_params \in Params
    BY DEF LastingInv, TypeOK, Params, Total, ReportAssumption
  <1>3. CASE UNCHANGED <<pc, wait, signalled, report_params, ending, trace, trace_params,
                         age, undisturbed>>
    BY <1>1, <1>3
    DEF LastingInv, NothingLeft, Ordered, Passed, EndsDue, Covers, Total
  <1>4. CASE UNCHANGED vars
    BY <1>3, <1>4 DEF vars, thread
  <1>5. CASE StatusChange \/ SetParams
    BY <1>3, <1>5 DEF StatusChange, SetParams, thread
  <1>6. CASE Treating
    BY <1>1, <1>6, TreatingLasts
  <1>7. CASE Wake
    <2>1. /\ pc = "waiting" /\ pc' = "treat" /\ (signalled \/ wait = 0)
          /\ UNCHANGED <<wait, report_params, ending, trace, trace_params, age, undisturbed>>
      BY <1>7 DEF Wake
    <2>2. ~signalled' /\ Total' = Total
      BY <1>7 DEF Wake, Total
    <2>3. undisturbed /\ trace => Covers(age)
      BY <1>2, <2>1 DEF LastingInv, Ordered, Passed, Covers
    <2>4. NothingLeft' /\ EndsDue'
      BY <2>1, <2>2 DEF LastingInv, NothingLeft, EndsDue
    <2>5. Ordered' /\ Passed'
      BY <2>1, <2>2, <2>3 DEF LastingInv, Ordered, Passed, Covers
    <2> QED  BY <1>1, <2>4, <2>5 DEF LastingInv
  <1>8. CASE Choose
    <2>1. /\ pc = "treat" /\ (trace => pc' = "trace") /\ (~trace => pc' = "period")
          /\ UNCHANGED <<wait, signalled, report_params, ending, trace, trace_params, age,
                         undisturbed>>
      BY <1>8 DEF Choose
    <2>2. Total' = Total /\ pc' \in {"trace", "period"}
      BY <2>1 DEF Total
    <2>3. NothingLeft' /\ EndsDue'
      BY <2>1, <2>2 DEF LastingInv, NothingLeft, EndsDue
    <2>4. Ordered' /\ Passed'
      BY <2>1, <2>2 DEF LastingInv, Ordered, Passed, Covers
    <2> QED  BY <1>1, <2>3, <2>4 DEF LastingInv
  <1>9. CASE Sent
    <2>1. /\ pc = "sending" /\ pc' = "waiting" /\ (trace' <=> (trace /\ ~ending))
          /\ UNCHANGED <<wait, signalled, report_params, ending, trace_params, age,
                         undisturbed>>
      BY <1>9 DEF Sent
    <2>2. Total' = Total
      BY <2>1 DEF Total
    <2>3. NothingLeft' /\ EndsDue'
      BY <2>1, <2>2 DEF LastingInv, NothingLeft, EndsDue
    <2>4. Ordered' /\ Passed'
      BY <2>1, <2>2 DEF LastingInv, Ordered, Passed, Covers
    <2> QED  BY <1>1, <2>3, <2>4 DEF LastingInv
  <1>10. CASE Request
    <2>1. /\ (signalled' <=> (signalled \/ pc = "waiting"))
          /\ (undisturbed' <=> (undisturbed /\ ~trace))
          /\ UNCHANGED <<pc, wait, report_params, ending, trace, trace_params, age>>
      BY <1>10 DEF Request, Signal
    <2>2. Total' = Total
      BY <2>1 DEF Total
    <2>3. ~(undisturbed' /\ trace')
      BY <2>1
    <2>4. NothingLeft'
      BY <2>1, <2>2 DEF LastingInv, NothingLeft
    <2> QED  BY <1>1, <2>3, <2>4 DEF LastingInv, Ordered, Passed, EndsDue
  <1>11. CASE TraceOrder
    <2>1. PICK t \in Traces :
            /\ (undisturbed' <=> (undisturbed /\ pc = "waiting" /\ ~trace /\ t.policy # "stop"))
            /\ trace_params' = t /\ (trace' <=> t.policy # "stop")
      BY <1>11 DEF TraceOrder
    <2>2. age' = 0 /\ UNCHANGED <<pc, wait, signalled, report_params, ending>>
      BY <1>11 DEF TraceOrder, thread
    <2>3. Total' = Total
      BY <2>2 DEF Total
    <2>4. undisturbed' => trace' /\ Total = 0 /\ pc = "waiting"
      BY <2>1 DEF LastingInv, NothingLeft
    <2>5. NothingLeft' /\ EndsDue'
      BY <2>2, <2>4 DEF LastingInv, NothingLeft, EndsDue
    <2>6. Ordered'
      BY <2>1, <2>2, <2>3, <2>4 DEF Ordered
    <2>7. Passed'
      BY <1>2, <2>2, <2>3, <2>4 DEF Passed, Covers
    <2> QED  BY <1>1, <2>5, <2>6, <2>7 DEF LastingInv
  <1>12. CASE Tick
    <2>1. /\ pc = "waiting" /\ wait > 0 /\ wait' = wait - 1 /\ age' = Later(age)
          /\ UNCHANGED <<pc, signalled, report_params, ending, trace, trace_params,
                         undisturbed>>
      BY <1>12 DEF Tick
    <2>2. Total' = Total
      BY <2>1 DEF Total
    <2>3. age + wait >= Total \/ age >= MaxAge => age' + wait' >= Total \/ age' >= MaxAge
      BY <1>2, <2>1 DEF Later
    <2>4. NothingLeft' /\ Ordered' /\ EndsDue'
      BY <2>1, <2>2 DEF LastingInv, NothingLeft, Ordered, EndsDue
    <2>5. Passed'
      BY <2>1, <2>2, <2>3 DEF LastingInv, Passed, Covers
    <2> QED  BY <1>1, <2>4, <2>5 DEF LastingInv
  <1>13. CASE Restart
    <2>1. /\ pc' = "treat" /\ report_params' = ZeroParams
          /\ (undisturbed' <=> (undisturbed /\ ~kept)) /\ (trace' <=> kept)
      BY <1>13 DEF Restart
    <2>2. ~signalled' /\ Total' = 0
      BY <1>13, <2>1 DEF Restart, Total, ZeroParams
    <2>3. ~(undisturbed' /\ trace')
      BY <2>1
    <2>4. NothingLeft'
      BY <2>1, <2>2 DEF NothingLeft
    <2> QED  BY <1>1, <2>3, <2>4 DEF LastingInv, Ordered, Passed, EndsDue
  <1> QED  BY <1>4, <1>5, <1>6, <1>7, <1>8, <1>9, <1>10, <1>11, <1>12, <1>13
           DEF Next, ThreadStep, Others

\* A trace that lasts a time is not ended before it has lasted, but for one interval:
\* for every order of the server, whatever was counted by the traces before, whether the
\* thread is woken early or not, across changes of the settings and restarts, as long as
\* the history variable counts that far (TraceLasts).
THEOREM TraceNotCutShort ==
  ASSUME AgeCounts
  PROVE  Spec => TraceLasts
  <1>1. Init => LastingInv
    <2> SUFFICES ASSUME Init PROVE LastingInv
      OBVIOUS
    <2>1. TypeOK /\ pc = "treat" /\ Total = 0
      BY InitType, ReportAssumption DEF Init, Total, ZeroParams
    <2>2. ~trace /\ ~signalled
      BY Zenon DEF Init
    <2> QED  BY <2>1, <2>2 DEF LastingInv, NothingLeft, Ordered, Passed, EndsDue
  <1>2. LastingInv /\ [Next]_vars => LastingInv'
    BY LastingStep, ReportAssumption
  <1>3. LastingInv => [Sent /\ undisturbed /\ trace /\ ending
                         /\ trace_params.policy \in TimeLasting
                       => age + trace_params.interval >= trace_params.threhold]_vars
    BY DEF LastingInv, EndsDue, Sent
  <1> QED  BY <1>1, <1>2, <1>3, PTL DEF Spec, TraceLasts
=============================================================================
