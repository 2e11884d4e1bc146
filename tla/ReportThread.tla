------------------------------ MODULE ReportThread ------------------------------
(***************************************************************************)
(* When the terminal reports its position: the report thread of            *)
(* src/src/app/report/fleety_report.c, which waits for a request or for a  *)
(* timeout and then applies either the report settings or the tracking     *)
(* order of the server; and the threads that request a report.             *)
(*                                                                         *)
(* Requests are pthread_cond_signal without the lock and without a         *)
(* predicate: only a thread that is waiting hears one.  The tracking order *)
(* and its flag are shared with the socket thread without a lock.          *)
(* Treating takes no time on the clock.  An order by time with interval 0  *)
(* (also the one a restart leaves) makes the wait 0: the thread then calls *)
(* again and again, and no second passes here until another order comes.   *)
(***************************************************************************)
EXTENDS Integers

CONSTANTS
  Settings,          \* pairs of location_report_policy and _scheme in use
  TimeInterval,      \* settings time_report_*_interval, by name
  DistanceInterval,  \* settings distance_report_*_interval, by name
  Situations,        \* states of the vehicle (taxi_status)
  Speeds,            \* what gps_info.speed may be
  Traces,            \* tracking orders of the server
  Garbage,           \* values of an uninitialized timeout_threhold
  Longest,           \* the longest interval configured
  MaxAge,            \* bound: seconds counted by the history variables
  MaxRequests,       \* bound: requests for a report
  MaxCommands,       \* bound: tracking orders
  MaxBoots           \* bound: restarts

Names == {"alarm", "idle", "accon", "accoff", "occupied", "vacant", "logout"}
Vehicle == [acc : BOOLEAN, loading : BOOLEAN, login : BOOLEAN, sleep : BOOLEAN,
            emergency : BOOLEAN, alarm : BOOLEAN]
TracePolicies == {"time", "time_distance", "distance_time", "distance", "stop"}
Trace == [policy : TracePolicies, interval : Nat, threhold : Nat]

ASSUME ReportAssumption ==
  /\ Settings \subseteq [policy : 0..2, scheme : 0..3]
  /\ TimeInterval \in [Names -> Nat] /\ DistanceInterval \in [Names -> Nat]
  /\ Situations \subseteq Vehicle /\ Speeds \subseteq Nat /\ Traces \subseteq Trace
  /\ Garbage \subseteq Nat
  /\ Longest \in Nat /\ MaxAge \in Nat
  /\ MaxRequests \in Nat /\ MaxCommands \in Nat /\ MaxBoots \in Nat

VARIABLES
  pc,             \* step of fleety_report_loop_func
  wait,           \* seconds to the timeout of pthread_cond_timedwait
  signalled,      \* the waiting thread has been woken
  report_params,  \* distances and times counted, kept from call to call
  ending,         \* this call ends the tracking
  setting,        \* the report settings
  status, speed,  \* the vehicle
  trace,          \* taxi_status.sw.flag.trace
  kept,           \* the flag as it was last saved
  trace_params,   \* the tracking order
  requested,      \* history: a report was requested and none was built since
  urgent,         \* history: so, and not while a message was on its way; cleared by
                  \* a call that has no settings by time to follow
  silent, age,    \* history: seconds since a message was built, since the order
  undisturbed,    \* history: each tracking order found the thread waiting and no
                  \* other order under way, and nothing intervened while it lasted
  excused,        \* history: tracking was ordered or came back with a restart, or an
                  \* unset interval applied, and no report by the settings came since
  requests, commands, boots  \* counters for the bounds

thread == <<pc, wait, signalled, report_params, ending>>
vars   == <<thread, setting, status, speed, trace, kept, trace_params,
            requested, urgent, silent, age, undisturbed, excused, requests, commands,
            boots>>

Params == [distance : Nat, total_distance : Nat, elapse : Nat, total_elapse : Nat]
ZeroParams == [distance |-> 0, total_distance |-> 0, elapse |-> 0, total_elapse |-> 0]
NoTrace    == [policy |-> "time", interval |-> 0, threhold |-> 0]

TypeOK ==
  /\ pc \in {"waiting", "treat", "period", "trace", "sending"}
  /\ wait \in Nat /\ signalled \in BOOLEAN /\ report_params \in Params /\ ending \in BOOLEAN
  /\ setting \in Settings /\ status \in Situations /\ speed \in Speeds
  /\ trace \in BOOLEAN /\ kept \in BOOLEAN /\ trace_params \in Trace
  /\ requested \in BOOLEAN /\ urgent \in BOOLEAN /\ silent \in Nat /\ age \in Nat
  /\ undisturbed \in BOOLEAN /\ excused \in BOOLEAN
  /\ requests \in 0..MaxRequests /\ commands \in 0..MaxCommands
  /\ boots \in 0..MaxBoots

Init ==
  /\ pc = "treat" /\ wait = 0 /\ signalled = FALSE
  /\ report_params = ZeroParams /\ ending = FALSE
  /\ setting \in Settings /\ status \in Situations /\ speed \in Speeds
  /\ trace = FALSE /\ kept = FALSE /\ trace_params = NoTrace
  /\ requested = FALSE /\ urgent = FALSE /\ silent = 0 /\ age = 0
  /\ undisturbed = TRUE /\ excused = FALSE
  /\ requests = 0 /\ commands = 0 /\ boots = 0

-----------------------------------------------------------------------------
(* The settings: report_get_period and report_get_distance.                  *)

\* The interval a scheme picks; the two differ in the one for ACC off.
ByScheme(accoff) ==
  IF setting.scheme \in {2, 3} /\ ~status.login THEN "logout"
  ELSE IF setting.scheme \in {1, 3} THEN IF status.loading THEN "occupied" ELSE "vacant"
  ELSE IF status.acc THEN "accon"
  ELSE IF setting.scheme = 0 THEN accoff ELSE "accoff"

Period ==
  IF setting.policy # 0 THEN 1
  ELSE TimeInterval[IF status.emergency THEN "alarm"
                    ELSE IF status.sleep THEN "idle" ELSE ByScheme("accoff")]

Distance ==
  IF setting.policy = 0 THEN 0
  ELSE DistanceInterval[IF status.alarm THEN "alarm"
                        ELSE IF status.sleep THEN "idle" ELSE ByScheme("accon")]

\* The settings ask for a message after each wait.
ByTime == Distance = 0 /\ Period # 0

-----------------------------------------------------------------------------
(* The report thread.                                                        *)

\* pthread_cond_timedwait returns.
Wake ==
  /\ pc = "waiting" /\ (signalled \/ wait = 0)
  /\ pc' = "treat" /\ signalled' = FALSE
  /\ UNCHANGED <<wait, report_params, ending, setting, status, speed, trace, kept,
                 trace_params, requested, urgent, silent, age, undisturbed, excused,
                 requests, commands, boots>>

\* get_trace_mode() picks the function.
Choose ==
  /\ pc = "treat" /\ pc' = IF trace THEN "trace" ELSE "period"
  /\ UNCHANGED <<wait, signalled, report_params, ending, setting, status, speed, trace, kept,
                 trace_params, requested, urgent, silent, age, undisturbed, excused,
                 requests, commands, boots>>

\* One call of either function: what is counted, whether a message is built,
\* whether tracking ends, and the seconds to wait.
Treated(params, builds, ends, secs) ==
  /\ report_params' = params /\ ending' = ends /\ wait' = secs /\ pc' = "sending"
  /\ requested' = (requested /\ ~builds)
  /\ urgent' = (urgent /\ ~builds /\ pc = "period" /\ ByTime)
  /\ silent' = (IF builds THEN 0 ELSE silent)
  /\ excused' = IF pc = "period" /\ Period = 0 THEN TRUE
                ELSE excused /\ (trace \/ pc = "trace" \/ ~builds)
  /\ UNCHANGED <<signalled, setting, status, speed, trace, kept, trace_params,
                 age, undisturbed, requests, commands, boots>>

Driven == report_params.distance + speed

PeriodDistance ==
  /\ pc = "period" /\ Distance # 0 /\ Driven >= Distance
  /\ Treated([report_params EXCEPT !.distance = 0], TRUE, FALSE, 1)

\* Mutant: the time rule is left out beside the distance rule.
PeriodElapsedNever ==
  /\ pc = "period" /\ Distance # 0 /\ Driven < Distance
  /\ Treated([report_params EXCEPT !.distance = Driven], FALSE, FALSE, 1)

PeriodElapsed ==
  /\ pc = "period" /\ Distance # 0 /\ Driven < Distance
  /\ LET due == Period # 0 /\ report_params.elapse + 1 >= Period
         elapse == IF Period = 0 THEN report_params.elapse
                   ELSE IF due THEN 0 ELSE report_params.elapse + 1
     IN  Treated([report_params EXCEPT !.distance = Driven, !.elapse = elapse], due, FALSE, 1)

PeriodTimed ==
  /\ pc = "period" /\ ByTime
  /\ Treated(report_params, TRUE, FALSE, Period)

\* No settings.
PeriodUnset ==
  /\ pc = "period" /\ Distance = 0 /\ Period = 0
  /\ Treated(report_params, FALSE, FALSE, 1)

Tracing(policy) == pc = "trace" /\ trace_params.policy = policy

\* Mutant: the time that ended one trace is counted in the next.
TraceTimeNoReset ==
  /\ Tracing("time")
  /\ LET total == report_params.total_elapse + trace_params.interval
         ends  == trace_params.interval # 0 /\ total >= trace_params.threhold
     IN  Treated([report_params EXCEPT !.total_elapse = total],
                 trace_params.interval # 0, ends, trace_params.interval)

TraceTime ==
  /\ Tracing("time")
  /\ LET total == report_params.total_elapse + trace_params.interval
         ends  == trace_params.interval # 0 /\ total >= trace_params.threhold
     IN  Treated([report_params EXCEPT !.total_elapse = IF ends THEN 0 ELSE total],
                 trace_params.interval # 0, ends, trace_params.interval)

TraceDistance ==
  /\ Tracing("distance")
  /\ LET total  == report_params.total_distance + speed
         counts == trace_params.interval # 0
         builds == counts /\ Driven >= trace_params.interval
         ends   == counts /\ total >= trace_params.threhold
     IN  Treated(IF counts THEN [report_params EXCEPT !.distance = IF builds THEN 0 ELSE Driven,
                                                      !.total_distance = IF ends THEN 0 ELSE total]
                 ELSE report_params, builds, ends, 1)

TraceTimeDistance ==
  /\ Tracing("time_distance")
  /\ LET total  == report_params.total_distance + speed
         builds == report_params.elapse >= trace_params.interval
         ends   == total >= trace_params.threhold
     IN  Treated([report_params EXCEPT !.elapse = IF builds THEN 1 ELSE report_params.elapse + 1,
                                       !.total_distance = IF ends THEN 0 ELSE total],
                 builds, ends, 1)

\* Mutant: only the seconds of driving are counted.
TraceDistanceTimeMoving ==
  /\ Tracing("distance_time")
  /\ LET total  == report_params.total_elapse + (IF speed = 0 THEN 0 ELSE 1)
         builds == Driven >= trace_params.interval
         ends   == total >= trace_params.threhold
     IN  Treated([report_params EXCEPT !.distance = IF builds THEN 0 ELSE Driven,
                                       !.total_elapse = IF ends THEN 0 ELSE total],
                 builds, ends, 1)

TraceDistanceTime ==
  /\ Tracing("distance_time")
  /\ LET total  == report_params.total_elapse + 1
         counts == trace_params.interval # 0
         builds == counts /\ Driven >= trace_params.interval
         ends   == counts /\ total >= trace_params.threhold
     IN  Treated(IF counts THEN [report_params EXCEPT !.distance = IF builds THEN 0 ELSE Driven,
                                                      !.total_elapse = IF ends THEN 0 ELSE total]
                 ELSE report_params, builds, ends, 1)

\* The order is to stop, though the flag was set when it was read: the function
\* returns a variable it never assigned.
TraceNone == Tracing("stop") /\ \E secs \in Garbage : Treated(report_params, FALSE, FALSE, secs)

\* The message is on its way and stored; stop_trace_mode; back to waiting.
Sent ==
  /\ pc = "sending" /\ pc' = "waiting" /\ trace' = (trace /\ ~ending)
  /\ UNCHANGED <<wait, signalled, report_params, ending, setting, status, speed, kept,
                 trace_params, requested, urgent, silent, age, undisturbed, excused,
                 requests, commands, boots>>

Treating == \/ PeriodDistance \/ PeriodElapsed \/ PeriodTimed \/ PeriodUnset
            \/ TraceTime \/ TraceDistance \/ TraceTimeDistance \/ TraceDistanceTime \/ TraceNone

ThreadStep == Wake \/ Choose \/ Treating \/ Sent

-----------------------------------------------------------------------------
(* The other threads, the vehicle and the clock.                             *)

\* Mutant: the condition is signalled before the thread waits for it only.
SignalNobody ==
  /\ signalled' = signalled
  /\ requested' = TRUE /\ urgent' = (urgent \/ pc # "sending")
  /\ undisturbed' = (undisturbed /\ ~trace)

\* fleety_report: pthread_cond_signal.
Signal ==
  /\ signalled' = (signalled \/ pc = "waiting")
  /\ requested' = TRUE /\ urgent' = (urgent \/ pc # "sending")
  /\ undisturbed' = (undisturbed /\ ~trace)

Request ==
  /\ requests < MaxRequests /\ requests' = requests + 1 /\ Signal
  /\ UNCHANGED <<pc, wait, report_params, ending, setting, status, speed, trace, kept,
                 trace_params, silent, age, excused, commands, boots>>

\* gb905_trace_treat on the socket thread.  The order and the flag are stored one
\* after the other; a thread that reads both in between acts as one that read the
\* flag before and the order after this action.
TraceOrder ==
  /\ commands < MaxCommands /\ commands' = commands + 1
  /\ \E t \in Traces :
       /\ undisturbed' = (undisturbed /\ pc = "waiting" /\ ~trace /\ t.policy # "stop")
       /\ trace_params' = t /\ trace' = (t.policy # "stop")
  /\ age' = 0 /\ excused' = TRUE
  /\ UNCHANGED <<thread, setting, status, speed, kept, requested, urgent, silent, requests,
                 boots>>

\* A setter of another flag changes the vehicle's state and saves all of it.
StatusChange ==
  /\ status' \in Situations /\ status' # status /\ kept' = trace
  /\ UNCHANGED <<thread, setting, speed, trace, trace_params,
                 requested, urgent, silent, age, undisturbed, excused, requests, commands,
                 boots>>

\* MESSAGE_SET_PARAMS
SetParams ==
  /\ setting' \in Settings /\ setting' # setting
  /\ UNCHANGED <<thread, status, speed, trace, kept, trace_params,
                 requested, urgent, silent, age, undisturbed, excused, requests, commands,
                 boots>>

Later(n) == IF n < MaxAge THEN n + 1 ELSE n

\* A second passes while the thread waits.
Tick ==
  /\ pc = "waiting" /\ wait > 0 /\ ~signalled /\ wait' = wait - 1
  /\ silent' = Later(silent) /\ age' = Later(age) /\ speed' \in Speeds
  /\ UNCHANGED <<pc, signalled, report_params, ending, setting, status, trace, kept,
                 trace_params, requested, urgent, undisturbed, excused, requests, commands,
                 boots>>

\* The saved flag comes back, the tracking order does not.
Restart ==
  /\ boots < MaxBoots /\ boots' = boots + 1
  /\ pc' = "treat" /\ wait' = 0 /\ signalled' = FALSE
  /\ report_params' = ZeroParams /\ ending' = FALSE
  /\ trace' = kept /\ trace_params' = NoTrace
  /\ requested' = FALSE /\ urgent' = FALSE /\ silent' = 0 /\ age' = 0
  /\ undisturbed' = (undisturbed /\ ~kept) /\ excused' = (excused \/ kept)
  /\ UNCHANGED <<setting, status, speed, kept, requests, commands>>

Others == Request \/ TraceOrder \/ StatusChange \/ SetParams

Next == ThreadStep \/ Others \/ Tick \/ Restart

\* The thread runs and time passes.  Nobody has to request anything, and the
\* vehicle need not move.
Fairness == WF_vars(ThreadStep) /\ WF_vars(Tick)

Spec == Init /\ [][Next]_vars /\ Fairness

-----------------------------------------------------------------------------
(* Properties.                                                               *)

\* "location_report_policy": unless tracking is or was just ordered, no silence is
\* longer than the longest interval configured, whatever requests, changes of the
\* vehicle's state and changes of settings interleave with the wait; and the first
\* report by the settings after a trace restores the promise.
ReportsInTime == ~excused => silent <= Longest

\* fleety_report, "the location report is to be sent at once": under settings by time
\* no second passes between a request and a message built after it, whatever changes
\* in between, unless the request came while a message was on its way, where the signal
\* finds nobody.
ServedAtOnce == [][Tick => ~urgent]_vars

\* That one, and one under settings by distance, is followed by a message in the end,
\* unless tracking intervenes.
RequestServed == ServedAtOnce /\ (requested ~> ~requested \/ excused)

\* "time interval, lasting time": when every order found the thread waiting and none
\* under way, and no request came while it lasted, the thread ends a trace when it has
\* lasted, but for one interval.
TimeLasting == {"time", "distance_time"}
TraceLasts ==
  [][Sent /\ undisturbed /\ trace /\ ending /\ trace_params.policy \in TimeLasting
       => age + trace_params.interval >= trace_params.threhold]_vars

\* A trace that lasts a time and has an interval ends, unless a restart or another order
\* interferes.  Nobody refuses an order with interval 0: it counts nothing, and ends only
\* with another order.
TraceEnds ==
  trace /\ trace_params.policy \in TimeLasting /\ trace_params.interval # 0
    ~> ~trace \/ ~undisturbed

=============================================================================
