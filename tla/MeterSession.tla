------------------------------ MODULE MeterSession ------------------------------
(***************************************************************************)
(* The taximeter and its driver: from the messages of the meter and of the *)
(* evaluation device to the operation record of a trip and the sign-in of  *)
(* a driver (src/src/module/gb905_peri/meter/gb905_meter.c, the event      *)
(* handlers under src/src/middleware/event, operation/gb905_operate.c and  *)
(* login/gb905_login.c).                                                   *)
(*                                                                         *)
(* One thread reads all serial ports; it stores what a message says in     *)
(* global variables and pushes an event without the data.  The socket      *)
(* thread treats the events later and reads the globals then, with no lock *)
(* on either side.  The queue between them is EventQueue's, here in order  *)
(* and without loss.  What becomes of an operation record after            *)
(* gb905_send_operate is RecordStore's.                                    *)
(*                                                                         *)
(* A position report is known by the moment it was built in: the number of *)
(* changes of the meter so far.  Trip n begins at moment 2n-1 and ends at  *)
(* moment 2n.                                                              *)
(***************************************************************************)
EXTENDS Integers, Sequences

CONSTANTS
  Ratings,     \* evaluations the device may report, EVAL_NONE perhaps among them
  EvalNone,    \* EVAL_NONE
  Drivers,     \* the drivers
  NoDriver,    \* no driver
  MaxTrips,    \* bound: trips
  MaxRatings,  \* bound: evaluations in all
  MaxResends,  \* bound: trips and sign-outs the meter sends again
  MaxShifts,   \* bound: sign-ins
  MaxBoots,    \* bound: restarts
  MaxQueue     \* bound: events waiting

ASSUME SessionAssumption ==
  /\ NoDriver \notin Drivers
  /\ MaxTrips \in Nat /\ MaxRatings \in Nat /\ MaxResends \in Nat
  /\ MaxShifts \in Nat /\ MaxBoots \in Nat /\ MaxQueue \in Nat

Trips   == 1..MaxTrips
Moments == 0..2*MaxTrips
Evals   == Ratings \union {EvalNone}

\* fleety_event_t; what an event is about (trip, driver) is not in it: a history.
Event == [id : {"loading"}, param : BOOLEAN]
         \union [id : {"eval"}, param : Evals, trip : {0} \union Trips]
         \union [id : {"login"}, param : BOOLEAN, driver : Drivers]
         \union [id : {"supplement"}]
NoEvent == [id |-> "none"]

VARIABLES
  moment,   \* the meter: changes between empty and loaded so far
  driver,   \* the meter: the driver signed in on it, or none
  asked,    \* the meter: "open" or "close" requested, "opening" or "closing" confirmed
  loading,  \* taxi_status.hw.flag.loading, kept over a restart
  login,    \* taxi_status.sw.flag.login, kept over a restart
  meter_operation_info,  \* the trip whose data the meter sent last, 0 at boot
  login_info,            \* meter_open_success_info and meter_close_success_info
  eval_state,     \* the evaluation set last
  pre_operation,  \* the operation record under construction
  uart,     \* UART thread: the event it has yet to push
  queue,    \* the events pushed and not fetched
  treat,    \* socket thread: step, event, the trip or the driver it has copied
  sent,     \* history: trips whose meter data has been sent
  orderly,  \* history: the trip under way or last ended was reported in order
  apart,    \* history: a sign-in event was lost, or a stale one came
  ratings, resends, shifts, boots  \* counters for the bounds

meter    == <<moment, driver, asked>>
status   == <<loading, login>>
globals  == <<meter_operation_info, login_info, eval_state>>
bounds   == <<ratings, resends, shifts, boots>>
vars == <<meter, status, globals, pre_operation, uart, queue, treat, sent,
          orderly, apart, bounds>>

Operation == [begin : Moments, end : Moments, eval : Evals]
NoOperation == [begin |-> 0, end |-> 0, eval |-> EvalNone]
IdleTreat == [pc |-> "idle", ev |-> NoEvent, trip |-> 0, driver |-> NoDriver]

TypeOK ==
  /\ moment \in Moments /\ driver \in Drivers \union {NoDriver}
  /\ asked \in {"none", "open", "close", "opening", "closing"}
  /\ loading \in BOOLEAN /\ login \in BOOLEAN
  /\ meter_operation_info \in {0} \union Trips
  /\ login_info \in [BOOLEAN -> Drivers \union {NoDriver}]
  /\ eval_state \in Evals /\ pre_operation \in Operation
  /\ uart \in Event \union {NoEvent} /\ queue \in Seq(Event)
  /\ treat \in [pc : {"idle", "fetched", "rated", "copied", "built", "told"},
                ev : Event \union {NoEvent}, trip : {0} \union Trips,
                driver : Drivers \union {NoDriver}]
  /\ treat.pc # "idle" => treat.ev \in Event
  /\ treat.pc \in {"rated", "copied", "built"} => treat.ev.id = "eval"
  /\ treat.pc = "told" => treat.ev.id = "login"
  /\ sent \subseteq {0} \union Trips
  /\ orderly \in BOOLEAN /\ apart \in BOOLEAN
  /\ ratings \in 0..MaxRatings /\ resends \in 0..MaxResends
  /\ shifts \in 0..MaxShifts /\ boots \in 0..MaxBoots

Init ==
  /\ moment = 0 /\ driver = NoDriver /\ asked = "none"
  /\ loading = FALSE /\ login = FALSE
  /\ meter_operation_info = 0 /\ login_info = [b \in BOOLEAN |-> NoDriver]
  /\ eval_state = EvalNone /\ pre_operation = NoOperation
  /\ uart = NoEvent /\ queue = <<>> /\ treat = IdleTreat
  /\ sent = {} /\ orderly = FALSE /\ apart = FALSE
  /\ ratings = 0 /\ resends = 0 /\ shifts = 0 /\ boots = 0

Loaded == moment % 2 = 1
Trip   == (moment + 1) \div 2

\* Events on their way from the UART thread to the end of their treatment.
UnderWay(id) ==
  \/ uart.id = id \/ treat.ev.id = id
  \/ \E i \in DOMAIN queue : queue[i].id = id

-----------------------------------------------------------------------------
(* The UART thread: gb905_meter_parse_protocol and mcu_get_evaluate_treat.   *)
(* The message is stored first; the event is pushed in a step of its own.    *)

Receive == uart = NoEvent /\ Len(queue) < MaxQueue

\* fleety_event_push
Push ==
  /\ uart # NoEvent
  /\ queue' = Append(queue, uart) /\ uart' = NoEvent
  /\ UNCHANGED <<meter, status, globals, pre_operation, treat, sent, orderly, apart,
                 bounds>>

\* METER_COMMAND_OPERATION_OCCUPIED: gb905_meter_loading_treat.  A trip that begins
\* while nothing is under way is in order; one that begins while the end of the last
\* one has yet to be treated is not, nor is the last one.
Occupied ==
  /\ Receive /\ ~Loaded /\ Trip < MaxTrips /\ driver # NoDriver /\ asked = "none"
  /\ moment' = moment + 1 /\ loading' = TRUE
  /\ uart' = [id |-> "loading", param |-> TRUE]
  /\ orderly' = IF queue = <<>> /\ treat.pc = "idle" THEN TRUE
                ELSE orderly /\ ~UnderWay("loading")
  /\ UNCHANGED <<driver, asked, login, globals, pre_operation, queue, treat, sent,
                 apart, bounds>>

\* Mutant: the meter's data is not kept.
EmptyNoInfo ==
  /\ Receive /\ Loaded
  /\ moment' = moment + 1 /\ loading' = FALSE
  /\ uart' = [id |-> "loading", param |-> FALSE]
  /\ orderly' = (orderly /\ ~UnderWay("loading") /\ ~UnderWay("eval"))
  /\ UNCHANGED <<driver, asked, login, globals, pre_operation, queue, treat,
                 sent, apart, bounds>>

\* METER_COMMAND_OPERATION_EMPTY: gb905_meter_unloading_treat.
Empty ==
  /\ Receive /\ Loaded
  /\ moment' = moment + 1 /\ loading' = FALSE
  /\ meter_operation_info' = Trip
  /\ uart' = [id |-> "loading", param |-> FALSE]
  /\ orderly' = (orderly /\ ~UnderWay("loading") /\ ~UnderWay("eval"))
  /\ UNCHANGED <<driver, asked, login, login_info, eval_state, pre_operation, queue, treat,
                 sent, apart, bounds>>

\* METER_OPERATION_RESEND: gb905_meter_supplement_treat, an earlier trip that the
\* meter kept.  It takes the place of a trip that waits for its evaluation.
Resend(n) ==
  /\ Receive /\ resends < MaxResends /\ resends' = resends + 1
  /\ n \in 1..Trip-1
  /\ meter_operation_info' = n /\ eval_state' = EvalNone
  /\ uart' = [id |-> "supplement"]
  /\ orderly' = (orderly /\ Loaded /\ ~UnderWay("eval"))
  /\ UNCHANGED <<meter, status, login_info, pre_operation, queue, treat, sent, apart,
                 ratings, shifts, boots>>

\* mcu_get_evaluate_treat: the passenger rates the trip that has ended, in time if no
\* other has begun.
Rate(e) ==
  /\ Receive /\ ratings < MaxRatings /\ ratings' = ratings + 1
  /\ uart' = [id |-> "eval", param |-> e, trip |-> Trip]
  /\ orderly' = (orderly /\ ~Loaded)
  /\ UNCHANGED <<meter, status, globals, pre_operation, queue, treat, sent, apart,
                 resends, shifts, boots>>

\* METER_COMMAND_OPEN or _CLOSE: gb905_meter_open_close_treat asks the security module
\* for the driver, unless the car is locked (then nothing happens).
Ask ==
  /\ Receive /\ asked = "none" /\ shifts < MaxShifts /\ ~Loaded
  /\ asked' = IF driver = NoDriver THEN "open" ELSE "close"
  /\ UNCHANGED <<moment, driver, status, globals, pre_operation, uart, queue, treat,
                 sent, orderly, apart, bounds>>

\* TSM_COMMAND_DRIVER_INFO: gb905_meter_open_close_ack takes the command to confirm
\* from the login state.  The meter goes on if it is the one it asked for.
Confirm ==
  /\ asked \in {"open", "close"} /\ uart = NoEvent
  /\ asked' = IF asked = "open" /\ ~login THEN "opening"
              ELSE IF asked = "close" /\ login THEN "closing" ELSE "none"
  /\ UNCHANGED <<moment, driver, status, globals, pre_operation, uart, queue, treat,
                 sent, orderly, apart, bounds>>

\* No card in the reader, or METER_COMMAND_OPEN_SUCCESS with a result that is not OK.
NotOpened ==
  /\ asked # "none" /\ uart = NoEvent /\ asked' = "none"
  /\ UNCHANGED <<moment, driver, status, globals, pre_operation, uart, queue, treat,
                 sent, orderly, apart, bounds>>

\* METER_COMMAND_OPEN_SUCCESS: gb905_meter_open_success_treat.
OpenSuccess(d) ==
  /\ Receive /\ asked = "opening" /\ shifts < MaxShifts
  /\ asked' = "none" /\ driver' = d /\ shifts' = shifts + 1
  /\ login_info' = [login_info EXCEPT ![TRUE] = d]
  /\ uart' = [id |-> "login", param |-> TRUE, driver |-> d]
  /\ apart' = FALSE
  /\ UNCHANGED <<moment, status, meter_operation_info, eval_state, pre_operation, queue,
                 treat, sent, orderly, ratings, resends, boots>>

\* METER_COMMAND_CLOSE_SUCCESS: gb905_meter_close_success_treat.
CloseSuccess ==
  /\ Receive /\ asked = "closing"
  /\ asked' = "none" /\ driver' = NoDriver
  /\ login_info' = [login_info EXCEPT ![FALSE] = driver]
  /\ uart' = [id |-> "login", param |-> FALSE, driver |-> driver]
  /\ apart' = FALSE
  /\ UNCHANGED <<moment, status, meter_operation_info, eval_state, pre_operation, queue,
                 treat, sent, orderly, bounds>>

\* METER_OPERATION_RESEND_WHEN_CLOSE: a sign-out of earlier, treated as one of now.
ResendClose(d) ==
  /\ Receive /\ resends < MaxResends /\ resends' = resends + 1 /\ shifts > 0
  /\ login_info' = [login_info EXCEPT ![FALSE] = d]
  /\ uart' = [id |-> "login", param |-> FALSE, driver |-> d]
  /\ apart' = (driver # NoDriver)
  /\ UNCHANGED <<meter, status, meter_operation_info, eval_state, pre_operation, queue,
                 treat, sent, orderly, ratings, shifts, boots>>

-----------------------------------------------------------------------------
(* The socket thread: fleety_event_treat and the handlers it calls.          *)

Fetch ==
  /\ treat.pc = "idle" /\ queue # <<>>
  /\ treat' = [IdleTreat EXCEPT !.pc = "fetched", !.ev = Head(queue)]
  /\ queue' = Tail(queue)
  /\ UNCHANGED <<meter, status, globals, pre_operation, uart, sent, orderly, apart,
                 bounds>>

Fetched(id) == treat.pc = "fetched" /\ treat.ev.id = id

\* fleety_loading_treat: gb905_build_pre_operation(OPERATION_BEGIN or OPERATION_END).
TreatLoading ==
  /\ Fetched("loading") /\ treat' = IdleTreat
  /\ pre_operation' = IF treat.ev.param THEN [pre_operation EXCEPT !.begin = moment]
                      ELSE [pre_operation EXCEPT !.end = moment]
  /\ UNCHANGED <<meter, status, globals, uart, queue, sent, orderly, apart, bounds>>

\* METER_SUPPLEMENT_EVENT has no case in fleety_event_treat.
TreatSupplement ==
  /\ Fetched("supplement") /\ treat' = IdleTreat
  /\ UNCHANGED <<meter, status, globals, pre_operation, uart, queue, sent, orderly,
                 apart, bounds>>

\* Mutant: another field of the event is handed on.
TreatEvalOtherField ==
  /\ Fetched("eval") /\ treat' = [treat EXCEPT !.pc = "rated"]
  /\ eval_state' = treat.ev.id
  /\ UNCHANGED <<meter, status, meter_operation_info, login_info, pre_operation, uart,
                 queue, sent, orderly, apart, bounds>>

\* EVAL_EVENT: set_eval_state, then fleety_eval_treat, which has a picture taken first.
TreatEval ==
  /\ Fetched("eval") /\ treat' = [treat EXCEPT !.pc = "rated"]
  /\ eval_state' = treat.ev.param
  /\ UNCHANGED <<meter, status, meter_operation_info, login_info, pre_operation, uart,
                 queue, sent, orderly, apart, bounds>>

EvalCopy ==
  /\ treat.pc = "rated"
  /\ treat' = [treat EXCEPT !.pc = "copied", !.trip = meter_operation_info]
  /\ UNCHANGED <<meter, status, globals, pre_operation, uart, queue, sent, orderly,
                 apart, bounds>>

\* Mutant: the evaluation is left out of the record.
EvalBuildNothing ==
  /\ treat.pc = "copied" /\ treat' = [treat EXCEPT !.pc = "built"]
  /\ UNCHANGED <<meter, status, globals, pre_operation, uart, queue, sent, orderly, apart,
                 bounds>>

\* gb905_build_pre_operation(OPERATION_EVAL)
EvalBuild ==
  /\ treat.pc = "copied" /\ treat' = [treat EXCEPT !.pc = "built"]
  /\ pre_operation' = [pre_operation EXCEPT !.eval = eval_state]
  /\ UNCHANGED <<meter, status, globals, uart, queue, sent, orderly, apart, bounds>>

\* gb905_send_operate: pre_operation and the copy of the meter's data.
EvalSend ==
  /\ treat.pc = "built" /\ treat' = IdleTreat
  /\ sent' = sent \union {treat.trip}
  /\ UNCHANGED <<meter, status, globals, pre_operation, uart, queue, orderly, apart,
                 bounds>>

\* Mutant: the driver of the other message is taken.
TreatLoginOther ==
  /\ Fetched("login")
  /\ treat' = [treat EXCEPT !.pc = "told", !.driver = login_info[~treat.ev.param]]
  /\ UNCHANGED <<meter, status, globals, pre_operation, uart, queue, sent, orderly, apart,
                 bounds>>

\* fleety_login_treat: gb905_login or gb905_logout, then the login state.
TreatLogin ==
  /\ Fetched("login")
  /\ treat' = [treat EXCEPT !.pc = "told", !.driver = login_info[treat.ev.param]]
  /\ UNCHANGED <<meter, status, globals, pre_operation, uart, queue, sent, orderly, apart,
                 bounds>>

\* Mutant: both branches sign in.
LoginModeAlways ==
  /\ treat.pc = "told" /\ treat' = IdleTreat /\ login' = TRUE
  /\ UNCHANGED <<meter, loading, globals, pre_operation, uart, queue, sent, orderly,
                 apart, bounds>>

\* set_login_mode or set_logout_mode
LoginMode ==
  /\ treat.pc = "told" /\ treat' = IdleTreat /\ login' = treat.ev.param
  /\ UNCHANGED <<meter, loading, globals, pre_operation, uart, queue, sent, orderly,
                 apart, bounds>>

-----------------------------------------------------------------------------
\* Only the status file survives.  What was under way is lost.
Restart ==
  /\ boots < MaxBoots /\ boots' = boots + 1
  /\ meter_operation_info' = 0 /\ login_info' = [b \in BOOLEAN |-> NoDriver]
  /\ eval_state' = EvalNone /\ pre_operation' = NoOperation
  /\ uart' = NoEvent /\ queue' = <<>> /\ treat' = IdleTreat /\ asked' = "none"
  /\ orderly' = FALSE /\ apart' = (login # (driver # NoDriver))
  /\ UNCHANGED <<moment, driver, status, sent, ratings, resends, shifts>>

MeterMessage ==
  \/ Occupied \/ Empty \/ (\E n \in Trips : Resend(n)) \/ (\E e \in Ratings : Rate(e))
  \/ Ask \/ Confirm \/ NotOpened \/ CloseSuccess
  \/ \E d \in Drivers : OpenSuccess(d) \/ ResendClose(d)

SocketThread == \/ Fetch \/ TreatLoading \/ TreatSupplement \/ TreatEval \/ EvalCopy
                \/ EvalBuild \/ EvalSend \/ TreatLogin \/ LoginMode

Next == MeterMessage \/ Push \/ SocketThread \/ Restart

\* Both threads keep running; the meter, the passenger and the driver need not act.
Fairness == WF_vars(Push) /\ WF_vars(SocketThread)

Spec == Init /\ [][Next]_vars /\ Fairness

-----------------------------------------------------------------------------
(* Properties.                                                               *)

\* "The position when empty becomes loaded", "the position when loaded becomes empty",
\* "the evaluation" (operation_body_t): the record sent for an evaluation is that of
\* the trip rated, and begin, end and evaluation are that trip's own, even when the
\* next passenger is already in the car, as long as the trip was orderly.
RecordIsOwnTrip ==
  [][EvalSend /\ orderly =>
       LET n == treat.ev.trip
       IN  /\ treat.trip = n
           /\ pre_operation = [begin |-> 2*n-1, end |-> 2*n, eval |-> treat.ev.param]]_vars

\* A trip that has been rated in order goes to the server, unless it is disturbed on
\* the way.
RatedUnderWay(n) ==
  \E e \in {uart, treat.ev} \union {queue[i] : i \in DOMAIN queue} :
    e.id = "eval" /\ e.trip = n
RatedTripSent ==
  \A n \in Trips : RatedUnderWay(n) /\ orderly ~> n \in sent \/ ~orderly

\* A sign-in or sign-out message names the driver it is about, unless a later one has
\* already come from the meter.
LoginNamesDriver ==
  [][TreatLogin =>
       \/ treat'.driver = treat.ev.driver
       \/ uart.id = "login" \/ \E i \in DOMAIN queue : queue[i].id = "login"]_vars

\* When no sign-in event is under way, the terminal and the meter agree on whether a
\* driver is signed in: only then does gb905_meter_open_close_ack, which looks at the
\* terminal's state, confirm what the meter asked for.
InStep == ~apart /\ ~UnderWay("login") => login = (driver # NoDriver)
=============================================================================
