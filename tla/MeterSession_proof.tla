--------------------------- MODULE MeterSession_proof ---------------------------
(* Proofs about MeterSession: its type, the agreement of terminal and meter   *)
(* on who is signed in, the driver a sign-in message names, and the trip an   *)
(* operation record is about.                                                 *)
(*                                                                            *)
(* All of them speak of the events under way: the one being treated, those in *)
(* the queue and the one the UART thread has yet to push.  They are numbered  *)
(* by age, and each action changes that line of events in one of four ways:   *)
(* one enters, all move up, one has been treated, or nothing happens to it.   *)
EXTENDS MeterSession, TLAPS

Ages  == 0..Len(queue)+1
Ev(i) == IF i = 0 THEN treat.ev ELSE IF i = Len(queue) + 1 THEN uart ELSE queue[i]
None(id) == \A i \in Ages : Ev(i).id # id

\* A thread that is idle treats nothing.
IdleHasNoEvent == treat.pc = "idle" => treat.ev = NoEvent

\* The meter asks to sign out the driver it has.
ClosesDriver == asked \in {"close", "closing"} => driver # NoDriver

-----------------------------------------------------------------------------
(* The type.                                                                 *)

LEMMA NoEventIsNone == NoEvent.id = "none" /\ NoEvent \notin Event
  BY DEF NoEvent, Event

LEMMA EventIds ==
  ASSUME NEW e \in Event
  PROVE  /\ e.id \in {"loading", "eval", "login", "supplement"}
         /\ e.id = "loading" => e.param \in BOOLEAN
         /\ e.id = "eval" => e.param \in Evals /\ e.trip \in {0} \union Trips
         /\ e.id = "login" => e.param \in BOOLEAN /\ e.driver \in Drivers
  BY DEF Event

\* Where no trip is under way, the trip is the one that ended last, 0 at first.
LEMMA TripNumber ==
  ASSUME SessionAssumption, moment \in Moments
  PROVE  /\ moment \in Nat /\ Trip \in Nat /\ Trip <= MaxTrips
         /\ Loaded => moment = 2*Trip - 1 /\ Trip >= 1
         /\ ~Loaded => moment = 2*Trip
  BY SMT DEF SessionAssumption, Moments, Loaded, Trip

\* The type in two parts: the line of events, and everything else.
LineType ==
  /\ uart \in Event \union {NoEvent} /\ queue \in Seq(Event)
  /\ treat \in [pc : {"idle", "fetched", "rated", "copied", "built", "told"},
                ev : Event \union {NoEvent}, trip : {0} \union Trips,
                driver : Drivers \union {NoDriver}]
  /\ treat.pc # "idle" => treat.ev \in Event
  /\ treat.pc \in {"rated", "copied", "built"} => treat.ev.id = "eval"
  /\ treat.pc = "told" => treat.ev.id = "login"
StoreType ==
  /\ moment \in Moments /\ driver \in Drivers \union {NoDriver}
  /\ asked \in {"none", "open", "close", "opening", "closing"}
  /\ loading \in BOOLEAN /\ login \in BOOLEAN
  /\ meter_operation_info \in {0} \union Trips
  /\ login_info \in [BOOLEAN -> Drivers \union {NoDriver}]
  /\ eval_state \in Evals /\ pre_operation \in Operation
  /\ sent \subseteq {0} \union Trips
  /\ orderly \in BOOLEAN /\ apart \in BOOLEAN
  /\ ratings \in 0..MaxRatings /\ resends \in 0..MaxResends
  /\ shifts \in 0..MaxShifts /\ boots \in 0..MaxBoots

LEMMA TypeParts == TypeOK <=> LineType /\ StoreType
  BY DEF TypeOK, LineType, StoreType

LEMMA IdleType ==
  /\ IdleTreat \in [pc : {"idle", "fetched", "rated", "copied", "built", "told"},
                    ev : Event \union {NoEvent}, trip : {0} \union Trips,
                    driver : Drivers \union {NoDriver}]
  /\ IdleTreat.pc = "idle" /\ IdleTreat.ev = NoEvent
  BY DEF IdleTreat

LEMMA InitType ==
  ASSUME SessionAssumption, Init
  PROVE  LineType /\ StoreType /\ IdleHasNoEvent
  <1>1. NoOperation \in Operation
    BY DEF SessionAssumption, NoOperation, Operation, Moments, Evals
  <1>2. LineType /\ IdleHasNoEvent
    BY IdleType DEF Init, LineType, IdleHasNoEvent
  <1>3. login_info \in [BOOLEAN -> Drivers \union {NoDriver}]
    BY DEF Init
  <1>4. moment \in Moments /\ eval_state \in Evals /\ shifts \in 0..MaxShifts
        /\ ratings \in 0..MaxRatings /\ resends \in 0..MaxResends /\ boots \in 0..MaxBoots
    BY DEF SessionAssumption, Init, Moments, Evals
  <1>5. StoreType
    BY <1>1, <1>3, <1>4 DEF Init, StoreType
  <1> QED  BY <1>2, <1>5

\* The four ways the line of events changes, and a restart.
Enters(e) == uart = NoEvent /\ uart' = e /\ UNCHANGED <<queue, treat>>
Treated   == treat.pc # "idle" /\ treat' = IdleTreat /\ UNCHANGED <<uart, queue>>
Worked    == /\ treat.pc # "idle" /\ treat'.pc # "idle" /\ treat'.ev = treat.ev
             /\ UNCHANGED <<uart, queue>>
Same      == UNCHANGED <<uart, queue, treat>>
Emptied   == uart' = NoEvent /\ queue' = <<>> /\ treat' = IdleTreat

\* The messages that come without an event.
Quiet == Ask \/ Confirm \/ NotOpened

\* A message of the meter and the event it leaves.
LEMMA MessageLine ==
  /\ Occupied => Enters([id |-> "loading", param |-> TRUE])
  /\ Empty => Enters([id |-> "loading", param |-> FALSE])
  /\ \A n \in Trips : Resend(n) => Enters([id |-> "supplement"])
  /\ \A e \in Ratings : Rate(e) => Enters([id |-> "eval", param |-> e, trip |-> Trip])
  /\ \A d \in Drivers :
       /\ OpenSuccess(d) => Enters([id |-> "login", param |-> TRUE, driver |-> d])
       /\ ResendClose(d) => Enters([id |-> "login", param |-> FALSE, driver |-> d])
  /\ CloseSuccess => Enters([id |-> "login", param |-> FALSE, driver |-> driver])
  /\ Quiet => Same
  BY DEF Enters, Receive, Occupied, Empty, Resend, Rate, OpenSuccess, ResendClose,
         CloseSuccess, Quiet, Ask, Confirm, NotOpened, Same

\* What the socket thread does to the line, and that each step it takes is well-typed.
LEMMA WorkLine ==
  ASSUME LineType, StoreType
  PROVE  /\ TreatLoading \/ TreatSupplement \/ EvalSend \/ LoginMode => Treated
         /\ TreatEval \/ EvalCopy \/ EvalBuild \/ TreatLogin => Worked /\ LineType'
         /\ Restart => Emptied
  <1>1. TreatLoading \/ TreatSupplement \/ EvalSend \/ LoginMode => Treated
    BY DEF TreatLoading, TreatSupplement, EvalSend, LoginMode, Treated, Fetched
  <1>2. Restart => Emptied
    BY DEF Restart, Emptied
  <1>3. ASSUME TreatEval
        PROVE  Worked /\ LineType'
    BY <1>3 DEF TreatEval, Fetched, Worked, LineType
  <1>4. ASSUME EvalCopy
        PROVE  Worked /\ LineType'
    BY <1>4 DEF EvalCopy, Worked, LineType, StoreType
  <1>5. ASSUME EvalBuild
        PROVE  Worked /\ LineType'
    BY <1>5 DEF EvalBuild, Worked, LineType
  <1>6. ASSUME TreatLogin
        PROVE  Worked /\ LineType'
    <2>1. treat.ev \in Event /\ treat.ev.param \in BOOLEAN
      BY <1>6, EventIds DEF TreatLogin, Fetched, LineType
    <2>2. login_info[treat.ev.param] \in Drivers \union {NoDriver}
      BY <2>1 DEF StoreType
    <2> QED  BY <1>6, <2>2 DEF TreatLogin, Fetched, Worked, LineType
  <1> QED  BY <1>1, <1>2, <1>3, <1>4, <1>5, <1>6

LEMMA PushLine ==
  ASSUME LineType, Push
  PROVE  LineType' /\ queue' = Append(queue, uart) /\ Len(queue') = Len(queue) + 1
  BY DEF Push, LineType

LEMMA FetchLine ==
  ASSUME LineType, Fetch
  PROVE  /\ LineType' /\ queue' = Tail(queue) /\ Len(queue') = Len(queue) - 1
         /\ Len(queue) > 0 /\ treat'.ev = queue[1] /\ treat'.pc # "idle"
  <1>1. queue # <<>> /\ queue \in Seq(Event) /\ treat.pc = "idle"
    BY DEF Fetch, LineType
  <1>2. Len(queue) > 0 /\ Head(queue) = queue[1] /\ Head(queue) \in Event
        /\ Tail(queue) \in Seq(Event) /\ Len(Tail(queue)) = Len(queue) - 1
    BY <1>1
  <1>3. treat' = [IdleTreat EXCEPT !.pc = "fetched", !.ev = queue[1]]
    BY <1>2 DEF Fetch
  <1>4. /\ treat' \in [pc : {"idle", "fetched", "rated", "copied", "built", "told"},
                       ev : Event \union {NoEvent}, trip : {0} \union Trips,
                       driver : Drivers \union {NoDriver}]
        /\ treat'.pc = "fetched" /\ treat'.ev = queue[1]
    BY <1>2, <1>3 DEF IdleTreat
  <1> QED  BY <1>2, <1>4 DEF Fetch, LineType

\* The trips that have been, or are under way.
LEMMA TripTyped ==
  ASSUME SessionAssumption, moment \in Moments
  PROVE  Trip \in {0} \union Trips
  BY TripNumber DEF SessionAssumption, Trips

LEMMA LineStep ==
  ASSUME SessionAssumption, LineType, StoreType, IdleHasNoEvent, ClosesDriver,
         [Next]_vars
  PROVE  LineType' /\ IdleHasNoEvent'
  <1>1. ASSUME NEW e \in Event, Enters(e)
        PROVE  LineType' /\ IdleHasNoEvent'
    <2>1. uart' \in Event \union {NoEvent} /\ queue' = queue /\ treat' = treat
      BY <1>1 DEF Enters
    <2> QED  BY <2>1 DEF LineType, IdleHasNoEvent
  <1>2. ASSUME Treated \/ Emptied
        PROVE  LineType' /\ IdleHasNoEvent'
    <2>1. treat' = IdleTreat /\ queue' \in Seq(Event) /\ uart' \in Event \union {NoEvent}
      <3>1. CASE Treated
        BY <3>1 DEF Treated, LineType
      <3>2. CASE Emptied
        BY <3>2 DEF Emptied
      <3> QED  BY <1>2, <3>1, <3>2
    <2> QED  BY <2>1, IdleType DEF LineType, IdleHasNoEvent
  <1>3. ASSUME Same
        PROVE  LineType' /\ IdleHasNoEvent'
    BY <1>3 DEF Same, LineType, IdleHasNoEvent
  <1>4. CASE Push
    BY <1>4, PushLine DEF Push, IdleHasNoEvent
  <1>5. CASE Fetch
    BY <1>5, FetchLine DEF IdleHasNoEvent
  <1>6. CASE Occupied \/ Empty
    <2>1. /\ [id |-> "loading", param |-> TRUE] \in Event
          /\ [id |-> "loading", param |-> FALSE] \in Event
      BY DEF Event
    <2> QED  BY <1>1, <1>6, <2>1, MessageLine
  <1>7. ASSUME NEW n \in Trips, Resend(n)
        PROVE  LineType' /\ IdleHasNoEvent'
    <2>1. [id |-> "supplement"] \in Event
      BY DEF Event
    <2> QED  BY <1>1, <1>7, <2>1, MessageLine
  <1>8. ASSUME NEW e \in Ratings, Rate(e)
        PROVE  LineType' /\ IdleHasNoEvent'
    <2>1. [id |-> "eval", param |-> e, trip |-> Trip] \in Event
      BY TripTyped DEF Event, Evals, StoreType
    <2> QED  BY <1>1, <1>8, <2>1, MessageLine
  <1>9. ASSUME NEW d \in Drivers, OpenSuccess(d) \/ ResendClose(d)
        PROVE  LineType' /\ IdleHasNoEvent'
    <2>1. /\ [id |-> "login", param |-> TRUE, driver |-> d] \in Event
          /\ [id |-> "login", param |-> FALSE, driver |-> d] \in Event
      BY DEF Event
    <2> QED  BY <1>1, <1>9, <2>1, MessageLine
  <1>10. CASE CloseSuccess
    <2>1. driver \in Drivers
      BY <1>10 DEF StoreType, CloseSuccess, ClosesDriver
    <2>2. [id |-> "login", param |-> FALSE, driver |-> driver] \in Event
      BY <2>1 DEF Event
    <2> QED  BY <1>1, <1>10, <2>2, MessageLine
  <1>11. CASE Ask \/ Confirm \/ NotOpened \/ UNCHANGED vars
    BY <1>3, <1>11, MessageLine DEF Quiet, Same, vars
  <1>12. CASE TreatLoading \/ TreatSupplement \/ EvalSend \/ LoginMode \/ Restart
    BY <1>2, <1>12, WorkLine
  <1>13. CASE TreatEval \/ EvalCopy \/ EvalBuild \/ TreatLogin
    BY <1>13, WorkLine DEF Worked, IdleHasNoEvent
  <1> QED
    BY <1>4, <1>5, <1>6, <1>7, <1>8, <1>9, <1>10, <1>11, <1>12, <1>13
    DEF Next, MeterMessage, SocketThread

LEMMA StoreStep ==
  ASSUME SessionAssumption, LineType, StoreType, ClosesDriver, [Next]_vars
  PROVE  StoreType' /\ ClosesDriver'
  <1> USE DEF status, globals, bounds, meter
  <1>1. CASE Push \/ Fetch \/ TreatSupplement \/ UNCHANGED vars
    BY <1>1 DEF Push, Fetch, TreatSupplement, vars, StoreType, ClosesDriver
  <1>2. CASE Occupied
    <2>1. moment + 1 \in Moments
      BY <1>2, TripNumber DEF Occupied, StoreType, Moments, SessionAssumption
    <2> QED  BY <1>2, <2>1 DEF Occupied, StoreType, ClosesDriver
  <1>3. CASE Empty
    <2>1. moment + 1 \in Moments /\ Trip \in {0} \union Trips
      BY <1>3, TripNumber, TripTyped DEF Empty, StoreType, Moments, SessionAssumption
    <2> QED  BY <1>3, <2>1 DEF Empty, StoreType, ClosesDriver
  <1>4. ASSUME NEW n \in Trips, Resend(n)
        PROVE  StoreType' /\ ClosesDriver'
    <2>1. resends + 1 \in 0..MaxResends /\ EvalNone \in Evals
      BY <1>4 DEF Resend, StoreType, Evals, SessionAssumption
    <2> QED  BY <1>4, <2>1 DEF Resend, StoreType, ClosesDriver
  <1>5. ASSUME NEW e \in Ratings, Rate(e)
        PROVE  StoreType' /\ ClosesDriver'
    <2>1. ratings + 1 \in 0..MaxRatings
      BY <1>5 DEF Rate, StoreType, SessionAssumption
    <2> QED  BY <1>5, <2>1 DEF Rate, StoreType, ClosesDriver
  <1>6. CASE Quiet
    BY <1>6 DEF Quiet, Ask, Confirm, NotOpened, StoreType, ClosesDriver
  <1>7. ASSUME NEW d \in Drivers, OpenSuccess(d) \/ ResendClose(d)
        PROVE  StoreType' /\ ClosesDriver'
    <2>1. [login_info EXCEPT ![TRUE] = d] \in [BOOLEAN -> Drivers \union {NoDriver}]
          /\ [login_info EXCEPT ![FALSE] = d] \in [BOOLEAN -> Drivers \union {NoDriver}]
      BY DEF StoreType
    <2>2. CASE OpenSuccess(d)
      <3>1. shifts + 1 \in 0..MaxShifts
        <4>1. shifts < MaxShifts /\ shifts \in 0..MaxShifts /\ MaxShifts \in Nat
          BY <2>2 DEF OpenSuccess, StoreType, SessionAssumption
        <4> QED  BY <4>1
      <3>2. /\ login_info' \in [BOOLEAN -> Drivers \union {NoDriver}]
            /\ driver' \in Drivers /\ asked' = "none" /\ apart' = FALSE
            /\ shifts' \in 0..MaxShifts
        BY <2>1, <2>2, <3>1 DEF OpenSuccess
      <3> QED  BY <2>2, <3>2 DEF OpenSuccess, StoreType, ClosesDriver
    <2>3. CASE ResendClose(d)
      <3>1. resends + 1 \in 0..MaxResends
        BY <2>3 DEF ResendClose, StoreType, SessionAssumption
      <3> QED  BY <2>1, <2>3, <3>1 DEF ResendClose, StoreType, ClosesDriver
    <2> QED  BY <1>7, <2>2, <2>3
  <1>8. CASE CloseSuccess
    <2>1. [login_info EXCEPT ![FALSE] = driver] \in [BOOLEAN -> Drivers \union {NoDriver}]
      BY DEF StoreType
    <2> QED  BY <1>8, <2>1 DEF CloseSuccess, StoreType, ClosesDriver
  <1>9. CASE TreatLoading
    <2>1. /\ [pre_operation EXCEPT !.begin = moment] \in Operation
          /\ [pre_operation EXCEPT !.end = moment] \in Operation
      BY DEF StoreType, Operation
    <2> QED  BY <1>9, <2>1 DEF TreatLoading, StoreType, ClosesDriver
  <1>10. CASE TreatEval
    <2>1. treat.ev \in Event /\ treat.ev.id = "eval"
      BY <1>10 DEF TreatEval, Fetched, LineType
    <2>2. treat.ev.param \in Evals
      BY <2>1, EventIds
    <2> QED  BY <1>10, <2>2 DEF TreatEval, StoreType, ClosesDriver
  <1>11. CASE EvalBuild
    <2>1. pre_operation' \in Operation
      BY <1>11 DEF EvalBuild, StoreType, Operation
    <2> QED  BY <1>11, <2>1 DEF EvalBuild, StoreType, ClosesDriver
  <1>12. CASE EvalCopy \/ TreatLogin
    BY <1>12 DEF EvalCopy, TreatLogin, StoreType, ClosesDriver
  <1>13. CASE EvalSend
    BY <1>13 DEF EvalSend, StoreType, LineType, ClosesDriver
  <1>14. CASE LoginMode
    <2>1. treat.ev \in Event /\ treat.ev.id = "login"
      BY <1>14 DEF LoginMode, LineType
    <2>2. treat.ev.param \in BOOLEAN
      BY <2>1, EventIds
    <2> QED  BY <1>14, <2>2 DEF LoginMode, StoreType, ClosesDriver
  <1>15. CASE Restart
    <2>1. NoOperation \in Operation /\ EvalNone \in Evals
      BY DEF SessionAssumption, NoOperation, Operation, Moments, Evals
    <2>2. boots + 1 \in 0..MaxBoots
      BY <1>15 DEF Restart, StoreType, SessionAssumption
    <2>3. [b \in BOOLEAN |-> NoDriver] \in [BOOLEAN -> Drivers \union {NoDriver}]
      OBVIOUS
    <2> QED  BY <1>15, <2>1, <2>2, <2>3 DEF Restart, StoreType, ClosesDriver
  <1> QED
    BY <1>1, <1>2, <1>3, <1>4, <1>5, <1>6, <1>7, <1>8, <1>9, <1>10, <1>11, <1>12, <1>13,
       <1>14, <1>15
    DEF Next, MeterMessage, SocketThread, Quiet

TypeInv == LineType /\ StoreType /\ IdleHasNoEvent /\ ClosesDriver

LEMMA TypeStep ==
  ASSUME SessionAssumption, TypeInv, [Next]_vars
  PROVE  TypeInv'
  BY LineStep, StoreStep DEF TypeInv

\* The variables keep their types: above all, only a sign-in or sign-out is treated as
\* one, and an evaluation stays one over all steps of its treatment (TypeOK).
THEOREM MeterTypeCorrect == Spec => []TypeOK
  <1>1. Init => TypeInv
    <2> SUFFICES ASSUME Init PROVE TypeInv
      OBVIOUS
    <2>1. ClosesDriver
      BY DEF Init, ClosesDriver
    <2> QED  BY <2>1, InitType, SessionAssumption DEF TypeInv
  <1>2. TypeInv /\ [Next]_vars => TypeInv'
    BY TypeStep, SessionAssumption
  <1>3. TypeInv => TypeOK
    BY TypeParts DEF TypeInv
  <1> QED  BY <1>1, <1>2, <1>3, PTL DEF Spec

-----------------------------------------------------------------------------
(* The line of events, by age.                                               *)

\* What each way of changing the line does to the events at each age.
LEMMA EventsTyped ==
  ASSUME LineType, NEW i \in Ages
  PROVE  Ev(i) \in Event \union {NoEvent}
  <1>1. Len(queue) \in Nat /\ i \in Int /\ 0 <= i /\ i <= Len(queue) + 1
    BY DEF LineType, Ages
  <1>2. i # 0 /\ i # Len(queue) + 1 => queue[i] \in Event
    BY <1>1 DEF LineType
  <1> QED  BY <1>2 DEF Ev, LineType

LEMMA SameEvents ==
  ASSUME Worked \/ Same
  PROVE  Ages' = Ages /\ \A i \in Ages : Ev(i)' = Ev(i)
  <1>1. uart' = uart /\ queue' = queue /\ treat'.ev = treat.ev
    BY DEF Worked, Same
  <1> QED  BY <1>1 DEF Ages, Ev

LEMMA EnteredEvents ==
  ASSUME LineType, NEW e, Enters(e)
  PROVE  /\ Ages' = Ages /\ Len(queue) + 1 \in Ages
         /\ \A i \in Ages : i <= Len(queue) + 1
         /\ Ev(Len(queue) + 1) = NoEvent
         /\ \A i \in Ages : Ev(i)' = IF i = Len(queue) + 1 THEN e ELSE Ev(i)
  <1>1. uart = NoEvent /\ uart' = e /\ queue' = queue /\ treat' = treat
    BY DEF Enters
  <1>2. Len(queue) \in Nat
    BY DEF LineType
  <1> QED  BY <1>1, <1>2 DEF Ages, Ev

LEMMA TreatedEvents ==
  ASSUME LineType, Treated
  PROVE  /\ Ages' = Ages /\ 0 \in Ages /\ Ev(0) = treat.ev
         /\ \A i \in Ages : Ev(i)' = IF i = 0 THEN NoEvent ELSE Ev(i)
  <1>1. uart' = uart /\ queue' = queue /\ treat'.ev = NoEvent
    BY IdleType DEF Treated
  <1>2. Len(queue) \in Nat
    BY DEF LineType
  <1> QED  BY <1>1, <1>2 DEF Ages, Ev

LEMMA NoEvents ==
  ASSUME Emptied
  PROVE  \A i \in Ages' : Ev(i)' = NoEvent
  <1>1. uart' = NoEvent /\ Len(queue') = 0 /\ treat'.ev = NoEvent
    BY IdleType DEF Emptied
  <1>2. Ages' = 0..1
    BY <1>1 DEF Ages
  <1> QED  BY <1>1, <1>2 DEF Ev

\* Push and Fetch: the events keep their order, and none is lost or made.
LEMMA MovedEvents ==
  ASSUME LineType, IdleHasNoEvent, Push \/ Fetch
  PROVE  \E k \in {0, 1} :
           /\ \A i \in Ages' : Ev(i)' = NoEvent \/ (i + k \in Ages /\ Ev(i)' = Ev(i + k))
           /\ \A j \in Ages : Ev(j) = NoEvent \/ (j - k \in Ages' /\ Ev(j - k)' = Ev(j))
  <1>0. queue \in Seq(Event) /\ Len(queue) \in Nat
    BY DEF LineType
  <1>1. CASE Push
    <2>1. /\ queue' = Append(queue, uart) /\ Len(queue') = Len(queue) + 1
          /\ uart' = NoEvent /\ treat' = treat /\ uart \in Event
      BY <1>1, PushLine DEF Push, LineType
    <2>2. /\ \A i \in 1..Len(queue) : queue'[i] = queue[i]
          /\ queue'[Len(queue) + 1] = uart
      BY <1>0, <2>1
    <2>3. \A i \in Ages : i \in Ages' /\ Ev(i)' = Ev(i)
      BY <1>0, <2>1, <2>2 DEF Ages, Ev
    <2>4. \A i \in Ages' : Ev(i)' = NoEvent \/ i \in Ages
      BY <1>0, <2>1 DEF Ages, Ev
    <2>5. \A i \in Ages \union Ages' : i + 0 = i /\ i - 0 = i
      BY <1>0, <2>1 DEF Ages
    <2> WITNESS 0 \in {0, 1}
    <2> HIDE DEF Ages, Ev
    <2> QED  BY <2>3, <2>4, <2>5
  <1>2. CASE Fetch
    <2>1. /\ queue' = Tail(queue) /\ Len(queue') = Len(queue) - 1 /\ Len(queue) > 0
          /\ uart' = uart /\ treat'.ev = queue[1] /\ treat.ev = NoEvent
      BY <1>2, FetchLine DEF Fetch, IdleHasNoEvent
    <2>2. \A i \in 1..Len(queue) - 1 : queue'[i] = queue[i + 1]
      BY <1>0, <2>1
    <2>3. \A i \in Ages' : i + 1 \in Ages /\ Ev(i)' = Ev(i + 1)
      BY <1>0, <2>1, <2>2 DEF Ages, Ev
    <2>4. \A j \in Ages : Ev(j) = NoEvent \/ (j - 1 \in Ages' /\ Ev(j - 1)' = Ev(j))
      BY <1>0, <2>1, <2>2 DEF Ages, Ev
    <2> WITNESS 1 \in {0, 1}
    <2> QED  BY <2>3, <2>4
  <1> QED  BY <1>1, <1>2

LEMMA AgesAreIntegers ==
  ASSUME LineType
  PROVE  Ages \subseteq Int
  BY DEF LineType, Ages

\* A step keeps the events of the kinds ids, in their order: all move up by k.
Kept(ids, k) ==
  /\ \A i \in Ages' : Ev(i)'.id \notin ids \/ (i + k \in Ages /\ Ev(i)' = Ev(i + k))
  /\ \A j \in Ages : Ev(j).id \notin ids \/ (j - k \in Ages' /\ Ev(j - k)' = Ev(j))

LEMMA KeptInPlace ==
  ASSUME LineType, NEW ids, Ages' = Ages,
         \A i \in Ages : Ev(i)' = Ev(i) \/ (Ev(i)'.id \notin ids /\ Ev(i).id \notin ids)
  PROVE  \E k \in {0, 1} : Kept(ids, k)
  <1>1. \A i \in Ages : i + 0 = i /\ i - 0 = i
    BY AgesAreIntegers
  <1>2. Kept(ids, 0)
    BY <1>1 DEF Kept
  <1> QED  BY <1>2

\* All steps keep them but those that let one of them in, end the treatment of one, or
\* restart.
LEMMA KeptByStep ==
  ASSUME LineType, IdleHasNoEvent, NEW ids, "none" \notin ids,
         \/ Push \/ Fetch \/ Same \/ Worked
         \/ \E e : Enters(e) /\ e.id \notin ids
         \/ Treated /\ treat.ev.id \notin ids
  PROVE  \E k \in {0, 1} : Kept(ids, k)
  <1>1. CASE Push \/ Fetch
    BY <1>1, MovedEvents, NoEventIsNone DEF Kept
  <1>2. CASE Same \/ Worked
    BY <1>2, SameEvents, KeptInPlace
  <1>3. ASSUME NEW e, Enters(e), e.id \notin ids
        PROVE  \E k \in {0, 1} : Kept(ids, k)
    BY <1>3, EnteredEvents, NoEventIsNone, KeptInPlace
  <1>4. CASE Treated /\ treat.ev.id \notin ids
    BY <1>4, TreatedEvents, NoEventIsNone, KeptInPlace
  <1> QED  BY <1>1, <1>2, <1>3, <1>4

\* The same by action.
LEMMA KeptByAction ==
  ASSUME LineType, StoreType, IdleHasNoEvent, NEW ids, "none" \notin ids
  PROVE  /\ \/ Push \/ Fetch \/ Quiet \/ UNCHANGED vars
            \/ TreatEval \/ EvalCopy \/ EvalBuild \/ TreatLogin
            => \E k \in {0, 1} : Kept(ids, k)
         /\ "loading" \notin ids /\ (Occupied \/ Empty \/ TreatLoading)
            => \E k \in {0, 1} : Kept(ids, k)
         /\ "eval" \notin ids /\ (EvalSend \/ \E e \in Ratings : Rate(e))
            => \E k \in {0, 1} : Kept(ids, k)
         /\ "supplement" \notin ids /\ (TreatSupplement \/ \E n \in Trips : Resend(n))
            => \E k \in {0, 1} : Kept(ids, k)
         /\ "login" \notin ids
            /\ \/ LoginMode \/ CloseSuccess
               \/ \E d \in Drivers : OpenSuccess(d) \/ ResendClose(d)
            => \E k \in {0, 1} : Kept(ids, k)
  <1>1. Quiet \/ UNCHANGED vars => Same
    BY MessageLine DEF Same, vars
  <1>2. /\ TreatLoading => Treated /\ treat.ev.id = "loading"
        /\ TreatSupplement => Treated /\ treat.ev.id = "supplement"
        /\ EvalSend => Treated /\ treat.ev.id = "eval"
        /\ LoginMode => Treated /\ treat.ev.id = "login"
    BY WorkLine DEF TreatLoading, TreatSupplement, EvalSend, LoginMode, Fetched, LineType
  <1>3. TreatEval \/ EvalCopy \/ EvalBuild \/ TreatLogin => Worked
    BY WorkLine
  <1>4. Occupied \/ Empty => \E e : Enters(e) /\ e.id = "loading"
    BY MessageLine
  <1>5. (\E r \in Ratings : Rate(r)) => \E e : Enters(e) /\ e.id = "eval"
    <2> SUFFICES ASSUME NEW r \in Ratings, Rate(r)
                 PROVE  \E e : Enters(e) /\ e.id = "eval"
      OBVIOUS
    <2> WITNESS [id |-> "eval", param |-> r, trip |-> Trip]
    <2> QED  BY MessageLine
  <1>6. (\E n \in Trips : Resend(n)) => \E e : Enters(e) /\ e.id = "supplement"
    <2>1. [id |-> "supplement"].id = "supplement"
      OBVIOUS
    <2> QED  BY <2>1, MessageLine
  <1>7. CloseSuccess \/ (\E d \in Drivers : OpenSuccess(d) \/ ResendClose(d))
          => \E e : Enters(e) /\ e.id = "login"
    <2>1. \A b, d : Enters([id |-> "login", param |-> b, driver |-> d])
                    => \E e : Enters(e) /\ e.id = "login"
      <3> TAKE b, d
      <3> DEFINE f == [id |-> "login", param |-> b, driver |-> d]
      <3>1. f.id = "login"
        OBVIOUS
      <3> HIDE DEF f
      <3>2. Enters(f) => \E e : Enters(e) /\ e.id = "login"
        BY <3>1
      <3> QED  BY <3>2 DEF f
    <2> QED  BY <2>1, MessageLine
  <1>8. /\ \/ Push \/ Fetch \/ Quiet \/ UNCHANGED vars
           \/ TreatEval \/ EvalCopy \/ EvalBuild \/ TreatLogin
           => \E k \in {0, 1} : Kept(ids, k)
    BY <1>1, <1>3, KeptByStep
  <1>9. "loading" \notin ids /\ (Occupied \/ Empty \/ TreatLoading)
          => \E k \in {0, 1} : Kept(ids, k)
    BY <1>2, <1>4, KeptByStep
  <1>10. "eval" \notin ids /\ (EvalSend \/ \E e \in Ratings : Rate(e))
           => \E k \in {0, 1} : Kept(ids, k)
    BY <1>2, <1>5, KeptByStep
  <1>11. "supplement" \notin ids /\ (TreatSupplement \/ \E n \in Trips : Resend(n))
           => \E k \in {0, 1} : Kept(ids, k)
    BY <1>2, <1>6, KeptByStep
  <1>12. "login" \notin ids
         /\ \/ LoginMode \/ CloseSuccess
            \/ \E d \in Drivers : OpenSuccess(d) \/ ResendClose(d)
         => \E k \in {0, 1} : Kept(ids, k)
    BY <1>2, <1>7, KeptByStep
  <1> QED  BY <1>8, <1>9, <1>10, <1>11, <1>12

-----------------------------------------------------------------------------
(* Who is signed in.                                                         *)

SignedIn == driver # NoDriver

\* No later sign-in event is under way.
Last(i) == \A j \in Ages : j > i => Ev(j).id # "login"

\* The newest sign-in event under way says what the meter says, and if there is none
\* the terminal does.
LoginInv ==
  ~apart => /\ \A i \in Ages : Ev(i).id = "login" /\ Last(i) => Ev(i).param = SignedIn
            /\ None("login") => login = SignedIn

\* A step that leaves the sign-in events in their order, and who is signed in.
LEMMA LoginKept ==
  ASSUME LoginInv, Ages \subseteq Int, Ages' \subseteq Int, NEW k \in {0, 1},
         Kept({"login"}, k), UNCHANGED <<driver, login, apart>>
  PROVE  LoginInv'
  <1>0. /\ \A i \in Ages' : Ev(i)'.id # "login" \/ (i + k \in Ages /\ Ev(i)' = Ev(i + k))
        /\ \A j \in Ages : Ev(j).id # "login" \/ (j - k \in Ages' /\ Ev(j - k)' = Ev(j))
    BY DEF Kept
  <1> SUFFICES ASSUME ~apart
               PROVE  /\ \A i \in Ages' : Ev(i)'.id = "login" /\ Last(i)' =>
                           Ev(i)'.param = SignedIn'
                      /\ None("login")' => login' = SignedIn'
    BY DEF LoginInv
  <1>1. SignedIn' = SignedIn
    BY DEF SignedIn
  <1>2. ASSUME NEW i \in Ages', Ev(i)'.id = "login", Last(i)'
        PROVE  Ev(i)'.param = SignedIn'
    <2>1. i + k \in Ages /\ Ev(i)' = Ev(i + k)
      BY <1>0, <1>2
    <2>2. ASSUME NEW j \in Ages, j > i + k, Ev(j).id = "login"
          PROVE  FALSE
      <3>1. j - k \in Ages' /\ Ev(j - k)' = Ev(j)
        BY <1>0, <2>2
      <3>2. j - k > i
        BY <2>2
      <3> QED  BY <1>2, <2>2, <3>1, <3>2 DEF Last
    <2>3. Last(i + k)
      BY <2>2 DEF Last
    <2> QED  BY <1>1, <1>2, <2>1, <2>3 DEF LoginInv
  <1>3. ASSUME None("login")'
        PROVE  login' = SignedIn'
    <2>1. None("login")
      BY <1>0, <1>3 DEF None
    <2> QED  BY <1>1, <2>1 DEF LoginInv
  <1> QED  BY <1>2, <1>3

\* The meter reports a sign-in or a sign-out that agrees with what it shows.
LEMMA LoginEntered ==
  ASSUME LoginInv, LineType, NEW d, NEW b \in BOOLEAN,
         Enters([id |-> "login", param |-> b, driver |-> d]),
         apart' \/ (b <=> SignedIn')
  PROVE  LoginInv'
  <1>0. PICK n \in Ages : n = Len(queue) + 1
    BY EnteredEvents
  <1>1. /\ Ages' = Ages /\ Ages \subseteq Int
        /\ Ev(n)'.id = "login" /\ Ev(n)'.param = b
        /\ \A i \in Ages : i <= n
    BY <1>0, EnteredEvents, AgesAreIntegers
  <1>2. ~None("login")'
    BY <1>1 DEF None
  <1>3. ASSUME NEW i \in Ages', Last(i)'
        PROVE  i = n
    <2>1. i <= n /\ ~(n > i)
      BY <1>1, <1>3 DEF Last
    <2> QED  BY <1>1, <2>1
  <1>4. ~apart' => \A i \in Ages' : Ev(i)'.id = "login" /\ Last(i)' =>
                      Ev(i)'.param = SignedIn'
    <2>1. SignedIn' \in BOOLEAN
      BY DEF SignedIn
    <2>2. ~apart' => b = SignedIn'
      BY <2>1
    <2> QED  BY <1>1, <1>3, <2>2
  <1> QED  BY <1>2, <1>4 DEF LoginInv

LEMMA LoginStep ==
  ASSUME SessionAssumption, TypeInv, LoginInv, [Next]_vars
  PROVE  LoginInv'
  <1>0. /\ LineType /\ StoreType /\ IdleHasNoEvent /\ ClosesDriver
        /\ Ages \subseteq Int /\ LineType' /\ Ages' \subseteq Int
    <2>1. LineType /\ StoreType /\ IdleHasNoEvent /\ ClosesDriver /\ LineType'
      BY TypeStep DEF TypeInv
    <2>2. Ages \subseteq Int /\ Ages' \subseteq Int
      BY <2>1 DEF LineType, Ages
    <2> QED  BY <2>1, <2>2
  <1>1. CASE \/ Push \/ Fetch \/ Quiet \/ UNCHANGED vars \/ Occupied \/ Empty
             \/ (\E n \in Trips : Resend(n)) \/ (\E e \in Ratings : Rate(e))
             \/ TreatLoading \/ TreatSupplement \/ TreatEval \/ EvalCopy \/ EvalBuild
             \/ EvalSend \/ TreatLogin
    <2>1. UNCHANGED <<driver, login, apart>>
      BY <1>1 DEF Push, Fetch, Quiet, Ask, Confirm, NotOpened, vars, Occupied, Empty, Resend,
                  Rate, TreatLoading, TreatSupplement, TreatEval, EvalCopy, EvalBuild,
                  EvalSend, TreatLogin, meter, status
    <2>2. \E k \in {0, 1} : Kept({"login"}, k)
      BY <1>0, <1>1, KeptByAction
    <2> QED  BY <1>0, <2>1, <2>2, LoginKept
  <1>2. ASSUME NEW d \in Drivers, OpenSuccess(d)
        PROVE  LoginInv'
    <2>1. driver' = d /\ SignedIn'
      BY <1>2 DEF OpenSuccess, SignedIn, SessionAssumption
    <2> QED  BY <1>0, <1>2, <2>1, MessageLine, LoginEntered
  <1>3. CASE CloseSuccess
    <2>1. ~SignedIn'
      BY <1>3 DEF CloseSuccess, SignedIn
    <2> QED  BY <1>0, <1>3, <2>1, MessageLine, LoginEntered
  <1>4. ASSUME NEW d \in Drivers, ResendClose(d)
         PROVE  LoginInv'
    <2>1. apart' \/ ~SignedIn'
      BY <1>4 DEF ResendClose, SignedIn, meter
    <2> QED  BY <1>0, <1>4, <2>1, MessageLine, LoginEntered
  <1>5. CASE LoginMode
    <2>1. /\ login' = treat.ev.param /\ UNCHANGED <<driver, apart>> /\ Treated
          /\ treat.ev.id = "login"
      BY <1>0, <1>5, WorkLine DEF LoginMode, meter, LineType
    <2>2. /\ Ages' = Ages /\ 0 \in Ages /\ Ev(0) = treat.ev
          /\ \A i \in Ages : Ev(i)' = IF i = 0 THEN NoEvent ELSE Ev(i)
          /\ \A i \in Ages : i >= 0
      <3>1. Len(queue) \in Nat
        BY <1>0 DEF LineType
      <3>2. \A i \in Ages : i >= 0
        BY <3>1 DEF Ages
      <3> QED  BY <1>0, <2>1, <3>2, TreatedEvents
    <2>3. SignedIn' = SignedIn
      BY <2>1 DEF SignedIn
    <2>4. ASSUME NEW i \in Ages', Ev(i)'.id = "login", Last(i)', ~apart
          PROVE  Ev(i)'.param = SignedIn'
      <3>1. i # 0 /\ i \in Ages /\ Ev(i)' = Ev(i)
        BY <2>2, <2>4, NoEventIsNone
      <3>2. ASSUME NEW j \in Ages, j > i
            PROVE  Ev(j).id # "login"
        <4>1. j # 0 /\ Ev(j)' = Ev(j)
          BY <1>0, <2>2, <3>1, <3>2
        <4> QED  BY <2>2, <2>4, <3>2, <4>1 DEF Last
      <3>3. Last(i)
        BY <3>2 DEF Last
      <3> QED  BY <2>3, <2>4, <3>1, <3>3 DEF LoginInv
    <2>5. ASSUME None("login")', ~apart
          PROVE  login' = SignedIn'
      <3>1. ASSUME NEW j \in Ages, j > 0
            PROVE  Ev(j).id # "login"
        <4>1. Ev(j)' = Ev(j)
          BY <1>0, <2>2, <3>1
        <4> QED  BY <2>2, <2>5, <3>1, <4>1 DEF None
      <3>2. Last(0)
        BY <3>1 DEF Last
      <3>3. Ev(0).param = SignedIn
        BY <2>1, <2>2, <2>5, <3>2 DEF LoginInv
      <3> QED  BY <2>1, <2>2, <2>3, <3>3
    <2> QED  BY <2>1, <2>4, <2>5 DEF LoginInv
  <1>6. CASE Restart
    <2>1. \A i \in Ages' : Ev(i)'.id # "login"
      BY <1>0, <1>6, WorkLine, NoEvents, NoEventIsNone
    <2>2. ~apart' => login' = SignedIn'
      BY <1>6 DEF Restart, SignedIn, status
    <2> QED  BY <2>1, <2>2 DEF LoginInv
  <1> QED
    BY <1>1, <1>2, <1>3, <1>4, <1>5, <1>6
    DEF Next, MeterMessage, SocketThread, Quiet

\* The two ways to say that an event is under way.
LEMMA UnderWayByAge ==
  ASSUME LineType, NEW id, UnderWay(id)
  PROVE  ~None(id)
  <1>0. queue \in Seq(Event) /\ Len(queue) \in Nat
    BY DEF LineType
  <1>1. CASE uart.id = id
    BY <1>0, <1>1 DEF None, Ages, Ev
  <1>2. CASE treat.ev.id = id
    BY <1>0, <1>2 DEF None, Ages, Ev
  <1>3. CASE \E i \in DOMAIN queue : queue[i].id = id
    BY <1>0, <1>3 DEF None, Ages, Ev
  <1> QED  BY <1>1, <1>2, <1>3 DEF UnderWay

LEMMA NotUnderWayByAge ==
  ASSUME LineType, NEW id, ~UnderWay(id)
  PROVE  None(id)
  <1>0. queue \in Seq(Event) /\ Len(queue) \in Nat
    BY DEF LineType
  <1>1. \A i \in 1..Len(queue) : queue[i].id # id
    BY <1>0 DEF UnderWay
  <1> QED  BY <1>0, <1>1 DEF UnderWay, None, Ages, Ev

\* When no sign-in event is under way, terminal and meter agree on whether a driver is
\* signed in, whatever was lost or sent again before (InStep): the login flag then
\* tells gb905_meter_open_close_ack what the meter asked for.
THEOREM SignedInInStep == Spec => []InStep
  <1> DEFINE Inv == TypeInv /\ LoginInv
  <1>1. Init => Inv
    <2> SUFFICES ASSUME Init PROVE Inv
      OBVIOUS
    <2>1. TypeInv
      BY InitType, SessionAssumption DEF Init, TypeInv, ClosesDriver
    <2>2. \A i \in Ages : Ev(i).id # "login"
      BY NoEventIsNone, IdleType DEF Init, Ages, Ev
    <2>3. login = SignedIn
      BY DEF Init, SignedIn
    <2> QED  BY <2>1, <2>2, <2>3 DEF LoginInv
  <1>2. Inv /\ [Next]_vars => Inv'
    BY TypeStep, LoginStep, SessionAssumption
  <1>3. Inv => InStep
    BY NotUnderWayByAge DEF TypeInv, LoginInv, InStep, SignedIn
  <1> QED  BY <1>1, <1>2, <1>3, PTL DEF Spec

-----------------------------------------------------------------------------
(* Which driver signs in or out.                                             *)

\* No later sign-in event of the same kind is under way.
LastOf(i) == \A j \in Ages : j > i => ~(Ev(j).id = "login" /\ Ev(j).param = Ev(i).param)

\* What the newest sign-in and the newest sign-out say of the driver is still stored.
DriverInv ==
  \A i \in Ages : Ev(i).id = "login" /\ LastOf(i) => login_info[Ev(i).param] = Ev(i).driver

LEMMA DriverKept ==
  ASSUME DriverInv, Ages \subseteq Int, Ages' \subseteq Int, NEW k \in {0, 1},
         Kept({"login"}, k), login_info' = login_info
  PROVE  DriverInv'
  <1>0. /\ \A i \in Ages' : Ev(i)'.id # "login" \/ (i + k \in Ages /\ Ev(i)' = Ev(i + k))
        /\ \A j \in Ages : Ev(j).id # "login" \/ (j - k \in Ages' /\ Ev(j - k)' = Ev(j))
    BY DEF Kept
  <1>1. ASSUME NEW i \in Ages', Ev(i)'.id = "login", LastOf(i)'
        PROVE  login_info'[Ev(i)'.param] = Ev(i)'.driver
    <2>1. i + k \in Ages /\ Ev(i)' = Ev(i + k)
      BY <1>0, <1>1
    <2>2. ASSUME NEW j \in Ages, j > i + k, Ev(j).id = "login", Ev(j).param = Ev(i)'.param
          PROVE  FALSE
      <3>1. j - k \in Ages' /\ Ev(j - k)' = Ev(j)
        BY <1>0, <2>2
      <3>2. j - k > i
        BY <2>2
      <3> QED  BY <1>1, <2>2, <3>1, <3>2 DEF LastOf
    <2>3. LastOf(i + k)
      BY <2>1, <2>2 DEF LastOf
    <2> QED  BY <1>1, <2>1, <2>3 DEF DriverInv
  <1> QED  BY <1>1 DEF DriverInv

\* A sign-in or sign-out is stored before its event is pushed.
LEMMA DriverEntered ==
  ASSUME DriverInv, LineType, StoreType, NEW d, NEW b \in BOOLEAN,
         Enters([id |-> "login", param |-> b, driver |-> d]),
         login_info' = [login_info EXCEPT ![b] = d]
  PROVE  DriverInv'
  <1>0. PICK n \in Ages : n = Len(queue) + 1
    BY EnteredEvents
  <1>1. /\ Ages' = Ages /\ Ages \subseteq Int /\ Ev(n) = NoEvent
        /\ Ev(n)'.id = "login" /\ Ev(n)'.param = b /\ Ev(n)'.driver = d
        /\ \A i \in Ages : i <= n
        /\ \A i \in Ages : i # n => Ev(i)' = Ev(i)
    BY <1>0, EnteredEvents, AgesAreIntegers
  <1>2. login_info \in [BOOLEAN -> Drivers \union {NoDriver}]
    BY DEF StoreType
  <1>3. ASSUME NEW i \in Ages, i # n, Ev(i)'.id = "login", LastOf(i)'
        PROVE  login_info'[Ev(i)'.param] = Ev(i)'.driver
    <2>1. n > i /\ Ev(i)' = Ev(i)
      BY <1>1, <1>3
    <2>2. Ev(i).param # b
      BY <1>1, <1>3, <2>1 DEF LastOf
    <2>3. ASSUME NEW j \in Ages, j > i, Ev(j).id = "login"
          PROVE  Ev(j).param # Ev(i).param
      <3>1. j # n /\ Ev(j)' = Ev(j)
        BY <1>1, <2>3, NoEventIsNone
      <3> QED  BY <1>1, <1>3, <2>1, <2>3, <3>1 DEF LastOf
    <2>4. LastOf(i)
      BY <2>3 DEF LastOf
    <2>5. login_info[Ev(i).param] = Ev(i).driver
      BY <1>3, <2>1, <2>4 DEF DriverInv
    <2>6. Ev(i).param \in BOOLEAN
      BY <1>3, <2>1, EventsTyped, EventIds, NoEventIsNone
    <2>7. login_info'[Ev(i).param] = login_info[Ev(i).param]
      BY <1>2, <2>2, <2>6
    <2> QED  BY <2>1, <2>5, <2>7
  <1>4. login_info'[b] = d
    BY <1>2
  <1> QED  BY <1>1, <1>3, <1>4 DEF DriverInv

LEMMA DriverStep ==
  ASSUME SessionAssumption, TypeInv, DriverInv, [Next]_vars
  PROVE  DriverInv'
  <1>0. /\ LineType /\ StoreType /\ IdleHasNoEvent
        /\ Ages \subseteq Int /\ LineType' /\ Ages' \subseteq Int
    <2>1. LineType /\ StoreType /\ IdleHasNoEvent /\ LineType'
      BY TypeStep DEF TypeInv
    <2>2. Ages \subseteq Int /\ Ages' \subseteq Int
      BY <2>1 DEF LineType, Ages
    <2> QED  BY <2>1, <2>2
  <1>1. CASE \/ Push \/ Fetch \/ Quiet \/ UNCHANGED vars \/ Occupied \/ Empty
             \/ (\E n \in Trips : Resend(n)) \/ (\E e \in Ratings : Rate(e))
             \/ TreatLoading \/ TreatSupplement \/ TreatEval \/ EvalCopy \/ EvalBuild
             \/ EvalSend \/ TreatLogin
    <2>1. login_info' = login_info
      BY <1>1 DEF Push, Fetch, Quiet, Ask, Confirm, NotOpened, vars, Occupied, Empty, Resend,
                  Rate, TreatLoading, TreatSupplement, TreatEval, EvalCopy, EvalBuild,
                  EvalSend, TreatLogin, globals
    <2>2. \E k \in {0, 1} : Kept({"login"}, k)
      BY <1>0, <1>1, KeptByAction
    <2> QED  BY <1>0, <2>1, <2>2, DriverKept
  <1>2. ASSUME NEW d \in Drivers, OpenSuccess(d) \/ ResendClose(d)
        PROVE  DriverInv'
    <2>1. CASE OpenSuccess(d)
      <3>1. login_info' = [login_info EXCEPT ![TRUE] = d]
        BY <2>1 DEF OpenSuccess
      <3> QED  BY <1>0, <2>1, <3>1, MessageLine, DriverEntered
    <2>2. CASE ResendClose(d)
      <3>1. login_info' = [login_info EXCEPT ![FALSE] = d]
        BY <2>2 DEF ResendClose
      <3> QED  BY <1>0, <2>2, <3>1, MessageLine, DriverEntered
    <2> QED  BY <1>2, <2>1, <2>2
  <1>3. CASE CloseSuccess
    <2>1. login_info' = [login_info EXCEPT ![FALSE] = driver]
      BY <1>3 DEF CloseSuccess
    <2> QED  BY <1>0, <1>3, <2>1, MessageLine, DriverEntered
  <1>4. CASE LoginMode
    <2>1. login_info' = login_info /\ Treated
      BY <1>0, <1>4, WorkLine DEF LoginMode, globals
    <2>2. /\ Ages' = Ages /\ \A i \in Ages : i >= 0
          /\ \A i \in Ages : Ev(i)' = IF i = 0 THEN NoEvent ELSE Ev(i)
      <3>1. Len(queue) \in Nat
        BY <1>0 DEF LineType
      <3>2. \A i \in Ages : i >= 0
        BY <3>1 DEF Ages
      <3> QED  BY <1>0, <2>1, <3>2, TreatedEvents
    <2>3. ASSUME NEW i \in Ages, Ev(i)'.id = "login", LastOf(i)'
          PROVE  login_info'[Ev(i)'.param] = Ev(i)'.driver
      <3>1. i # 0 /\ Ev(i)' = Ev(i)
        BY <2>2, <2>3, NoEventIsNone
      <3>2. ASSUME NEW j \in Ages, j > i
            PROVE  ~(Ev(j).id = "login" /\ Ev(j).param = Ev(i).param)
        <4>1. Ev(j)' = Ev(j)
          BY <1>0, <2>2, <3>1, <3>2
        <4> QED  BY <2>2, <2>3, <3>1, <3>2, <4>1 DEF LastOf
      <3>3. LastOf(i)
        BY <3>2 DEF LastOf
      <3> QED  BY <2>1, <2>3, <3>1, <3>3 DEF DriverInv
    <2> QED  BY <2>2, <2>3 DEF DriverInv
  <1>5. CASE Restart
    <2>1. \A i \in Ages' : Ev(i)'.id # "login"
      BY <1>0, <1>5, WorkLine, NoEvents, NoEventIsNone
    <2> QED  BY <2>1 DEF DriverInv
  <1> QED
    BY <1>1, <1>2, <1>3, <1>4, <1>5 DEF Next, MeterMessage, SocketThread, Quiet

\* A sign-in or sign-out message names the driver it is about although it is built from
\* what is stored at the time, unless a later one has come (LoginNamesDriver).
THEOREM DriverNamed == Spec => LoginNamesDriver
  <1> DEFINE Inv == TypeInv /\ DriverInv
             Names == TreatLogin =>
                        \/ treat'.driver = treat.ev.driver
                        \/ uart.id = "login" \/ \E i \in DOMAIN queue : queue[i].id = "login"
  <1>1. Init => Inv
    <2> SUFFICES ASSUME Init PROVE Inv
      OBVIOUS
    <2>1. TypeInv
      BY InitType, SessionAssumption DEF Init, TypeInv, ClosesDriver
    <2>2. \A i \in Ages : Ev(i).id # "login"
      BY NoEventIsNone, IdleType DEF Init, Ages, Ev
    <2> QED  BY <2>1, <2>2 DEF DriverInv
  <1>2. Inv /\ [Next]_vars => Inv'
    BY TypeStep, DriverStep, SessionAssumption
  <1>3. Inv => Names
    <2> SUFFICES ASSUME Inv, TreatLogin, uart.id # "login",
                        \A i \in DOMAIN queue : queue[i].id # "login"
                 PROVE  treat'.driver = treat.ev.driver
      OBVIOUS
    <2>1. /\ LineType /\ queue \in Seq(Event) /\ Len(queue) \in Nat
          /\ treat.ev \in Event /\ treat.ev.id = "login"
      BY DEF TypeInv, LineType, TreatLogin, Fetched
    <2>2. 0 \in Ages /\ Ev(0) = treat.ev
      BY <2>1 DEF Ages, Ev
    <2>3. \A j \in Ages : j > 0 => Ev(j).id # "login"
      BY <2>1 DEF Ages, Ev
    <2>4. LastOf(0)
      BY <2>3 DEF LastOf
    <2>5. login_info[treat.ev.param] = treat.ev.driver
      BY <2>1, <2>2, <2>4 DEF DriverInv
    <2>6. treat'.driver = login_info[treat.ev.param]
      BY <2>1 DEF TreatLogin, LineType
    <2> QED  BY <2>5, <2>6
  <1> QED  BY <1>1, <1>2, <1>3, PTL DEF Spec, LoginNamesDriver

-----------------------------------------------------------------------------
(* The trip an operation record is about.                                    *)

\* One change between empty and loaded is under way at a time, and it is the last one.
LoadingInv ==
  \A i \in Ages : Ev(i).id = "loading" =>
    /\ Ev(i).param <=> Loaded
    /\ \A j \in Ages : Ev(j).id = "loading" => j = i

\* The evaluations under way are of the trip that ended last and whose data are still
\* stored.  If the next passenger has got in, that comes after them, and the record
\* under construction is complete but for the evaluation.
EvalInv ==
  \A i \in Ages : Ev(i).id = "eval" =>
    /\ Ev(i).trip = (IF Loaded THEN Trip - 1 ELSE Trip)
    /\ meter_operation_info = Ev(i).trip
    /\ Loaded => /\ \E j \in Ages : j > i /\ Ev(j).id = "loading"
                 /\ pre_operation.begin = 2*Ev(i).trip - 1
                 /\ pre_operation.end = 2*Ev(i).trip
    /\ ~Loaded => \A j \in Ages : j > i => Ev(j).id # "loading"

\* Begin and end are in the record as soon as they have been treated.
RecordInv ==
  /\ moment >= 1
  /\ ~Loaded => meter_operation_info = Trip
  /\ ~Loaded \/ None("loading") => pre_operation.begin = 2*Trip - 1
  /\ ~Loaded /\ None("loading") => pre_operation.end = 2*Trip

\* What has been taken over while an evaluation is treated.
TreatInv ==
  /\ treat.pc \in {"rated", "copied"} => eval_state = treat.ev.param
  /\ treat.pc \in {"copied", "built"} => treat.trip = treat.ev.trip
  /\ treat.pc = "built" => pre_operation.eval = treat.ev.param

TripInv    == LoadingInv /\ EvalInv /\ RecordInv
OrderlyInv == orderly => TripInv /\ TreatInv

\* The next change of the meter, and the trip it makes the last.
LEMMA NextMoment ==
  ASSUME SessionAssumption, moment \in Moments, moment' = moment + 1
  PROVE  /\ Loaded' <=> ~Loaded
         /\ Trip' = IF Loaded THEN Trip ELSE Trip + 1
         /\ moment' >= 1
  BY SMT DEF SessionAssumption, Moments, Loaded, Trip

LEMMA SameMoment ==
  ASSUME moment' = moment
  PROVE  (Loaded' <=> Loaded) /\ Trip' = Trip
  BY DEF Loaded, Trip

\* A step that keeps the changes under way and adds no evaluation.
LEMMA TripKept ==
  ASSUME TripInv, Ages \subseteq Int, Ages' \subseteq Int, NEW k \in {0, 1},
         Kept({"loading"}, k),
         \A i \in Ages' : Ev(i)'.id # "eval" \/ (i + k \in Ages /\ Ev(i)' = Ev(i + k)),
         moment' = moment,
         meter_operation_info' = meter_operation_info \/ (Loaded /\ None("eval")),
         pre_operation'.begin = pre_operation.begin, pre_operation'.end = pre_operation.end
  PROVE  TripInv'
  <1>1. (Loaded' <=> Loaded) /\ Trip' = Trip
    BY SameMoment
  <1>2. /\ \A i \in Ages' : Ev(i)'.id = "loading" => i + k \in Ages /\ Ev(i)' = Ev(i + k)
        /\ \A j \in Ages : Ev(j).id = "loading" => j - k \in Ages' /\ Ev(j - k)' = Ev(j)
    BY DEF Kept
  <1>3. LoadingInv'
    <2> SUFFICES ASSUME NEW i \in Ages', Ev(i)'.id = "loading"
                 PROVE  /\ Ev(i)'.param <=> Loaded'
                        /\ \A j \in Ages' : Ev(j)'.id = "loading" => j = i
      BY DEF LoadingInv
    <2>1. i + k \in Ages /\ Ev(i)' = Ev(i + k)
      BY <1>2
    <2>2. Ev(i)'.param <=> Loaded'
      BY <1>1, <2>1 DEF TripInv, LoadingInv
    <2>3. ASSUME NEW j \in Ages', Ev(j)'.id = "loading"
          PROVE  j = i
      <3>1. j + k \in Ages /\ Ev(j)' = Ev(j + k)
        BY <1>2, <2>3
      <3>2. j + k = i + k
        BY <2>1, <2>3, <3>1 DEF TripInv, LoadingInv
      <3> QED  BY <3>2
    <2> QED  BY <2>2, <2>3
  <1>4. EvalInv'
    <2> SUFFICES ASSUME NEW i \in Ages', Ev(i)'.id = "eval"
                 PROVE  /\ Ev(i)'.trip = (IF Loaded' THEN Trip' - 1 ELSE Trip')
                        /\ meter_operation_info' = Ev(i)'.trip
                        /\ Loaded' => /\ \E j \in Ages' : j > i /\ Ev(j)'.id = "loading"
                                      /\ pre_operation'.begin = 2*Ev(i)'.trip - 1
                                      /\ pre_operation'.end = 2*Ev(i)'.trip
                        /\ ~Loaded' => \A j \in Ages' : j > i => Ev(j)'.id # "loading"
      BY DEF EvalInv
    <2>1. i + k \in Ages /\ Ev(i)' = Ev(i + k)
      OBVIOUS
    <2>0. meter_operation_info' = meter_operation_info
      BY <2>1 DEF None
    <2>2. /\ Ev(i)'.trip = (IF Loaded THEN Trip - 1 ELSE Trip)
          /\ meter_operation_info = Ev(i)'.trip
          /\ Loaded => /\ \E j \in Ages : j > i + k /\ Ev(j).id = "loading"
                       /\ pre_operation.begin = 2*Ev(i)'.trip - 1
                       /\ pre_operation.end = 2*Ev(i)'.trip
          /\ ~Loaded => \A j \in Ages : j > i + k => Ev(j).id # "loading"
      BY <2>1 DEF TripInv, EvalInv
    <2>3. ASSUME Loaded
          PROVE  \E j \in Ages' : j > i /\ Ev(j)'.id = "loading"
      <3>1. PICK j \in Ages : j > i + k /\ Ev(j).id = "loading"
        BY <2>2, <2>3
      <3>2. j - k \in Ages' /\ Ev(j - k)' = Ev(j) /\ j - k > i
        BY <1>2, <3>1
      <3> QED  BY <3>1, <3>2
    <2>4. ASSUME ~Loaded, NEW j \in Ages', j > i
          PROVE  Ev(j)'.id # "loading"
      <3>1. Ev(j)'.id = "loading" => j + k \in Ages /\ Ev(j)' = Ev(j + k) /\ j + k > i + k
        BY <1>2, <2>4
      <3> QED  BY <2>2, <2>4, <3>1
    <2> QED  BY <1>1, <2>0, <2>2, <2>3, <2>4
  <1>5. None("loading")' => None("loading")
    BY <1>2 DEF None
  <1>6. RecordInv'
    BY <1>1, <1>5 DEF TripInv, RecordInv
  <1> QED  BY <1>3, <1>4, <1>6 DEF TripInv

\* The next passenger gets in.
LEMMA TripOccupied ==
  ASSUME SessionAssumption, LineType, StoreType, IdleHasNoEvent, OrderlyInv, Occupied,
         orderly'
  PROVE  TripInv'
  <1>0. PICK n \in Ages : n = Len(queue) + 1
    BY EnteredEvents, MessageLine
  <1>1. /\ Ages' = Ages /\ Ages \subseteq Int /\ Ev(n) = NoEvent
        /\ Ev(n)'.id = "loading" /\ Ev(n)'.param = TRUE
        /\ \A i \in Ages : i <= n
        /\ \A i \in Ages : i # n => Ev(i)' = Ev(i)
    BY <1>0, EnteredEvents, AgesAreIntegers, MessageLine
  <1>2. /\ ~Loaded /\ Loaded' /\ Trip' = Trip + 1 /\ moment' >= 1
        /\ UNCHANGED <<meter_operation_info, pre_operation>>
    BY NextMoment DEF Occupied, StoreType, globals
  <1>3. Trip \in Nat
    BY TripNumber DEF StoreType
  <1>4. \A i \in Ages : i # n => Ev(i).id # "loading"
    <2>1. CASE queue = <<>> /\ treat.pc = "idle"
      <3>1. \A i \in Ages : i # n => Ev(i) = NoEvent
        BY <1>0, <2>1 DEF Ages, Ev, IdleHasNoEvent
      <3> QED  BY <3>1, NoEventIsNone
    <2>2. CASE ~UnderWay("loading")
      BY <2>2, NotUnderWayByAge DEF None
    <2> QED  BY <2>1, <2>2 DEF Occupied
  <1>5. None("loading")
    BY <1>1, <1>4, NoEventIsNone DEF None
  <1>6. ASSUME NEW i \in Ages, Ev(i)'.id = "eval"
        PROVE  i # n /\ Ev(i)' = Ev(i) /\ orderly
    <2>1. i # n /\ Ev(i)' = Ev(i)
      BY <1>1, <1>6
    <2>2. CASE queue = <<>> /\ treat.pc = "idle"
      <3>1. Ev(i) = NoEvent
        BY <1>0, <2>1, <2>2 DEF Ages, Ev, IdleHasNoEvent
      <3> QED  BY <1>6, <2>1, <3>1, NoEventIsNone
    <2>3. CASE ~(queue = <<>> /\ treat.pc = "idle")
      BY <2>1, <2>3 DEF Occupied
    <2> QED  BY <2>1, <2>2, <2>3
  <1>7. LoadingInv'
    BY <1>1, <1>2, <1>4 DEF LoadingInv
  <1>8. EvalInv'
    <2> SUFFICES ASSUME NEW i \in Ages, Ev(i)'.id = "eval"
                 PROVE  /\ Ev(i)'.trip = Trip /\ meter_operation_info = Trip
                        /\ \E j \in Ages : j > i /\ Ev(j)'.id = "loading"
                        /\ pre_operation.begin = 2*Trip - 1
                        /\ pre_operation.end = 2*Trip
      BY <1>1, <1>2, <1>3 DEF EvalInv
    <2>1. /\ i # n /\ Ev(i)' = Ev(i) /\ TripInv
      BY <1>6 DEF OrderlyInv
    <2>2. Ev(i)'.trip = Trip /\ meter_operation_info = Trip
      BY <1>2, <2>1 DEF TripInv, EvalInv
    <2>3. n > i
      BY <1>1, <2>1
    <2>4. pre_operation.begin = 2*Trip - 1 /\ pre_operation.end = 2*Trip
      BY <1>2, <1>5, <2>1 DEF TripInv, RecordInv
    <2> QED  BY <1>1, <2>2, <2>3, <2>4
  <1>9. RecordInv'
    <2>1. ~None("loading")'
      BY <1>1 DEF None
    <2> QED  BY <1>2, <2>1 DEF RecordInv
  <1> QED  BY <1>7, <1>8, <1>9 DEF TripInv

\* The trip ends.
LEMMA TripEmpty ==
  ASSUME SessionAssumption, LineType, StoreType, OrderlyInv, Empty, orderly'
  PROVE  TripInv'
  <1>0. PICK n \in Ages : n = Len(queue) + 1
    BY EnteredEvents, MessageLine
  <1>1. /\ Ages' = Ages /\ Ev(n)'.id = "loading" /\ Ev(n)'.param = FALSE
        /\ \A i \in Ages : i # n => Ev(i)' = Ev(i)
    BY <1>0, EnteredEvents, MessageLine
  <1>2. /\ Loaded /\ ~Loaded' /\ Trip' = Trip /\ moment' >= 1
        /\ meter_operation_info' = Trip /\ pre_operation' = pre_operation
    <2>1. /\ Loaded /\ moment \in Moments /\ moment' = moment + 1
          /\ meter_operation_info' = Trip /\ pre_operation' = pre_operation
      BY DEF Empty, StoreType
    <2> QED  BY <2>1, NextMoment
  <1>3. TripInv /\ None("loading") /\ None("eval")
    <2>1. orderly /\ ~UnderWay("loading") /\ ~UnderWay("eval")
      BY DEF Empty
    <2> QED  BY <2>1, NotUnderWayByAge DEF OrderlyInv
  <1>4. LoadingInv' /\ EvalInv'
    BY <1>1, <1>2, <1>3 DEF LoadingInv, EvalInv, None
  <1>5. RecordInv'
    <2>1. ~None("loading")'
      BY <1>1 DEF None
    <2> QED  BY <1>2, <1>3, <2>1 DEF TripInv, RecordInv
  <1> QED  BY <1>4, <1>5 DEF TripInv

\* An evaluation arrives.
LEMMA TripRated ==
  ASSUME SessionAssumption, LineType, StoreType, OrderlyInv, NEW e \in Ratings, Rate(e),
         orderly'
  PROVE  TripInv'
  <1>0. PICK n \in Ages : n = Len(queue) + 1
    BY EnteredEvents, MessageLine
  <1>1. /\ Ages' = Ages /\ Ages \subseteq Int /\ Ev(n) = NoEvent
        /\ Ev(n)'.id = "eval" /\ Ev(n)'.trip = Trip
        /\ \A i \in Ages : i <= n
        /\ \A i \in Ages : i # n => Ev(i)' = Ev(i)
    <2>1. Enters([id |-> "eval", param |-> e, trip |-> Trip])
      BY MessageLine
    <2> QED  BY <1>0, <2>1, EnteredEvents, AgesAreIntegers
  <1>2. /\ TripInv /\ ~Loaded /\ ~Loaded' /\ Trip' = Trip
        /\ UNCHANGED <<moment, meter_operation_info, pre_operation>>
    BY SameMoment DEF Rate, OrderlyInv, meter, globals
  <1>3. \A i \in Ages : Ev(i)'.id = "loading" => i # n /\ Ev(i)' = Ev(i)
    BY <1>1
  <1>4. LoadingInv'
    BY <1>1, <1>2, <1>3 DEF TripInv, LoadingInv
  <1>5. EvalInv'
    <2> SUFFICES ASSUME NEW i \in Ages, Ev(i)'.id = "eval"
                 PROVE  /\ Ev(i)'.trip = Trip /\ meter_operation_info = Trip
                        /\ \A j \in Ages : j > i => Ev(j)'.id # "loading"
      BY <1>1, <1>2 DEF EvalInv
    <2>1. CASE i = n
      BY <1>1, <1>2, <2>1 DEF TripInv, RecordInv
    <2>2. CASE i # n
      <3>1. Ev(i)' = Ev(i)
        BY <1>1, <2>2
      <3> QED  BY <1>2, <1>3, <3>1 DEF TripInv, EvalInv
    <2> QED  BY <2>1, <2>2
  <1>6. None("loading")' => None("loading")
    BY <1>1, NoEventIsNone DEF None
  <1>7. RecordInv'
    BY <1>2, <1>6 DEF TripInv, RecordInv
  <1> QED  BY <1>4, <1>5, <1>7 DEF TripInv

\* Begin or end goes into the record under construction.
LEMMA TripLoading ==
  ASSUME SessionAssumption, LineType, StoreType, TripInv, TreatLoading
  PROVE  TripInv'
  <1>0. Treated /\ treat.ev.id = "loading" /\ Len(queue) \in Nat
    BY WorkLine DEF TreatLoading, Fetched, LineType
  <1>1. /\ Ages' = Ages /\ Ages \subseteq Int /\ 0 \in Ages
        /\ Ev(0).id = "loading" /\ Ev(0) = treat.ev
        /\ \A i \in Ages : i >= 0 /\ (i # 0 => Ev(i)' = Ev(i))
        /\ Ev(0)'.id = "none"
    <2>1. \A i \in Ages : i >= 0
      BY <1>0 DEF Ages
    <2> QED  BY <1>0, <2>1, TreatedEvents, NoEventIsNone, AgesAreIntegers
  <1>2. /\ (Loaded' <=> Loaded) /\ Trip' = Trip
        /\ UNCHANGED <<moment, meter_operation_info>>
        /\ treat.ev.param <=> Loaded
    BY <1>1, SameMoment DEF TreatLoading, meter, globals, TripInv, LoadingInv
  <1>3. \A i \in Ages : Ev(i)'.id # "loading"
    BY <1>1 DEF TripInv, LoadingInv
  <1>4. /\ Loaded => pre_operation'.begin = moment
        /\ ~Loaded => /\ pre_operation'.end = moment
                      /\ pre_operation'.begin = pre_operation.begin
    <2>1. pre_operation \in [begin : Moments, end : Moments, eval : Evals]
      BY DEF StoreType, Operation
    <2> QED  BY <1>2, <2>1 DEF TreatLoading
  <1>5. EvalInv'
    <2> SUFFICES ASSUME NEW i \in Ages, Ev(i)'.id = "eval"
                 PROVE  /\ ~Loaded /\ Ev(i)'.trip = Trip /\ meter_operation_info = Trip
      BY <1>1, <1>2, <1>3 DEF EvalInv
    <2>1. i # 0 /\ Ev(i)' = Ev(i) /\ i > 0
      BY <1>1
    <2>2. ~Loaded
      <3>1. ASSUME NEW j \in Ages, j > i
            PROVE  Ev(j).id # "loading"
        <4>1. j # 0
          BY <1>1, <2>1, <3>1
        <4> QED  BY <1>1, <1>3, <4>1
      <3> QED  BY <2>1, <3>1 DEF TripInv, EvalInv
    <2> QED  BY <2>1, <2>2 DEF TripInv, EvalInv
  <1>6. RecordInv'
    <2>1. /\ Loaded => moment = 2*Trip - 1
          /\ ~Loaded => moment = 2*Trip
      BY TripNumber DEF StoreType
    <2> QED  BY <1>2, <1>4, <2>1 DEF TripInv, RecordInv
  <1> QED  BY <1>1, <1>3, <1>5, <1>6 DEF TripInv, LoadingInv

LEMMA TripStep ==
  ASSUME SessionAssumption, TypeInv, OrderlyInv, [Next]_vars, orderly'
  PROVE  TripInv'
  <1>0. /\ LineType /\ StoreType /\ IdleHasNoEvent
        /\ Ages \subseteq Int /\ LineType' /\ Ages' \subseteq Int
    <2>1. LineType /\ StoreType /\ IdleHasNoEvent /\ LineType'
      BY TypeStep DEF TypeInv
    <2>2. Ages \subseteq Int /\ Ages' \subseteq Int
      BY <2>1 DEF LineType, Ages
    <2> QED  BY <2>1, <2>2
  <1>1. CASE \/ Push \/ Fetch \/ Quiet \/ UNCHANGED vars \/ CloseSuccess
             \/ (\E d \in Drivers : OpenSuccess(d) \/ ResendClose(d))
             \/ TreatSupplement \/ TreatEval \/ EvalCopy \/ EvalBuild \/ TreatLogin
             \/ LoginMode
    <2>1. /\ UNCHANGED <<moment, orderly, meter_operation_info>>
          /\ pre_operation' = pre_operation
             \/ pre_operation' = [pre_operation EXCEPT !.eval = eval_state]
      BY <1>1 DEF Push, Fetch, Quiet, Ask, Confirm, NotOpened, vars, CloseSuccess,
                  OpenSuccess, ResendClose, TreatSupplement, TreatEval, EvalCopy, EvalBuild,
                  TreatLogin, LoginMode, meter, globals
    <2>2. /\ pre_operation'.begin = pre_operation.begin
          /\ pre_operation'.end = pre_operation.end
      <3>1. pre_operation \in [begin : Moments, end : Moments, eval : Evals]
        BY <1>0 DEF StoreType, Operation
      <3> QED  BY <2>1, <3>1
    <2>3. PICK k \in {0, 1} : Kept({"loading", "eval"}, k)
      BY <1>0, <1>1, KeptByAction
    <2>4. /\ Kept({"loading"}, k)
          /\ \A i \in Ages' : Ev(i)'.id # "eval" \/ (i + k \in Ages /\ Ev(i)' = Ev(i + k))
      BY <2>3 DEF Kept
    <2> QED  BY <1>0, <2>1, <2>2, <2>4, TripKept DEF OrderlyInv
  <1>2. CASE Occupied
    BY <1>0, <1>2, TripOccupied
  <1>3. CASE Empty
    BY <1>0, <1>3, TripEmpty
  <1>4. ASSUME NEW n \in Trips, Resend(n)
        PROVE  TripInv'
    <2>1. /\ orderly /\ Loaded /\ None("eval") /\ moment' = moment
          /\ pre_operation' = pre_operation
      <3>1. orderly /\ Loaded /\ ~UnderWay("eval")
        BY <1>4 DEF Resend
      <3>2. moment' = moment /\ pre_operation' = pre_operation
        BY <1>4 DEF Resend, meter
      <3> QED  BY <1>0, <3>1, <3>2, NotUnderWayByAge
    <2>2. PICK k \in {0, 1} : Kept({"loading", "eval"}, k)
      BY <1>0, <1>4, KeptByAction
    <2>3. /\ Kept({"loading"}, k)
          /\ \A i \in Ages' : Ev(i)'.id # "eval" \/ (i + k \in Ages /\ Ev(i)' = Ev(i + k))
      BY <2>2 DEF Kept
    <2> QED  BY <1>0, <2>1, <2>3, TripKept DEF OrderlyInv
  <1>5. ASSUME NEW e \in Ratings, Rate(e)
        PROVE  TripInv'
    BY <1>0, <1>5, TripRated
  <1>6. CASE TreatLoading
    <2>1. orderly
      BY <1>6 DEF TreatLoading
    <2> QED  BY <1>0, <1>6, <2>1, TripLoading DEF OrderlyInv
  <1>7. CASE EvalSend
    <2>1. /\ orderly /\ UNCHANGED <<moment, meter_operation_info, pre_operation>>
          /\ Treated /\ treat.ev.id = "eval"
      BY <1>0, <1>7, WorkLine DEF EvalSend, meter, globals, LineType
    <2>2. /\ Ages' = Ages /\ Ev(0)'.id = "none" /\ Ev(0).id = "eval"
          /\ \A i \in Ages : i # 0 => Ev(i)' = Ev(i)
          /\ \A i \in Ages : i + 0 = i /\ i - 0 = i
      BY <1>0, <2>1, TreatedEvents, NoEventIsNone
    <2>3. /\ Kept({"loading"}, 0)
          /\ \A i \in Ages' : Ev(i)'.id # "eval" \/ (i + 0 \in Ages /\ Ev(i)' = Ev(i + 0))
      BY <2>2 DEF Kept
    <2> QED  BY <1>0, <2>1, <2>3, TripKept DEF OrderlyInv
  <1>8. CASE Restart
    BY <1>8 DEF Restart
  <1> QED
    BY <1>1, <1>2, <1>3, <1>4, <1>5, <1>6, <1>7, <1>8
    DEF Next, MeterMessage, SocketThread, Quiet

LEMMA TreatStep ==
  ASSUME TypeInv, OrderlyInv, [Next]_vars, orderly'
  PROVE  TreatInv'
  <1>0. LineType /\ StoreType /\ Len(queue) \in Nat
    BY DEF TypeInv, LineType
  <1>1. CASE \/ Push \/ Quiet \/ UNCHANGED vars \/ CloseSuccess
             \/ (\E d \in Drivers : OpenSuccess(d) \/ ResendClose(d))
    <2>1. UNCHANGED <<treat, eval_state, pre_operation, orderly>>
      BY <1>1 DEF Push, Quiet, Ask, Confirm, NotOpened, vars, CloseSuccess, OpenSuccess,
                  ResendClose, globals
    <2> QED  BY <2>1 DEF OrderlyInv, TreatInv
  <1>2. CASE Occupied \/ Empty \/ \E e \in Ratings : Rate(e)
    <2>1. UNCHANGED <<treat, eval_state, pre_operation>>
      BY <1>2 DEF Occupied, Empty, Rate, globals
    <2>2. CASE orderly
      BY <2>1, <2>2 DEF OrderlyInv, TreatInv
    <2>3. CASE treat.pc = "idle"
      BY <2>1, <2>3 DEF TreatInv
    <2> QED  BY <1>2, <2>2, <2>3 DEF Occupied, Empty, Rate
  <1>3. ASSUME NEW n \in Trips, Resend(n)
        PROVE  TreatInv'
    <2>1. treat.pc \notin {"rated", "copied", "built"} /\ treat' = treat
      BY <1>0, <1>3 DEF Resend, UnderWay, LineType
    <2> QED  BY <2>1 DEF TreatInv
  <1>4. CASE Fetch
    <2>1. treat'.pc = "fetched"
      BY <1>4 DEF Fetch, IdleTreat
    <2> QED  BY <2>1 DEF TreatInv
  <1>5. CASE TreatLoading \/ TreatSupplement \/ EvalSend \/ LoginMode \/ Restart
    <2>1. treat' = IdleTreat
      BY <1>5 DEF TreatLoading, TreatSupplement, EvalSend, LoginMode, Restart
    <2> QED  BY <2>1, IdleType DEF TreatInv
  <1>6. CASE TreatEval
    <2>1. treat'.pc = "rated" /\ treat'.ev = treat.ev /\ eval_state' = treat.ev.param
      BY <1>0, <1>6 DEF TreatEval, LineType
    <2> QED  BY <2>1 DEF TreatInv
  <1>7. CASE EvalCopy
    <2>1. /\ treat.pc = "rated" /\ treat'.pc = "copied" /\ treat'.ev = treat.ev
          /\ treat'.trip = meter_operation_info /\ UNCHANGED <<eval_state, orderly>>
      BY <1>0, <1>7 DEF EvalCopy, LineType, globals
    <2>2. treat.ev.id = "eval" /\ 0 \in Ages /\ Ev(0) = treat.ev
      BY <1>0, <2>1 DEF LineType, Ages, Ev
    <2>3. meter_operation_info = treat.ev.trip
      BY <2>1, <2>2 DEF OrderlyInv, TripInv, EvalInv
    <2> QED  BY <2>1, <2>3 DEF OrderlyInv, TreatInv
  <1>8. CASE EvalBuild
    <2>1. /\ treat.pc = "copied" /\ treat'.pc = "built" /\ treat'.ev = treat.ev
          /\ treat'.trip = treat.trip /\ pre_operation'.eval = eval_state
          /\ orderly' = orderly
      BY <1>0, <1>8 DEF EvalBuild, LineType, StoreType, Operation
    <2> QED  BY <2>1 DEF OrderlyInv, TreatInv
  <1>9. CASE TreatLogin
    <2>1. treat'.pc = "told"
      BY <1>0, <1>9 DEF TreatLogin, LineType
    <2> QED  BY <2>1 DEF TreatInv
  <1> QED
    BY <1>1, <1>2, <1>3, <1>4, <1>5, <1>6, <1>7, <1>8, <1>9
    DEF Next, MeterMessage, SocketThread, Quiet

\* The record sent for an evaluation is that of the trip rated, with that trip's begin,
\* end and evaluation, although the next passenger may already be in the car, as long as
\* the events of the trip came in order (RecordIsOwnTrip).
THEOREM OwnTripRecorded == Spec => RecordIsOwnTrip
  <1> DEFINE Inv == TypeInv /\ OrderlyInv
             Own(n) == /\ treat.trip = n
                       /\ pre_operation = [begin |-> 2*n-1, end |-> 2*n,
                                           eval |-> treat.ev.param]
             Sends  == EvalSend /\ orderly => Own(treat.ev.trip)
  <1>1. Init => Inv
    <2> SUFFICES ASSUME Init PROVE Inv
      OBVIOUS
    <2>1. TypeInv
      BY InitType, SessionAssumption DEF Init, TypeInv, ClosesDriver
    <2> QED  BY <2>1 DEF Init, OrderlyInv
  <1>2. Inv /\ [Next]_vars => Inv'
    BY TypeStep, TripStep, TreatStep, SessionAssumption DEF OrderlyInv
  <1>3. Inv => Sends
    <2> SUFFICES ASSUME Inv, EvalSend, orderly
                 PROVE  Own(treat.ev.trip)
      OBVIOUS
    <2>1. /\ LineType /\ StoreType /\ Len(queue) \in Nat
          /\ treat.pc = "built" /\ treat.ev.id = "eval" /\ TripInv /\ TreatInv
      BY DEF TypeInv, LineType, EvalSend, OrderlyInv
    <2>2. 0 \in Ages /\ Ev(0) = treat.ev
      BY <2>1 DEF Ages, Ev
    <2>3. treat.trip = treat.ev.trip /\ pre_operation.eval = treat.ev.param
      BY <2>1 DEF TreatInv
    <2>4. /\ pre_operation.begin = 2*treat.ev.trip - 1
          /\ pre_operation.end = 2*treat.ev.trip
      <3>1. CASE Loaded
        BY <2>1, <2>2, <3>1 DEF TripInv, EvalInv
      <3>2. CASE ~Loaded
        <4>1. treat.ev.trip = Trip /\ \A j \in Ages : j > 0 => Ev(j).id # "loading"
          BY <2>1, <2>2, <3>2 DEF TripInv, EvalInv
        <4>2. \A j \in Ages : j = 0 \/ j > 0
          BY <2>1 DEF Ages
        <4>3. None("loading")
          BY <2>1, <2>2, <4>1, <4>2 DEF None
        <4> QED  BY <2>1, <3>2, <4>1, <4>3 DEF TripInv, RecordInv
      <3> QED  BY <3>1, <3>2
    <2>5. pre_operation \in [begin : Moments, end : Moments, eval : Evals]
      BY <2>1 DEF StoreType, Operation
    <2> QED  BY <2>3, <2>4, <2>5
  <1> QED  BY <1>1, <1>2, <1>3, PTL DEF Spec, RecordIsOwnTrip
=============================================================================
