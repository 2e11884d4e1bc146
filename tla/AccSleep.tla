-------------------------------- MODULE AccSleep --------------------------------
(***************************************************************************)
(* Ignition: the sleep flag and the alarm of an illegal ignition           *)
(* (src/src/middleware/event/acc/fleety_acc.c, alarm/fleety_alarm.c).      *)
(*                                                                         *)
(* When ACC goes off, a thread is started that waits; if nothing wakes it  *)
(* in time it sets the flag sleep.  When ACC comes on, the socket thread   *)
(* signals and clears the flag.  The lock and the condition are made anew  *)
(* at every ACC off, and the signal is given without the lock.  sleep and  *)
(* acc_monitor are bits of one word, and an assignment to a bit-field is a *)
(* load and a store: the UART thread (which handles the display), the      *)
(* socket thread and every waiting thread write it.                        *)
(***************************************************************************)
EXTENDS Integers, Sequences, FiniteSets

CONSTANTS
  MaxEvents,   \* bound: ACC events
  MaxCommands, \* bound: monitoring switched on or off
  MaxReports,  \* bound: reports the server has not acknowledged
  MaxBoots     \* bound: restarts

ASSUME AccAssumption ==
  MaxEvents \in Nat /\ MaxCommands \in Nat /\ MaxReports \in Nat /\ MaxBoots \in Nat

Sleepers == 1..MaxEvents
Word     == [sleep : BOOLEAN, acc_monitor : BOOLEAN]
Clear    == [sleep |-> FALSE, acc_monitor |-> FALSE]

VARIABLES
  sw,        \* taxi_status.sw, kept over a restart
  acc,       \* taxi_status.hw.flag.acc, likewise
  alarm,     \* taxi_status.alarm.flag.illegal_ignition, likewise
  queue,     \* ACC events pushed and not fetched: on or off
  treat,     \* socket thread: step, the alarm and the word it has read
  uart,      \* UART thread: step, the bit it is about to write, the word it has read
  sleeper,   \* the thread started by each ACC off, in the order of their start
  started,   \* how many have been started
  reports,   \* unacknowledged reports built before and since the last alarm
  off,       \* history: the event treated last was ACC off, by this process
  astray,    \* history: a thread was signalled that was not waiting, or not the last
  stale,     \* history: the UART thread has stored an old sleep bit
  told,      \* history: the server has a report built since the last alarm
  early,     \* history: a report was outstanding when the last alarm was raised
  events, commands, boots   \* counters for the bounds

status  == <<sw, acc, alarm>>
threads == <<sleeper, started>>
faults  == <<astray, stale>>
answer  == <<told, early>>
bounds  == <<events, commands, boots>>
accVars == <<status, queue, treat, uart, threads, reports, off, faults, answer, bounds>>

IdleTreat == [pc |-> "idle", alarm |-> FALSE, word |-> Clear]
IdleUart  == [pc |-> "idle", on |-> FALSE, word |-> Clear]
NoSleeper == [pc |-> "none", word |-> Clear]
GoneSleeper == [pc |-> "gone", word |-> Clear]

AccTypeOK ==
  /\ sw \in Word /\ acc \in BOOLEAN /\ alarm \in BOOLEAN /\ queue \in Seq(BOOLEAN)
  /\ treat \in [pc : {"idle", "off", "on", "signalled", "loaded", "cleared"},
                alarm : BOOLEAN, word : Word]
  /\ uart \in [pc : {"idle", "loaded"}, on : BOOLEAN, word : Word]
  /\ sleeper \in [Sleepers ->
       [pc : {"none", "started", "waiting", "timeout", "loaded", "gone"}, word : Word]]
  /\ started \in 0..events /\ started + Len(queue) <= events
  /\ reports \in [before : 0..MaxReports, since : 0..MaxReports]
  /\ reports.before + reports.since <= MaxReports
  /\ off \in BOOLEAN /\ astray \in BOOLEAN /\ stale \in BOOLEAN
  /\ told \in BOOLEAN /\ early \in BOOLEAN
  /\ events \in 0..MaxEvents /\ commands \in 0..MaxCommands /\ boots \in 0..MaxBoots

AccInit ==
  /\ sw = Clear /\ acc = FALSE /\ alarm = FALSE /\ queue = <<>>
  /\ treat = IdleTreat /\ uart = IdleUart
  /\ sleeper = [i \in Sleepers |-> NoSleeper] /\ started = 0
  /\ reports = [before |-> 0, since |-> 0]
  /\ off = FALSE /\ astray = FALSE /\ stale = FALSE /\ told = FALSE /\ early = FALSE
  /\ events = 0 /\ commands = 0 /\ boots = 0

Waiting == {i \in Sleepers : sleeper[i].pc = "waiting"}
Alive   == {i \in Sleepers : sleeper[i].pc \notin {"none", "gone"}}

-----------------------------------------------------------------------------
(* The UART thread.                                                          *)

\* mcu_gpio_in_treat.  For the power failure and for a message it does not know it
\* pushes an event it has not filled in, so either event can come at any time.
Gpio(on) ==
  /\ uart.pc = "idle" /\ events < MaxEvents /\ events' = events + 1
  /\ queue' = Append(queue, on)
  /\ UNCHANGED <<status, treat, uart, threads, reports, off, faults, answer, commands,
                 boots>>

\* fleety_acc_monitor_func: monitoring is switched on only while ACC is on.
Monitor(on) ==
  /\ uart.pc = "idle" /\ commands < MaxCommands /\ commands' = commands + 1
  /\ uart' = IF on /\ ~acc THEN uart ELSE [pc |-> "loaded", on |-> on, word |-> sw]
  /\ UNCHANGED <<status, queue, treat, threads, reports, off, faults, answer, events,
                 boots>>

\* set_acc_monitor_status: the store.
MonitorStore ==
  /\ uart.pc = "loaded" /\ uart' = IdleUart
  /\ sw' = [uart.word EXCEPT !.acc_monitor = uart.on]
  /\ stale' = (stale \/ uart.word.sleep # sw.sleep)
  /\ UNCHANGED <<acc, alarm, queue, treat, threads, reports, off, astray, answer, bounds>>

-----------------------------------------------------------------------------
(* The waiting threads: check_terminal_sleep_func.                           *)

Move(i, from, to) == sleeper[i].pc = from /\ sleeper' = [sleeper EXCEPT ![i].pc = to]

Wait(i) ==
  /\ Move(i, "started", "waiting")
  /\ UNCHANGED <<status, queue, treat, uart, started, reports, off, faults, answer,
                 bounds>>

TimeOut(i) ==
  /\ Move(i, "waiting", "timeout")
  /\ UNCHANGED <<status, queue, treat, uart, started, reports, off, faults, answer,
                 bounds>>

SleepLoad(i) ==
  /\ sleeper[i].pc = "timeout"
  /\ sleeper' = [sleeper EXCEPT ![i] = [pc |-> "loaded", word |-> sw]]
  /\ UNCHANGED <<status, queue, treat, uart, started, reports, off, faults, answer,
                 bounds>>

\* Mutant: the bit is taken from the word that was read.
SleepStoreNot(i) ==
  /\ sleeper[i].pc = "loaded" /\ sleeper' = [sleeper EXCEPT ![i] = GoneSleeper]
  /\ sw' = sleeper[i].word
  /\ stale' = (stale /\ uart.pc # "idle")
  /\ UNCHANGED <<acc, alarm, queue, treat, uart, started, reports, off, astray, answer,
                 bounds>>

\* set_terminal_sleep_status(true): the store.
SleepStore(i) ==
  /\ sleeper[i].pc = "loaded" /\ sleeper' = [sleeper EXCEPT ![i] = GoneSleeper]
  /\ sw' = [sleeper[i].word EXCEPT !.sleep = TRUE]
  /\ stale' = (stale /\ uart.pc # "idle")
  /\ UNCHANGED <<acc, alarm, queue, treat, uart, started, reports, off, astray, answer,
                 bounds>>

Sleeper(i) == Wait(i) \/ TimeOut(i) \/ SleepLoad(i) \/ SleepStore(i)

-----------------------------------------------------------------------------
(* The socket thread: fleety_acc_treat.                                      *)

\* Mutant: an event is treated and stays in the queue.
AccTreatStays ==
  /\ treat.pc = "idle" /\ queue # <<>>
  /\ acc' = Head(queue) /\ off' = (off /\ ~Head(queue))
  /\ treat' = [IdleTreat EXCEPT !.pc = IF Head(queue) THEN "on" ELSE "off", !.alarm = alarm]
  /\ UNCHANGED <<sw, alarm, queue, uart, threads, reports, faults, answer, bounds>>

\* The copy of the status, set_acc_status, the choice.
AccTreat ==
  /\ treat.pc = "idle" /\ queue # <<>> /\ queue' = Tail(queue)
  /\ acc' = Head(queue) /\ off' = (off /\ ~Head(queue))
  /\ treat' = [IdleTreat EXCEPT !.pc = IF Head(queue) THEN "on" ELSE "off", !.alarm = alarm]
  /\ UNCHANGED <<sw, alarm, uart, threads, reports, faults, answer, bounds>>

\* fleety_check_terminal_sleep: a new lock, a new condition, one more thread.
StartSleeper ==
  /\ treat.pc = "off" /\ treat' = IdleTreat
  /\ started' = started + 1
  /\ sleeper' = [sleeper EXCEPT ![started + 1].pc = "started"]
  /\ off' = TRUE
  /\ UNCHANGED <<status, queue, uart, reports, faults, answer, bounds>>

\* Mutant: ACC on does not wake the thread.
SignalNobody ==
  /\ treat.pc = "on" /\ treat' = [treat EXCEPT !.pc = "signalled"]
  /\ astray' = (astray \/ ~(Alive \subseteq Waiting \cap {started}))
  /\ UNCHANGED <<status, queue, uart, threads, reports, off, stale, answer, bounds>>

\* pthread_cond_signal.  One thread that waits is woken.  When others still wait on what
\* was made anew under them, the signal can reach any of them, several or none.
SignalSleeper ==
  /\ treat.pc = "on" /\ treat' = [treat EXCEPT !.pc = "signalled"]
  /\ \E woken \in SUBSET Waiting :
       /\ Waiting = {started} => woken = Waiting
       /\ sleeper' = [i \in Sleepers |->
                        IF i \in woken THEN GoneSleeper ELSE sleeper[i]]
  /\ astray' = (astray \/ ~(Alive \subseteq Waiting \cap {started}))
  /\ UNCHANGED <<status, queue, uart, started, reports, off, stale, answer, bounds>>

ClearLoad ==
  /\ treat.pc = "signalled" /\ treat' = [treat EXCEPT !.pc = "loaded", !.word = sw]
  /\ UNCHANGED <<status, queue, uart, threads, reports, off, faults, answer, bounds>>

\* set_terminal_sleep_status(false): the store.  With no thread left what went astray
\* before is over.
ClearStore ==
  /\ treat.pc = "loaded" /\ treat' = [treat EXCEPT !.pc = "cleared", !.word = Clear]
  /\ sw' = [treat.word EXCEPT !.sleep = FALSE]
  /\ astray' = (astray /\ Alive # {}) /\ stale' = (stale /\ uart.pc # "idle")
  /\ UNCHANGED <<acc, alarm, queue, uart, threads, reports, off, answer, bounds>>

\* The alarm, unless it was up already.
Illegal == sw.acc_monitor /\ ~treat.alarm
CheckMonitor ==
  /\ treat.pc = "cleared" /\ treat' = IdleTreat
  /\ alarm' = (alarm \/ Illegal)
  /\ told' = (told /\ ~Illegal)
  /\ early' = IF Illegal THEN reports.before + reports.since > 0 ELSE early
  /\ reports' = IF Illegal THEN [before |-> reports.before + reports.since, since |-> 0]
                ELSE reports
  /\ UNCHANGED <<sw, acc, queue, uart, threads, off, faults, bounds>>

-----------------------------------------------------------------------------
(* Reports and their acknowledgement.  The report is kept and sent again     *)
(* until it is acknowledged (RecordStore), across a restart too.             *)

\* gb905_build_report_body: the report carries the alarm word of this moment.
BuildReport ==
  /\ reports.before + reports.since < MaxReports
  /\ reports' = IF alarm THEN [reports EXCEPT !.since = @ + 1]
                ELSE [reports EXCEPT !.before = @ + 1]
  /\ UNCHANGED <<status, queue, treat, uart, threads, off, faults, answer, bounds>>

\* Mutant: what is cleared by the acknowledgement of a report is cleared by that of a
\* heartbeat too.
AckOfAnything ==
  /\ treat.pc = "idle"
  /\ alarm' = FALSE
  /\ UNCHANGED <<sw, acc, queue, treat, uart, threads, reports, off, faults, answer,
                 bounds>>

\* gb905_terminal_ack_treat, case MESSAGE_LOCATION_REPORT, with
\* fleety_clr_alarm_after_report_ack, on the socket thread.
ReportAck ==
  /\ treat.pc = "idle"
  /\ \E f \in {"before", "since"} :
       /\ reports[f] > 0 /\ reports' = [reports EXCEPT ![f] = @ - 1]
       /\ told' = (told \/ f = "since")
  /\ alarm' = FALSE
  /\ UNCHANGED <<sw, acc, queue, treat, uart, threads, off, faults, early, bounds>>

-----------------------------------------------------------------------------
\* The words are saved with every store; the threads and the queue are lost.
Restart ==
  /\ boots < MaxBoots /\ boots' = boots + 1
  /\ queue' = <<>> /\ treat' = IdleTreat /\ uart' = IdleUart
  /\ sleeper' = [i \in Sleepers |->
                   IF i \in Alive THEN GoneSleeper ELSE sleeper[i]]
  /\ off' = FALSE /\ astray' = (acc /\ sw.sleep) /\ stale' = FALSE
  /\ UNCHANGED <<status, started, reports, answer, events, commands>>

SocketThread == \/ AccTreat \/ StartSleeper \/ SignalSleeper \/ ClearLoad \/ ClearStore
                \/ CheckMonitor

AccNext == \/ SocketThread \/ ReportAck \/ BuildReport \/ MonitorStore \/ Restart
        \/ \E i \in Sleepers : Sleeper(i)
        \/ \E on \in BOOLEAN : Gpio(on) \/ Monitor(on)

\* The threads keep running, and a wait with a timeout ends.
Fairness == WF_accVars(SocketThread) /\ WF_accVars(MonitorStore)
            /\ \A i \in Sleepers : WF_accVars(Sleeper(i))

AccSpec == AccInit /\ [][AccNext]_accVars /\ Fairness

-----------------------------------------------------------------------------
(* Properties.                                                               *)

\* "=1,休眠待机状态": a terminal whose ACC is on is not asleep, once ACC on has been
\* treated and for as long as it stays on, if the thread of the last ACC off was waiting,
\* and alone, when it was signalled.
SleepMeansOff == acc /\ treat.pc \in {"idle", "cleared"} /\ ~astray /\ ~stale => ~sw.sleep

\* After ACC off the terminal goes to sleep unless ACC comes on or it is restarted.
GoesToSleep == off ~> sw.sleep \/ ~off \/ stale

\* The alarm of an illegal ignition is cleared when the server has acknowledged a report
\* that carries it, unless an older report was outstanding when it was raised.
AlarmKept == [][alarm /\ ~alarm' => told' \/ early]_accVars
=============================================================================
