# A TLA+ model of the in-vehicle taxi terminal

The repository is the firmware of a taxi terminal. It speaks the GB/T 905
protocol to a dispatch server over the mobile network, and to a taximeter, a
roof light, a driver display and a microcontroller over serial ports. This
directory holds TLA+ models of the parts in which several threads, the network
and power cuts meet, the TLC configurations that check them, and proofs of
their main invariants for every value of the parameters.

Everything is run from this directory:

    tlc -workers 2 -config list.cfg MCRecordList      # one run of the table below
    tlapm RecordList_proof.tla                        # one module of proofs

`PROJECT.json` lists components, runs, hazards and theorems; its `map` names the
source lines each definition stands for.

## 1. The system

The terminal's own code is `src/src` and the small libraries `fifo`, `cb`,
`notify`, `debug` and `x_modem` under `src/libs/src`. Nearly all of the
repository's two million lines are vendored: ffmpeg, sqlite, libevent, mxml,
nmealib, jpeg and cJSON. The `list` library is shipped as a binary only, so it
is modelled from its use and marked external. `main.c` calls a libevent
demonstration, with `system_process` commented out; the models are of the
program `system_process` starts (`src/src/main/fleety_system.c:90-234`).

### Threads

| thread | work |
| --- | --- |
| main | restores unacknowledged rows and creates the threads, then once a second: acknowledges and resends records, drives timers |
| socket | one libevent loop: connection callbacks and timers of the MAIN, AUX and UI entries, and a pipe whose bytes say that events wait in the fifo |
| uart | a second libevent loop over the serial devices; its parsers (taximeter, display, microcontroller) store what they read in globals and push events |
| report | waits on a condition variable and builds position reports |
| ACC, sleep, call, update, authorise | short-lived threads started by events |

The threads share RAM structures. Some have a mutex (the tables), most do not
(the header's sequence counter, the RAM list between `elem_get` and `elem_set`,
the fifo, `taxi_status`, the tracking order, the meter's trip, the operation
record under construction).

### Components

| component | state it keeps | operations | what makes it correct | model |
| --- | --- | --- | --- | --- |
| record store | header counter, RAM list of sent messages, tables of reports and of operation records | build, send, record, insert, acknowledge, restore, supplement (retry or drop) | a row is settled only when the server has the message; a message leaves the list only when acknowledged, given up after its retries, or with the power; an operation record is not queued twice | `RecordStore`, `Outbox` |
| record list | list nodes, allocated buffers the records point to | append with limit, scan and rewrite, scan and delete | a record owns its buffer, the list is bounded, nothing acknowledged returns, nothing else disappears | `RecordList` |
| server connection | `state`, `bev`, `timeout` of an entry, libevent's own bufferevents | timer, connected, error, data, send | a sender finds a live bufferevent; a silent connection is dropped; a lost one is replaced | `MainSocket` |
| framing | bytes arrived and not used | escape, check byte, find messages in a stream | what is treated is what was sent, however it is cut | `ServerStream` |
| event queue | circular buffer, three indices, the pipe | `fifo_in`, `fifo_out`, write and read of the pipe | indices in bounds, each event treated once and in order, none left behind | `EventQueue` |
| status and device files | one structure in RAM, a file and its backup | set a flag, save, recover | a completed save survives every power cut | `StatusFile` |
| order dispatch | order status, order details, order table, dispatch flag | offer, grab, award, finish, two cancellations | terminal and server agree who is in dispatch; every awarded order gets on record and off it | `OrderDispatch` |
| report timers and tracking | counters of seconds and metres, tracking order | wait, request, report by period, distance or order | the terminal is never silent too long; requests are answered; tracking lasts as ordered and ends | `ReportThread` |
| taximeter session, login, evaluation | meter data of the last trip, loading and login flags, the operation record under construction, sign-in data | board, alight, trip data, resend, evaluate, sign in and out | a record mixes no two trips, a rated trip is sent, a sign-in message names its driver | `MeterSession` |
| ACC and sleep, alarm of an ignition | ignition, sleep and monitoring flags, waiting threads, alarm flag | ACC on and off, wait, sleep, command, report acknowledged | asleep only with the ignition off; parked ends in sleep; an alarm is kept until the server has it | `AccSleep` |
| telephone, serial ports, photos and sound, firmware update, peripherals, microcontroller, display, server events, settings, authorisation, storage, database and paths, positioning, identity, main program, platform, conversions, demonstrations, third-party, notify library, ring buffer | see `PROJECT.json` | | | not modelled, section 7 |

### How they interact

An input (driver display, taximeter, keys, server) becomes an event in the
queue; the socket thread treats it and calls the component's handler. Handlers
set flags of `taxi_status` (saved to its files), signal the report thread, and
send messages. A report or operation record goes to the server connection, then
to the RAM list and to its table; the acknowledgement settles the row and takes
the record off the list; the one-second loop resends what is due. At the start,
and whenever an acknowledgement empties the list, the unsettled rows are read
back from the tables and sent again.

### What is hard in it

The complete list with source lines is `PROJECT.json`, `hazards`. In short:
handlers of three threads inside the same list, fifo, flags or counter without a
common lock; events that carry no data, so that what they stand for is read from
globals when they are treated; a record sent before it is listed, listed before
it is in its table, acknowledged in between; numbers that start again after a
power cycle or wrap; a bufferevent dropped but not freed; a power cut between
two files; an award after another offer; a signal on a condition variable nobody
waits on.

## 2. The modules

Names of actions and variables follow the code: `ReportBuild`/`ReportSend`/
`ReportRecord`/`ReportInsert` are the steps of `gb905_report_send`,
`SupplementGet`/`SupplementSet` the calls of `gb905_record_supplement`, and so
on. A definition whose name says what goes wrong (`GiveUpKeepsState`,
`RecordCheckOffByOne`, `CheckAlwaysTakes`, ...) and whose comment begins with
"Mutant" is not used by any specification: it is a variant of the action after
it, holding a mistake the code does not make, and shows that the property it is
paired with would notice (section 4).

`RecordStore` models the life of a message: a thread fetches a sequence number
(a load and a store: two steps, as `gb905_build_header` has no lock), sends,
appends to the RAM list, inserts the row. The socket thread treats the answer: the
row, then one record of the list after the other, the deletion at the index it came
to, and the restore when the list is empty. Restoring is a loop over rows, by the main
thread at boot and by the socket thread; supplementing is a loop over the list by the
main thread, which copies an element and then deletes it, or sends the copy and writes
it back. The server accepts, refuses, answers late, in any order or not at
all. `received` and `made` are history variables; so are `clash` (a number was
given to a message while another message still had it), `overlap` (a deletion fell
between the look-up and the use of an index by the other thread) and `crossed` (the
socket thread sent a trip record or restored while the main thread restored at boot).

`Outbox` says what the store promises, without list, numbers or threads: a
message is saved, at some time received, and only then settled. `RecordStore`
implements it (`ImplementsOutbox`) with the unsettled and settled rows as
`outstanding` and `settled`.

`RecordList` looks at the same list one library call at a time, with the buffers
each record points into: `supplement` copies an element, may free its buffer,
writes it back by index; `cancel` settles the row, then copies, frees, deletes by
index, and restores both tables if the list is empty then; any thread appends after
checking the length and inserts its row after that. A message is the number it was
sent under; a report that is restored gets a new number and is a new message of the
same content (`of`). `overlap` and `parted` are history variables: a supplement
and the look-up of a cancel have been under way together; the acknowledgement of a
content was treated before its row was inserted, or it was restored while queued.

`MainSocket` is one entry of the connection table with all bufferevents ever
created for it. The timer gives up (drops `bev` without freeing it), retries or
stays quiet; libevent delivers connected, ended and data for any bufferevent,
those dropped included. Clearing the entry takes the steps the code takes: a
bufferevent that ends is freed, then `bev` is cleared, then `state` (`Ended`,
`EndedForgets`, `EndedClears`); the timer clears `bev`, then `state` and makes the
next attempt (`GiveUp`, `GaveUp`). `clearing` says how far the socket thread, which
does nothing else meanwhile, has come. A sender on another thread reads `state`
(`SendCheck`) and then writes to `bev` (`SendWrite`), without a lock, at any time
between those steps; `send` says that it is between the two, and whether an entry
being cleared has met it there.

`ServerStream` extends `MainSocket` with the bytes: each connection carries framed
messages, and `main_server_read_cb` copies at most `Window` bytes of what has arrived
(`ReadCb`). The loop of `gb905_protocol_ayalyze` then works on the copy: each `Turn`
looks for magic characters, unescapes what is between them, checks and treats it. The
last turn, `Finish`, also drains what the loop has used. While the loop is under way
the timer and the callbacks, which are of the same thread, do nothing, but the server
goes on sending. A connection that ends takes its bytes with it. `burst` is a history
variable: more had arrived at a time than was copied. Each bit of the check byte of
`xor8_computer` is the parity of the bytes that have it set (`Odd`).

`EventQueue` is `fifo.c` step by step: the copy into the slot, the two halves of
the index update, the two halves of `length++` and `length--`, the byte in the
pipe, and the treating loop. `overlap` is set when two calls on the fifo are
under way together, `full` when an event overwrote another.

`StatusFile` is the read-modify-write of a flag, the CRC, and the opening
(truncation), copying and flushing of the file and of its backup, then
the case analysis of `fleety_taxi_status_init` or `init_device_info` at the
next start. With
`SharedBuffer = FALSE` it is `taxi_status` (two variables, used the wrong way
round), with `TRUE` it is the device structure (one buffer for both). `overlap`
is set when a setter starts while another runs.

`OrderDispatch` is terminal, server, display and driver around one order status,
one set of order details, the order table and the dispatch flag. What a handler
leaves behind persists in two writes, the row of the order and the flag in
`taxi_status`: the second is a step of its own (`Save`), the socket thread does
nothing else before it, and the power may be cut.

`ReportThread` is the loop of `fleety_report_loop_func`: `Wake`, the reads of the
flag and the order, one action per rule (`PeriodTimed`, `TraceDistanceTime`,
...), and around it requests, orders, changes of situation, clock and restart.
A call takes no time; an order by time with interval 0 makes the wait 0, and no second
passes in the model until another order replaces it.

`MeterSession` has the UART thread, which stores what a meter message says in a
global and pushes an event without the data, and the socket thread, which treats
the events in order and reads the globals then. A trip is known by its number, a
position report by the moment it was built in, so that a record says which trip
its begin, end, data and evaluation are from. Sign-in and sign-out go through the
meter: a request, `gb905_meter_open_close_ack`, the meter's confirmation, the
event, the message to the server. `orderly` and `apart` are history variables.

`AccSleep` has the socket thread treating ignition events, the thread each ACC off
starts, and the UART thread that switches monitoring on the display's command; the
flags `sleep` and `acc_monitor` are bits of one word, written by load and store.
The alarm of an illegal ignition is raised by an event and cleared when an
acknowledged report is treated. Its history variables are `off`, `astray`, `stale`,
`told` and `early`.

`*_proof` modules hold the theorems and the lemmas they rest on; `MC*` modules
hold TLC's small sets.

Where a component's file is used by two modules, they look at it from two
distances. `RecordStore` asks what acknowledgements, retries and restores do to
messages and rows; `RecordList` has the nodes and buffers and asks what the library
calls do to them. The first is the composition
of sender, list, tables, connection and server; `ServerStream` is that of
connection and framing. `MeterSession` and `AccSleep` take the event queue as it
is promised by `EventQueue`, in order and without loss. The components coupled only
through flags (`taxi_status` read by the report thread and by the order
handlers) are modelled separately: each module lets the flags it reads change as
the code lets them.

## 3. What each run shows

`SYMMETRY` is used only in runs whose properties are safety properties. Deadlock
is checked except in `queue` and `meter`, where the system stops once all events
are treated, and in `list`, where a restore stops once the bound leaves no new number.

| run | bounds | states | properties and what they say |
| --- | --- | --- | --- |
| `store` | 1 report, 1 operation record, list of 2, no retry, 2 numbers and 3 headers, a power cycle | 2,355,035 | `TypeOK`. Until a number names two messages: `AckMeansReceived` (a row is settled only if the server accepted that message), `ImplementsOutbox` (refinement of `Outbox`). Until then, or a deletion meets an index in use: `LeavesForCause` (nothing is taken off the list that was not accepted, given up or lost with the power). Unless a deletion met an index in use or the socket thread crossed the restore at boot: `OperationQueuedOnce` (restoring never queues an operation record that still is in the list) |
| `v_restart` | 2 trip records, one number per power cycle, a restart | violated | `SettledIsReceived`, which is `AckMeansReceived` without the condition, section 6 |
| `list` | 3 numbers: 2 of reports and 1 of an operation record, 3 buffers, 2 recording threads, a limit of 1, no retry | 1,249,440 | `TypeOK`. `ListBound`: the list outgrows its limit by at most one record per further thread. Until a supplement and the look-up of a cancel overlap: `OwnBuffers` (no buffer freed or shared while a record points to it), `CopyStillValid` (a copy written back is still the element at that index), `NothingLost`, `CancelledStaysOutAlone` (what an acknowledgement deleted is not in the list again, under any number, unless row and record had parted) |
| `v_list` | the same with a limit of 2 | violated | `CancelledStaysOut` fails once they overlap, section 6 |
| `socket` | 3 bufferevents, a sender, threshold 2, 1 silent connection; 2 messages at a time out of 3, a copy of 8 bytes | 834,695 | `StreamTypeOK`. `SendTargetAlive`: from its check of state to its write a sender has a connected bufferevent, unless the entry is cleared meanwhile. `InUseIsRecent`: unless the entry is being cleared, a connection in use is not past its threshold. `Reconnects`: state 0 leads to state 1. `TreatedAsSent`: what is treated is what was sent, in order, whole and once. `Heard`: all of it, unless more had arrived at a time than is copied |
| `queue` | 2 producers, 3 events, 2 slots | 616,639 | `TypeOK`, `CountNotNegative` in every interleaving. Until two calls overlap or the fifo overflows: `TreatedInOrder`, `EventuallyTreated` (the byte written after the push wakes a reader that finds the event) |
| `status_save` | 2 threads, 2 flags, 2 power cuts, `taxi_status` | 2,556,378 | `SavedSurvives`: after a completed save that met no other, a power cut loses nothing, whatever earlier cuts and races left in the files |
| `v_status_cut` | the same | violated | `RecoversFromGoodFile` fails, section 6 |
| `order` | 2 orders of four pairs of types, 2 messages each way, a fault (restart or disconnect) | 869,696 | `TypeOK`. `InDispatchHasOpenOrder`: a terminal in dispatch has an order on record it was not told the end of, unless the power was cut between the row of an ended order and the flag. Until orders overlap, the driver cancels or a fault comes: `AgreesWithServer`, `FinishedOnRecord`, `AwardReachesDriver` |
| `report` | settings by time and by distance, 2 situations, 6 tracking orders, one with interval 0, of which 2 are given, 1 request, a restart, an interval unset | 1,114,388 | `ReportsInTime`: unless excused, silence never exceeds the longest interval. `RequestServed`: under settings by time a request is followed by a report built after it before the next second, unless it came between a message and the wait (`ServedAtOnce`); every request is in the end, unless excused. `TraceLasts`: an undisturbed trace by time does not end early, but for an interval. `TraceEnds`: if its interval is not 0 it ends |
| `meter` | 2 trips, 2 evaluations, 1 trip or sign-out sent again, 2 sign-ins of 2 drivers, a restart, 2 events waiting | 1,019,717 | `TypeOK`. `RecordIsOwnTrip`: the record an evaluation sends has that trip's data, begin, end and evaluation. `RatedTripSent`: an orderly trip that was rated is sent. `LoginNamesDriver`: a sign-in names its driver unless a later one has come. `InStep`: with no sign-in under way terminal and meter agree on who is signed in |
| `acc` | 4 ignition events, 1 command, 2 reports outstanding, a restart | 345,841 | `AccTypeOK`. `SleepMeansOff`: awake while the ignition is on. `GoesToSleep`: after ACC off the terminal falls asleep unless ACC comes on. `AlarmKept`: an alarm is cleared only when the server has a report that carries it |

Why the bounds suffice. A wrong acknowledgement needs two messages and one
number; with two numbers the third header wraps, and the restart brings the old
numbers back; a list of two holds one record of each kind, so that a cancel can delete either while
the main loop holds a copy of the other, and the disconnects leave either one in its
table only. A stale index needs an element before
and one after it: `list` has a limit of 1, which two threads that pass the check
together take to 2, and one report of two numbers comes back under the second; that a restore meets its own
message in the list takes a limit of 2, and is left to the theorem. Three bufferevents are a used, a forgotten and a pending
or new one. Its messages are one with bytes to escape, one as short as can be, and
one longer than the copy; two at a time let a piece hold the end of one and the
beginning of the next. A fifo of two slots wraps and overflows with three events.
Two cuts are one that damages a file and one that damages the other file's
rewriting. Two orders are the smallest number that overlaps. Intervals of 1 and 2
seconds tell the rules of the report thread apart and 3, `MaxAge`, is past the
longest. The second trip begins while the first is rated, and can be rated while
the first is sent again. Four ignition events are twice off and on: a second waiting thread
and a signal for the wrong one. The bounds on
counters (`MaxSeq`, `MaxTime`, `MaxBoots`, `MaxSilence`, `MaxSent`, `MaxCuts`,
`MaxQueue`, `MaxFaults`, `MaxRequests`, `MaxCommands`, `MaxTrips`, `MaxRatings`,
`MaxResends`, `MaxShifts`, `MaxEvents`, `MaxReports`) are guards of the actions
that count.

### Conditions written into properties

Several promises hold only until a certain race or fault happens, and the
conditions are history variables rather than restrictions of the model: the
model does go on. What happens beyond them is in section 6.

| condition | module | says |
| --- | --- | --- |
| `clash` | `RecordStore` | a number was given to a message while another had it: by racing headers, a wrapped counter, or a restart |
| `overlap` | `RecordStore` | in this power cycle one thread deleted a record between another's look-up and its use of an index of the list |
| `crossed` | `RecordStore` | in this power cycle the socket thread sent a trip record, or restored, while the main thread restored at boot |
| `overlap` | `RecordList`, `EventQueue`, `StatusFile` | two calls that must not meet have met |
| `parted` | `RecordList` | for one content: its acknowledgement was treated before its row was inserted, or it was restored while it was in the list |
| `full` | `EventQueue` | an event overwrote another |
| `send = "met"` | `MainSocket` | the sender was between its check and its write at some time while the entry was cleared |
| `burst` | `ServerStream` | more bytes had arrived than one callback copies |
| `torn` | `OrderDispatch` | the power was cut between the row of an order that ended and the dispatch flag; cleared when the flag is saved again |
| `orderly` | `OrderDispatch` | no orders overlapped, the driver cancelled none, no fault |
| `undisturbed` | `ReportThread` | tracking orders came one at a time, to a waiting thread, and no request or restart in between |
| `urgent` | `ReportThread` | a request was made while no message was on its way, and neither a message was built since nor did a call find settings by distance, no settings or a tracking order |
| `excused` | `ReportThread` | tracking or an unset interval since the last report by the settings |
| `orderly` | `MeterSession` | the changes of this trip were reported one at a time, each treated before the next, it was rated before the next passenger got in, and no other trip was sent again meanwhile |
| `apart` | `MeterSession` | a restart lost a sign-in event, or a sign-out of earlier was sent again while a driver is signed in; the next sign-in or sign-out ends it |
| `astray` | `AccSleep` | a signal was given to a thread not waiting, or not the last; cleared when no thread is left |
| `stale` | `AccSleep` | the UART thread stored an old sleep bit; cleared by the next store of that bit on another thread |
| `early` | `AccSleep` | a report was outstanding when the alarm was raised |

### Fairness

| module | fairness | why |
| --- | --- | --- |
| `MainSocket`, `ServerStream` | weak for the timer and for a callback that has begun; weak for the end of every attempt; strong for an attempt being accepted | a persistent libevent timer and a runnable thread; TCP answers or times out; the server takes a terminal that keeps trying. Nothing is assumed of established connections, and nothing is said of the parser's loop: a timer that has to fire again has to find it ended |
| `EventQueue` | weak for the socket thread and for each producer inside a push | a runnable thread runs; a producer may never push again |
| `OrderDispatch` | weak for treating a message, the save of the flag, the server's reading, and the display's answer | delivered messages are treated; driver and dispatcher may do nothing |
| `ReportThread` | weak for the thread and for the clock | the timed wait returns |
| `MeterSession` | weak for the push of a stored event and for the socket thread | runnable threads run; meter, driver and passengers may do nothing |
| `AccSleep` | weak for the socket thread, the store of a begun command and each waiting thread | runnable threads run and the timed wait returns; the ignition may stay as it is |

`RecordStore`, `RecordList` and `StatusFile` have safety properties only.

## 4. Variants that would be caught

Every property of a passing run is paired, in `PROJECT.json`, with a mistake that
it detects: a definition is replaced by a variant written next to it. Examples:
the end of a connection clears `bev` but not `state` (`SendTargetAlive`); the
acknowledgement of a report matches any record (`LeavesForCause`); the check of
the list's length is off by one (`ListBound`); `fifo_in` moves its index past
the end (`TypeOK`); the checksum is not renewed before the save
(`SavedSurvives`); the tables are restored before the list is empty
(`OperationQueuedOnce`); a cancelled order leaves the terminal in dispatch
(`InDispatchHasOpenOrder`); a trace does not reset its elapsed time
(`TraceLasts`); the two escapes are exchanged (`TreatedAsSent`); the end of a trip
does not store its data (`RatedTripSent`); the meter is confirmed in what it is not
(`InStep`); a sign-in is reported with the data of the other kind
(`LoginNamesDriver`); ACC on signals nobody (`SleepMeansOff`); so does a request for a report
(`RequestServed`); an acknowledgement of
anything clears the alarm (`AlarmKept`).

The type invariants of the status files and of the report thread, and that of the
server connection without its bytes, are theorems; the runs leave them to section 5.

## 5. What is proved

The theorems hold for every value of the constants that satisfies the module's
`ASSUME`; any further assumption is named. In the proofs no bound is used except
where named.

| theorem | says | argument |
| --- | --- | --- |
| `RecordStore_proof!TypeCorrect` | `TypeOK` | inductive by itself, one step per action |
| `RecordStore_proof!AckSafe` | `AckMeansReceived` | `SeqInv`, below |
| `RecordStore_proof!LeavesSafe` | `LeavesForCause` | `SeqInv` for what an acknowledgement reaches, and of `OnceInv` that until `overlap` the copy of the main loop and the index of the cancel are still right (`IndexInv`) |
| `RecordStore_proof!QueuedOnce` | `OperationQueuedOnce` | `OnceInv`: an operation record has one row at most, senders hold messages that are not in the tables yet, a restore by the socket thread finds no sender between its calls, indices in use are right until `overlap`, and unless restores crossed the operation records in the list are of rows the one restore has passed, or of none while it is before that table |
| `RecordStore_proof!StoreImplementsOutbox` | `ImplementsOutbox` | each step saves, settles or leaves the rows; that a settled row was received is `SeqInv`, that it is one row is `OnceInv` |
| `RecordList_proof!ListTypeCorrect` | `TypeOK` | inductive, with lemmas on the elements copied |
| `RecordList_proof!ListBounded` | `ListBound` | `Room`: the list and the threads that have passed the check together stay within `MaxNode - 1` plus the number of threads; a thread passes the check only below the limit, and adds its record to the list as it leaves |
| `RecordList_proof!BuffersOwned`, `CopyValid`, `NoneLost`, `StaysOut` | `OwnBuffers`, `CopyStillValid`, `NothingLost`, `CancelledStaysOutAlone` | `SoloInv`: until supplement and the look-up of cancel overlap one of them is idle, and the other finds at its index what it copied, since recording only appends; a message is in one place, a buffer belongs to one record; and until row and record part, of all that is in the list, in a table or on its way there one message at most carries a content, none after a deletion (`Single`) |
| `ServerStream_proof!SocketTypeCorrect`, `SenderSafe`, `SilenceBounded` | `TypeOK`, `SendTargetAlive`, `InUseIsRecent` of `MainSocket` | the first and the last with `EntryKept`: between the socket thread's callbacks state 1 comes with a connected bufferevent, a sender that has met no clearing is there only then, and while the entry is cleared `bev` falls before `state` does |
| `ServerStream_proof!StreamImplementsSocket`, `StreamSafe` | `StreamSpec => Spec` of `MainSocket`; hence the two promises hold with the bytes as well | every step of `ServerStream` is one of `MainSocket` or leaves its variables alone (`StepOfSocket`) |
| `ServerStream_proof!StreamTypeCorrect` | `StreamTypeOK` | part of `StreamInv`, below |
| `ServerStream_proof!MessagesAsSent`, `AllHeard` | `TreatedAsSent`, `Heard` | `StreamInv`, below |
| `EventQueue_proof!QueueTypeCorrect` | `TypeOK` | inductive |
| `EventQueue_proof!CountSafe` | `CountNotNegative` | `CountInv` adds what the threads have loaded: a producer never loads a negative count, the consumer has found and loaded a positive one, and no one else decrements |
| `EventQueue_proof!OrderSafe` | `TreatedInOrder` | `OrderInv`: with one call on the fifo at a time, the indices are the numbers of events copied in and taken modulo the size, the count is their difference but for the step a call has yet to take, and the slots between hold those events |
| `TaxiStatus_proof!StatusTypeCorrect` | `TypeOK` | inductive |
| `TaxiStatus_proof!SaveSafe` | `SavedSurvives` | `SaveInv` says, for a save alone, how far it has come (the CRC matches, the buffer is memory, the main file is memory); a setter that meets another sets `overlap` and promises nothing; a cut ends the overlap, and if it finds both files good, equal or not, memory becomes what the next recovery takes again. For both recoveries |
| `TaxiStatus_proof!AccTypeCorrect` | `AccTypeOK` | inductive with `Counted`: threads started and events waiting are no more than the events there were, so every thread has a place |
| `TaxiStatus_proof!AwakeWhileOn` | `SleepMeansOff` | `AwakeInv`: the event under treatment is the one the ignition was set from (`Serving`), and from the signal of an ACC on to the next ACC off no thread is left to set the flag, unless a signal went astray (`Woken`) |
| `TaxiStatus_proof!AlarmReachesServer` | `AlarmKept` | `Known`: while the alarm is up, a report older than it is outstanding only if one was when it was raised, or the server knows; each step keeps that, and only an acknowledgement clears the alarm |
| `OrderDispatch_proof!DispatchTypeCorrect` | `TypeOK` | inductive |
| `OrderDispatch_proof!DispatchSafe` | `InDispatchHasOpenOrder` | `LifeInv`: of each order the details are on the connection once at most, before every message of its end, and before it was told over; so what puts the terminal in dispatch is an open order, still open when the flag is saved, and the next end of any order takes it out, but for the cut |
| `OrderDispatch_proof!ServerAgrees`, `FinishRecorded` | `AgreesWithServer`, `FinishedOnRecord` | `StoryInv`: while nothing is out of order, all orders but one are over or not begun, and that one is at one of eight points of its story (offered, grabbing, grabbed, lost, awarded, working, ending, over), each of which says what is on the connection, on the screen and in the table, and whether the terminal is in dispatch as soon as the flag is saved |
| `ReportThread_proof!ReportTypeCorrect` | `TypeOK` | inductive |
| `ReportThread_proof!ReportsPunctual` | `LongestSet => (Spec => []ReportsInTime)` | `LongestSet`: no interval by time is above `Longest`, which is at least 1. `LatencyInv`: unless excused no order is in force and silence so far plus the wait to come is within `Longest`; every call builds a report before it waits |
| `ReportThread_proof!RequestsPrompt` | `ServedAtOnce`, the safety half of `RequestServed` | `UrgentInv`: an urgent request has woken the waiting thread, or found it before the call that builds a message |
| `ReportThread_proof!TraceNotCutShort` | `AgeCounts => (Spec => TraceLasts)` | `AgeCounts`: `MaxAge` is as long as the longest trace but for its interval, so that the history variable `age` counts far enough. `LastingInv`: while undisturbed the seconds a trace has counted have passed, or will have when the wait is over (`Passed`); a trace begins with none counted (`NothingLeft`); a call that ends it found its time over (`EndsDue`) |
| `MeterSession_proof!MeterTypeCorrect` | `TypeOK` | with: the meter asks to sign out only a driver it has |
| `MeterSession_proof!SignedInInStep` | `InStep` | `LoginInv`: the newest sign-in event under way says what the meter says, and without one the terminal does |
| `MeterSession_proof!DriverNamed` | `LoginNamesDriver` | `DriverInv`: what the newest sign-in and the newest sign-out under way say of the driver is still in the globals |
| `MeterSession_proof!OwnTripRecorded` | `RecordIsOwnTrip` | `OrderlyInv`: one change of the meter is under way at a time and the last one; evaluations under way are of the trip whose data are stored, the next boarding is behind them, and begin and end are in the record as soon as they were treated |

`SeqInv` is needed because an acknowledgement carries a number and not a message.
It says that every number held anywhere (list, connection, unsettled row, sender
between two calls) names one message (`Unique`), that an acknowledgement under way
or in hand names an accepted message (`AcksSound`, `InHandSound`), and that settled
rows are accepted (`RowsSound`), all of it until `clash`. `SequenceSound` proves it.

`StreamInv` is needed because `TreatedAsSent` compares two lists of messages and says
nothing of the bytes between them. It says that the messages sent on a connection are
those treated followed by some more, and that the bytes arrived and not used, followed
by those still to come, are the frames of these, one after the other (`Flows`, of the
input behind what the loop has used). So a turn of the loop finds the beginning of a
frame, and either the frame is there as a whole, is found whatever follows it and
verified to its message (`FullFrame`, `FrameVerifies`), or it is not and nothing is used
(`PartOfFrame`). That a frame can be told from what follows rests on `AllEscapeWell`: an
escaped sequence of bytes holds no magic character, and is unescaped to the sequence
it was made of. For `Heard` the invariant also says that short of a burst the loop works
on all that has arrived, and that a whole frame is never left behind it (`NoneLeft`).
Messages are any sequences of bytes not shorter than the header, `Window` is any
positive number, and pieces are cut anywhere. `MaxSent` is not used.

The operators that escape, unescape and frame sum up sequences with `FlattenSeq`, which
chooses a function that is defined by recursion. What it returns is proved by induction
on the length, stated with a set of naturals and not with a predicate (`NatInd`, from
the well-foundedness of `<`): that such a function exists, that any two agree, and that
an appended sequence is added at the end (`FlattenAppend`).

Only model-checked: the properties that say something happens in the end, which are
outside of the prover's reach since they rest on fairness and on when an action is
enabled (`Reconnects`, `EventuallyTreated`, `AwardReachesDriver`, the second half of
`RequestServed`,
`TraceEnds`, `RatedTripSent`, `GoesToSleep`). Every invariant and every action property
that a run checks is a theorem. The device structure's recovery (`SharedBuffer = TRUE`)
has no run and is covered by `SaveSafe`.

## 6. Where the code departs from what it says

Shown by a run:

- `v_restart`: the sequence counter starts again at 0 with the power, and a trip
  record keeps its number in the table (`operation_sqlite3.c:187`): the next trip
  record leaves under the same number, and one acknowledgement settles both. The column
  is documented as "acknowledged by the platform". The run leaves no number to race
  for or to wrap to: only the power cycle can make two rows share one.
- `v_list`: `gb905_record_supplement` copies an element, the socket thread
  deletes it, and the copy is written back by index over the next record
  (`fleety_record.c:323`): an acknowledged record returns with a freed buffer
  and the next one is lost.
- `v_status_cut`: `fleety_taxi_status_init` has the two variables of the recovery
  exchanged (`status.c:119`): with only one good file it restores the content of
  the bad one and overwrites the good one.

Met while modelling, in the models but without a run of their own:

- Restoring renumbers the rows of reports by value (`report_sqlite3.c:249`): after a
  power cycle a row that happens to hold the old number of another is renumbered with
  it, and one acknowledgement settles both.
- A trip record sent while the main thread restores at boot (`fleety_system.c:120`) is
  queued by its sender and by the restore; before the lists exist it uses a null list.
- Two threads in `gb905_build_header` give two messages one number
  (`gb905_common.c:769`), and so do 65536 headers after a message that is still
  outstanding; `gb905_record_cancel` matches the acknowledgement of a
  report by number only (`fleety_record.c:207`).
- A message whose acknowledgement is treated before its row is inserted
  (`gb905_report.c:119`) is outstanding in its table although the server has it, and is
  queued and sent again by the next restore; so is a report that is restored while a
  message recorded in between is in the list, under two numbers (`fleety_record.c:235`).
- `device.c:99` restores from a variable that was not read into.
- Two concurrent saves leave both files good and different (`status.c:51`), and
  setters of different bits in one word undo each other (`status.c:207`).
- A sender that reads `state`, or has read it, while the socket thread is between its
  steps of clearing the entry writes to a freed bufferevent or to NULL
  (`fleety_socket.c:651` with `:259`-`:262` and `:441`-`:442`).
- A connection given up by the timer is forgotten, not closed, and stays
  connected while the entry says it is not (`fleety_socket.c:441`).
- Only 1024 bytes are copied per callback (`fleety_socket.c:205`): complete messages
  behind them wait for the next bytes, and a message longer than that is never
  found, nor anything behind it, while its bytes keep resetting the timeout.
- A power cut between the row of an order that ended and the dispatch flag starts the
  terminal in dispatch for an order that is over (`fleety_order.c:151` and `157`, `174`
  and `180`); after any other restart in dispatch its order is open and on record, and
  not on the screen, so that the driver cannot finish it (`status.c:208`).
- A grab names the last order offered and not the one displayed
  (`gb905_order.c:188`); the order table's row is found by the last details
  (`order_sqlite3.c:200`); the driver's own cancellation never leaves dispatch
  (`gb905_common.c:233`); an offer between the grab's acknowledgement and the
  details makes the award ignored (`gb905_common.c:499`).
- "The report is to be sent at once" (`fleety_report.c:525`): a request signalled while
  a message is on its way finds nobody and is served only at the next interval
  (`fleety_report.c:532`), and under settings by distance it only counts as a second
  (`293`).
- An order to track by distance never reports a
  parked vehicle (`366`); the policy by distance reports every second (`293`)
  and, with the ignition off, uses the distance for ignition on (`192`); requests
  and replaced orders shorten a trace (`347`); a thread that reads the flag of
  one order and the policy of a stop waits an uninitialised time (`426`).
- A tracking order with interval 0 is stored as it comes (`gb905_trace.c:73`), and by
  `fleety_report.c:344`, `361` and `404` it sends and counts nothing: it stays in force
  until another order, by time in a loop that does not wait. A restart that finds the
  tracking flag saved (`status.c:156`) leaves just this order.
- An evaluation completes the record under construction with the trip stored last,
  when it is treated (`fleety_eval.c:43`): a trip sent again, or the next
  passenger's end, takes the place of the one rated. A trip nobody rates is not
  sent at all.
- `METER_SUPPLEMENT_EVENT` has no case in `fleety_event_treat`: a trip the meter
  sends again is acknowledged to the meter and never sent to the server;
  `fleety_meter_supplement_treat` is never called.
- A sign-out of earlier (`METER_OPERATION_RESEND_WHEN_CLOSE`) is treated as one of
  now and signs out the driver at work. Sign-in and sign-out are sent once, are
  not recorded, and are lost while there is no connection.
- ACC off twice leaves two waiting threads and one condition variable, made anew under
  the first (`fleety_acc.c:74`); a signal before the wait is lost; a timeout races
  ACC on: a vehicle that drives is then asleep until its ignition goes off and on
  again. After a restart with the ignition off no thread waits, and the terminal
  never sleeps. The monitoring command's load and store can bring a cleared sleep
  bit back or remove one just set (`status.c:271`).
- The alarm of an ignition is cleared by the acknowledgement of any report, also of
  one built before the alarm (`fleety_alarm.c:101`).

Met while reading, outside of the models:

- `gb905_parse_header` returns `false` for a wrong length, type or terminal, and its
  caller tests for a negative value (`gb905_common.c:625`): no message is refused.
- The weight flags around `fleety_report` are reset before the report thread builds
  the report (`gb905_meter.c:534-536`, `590-592`).
- `mcu_gpio.c:125-136` pushes an event that may not be initialised.
- A serial port that failed to open is opened again every ten seconds, but the
  descriptor is never given to the bufferevent and the state stays 0
  (`fleety_uart.c:688`): the port is not used again and descriptors run out.

## 7. What is left out

- The content of messages and reports; byte order of order numbers; the roof
  light that follows an order; the weight flags of a report.
- `fflush` is taken to put data on the medium; the code calls no `fsync`, so a
  cut may lose more than the model does.
- The tracking order is copied as a whole; the code's `memcpy` can be read
  half done.
- A sqlite call that fails. `report_sqlite3_update_state` and others return with
  their mutex held when the database does not open; nothing is promised after that.
- What the write of a sender does that meets the clearing of the entry (section 6).
- A trip record between the start of the socket thread and the creation of the lists in
  `fleety_record_init` (`fleety_system.c:110`); the models start at that creation.
- Races on the other words of `taxi_status` (`hw`, `alarm`) and on other bits of
  `sw`; the platform's keys as a second source of ignition and loading changes.
- The components marked `not_modelled` in `PROJECT.json`. Telephone, serial ports,
  peripherals, microcontroller and positioning are exchanges with a device whose
  side is not in the repository; what they keep is its last answer. Display, notices,
  questions, settings, storage and database store and format data in sequence, on
  one thread. Photos and firmware update move a file in numbered parts; what the
  server does with a part asked for twice is not in the repository, and the codecs
  are vendored. Authorisation is one request. The ring buffer and the `notify`
  library are not used by the program. The third-party libraries are taken as the
  code relies on them.

## 8. What would come next

The promises with a condition are where the code, not the model, has to change: a
lock in `gb905_build_header`, a lock over copy and write-back in
`gb905_record_supplement`, event data in the events, a predicate beside the two
condition variables, the two variables of `fleety_taxi_status_init`. After such a
change the history variable that states the condition can go, and the run and the
theorem state the promise alone.

In the models: the download of firmware and of photos, once the server's side is
known. In the proofs: that a step towards each property that only TLC checks is
never undone, as far as that is an action property; the liveness itself stays with
TLC.
