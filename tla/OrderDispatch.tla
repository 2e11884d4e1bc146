----------------------------- MODULE OrderDispatch -----------------------------
(***************************************************************************)
(* Taxi orders: the server offers an order, the driver grabs it on the     *)
(* screen, the server awards it, the driver finishes or cancels it.        *)
(* src/src/app/order/fleety_order.c and module/gb905/order/gb905_order.c   *)
(* under gb905_parse_protocol, with ui_order.c on the driver's side.       *)
(*                                                                         *)
(* Every handler here runs on the socket thread, so each is one step, but  *)
(* for a power cut between the two that persist: the order's row and the   *)
(* dispatch flag, saved by a step of its own while the thread does nothing *)
(* else.                                                                   *)
(* There is one status, one brief and one detail, whatever the number of   *)
(* orders under way.  The status handlers set is overwritten by            *)
(* gb905_parse_protocol after them: the value each handler leaves is what  *)
(* the model assigns.  The terminal's acknowledgement of each message is   *)
(* left out: nothing the server does here depends on it.                   *)
(***************************************************************************)
EXTENDS Integers, Sequences, FiniteSets

CONSTANTS
  Orders, None,   \* orders; no order
  Typings,        \* what types the orders may have
  MaxQueue,       \* bound: messages under way in a direction
  MaxFaults       \* bound: restarts and lost connections

Types == {"real_time", "reserved", "appoint"}

ASSUME OrderAssumption ==
  /\ None \notin Orders /\ Typings \subseteq [Orders -> Types]
  /\ MaxQueue \in Nat /\ MaxFaults \in Nat

VARIABLES
  status, brief, detail,  \* order_info
  order_state,            \* taxi_status.sw.flag.order, as saved
  saving,                 \* the socket thread has the flag still to save: for an order, for
                          \* the end of one
  table,                  \* bookorder_table: the state of each order's row
  vacant,                 \* get_login_mode() && !get_loading_status()
  shown, tap, job,        \* screen: order offered, order tapped, order under way
  type,                   \* server: the type of each order, set once
  srv,                    \* server: what became of each order
  up, down,               \* the connection, both directions
  faults,                 \* restarts and lost connections so far
  ended,                  \* history: orders whose end the terminal was told
  torn,                   \* history: the power was cut between the row of an order that
                          \* ended and the flag, and the flag was not saved since
  orderly                 \* history: the server offered an order only when the one
                          \* before was over and off the screen, the driver left
                          \* appointed orders to the terminal and cancelled none, the
                          \* screen closed what the server cancelled, no fault

history == <<ended, torn, orderly>>
vars   == <<status, brief, detail, order_state, saving, table, vacant, shown, tap, job,
            type, srv, up, down, faults, history>>
info   == <<brief, detail>>
flag   == <<order_state, saving>>
screen == <<shown, tap, job>>

Statuses == {"idle", "brief_ack", "crab", "crab_ack", "detail_ack", "complete",
             "complete_ack", "isu_cancel", "isu_cancel_ack"}
\* A row is inserted with the status CRAB_ACK and updated when the order ends.
RowStates == {"none", "crab_ack", "complete_ack", "server_cancel"}

UpMsg   == [kind : {"grab", "finish", "cancel"}, order : Orders]
DownMsg == [kind : {"brief", "detail", "lost", "cancel",
                    "ack_grab", "ack_finish", "ack_cancel"}, order : Orders]
Msg(kind, order) == [kind |-> kind, order |-> order]

TypeOK ==
  /\ status \in Statuses
  /\ brief \in Orders \union {None} /\ detail \in Orders \union {None}
  /\ order_state \in BOOLEAN /\ vacant \in BOOLEAN /\ saving \in {"no", "order", "end"}
  /\ table \in [Orders -> RowStates]
  /\ {shown, tap, job} \subseteq Orders \union {None}
  /\ type \in [Orders -> Types]
  /\ srv \in [Orders -> {"new", "offered", "grabbed", "awarded", "finished",
                         "cancelled", "declined", "gone"}]
  /\ up \in Seq(UpMsg) /\ down \in Seq(DownMsg)
  /\ faults \in 0..MaxFaults /\ ended \subseteq Orders
  /\ torn \in BOOLEAN /\ orderly \in BOOLEAN

Init ==
  /\ status = "idle" /\ brief = None /\ detail = None
  /\ order_state = FALSE /\ saving = "no" /\ vacant = TRUE
  /\ table = [o \in Orders |-> "none"]
  /\ shown = None /\ tap = None /\ job = None
  /\ type \in Typings /\ srv = [o \in Orders |-> "new"] /\ up = <<>> /\ down = <<>>
  /\ faults = 0 /\ ended = {} /\ torn = FALSE /\ orderly = TRUE

-----------------------------------------------------------------------------
(* The terminal treats the server's messages: gb905_parse_protocol.          *)

Arrives(kind) == saving = "no" /\ down # <<>> /\ Head(down).kind = kind /\ down' = Tail(down)
Subject       == Head(down).order

\* fleety_send_briefing_judge: what is shown to the driver.
Displays(o) == vacant /\ (order_state => type[o] = "reserved")

\* MESSAGE_ORDER_BREIF_INFO.  An appointed order is grabbed at once; the status
\* ends as BRIEF_ACK even so, and even if nothing was shown.
TreatBrief ==
  /\ Arrives("brief")
  /\ brief' = Subject /\ status' = "brief_ack"
  /\ shown' = (IF Displays(Subject) THEN Subject ELSE shown)
  /\ up' = IF Displays(Subject) /\ ~order_state /\ type[Subject] = "appoint"
           THEN Append(up, Msg("grab", Subject)) ELSE up
  /\ UNCHANGED <<type, detail, flag, table, vacant, tap, job, srv, faults, history>>

\* Mutant: the row is inserted after the status has moved on.
TreatDetailLateInsert ==
  /\ Arrives("detail")
  /\ detail' = Subject /\ status' = "detail_ack"
  /\ IF status = "crab_ack"
     THEN /\ job' = Subject
          /\ table' = [table EXCEPT ![Subject] = "detail_ack"]
          /\ saving' = IF type[Subject] = "reserved" THEN "no" ELSE "order"
     ELSE UNCHANGED <<job, table, saving>>
  /\ UNCHANGED <<type, brief, order_state, vacant, shown, tap, srv, up, faults, history>>

\* MESSAGE_ORDER_GRAB_ACK with the details: the order is ours.  It is shown and
\* put on record only while the status is CRAB_ACK; then the flag is saved.
TreatDetail ==
  /\ Arrives("detail")
  /\ detail' = Subject /\ status' = "detail_ack"
  /\ IF status = "crab_ack"
     THEN /\ job' = Subject
          /\ table' = [table EXCEPT ![Subject] = "crab_ack"]
          /\ saving' = IF type[Subject] = "reserved" THEN "no" ELSE "order"
     ELSE UNCHANGED <<job, table, saving>>
  /\ UNCHANGED <<type, brief, order_state, vacant, shown, tap, srv, up, faults, history>>

\* MESSAGE_ORDER_GRAB_ACK without details: another taxi got it.
TreatLost ==
  /\ Arrives("lost") /\ status' = "detail_ack"
  /\ UNCHANGED <<type, info, flag, table, vacant, screen, srv, up, faults, history>>

\* order_sqlite3_update_state: the row of the order in detail, if there is one.
RowUpdated(state) ==
  table' = [o \in Orders |-> IF o = detail /\ table[o] # "none" THEN state ELSE table[o]]

\* Mutant: the terminal stays in dispatch when the server cancels.
TreatCancelInDispatch ==
  /\ Arrives("cancel")
  /\ status' = "idle" /\ RowUpdated("server_cancel")
  /\ job' \in {job, None} /\ orderly' = (orderly /\ job' = None)
  /\ ended' = ended \union {Subject}
  /\ UNCHANGED <<type, info, flag, vacant, shown, tap, srv, up, faults, torn>>

\* MESSAGE_ORDER_CANCEL_DOWN.  The order's id is read and not used.
TreatCancel ==
  /\ Arrives("cancel")
  /\ status' = "idle" /\ RowUpdated("server_cancel") /\ saving' = "end"
  /\ job' \in {job, None} /\ orderly' = (orderly /\ job' = None)
  /\ ended' = ended \union {Subject}
  /\ UNCHANGED <<type, info, order_state, vacant, shown, tap, srv, up, faults, torn>>

\* Mutant: only a terminal that remembers the grab takes its acknowledgement.
TreatAckGrabGuarded ==
  /\ Arrives("ack_grab") /\ status' = (IF status = "crab" THEN "crab_ack" ELSE status)
  /\ UNCHANGED <<type, info, flag, table, vacant, screen, srv, up, faults, history>>

\* gb905_common_ack_treat
TreatAckGrab ==
  /\ Arrives("ack_grab") /\ status' = "crab_ack"
  /\ UNCHANGED <<type, info, flag, table, vacant, screen, srv, up, faults, history>>

\* Mutant: the row is updated before the status is set.
TreatAckFinishEarlyUpdate ==
  /\ Arrives("ack_finish")
  /\ status' = "complete_ack" /\ RowUpdated(status) /\ saving' = "end"
  /\ ended' = ended \union {Subject}
  /\ UNCHANGED <<type, info, order_state, vacant, screen, srv, up, faults, torn, orderly>>

\* Mutant: the terminal stays in dispatch.
TreatAckFinishInDispatch ==
  /\ Arrives("ack_finish")
  /\ status' = "complete_ack" /\ RowUpdated("complete_ack")
  /\ ended' = ended \union {Subject}
  /\ UNCHANGED <<type, info, flag, vacant, screen, srv, up, faults, torn, orderly>>

TreatAckFinish ==
  /\ Arrives("ack_finish")
  /\ status' = "complete_ack" /\ RowUpdated("complete_ack") /\ saving' = "end"
  /\ ended' = ended \union {Subject}
  /\ UNCHANGED <<type, info, order_state, vacant, screen, srv, up, faults, torn, orderly>>

TreatAckCancel ==
  /\ Arrives("ack_cancel") /\ status' = "isu_cancel_ack"
  /\ UNCHANGED <<type, info, flag, table, vacant, screen, srv, up, faults, history>>

Treat == \/ TreatBrief \/ TreatDetail \/ TreatLost \/ TreatCancel
         \/ TreatAckGrab \/ TreatAckFinish \/ TreatAckCancel

\* set_order_state, after the row.
Save ==
  /\ saving # "no" /\ saving' = "no"
  /\ order_state' = (saving = "order") /\ torn' = FALSE
  /\ UNCHANGED <<type, status, info, table, vacant, screen, srv, up, down, faults, ended, orderly>>

-----------------------------------------------------------------------------
(* The driver: ui_order_control_treat.                                       *)

\* The driver taps the order on the screen, or leaves it.
DriverTap ==
  /\ shown # None /\ tap = None
  /\ tap' \in {shown, None} /\ shown' = None
  /\ orderly' = (orderly /\ (type[shown] = "appoint" => tap' = None))
  /\ UNCHANGED <<type, status, info, flag, table, vacant, job, srv, up, down, faults, ended, torn>>

\* gb905_order_grab_treat.  The id in the screen's message is not used: the
\* order grabbed is the last one offered.
UiGrab ==
  /\ saving = "no" /\ tap # None /\ Len(up) < MaxQueue
  /\ up' = Append(up, Msg("grab", brief)) /\ status' = "crab" /\ tap' = None
  /\ UNCHANGED <<type, info, flag, table, vacant, shown, job, srv, down, faults, history>>

UiFinish ==
  /\ saving = "no" /\ job # None /\ Len(up) < MaxQueue
  /\ up' = Append(up, Msg("finish", job)) /\ status' = "complete" /\ job' = None
  /\ UNCHANGED <<type, info, flag, table, vacant, shown, tap, srv, down, faults, history>>

UiCancel ==
  /\ saving = "no" /\ job # None /\ Len(up) < MaxQueue
  /\ up' = Append(up, Msg("cancel", job)) /\ status' = "isu_cancel" /\ job' = None
  /\ orderly' = FALSE
  /\ UNCHANGED <<type, info, flag, table, vacant, shown, tap, srv, down, faults, ended, torn>>

\* Login, logout, and the meter: LOGIN_EVENT, set_loading_status.
Vacancy ==
  /\ vacant' = ~vacant
  /\ UNCHANGED <<type, status, info, flag, table, screen, srv, up, down, faults, history>>

Ui == DriverTap \/ UiGrab \/ UiFinish \/ UiCancel

-----------------------------------------------------------------------------
(* The server and the connection.                                            *)

Terminal == <<status, info, flag, table, vacant, screen>>

\* Nothing is under way on the connection.
Settled == up = <<>> /\ down = <<>>

UnderWay(o) == srv[o] \in {"offered", "grabbed", "awarded"}

ServerSays(o, stage, msgs) ==
  /\ Len(down) + Len(msgs) <= MaxQueue
  /\ srv' = [srv EXCEPT ![o] = stage] /\ down' = down \o msgs

Offer(o) ==
  /\ srv[o] = "new"
  /\ ServerSays(o, "offered", <<Msg("brief", o)>>)
  /\ orderly' = (orderly /\ Settled /\ shown = None /\ tap = None
                 /\ \A p \in Orders : ~UnderWay(p))
  /\ UNCHANGED <<type, Terminal, up, faults, ended, torn>>

\* Nobody wanted it, or another taxi took it.
Withdraw(o) ==
  /\ srv[o] = "offered" /\ ServerSays(o, "gone", <<>>)
  /\ UNCHANGED <<type, Terminal, up, faults, history>>

\* The server acknowledges the driver's message and acts on it.
ServerRead ==
  /\ up # <<>> /\ up' = Tail(up)
  /\ LET o == Head(up).order
         kind == Head(up).kind
     IN  \/ /\ kind = "grab" /\ srv[o] = "offered"
            /\ ServerSays(o, "grabbed", <<Msg("ack_grab", o)>>)
         \/ /\ kind = "grab" /\ srv[o] = "gone"
            /\ ServerSays(o, "gone", <<Msg("ack_grab", o), Msg("lost", o)>>)
         \/ /\ kind = "grab" /\ srv[o] \notin {"offered", "gone"}
            /\ ServerSays(o, srv[o], <<Msg("ack_grab", o)>>)
         \/ /\ kind = "finish"
            /\ ServerSays(o, IF srv[o] = "awarded" THEN "finished" ELSE srv[o],
                          <<Msg("ack_finish", o)>>)
         \/ /\ kind = "cancel"
            /\ ServerSays(o, IF srv[o] = "awarded" THEN "declined" ELSE srv[o],
                          <<Msg("ack_cancel", o)>>)
  /\ UNCHANGED <<type, Terminal, faults, history>>

Award(o) ==
  /\ srv[o] = "grabbed"
  /\ \/ ServerSays(o, "awarded", <<Msg("detail", o)>>)
     \/ ServerSays(o, "gone", <<Msg("lost", o)>>)
  /\ UNCHANGED <<type, Terminal, up, faults, history>>

ServerCancel(o) ==
  /\ srv[o] = "awarded" /\ ServerSays(o, "cancelled", <<Msg("cancel", o)>>)
  /\ UNCHANGED <<type, Terminal, up, faults, history>>

Server == ServerRead \/ \E o \in Orders :
                          Offer(o) \/ Withdraw(o) \/ Award(o) \/ ServerCancel(o)

\* The connection is lost with what is under way on it.
Disconnect ==
  /\ faults < MaxFaults /\ faults' = faults + 1
  /\ up' = <<>> /\ down' = <<>> /\ orderly' = FALSE
  /\ UNCHANGED <<type, Terminal, srv, ended, torn>>

\* The order flag is saved with taxi_status, order_info is not.  What was still to be saved
\* is not saved any more.
Restart ==
  /\ faults < MaxFaults /\ faults' = faults + 1
  /\ up' = <<>> /\ down' = <<>> /\ orderly' = FALSE
  /\ status' = "idle" /\ brief' = None /\ detail' = None
  /\ shown' = None /\ tap' = None /\ job' = None
  /\ saving' = "no" /\ torn' = (torn \/ (saving = "end" /\ order_state))
  /\ UNCHANGED <<type, order_state, table, vacant, srv, ended>>

Next == Treat \/ Save \/ Ui \/ Vacancy \/ Server \/ Disconnect \/ Restart

\* Messages are delivered and a tap reaches the terminal.  The driver and the
\* server's dispatcher need not do anything.
Fairness == WF_vars(Treat) /\ WF_vars(Save) /\ WF_vars(ServerRead) /\ WF_vars(UiGrab)

Spec == Init /\ [][Next]_vars /\ Fairness

-----------------------------------------------------------------------------
(* Properties.                                                               *)

\* A terminal in dispatch has an order on record whose end it was not told, also after a power
\* cut, unless the cut came between the row of an ended order and the flag.
InDispatchHasOpenOrder ==
  order_state /\ saving # "end" /\ ~torn => \E o \in Orders : table[o] # "none" /\ o \notin ended

\* Until something is out of order: with nothing under way on the connection, the
\* terminal is in dispatch exactly while the server has an order with it that is
\* not a reservation.
AgreesWithServer ==
  Settled /\ saving = "no" /\ orderly =>
    (order_state <=> \E o \in Orders : srv[o] = "awarded" /\ type[o] # "reserved")

\* "update the order's state by its id": until something is out of order and with
\* nothing under way, an order that was finished is on record as finished.
FinishedOnRecord ==
  Settled /\ orderly => \A o \in Orders : srv[o] = "finished" => table[o] = "complete_ack"

\* Until something is out of order, an order the server awards is put on record.
AwardReachesDriver ==
  \A o \in Orders : (srv[o] = "awarded") ~> (table[o] # "none" \/ ~orderly)
=============================================================================
