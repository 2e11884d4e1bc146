----------------------------- MODULE RecordStore -----------------------------
(***************************************************************************)
(* Store-and-forward of location reports and operation (trip) records:     *)
(* src/src/app/record/fleety_record.c, the two record tables under         *)
(* src/src/middleware/db/sqlite3, and the code that sends a message and    *)
(* treats its acknowledgement under src/src/module/gb905.                  *)
(*                                                                         *)
(* Three threads work on it, without a lock around the RAM list or around  *)
(* the sequence counter: the report thread (send, record, insert), the     *)
(* socket thread (acknowledgements, restore, operation records) and the    *)
(* main thread (restore at boot, supplement, heartbeat).  Each call on the *)
(* list or on a table is one step; RecordList.tla takes those on the list  *)
(* apart.                                                                  *)
(***************************************************************************)
EXTENDS Integers, Sequences, SequencesExt

CONSTANTS
  Reports,       \* the location reports the terminal may produce
  Operations,    \* the operation records the terminal may produce
  None,          \* no message
  MaxNode,       \* MAX_NODE_COUNT
  MaxSupplement, \* MAX_SUPPLEMENT_COUNT
  RetryCount,    \* setting tcp_msg_retry_count
  AckTimeout,    \* setting tcp_msg_ack_timeout
  SeqSpace,      \* sequence numbers on the wire: 2^16
  OtherSenders,  \* bound: threads whose other messages use up numbers
  MaxAcks,       \* bound: acknowledgements the terminal has yet to treat
  MaxSeq,        \* bound: headers built in one power cycle
  MaxTime,       \* bound: clock ticks
  MaxBoots       \* bound: restarts

ASSUME StoreAssumption ==
  /\ Reports \intersect Operations = {} /\ None \notin Reports \union Operations
  /\ MaxNode \in Nat \ {0} /\ MaxSupplement \in Nat \ {0} /\ SeqSpace \in Nat \ {0}
  /\ RetryCount \in Nat /\ AckTimeout \in Nat
  /\ OtherSenders \subseteq {"main", "socket"} /\ MaxAcks \in Nat
  /\ MaxSeq \in Nat /\ MaxTime \in Nat /\ MaxBoots \in Nat

Messages == Reports \union Operations

REPORT     == "0x0200"   \* MESSAGE_LOCATION_REPORT
SUPPLEMENT == "0x0203"   \* MESSAGE_LOCATION_SUPPLEMENT_REPORT
OPERATION  == "0x0B05"   \* MESSAGE_OPERATION_REPORT
ReportIds  == {REPORT, SUPPLEMENT}
MsgIds     == ReportIds \union {OPERATION}

Threads == {"main", "socket", "report"}
NotBuilding == -1

VARIABLES
  seqno,      \* msg_seq_number of gb905_build_header
  header,     \* per thread: the value it loaded from seqno and has yet to store back
  list,       \* msg_record_list[MAIN_SOCKET]
  reportTab,  \* report_table, in row id order
  operTab,    \* operation_table, in row id order
  conn,       \* socket_mngr[MAIN_SOCKET].state
  uplink,     \* messages on the connection to the server
  downlink,   \* acknowledgements on the connection to the terminal
  received,   \* history: messages the server has accepted
  made,       \* history: messages the terminal has started to send
  clash,      \* history: a number was given to a message while another one had it
  overlap,    \* history: a deletion fell between the look-up and the use of an
              \* index of the list by the other thread, in this power cycle
  crossed,    \* history: the socket thread sent an operation record or restored
              \* the tables while the main thread restored them, in this power cycle
  rep,        \* report thread in gb905_report_send
  soc,        \* socket thread in gb905_send_operate or gb905_common_ack_treat
  ack,        \* the acknowledgement the socket thread is treating
  scan,       \* the index gb905_record_cancel has come to
  restore,    \* per thread: phase and row cursor of the two restore functions
  sup,        \* main loop in gb905_record_supplement: index, count and msg_record
  now,        \* time()
  boots       \* restarts so far

vars == <<seqno, header, list, reportTab, operTab, conn, uplink, downlink, received,
          made, clash, overlap, crossed, rep, soc, ack, scan, restore, sup, now, boots>>
netVars == <<conn, uplink, downlink, received>>

Rec(S) == [id : MsgIds, seq : 0..SeqSpace-1, msg : S,
           try : 0..RetryCount+1, last : 0..MaxTime]
Packet == [id : MsgIds, seq : 0..SeqSpace-1, msg : Messages]
AckMsg == [id : MsgIds, seq : 0..SeqSpace-1, ok : BOOLEAN]
Row(S) == [msg : S, seq : 0..SeqSpace-1, state : {0, 1}]

\* A sender between its calls: which message, under which sequence number.
Sender(S) == [pc : {"idle", "send", "record", "insert", "cancel", "delete"},
              msg : S \union {None}, seq : 0..SeqSpace-1]
IdleSender == [pc |-> "idle", msg |-> None, seq |-> 0]

\* The threads that restore the tables, and where they are in it.
Restorers == {"main", "socket"}
Restore == [phase : {"off", "begin", "reports", "header", "between", "operations"},
            cur : Nat]
NotRestoring == [phase |-> "off", cur |-> 0]
BeginRestore == [phase |-> "begin", cur |-> 0]

\* gb905_record_supplement between its calls, with the record it has copied.
NoRec == [id |-> OPERATION, seq |-> 0, msg |-> None, try |-> 0, last |-> 0]
Supplement == [pc : {"idle", "get", "delete", "send", "set"}, i : Nat,
               count : 0..MaxSupplement, rec : Rec(Messages \union {None})]
IdleSupplement == [pc |-> "idle", i |-> 0, count |-> 0, rec |-> NoRec]
Copied == sup.pc \in {"delete", "send", "set"}

TypeOK ==
  /\ seqno \in 0..MaxSeq
  /\ header \in [Threads -> -1..MaxSeq-1]
  /\ list \in Seq(Rec(Messages))
  /\ reportTab \in Seq(Row(Reports))
  /\ operTab \in Seq(Row(Operations))
  /\ conn \in BOOLEAN
  /\ uplink \in Seq(Packet)
  /\ downlink \in Seq(AckMsg)
  /\ received \subseteq Messages
  /\ made \subseteq Messages
  /\ clash \in BOOLEAN /\ overlap \in BOOLEAN /\ crossed \in BOOLEAN
  /\ rep \in Sender(Reports) /\ rep.pc \notin {"cancel", "delete"}
  /\ rep.pc # "idle" => rep.msg \in Reports
  /\ soc \in Sender(Operations)
  /\ soc.pc \notin {"idle", "cancel", "delete"} => soc.msg \in Operations
  /\ ack \in AckMsg
  /\ scan \in Nat
  /\ restore \in [Restorers -> Restore]
  /\ \A t \in Restorers : restore[t].phase = "header" => restore[t].cur \in DOMAIN reportTab
  /\ sup \in Supplement
  /\ Copied => sup.rec.msg \in Messages
  /\ now \in 0..MaxTime
  /\ boots \in 0..MaxBoots

\* fleety_record_init: the lists are created and the main thread restores both
\* tables.  The socket thread has been running for seconds then; system_process
\* starts the report thread only afterwards.
BootRestore == [t \in Restorers |-> IF t = "main" THEN BeginRestore ELSE NotRestoring]

NoAck == [id |-> OPERATION, seq |-> 0, ok |-> FALSE]

Init ==
  /\ seqno = 0 /\ header = [t \in Threads |-> NotBuilding]
  /\ list = <<>> /\ reportTab = <<>> /\ operTab = <<>>
  /\ conn = FALSE /\ uplink = <<>> /\ downlink = <<>>
  /\ received = {} /\ made = {}
  /\ clash = FALSE /\ overlap = FALSE /\ crossed = FALSE
  /\ rep = IdleSender /\ soc = IdleSender
  /\ ack = NoAck /\ scan = 0
  /\ restore = BootRestore /\ sup = IdleSupplement
  /\ now = 0 /\ boots = 0

Restoring(t) == restore[t].phase # "off"
Booted       == ~Restoring("main")
MainIdle     == Booted /\ sup.pc = "idle" /\ header["main"] = NotBuilding
SocketIdle   == ~Restoring("socket") /\ soc.pc = "idle" /\ header["socket"] = NotBuilding
\* report_sqlite3_mutex is held for the whole of report_sqlite3_restore_record.
ReportTabFree == \A t \in Restorers : restore[t].phase \notin {"reports", "header"}
OperTabFree   == \A t \in Restorers : restore[t].phase # "operations"  \* operation_sqlite3_mutex

(***************************************************************************)
(* gb905_build_header: the static counter is read into the header and then *)
(* incremented, a load and a store with no lock around them.               *)
(***************************************************************************)
LoadSeq(t) ==
  /\ header[t] = NotBuilding
  /\ seqno < MaxSeq
  /\ header' = [header EXCEPT ![t] = seqno]

StoreSeq(t) ==
  /\ header[t] # NotBuilding
  /\ seqno' = header[t] + 1
  /\ header' = [header EXCEPT ![t] = NotBuilding]

WireSeq(t) == header[t] % SeqSpace

\* Who holds number q for message m: a record of the RAM list, a message on the
\* connection, an outstanding row, a sender that has yet to record or insert, the
\* copy the main loop has yet to send or to write back.
InList(q, m)   == \E i \in DOMAIN list : list[i].seq = q /\ list[i].msg = m
InUplink(q, m) == \E i \in DOMAIN uplink : uplink[i].seq = q /\ uplink[i].msg = m
InTab(tab, q, m) ==
  \E k \in DOMAIN tab : tab[k].state = 0 /\ tab[k].seq = q /\ tab[k].msg = m
InCopy(q, m)   == sup.pc \in {"send", "set"} /\ sup.rec.seq = q /\ sup.rec.msg = m
InSender(s, q, m) == s.pc \in {"record", "insert"} /\ s.seq = q /\ s.msg = m

Holds(q, m) ==
  \/ InList(q, m) \/ InUplink(q, m) \/ InCopy(q, m)
  \/ InTab(reportTab, q, m) \/ InTab(operTab, q, m)
  \/ InSender(rep, q, m) \/ InSender(soc, q, m)

\* A positive acknowledgement of number q is on its way or being treated.
AckUnderWay(q) ==
  \/ \E i \in DOMAIN downlink : downlink[i].ok /\ downlink[i].seq = q
  \/ soc.pc \in {"cancel", "delete"} /\ ack.seq = q

\* Message m goes out under number q: a clash when another message still has q.
Name(q, m) ==
  clash' = (clash \/ AckUnderWay(q) \/ \E x \in Messages \ {m} : Holds(q, x))

\* fleety_socket_send drops the message while the socket is not connected.
Transmit(id, seq, m) ==
  uplink' = IF conn THEN Append(uplink, [id |-> id, seq |-> seq, msg |-> m])
                    ELSE uplink

\* gb905_record_msg: append unless the list is full.
RecordMsg(id, seq, m) ==
  list' = IF Len(list) >= MaxNode THEN list
          ELSE Append(list, [id |-> id, seq |-> seq, msg |-> m,
                             try |-> 0, last |-> now])

\* Any other message: heartbeats and acknowledgements use up a sequence number.
OtherHeader(t) ==
  /\ t \in OtherSenders
  /\ (t = "main" /\ MainIdle) \/ (t = "socket" /\ SocketIdle)
  /\ LoadSeq(t)
  /\ UNCHANGED <<seqno, list, reportTab, operTab, netVars, made, clash, overlap,
                 crossed, rep, soc, ack, scan, restore, sup, now, boots>>

OtherSend(t) ==
  /\ t \in {"main", "socket"}
  /\ ~Restoring(t) /\ (t = "socket" => soc.pc = "idle")
  /\ StoreSeq(t)
  /\ UNCHANGED <<list, reportTab, operTab, netVars, made, clash, overlap, crossed, rep,
                 soc, ack, scan, restore, sup, now, boots>>

-----------------------------------------------------------------------------
(* The report thread: gb905_report_send.                                     *)

ReportBuild(m) ==
  /\ Booted /\ rep.pc = "idle" /\ m \in Reports \ made
  /\ LoadSeq("report")
  /\ rep' = [rep EXCEPT !.pc = "send", !.msg = m]
  /\ made' = made \union {m}
  /\ UNCHANGED <<clash, overlap, crossed, seqno, list, reportTab, operTab, netVars, soc,
                 ack, scan, restore, sup, now, boots>>

ReportSend ==
  /\ rep.pc = "send"
  /\ StoreSeq("report")
  /\ Transmit(REPORT, WireSeq("report"), rep.msg)
  /\ Name(WireSeq("report"), rep.msg)
  /\ rep' = [rep EXCEPT !.pc = "record", !.seq = WireSeq("report")]
  /\ UNCHANGED <<list, reportTab, operTab, conn, downlink, received, made, overlap,
                 crossed, soc, ack, scan, restore, sup, now, boots>>

ReportRecord ==
  /\ rep.pc = "record"
  /\ RecordMsg(REPORT, rep.seq, rep.msg)
  /\ rep' = [rep EXCEPT !.pc = "insert"]
  /\ UNCHANGED <<seqno, header, reportTab, operTab, netVars, made, clash, overlap,
                 crossed, soc, ack, scan, restore, sup, now, boots>>

ReportInsert ==
  /\ rep.pc = "insert" /\ ReportTabFree
  /\ reportTab' = Append(reportTab, [msg |-> rep.msg, seq |-> rep.seq, state |-> 0])
  /\ rep' = IdleSender
  /\ UNCHANGED <<seqno, header, list, operTab, netVars, made, clash, overlap, crossed,
                 soc, ack, scan, restore, sup, now, boots>>

-----------------------------------------------------------------------------
(* The socket thread sends an operation record: gb905_send_operate.          *)

\* Nothing keeps the socket thread waiting while the main thread restores at boot.
OperationBuild(m) ==
  /\ SocketIdle /\ m \in Operations \ made
  /\ LoadSeq("socket")
  /\ soc' = [soc EXCEPT !.pc = "send", !.msg = m]
  /\ made' = made \union {m}
  /\ crossed' = (crossed \/ Restoring("main"))
  /\ UNCHANGED <<clash, overlap, seqno, list, reportTab, operTab, netVars, rep, ack,
                 scan, restore, sup, now, boots>>

OperationSend ==
  /\ soc.pc = "send"
  /\ StoreSeq("socket")
  /\ Transmit(OPERATION, WireSeq("socket"), soc.msg)
  /\ Name(WireSeq("socket"), soc.msg)
  /\ soc' = [soc EXCEPT !.pc = "record", !.seq = WireSeq("socket")]
  /\ UNCHANGED <<list, reportTab, operTab, conn, downlink, received, made, overlap,
                 crossed, rep, ack, scan, restore, sup, now, boots>>

OperationRecord ==
  /\ soc.pc = "record"
  /\ RecordMsg(OPERATION, soc.seq, soc.msg)
  /\ soc' = [soc EXCEPT !.pc = "insert"]
  /\ UNCHANGED <<seqno, header, reportTab, operTab, netVars, made, clash, overlap,
                 crossed, rep, ack, scan, restore, sup, now, boots>>

OperationInsert ==
  /\ soc.pc = "insert" /\ OperTabFree
  /\ operTab' = Append(operTab, [msg |-> soc.msg, seq |-> soc.seq, state |-> 0])
  /\ soc' = IdleSender
  /\ UNCHANGED <<seqno, header, list, reportTab, netVars, made, clash, overlap, crossed,
                 rep, ack, scan, restore, sup, now, boots>>

-----------------------------------------------------------------------------
(* The socket thread treats an acknowledgement: gb905_common_ack_treat.      *)

\* Mutant: the state column counts the acknowledgements.
AcknowledgedCounting(tab, seq) ==
  [k \in DOMAIN tab |-> IF tab[k].seq = seq THEN [tab[k] EXCEPT !.state = @ + 1]
                                            ELSE tab[k]]

\* "update ... set state=1 where seq = %d and state=0"
Acknowledged(tab, seq) ==
  [k \in DOMAIN tab |-> IF tab[k].seq = seq THEN [tab[k] EXCEPT !.state = 1]
                                            ELSE tab[k]]

AckRefused ==
  /\ SocketIdle /\ downlink # <<>> /\ ~Head(downlink).ok
  /\ downlink' = Tail(downlink)
  /\ UNCHANGED <<seqno, header, list, reportTab, operTab, conn, uplink, received, made,
                 clash, overlap, crossed, rep, soc, ack, scan, restore, sup, now,
                 boots>>

\* Mutant: the result in the acknowledgement is not looked at.
AckReportAnyResult ==
  /\ SocketIdle /\ downlink # <<>>
  /\ Head(downlink).id \in ReportIds /\ ReportTabFree
  /\ reportTab' = Acknowledged(reportTab, Head(downlink).seq)
  /\ ack' = Head(downlink) /\ downlink' = Tail(downlink)
  /\ soc' = [soc EXCEPT !.pc = "cancel"] /\ scan' = 1
  /\ UNCHANGED <<seqno, header, list, operTab, conn, uplink, received, made, clash,
                 overlap, crossed, rep, restore, sup, now, boots>>

AckReport ==
  /\ SocketIdle /\ downlink # <<>> /\ Head(downlink).ok
  /\ Head(downlink).id \in ReportIds /\ ReportTabFree
  /\ reportTab' = Acknowledged(reportTab, Head(downlink).seq)
  /\ ack' = Head(downlink) /\ downlink' = Tail(downlink)
  /\ soc' = [soc EXCEPT !.pc = "cancel"] /\ scan' = 1
  /\ UNCHANGED <<seqno, header, list, operTab, conn, uplink, received, made, clash,
                 overlap, crossed, rep, restore, sup, now, boots>>

AckOperation ==
  /\ SocketIdle /\ downlink # <<>> /\ Head(downlink).ok
  /\ Head(downlink).id = OPERATION /\ OperTabFree
  /\ operTab' = Acknowledged(operTab, Head(downlink).seq)
  /\ ack' = Head(downlink) /\ downlink' = Tail(downlink)
  /\ soc' = [soc EXCEPT !.pc = "cancel"] /\ scan' = 1
  /\ UNCHANGED <<seqno, header, list, reportTab, conn, uplink, received, made, clash,
                 overlap, crossed, rep, restore, sup, now, boots>>

\* Mutant: a report acknowledgement matches whatever is first in the list.
CancelsAnyNumber(a, r) == a.id \in ReportIds \/ (a.seq = r.seq /\ a.id = r.id)

\* gb905_record_cancel compares a report acknowledgement by sequence number alone.
Cancels(a, r) == a.seq = r.seq /\ (a.id \in ReportIds \/ a.id = r.id)

\* Mutant: the tables are restored when the list is nearly empty.
CancelRestoresEarly ==
  /\ restore' = IF Len(list') <= 1 THEN [restore EXCEPT !["socket"] = BeginRestore]
                                   ELSE restore
  /\ crossed' = (crossed \/ (Len(list') <= 1 /\ Restoring("main")))

\* The end of gb905_record_cancel: the tables are restored once the list is empty.
RestoreIfEmpty ==
  /\ restore' = IF list' = <<>> THEN [restore EXCEPT !["socket"] = BeginRestore]
                                ELSE restore
  /\ crossed' = (crossed \/ (list' = <<>> /\ Restoring("main")))

\* gb905_record_cancel looks at one record of the list after the other, ...
CancelNext ==
  /\ soc.pc = "cancel" /\ scan \in DOMAIN list /\ ~Cancels(ack, list[scan])
  /\ scan' = scan + 1
  /\ UNCHANGED <<seqno, header, list, reportTab, operTab, netVars, made, clash, overlap,
                 crossed, rep, soc, ack, restore, sup, now, boots>>

\* ... comes upon one that matches, ...
CancelMatch ==
  /\ soc.pc = "cancel" /\ scan \in DOMAIN list /\ Cancels(ack, list[scan])
  /\ soc' = [soc EXCEPT !.pc = "delete"]
  /\ UNCHANGED <<seqno, header, list, reportTab, operTab, netVars, made, clash, overlap,
                 crossed, rep, ack, scan, restore, sup, now, boots>>

\* ... and deletes what is at its index then.
CancelDelete ==
  /\ soc.pc = "delete"
  /\ list' = IF scan \in DOMAIN list THEN RemoveAt(list, scan) ELSE list
  /\ overlap' = (overlap \/ Copied)
  /\ RestoreIfEmpty
  /\ soc' = IdleSender /\ ack' = NoAck /\ scan' = 0
  /\ UNCHANGED <<seqno, header, reportTab, operTab, netVars, made, clash, rep, sup, now,
                 boots>>

CancelMiss ==
  /\ soc.pc = "cancel" /\ scan \notin DOMAIN list
  /\ list' = list
  /\ RestoreIfEmpty
  /\ soc' = IdleSender /\ ack' = NoAck /\ scan' = 0
  /\ UNCHANGED <<seqno, header, reportTab, operTab, netVars, made, clash, overlap, rep,
                 sup, now, boots>>

-----------------------------------------------------------------------------
(* Restoring from the tables: by the main thread at boot, by the socket      *)
(* thread when an acknowledgement emptied the list.                          *)

\* report_sqlite3_restore_record: the mutex.
RestoreReportsBegin(t) ==
  /\ restore[t].phase = "begin" /\ ReportTabFree
  /\ restore' = [restore EXCEPT ![t].phase = "reports", ![t].cur = 0]
  /\ UNCHANGED <<seqno, header, list, reportTab, operTab, netVars, made, clash, overlap,
                 crossed, rep, soc, ack, scan, sup, now, boots>>

\* The SELECT in report_sqlite3_restore_record walks the outstanding rows in row
\* id order; each one gets a new header.
RestoreReportHeader(t) ==
  /\ restore[t].phase = "reports"
  /\ \E k \in DOMAIN reportTab :
       /\ restore[t].cur < k /\ reportTab[k].state = 0
       /\ \A j \in DOMAIN reportTab : restore[t].cur < j /\ j < k => reportTab[j].state = 1
       /\ restore' = [restore EXCEPT ![t].phase = "header", ![t].cur = k]
  /\ LoadSeq(t)
  /\ UNCHANGED <<seqno, list, reportTab, operTab, netVars, made, clash, overlap,
                 crossed, rep, soc, ack, scan, sup, now, boots>>

\* report_sqlite3_update_seq: "update ... set seq = new where seq = old", on every
\* row that holds the old number.
Renumbered(tab, old, new) ==
  [k \in DOMAIN tab |-> IF tab[k].seq = old THEN [tab[k] EXCEPT !.seq = new]
                                            ELSE tab[k]]

\* Mutant: a row that was put into the list is deleted from the table.
RestoreReportMovesRow(t) ==
  /\ restore[t].phase = "header"
  /\ RecordMsg(SUPPLEMENT, WireSeq(t), reportTab[restore[t].cur].msg)
  /\ reportTab' = RemoveAt(reportTab, restore[t].cur)
  /\ Name(WireSeq(t), reportTab[restore[t].cur].msg)
  /\ StoreSeq(t)
  /\ restore' = [restore EXCEPT ![t].phase = "reports", ![t].cur = @ - 1]
  /\ UNCHANGED <<operTab, netVars, made, overlap, crossed, rep, soc, ack, scan, sup, now,
                 boots>>

RestoreReport(t) ==
  /\ restore[t].phase = "header"
  /\ LET row == reportTab[restore[t].cur]
         new == WireSeq(t)
     IN /\ reportTab' = Renumbered(reportTab, row.seq, new)
        /\ RecordMsg(SUPPLEMENT, new, row.msg)
        /\ Name(new, row.msg)
  /\ StoreSeq(t)
  /\ restore' = [restore EXCEPT ![t].phase = "reports"]
  /\ UNCHANGED <<operTab, netVars, made, overlap, crossed, rep, soc, ack, scan, sup, now,
                 boots>>

RestoreReportsDone(t) ==
  /\ restore[t].phase = "reports"
  /\ \A k \in DOMAIN reportTab : restore[t].cur < k => reportTab[k].state = 1
  /\ restore' = [restore EXCEPT ![t].phase = "between", ![t].cur = 0]
  /\ UNCHANGED <<seqno, header, list, reportTab, operTab, netVars, made, clash, overlap,
                 crossed, rep, soc, ack, scan, sup, now, boots>>

\* operation_sqlite3_restore_record: the other mutex.
RestoreOperationsBegin(t) ==
  /\ restore[t].phase = "between" /\ OperTabFree
  /\ restore' = [restore EXCEPT ![t].phase = "operations", ![t].cur = Len(operTab) + 1]
  /\ UNCHANGED <<seqno, header, list, reportTab, operTab, netVars, made, clash, overlap,
                 crossed, rep, soc, ack, scan, sup, now, boots>>

\* operation_sqlite3_restore_record takes the newest row first and keeps the
\* sequence number the row was sent under.
RestoreOperation(t) ==
  /\ restore[t].phase = "operations"
  /\ \E k \in DOMAIN operTab :
       /\ k < restore[t].cur /\ operTab[k].state = 0
       /\ \A j \in DOMAIN operTab : k < j /\ j < restore[t].cur => operTab[j].state = 1
       /\ RecordMsg(OPERATION, operTab[k].seq, operTab[k].msg)
       /\ restore' = [restore EXCEPT ![t].cur = k]
  /\ UNCHANGED <<seqno, header, reportTab, operTab, netVars, made, clash, overlap,
                 crossed, rep, soc, ack, scan, sup, now, boots>>

RestoreDone(t) ==
  /\ restore[t].phase = "operations"
  /\ \A k \in DOMAIN operTab : k < restore[t].cur => operTab[k].state = 1
  /\ restore' = [restore EXCEPT ![t] = NotRestoring]
  /\ UNCHANGED <<seqno, header, list, reportTab, operTab, netVars, made, clash, overlap,
                 crossed, rep, soc, ack, scan, sup, now, boots>>

-----------------------------------------------------------------------------
(* The main loop: gb905_record_supplement.  An element is copied out of the  *)
(* list and later deleted or written back by its index, while the socket    *)
(* thread may delete elements.                                               *)

SupplementBegin ==
  /\ MainIdle /\ list # <<>>
  /\ sup' = [IdleSupplement EXCEPT !.pc = "get", !.i = 1,
               !.count = IF Len(list) < MaxSupplement THEN Len(list) ELSE MaxSupplement]
  /\ UNCHANGED <<seqno, header, list, reportTab, operTab, netVars, made, clash, overlap,
                 crossed, rep, soc, ack, scan, restore, now, boots>>

SupplementNext ==
  sup' = IF sup.i < sup.count
         THEN [sup EXCEPT !.pc = "get", !.i = @ + 1, !.rec = NoRec]
         ELSE IdleSupplement

\* elem_get fails: the list has shrunk under the loop.
SupplementShort ==
  /\ sup.pc = "get" /\ sup.i \notin DOMAIN list
  /\ sup' = IdleSupplement
  /\ UNCHANGED <<seqno, header, list, reportTab, operTab, netVars, made, clash, overlap,
                 crossed, rep, soc, ack, scan, restore, now, boots>>

Due(r) == (r.try + 1) * AckTimeout < now - r.last

\* elem_get, and what is to be done with the element.
SupplementGet ==
  /\ sup.pc = "get" /\ sup.i \in DOMAIN list
  /\ LET r == list[sup.i]
     IN \/ /\ r.try > RetryCount
           /\ sup' = [sup EXCEPT !.pc = "delete", !.rec = r]
        \/ /\ r.try <= RetryCount /\ Due(r)
           /\ sup' = [sup EXCEPT !.pc = "send",
                                 !.rec = [r EXCEPT !.try = @ + 1, !.last = now]]
        \/ /\ r.try <= RetryCount /\ ~Due(r)
           /\ SupplementNext
  /\ UNCHANGED <<seqno, header, list, reportTab, operTab, netVars, made, clash, overlap,
                 crossed, rep, soc, ack, scan, restore, now, boots>>

\* The retries are used up: node_delete at the index; the loop then skips the element
\* that moves up.
SupplementDelete ==
  /\ sup.pc = "delete"
  /\ list' = IF sup.i \in DOMAIN list THEN RemoveAt(list, sup.i) ELSE list
  /\ overlap' = (overlap \/ soc.pc = "delete")
  /\ SupplementNext
  /\ UNCHANGED <<seqno, header, reportTab, operTab, netVars, made, clash, crossed, rep,
                 soc, ack, scan, restore, now, boots>>

\* A report goes out again as a supplement report, under its recorded number.  Once the
\* socket thread has freed the buffer of a copy, a message recorded since may have it.
SupplementSend ==
  /\ sup.pc = "send"
  /\ \E r \in {sup.rec} \union (IF overlap THEN Range(list) ELSE {}) :
       Transmit(IF r.id = REPORT THEN SUPPLEMENT ELSE r.id, r.seq, r.msg)
  /\ sup' = [sup EXCEPT !.pc = "set"]
  /\ UNCHANGED <<seqno, header, list, reportTab, operTab, conn, downlink, received, made,
                 clash, overlap, crossed, rep, soc, ack, scan, restore, now, boots>>

\* elem_set: the copy is written over whatever is at its index then.
SupplementSet ==
  /\ sup.pc = "set"
  /\ list' = IF sup.i \in DOMAIN list THEN [list EXCEPT ![sup.i] = sup.rec] ELSE list
  /\ SupplementNext
  /\ UNCHANGED <<seqno, header, reportTab, operTab, netVars, made, clash, overlap, crossed,
                 rep, soc, ack, scan, restore, now, boots>>

-----------------------------------------------------------------------------
(* The environment: the server, the connection, time and power.              *)

Untreated == Len(downlink) + (IF soc.pc \in {"cancel", "delete"} THEN 1 ELSE 0)

\* The server answers a message with its id and sequence number and a result.
Answer(ok) ==
  /\ uplink # <<>> /\ Untreated < MaxAcks
  /\ LET p == Head(uplink)
     IN /\ downlink' = Append(downlink, [id |-> p.id, seq |-> p.seq, ok |-> ok])
        /\ received' = IF ok THEN received \union {p.msg} ELSE received
  /\ uplink' = Tail(uplink)
  /\ UNCHANGED <<seqno, header, list, reportTab, operTab, conn, made, clash, overlap,
                 crossed, rep, soc, ack, scan, restore, sup, now, boots>>

Connect ==
  /\ ~conn /\ conn' = TRUE
  /\ UNCHANGED <<seqno, header, list, reportTab, operTab, uplink, downlink, received,
                 made, clash, overlap, crossed, rep, soc, ack, scan, restore, sup, now,
                 boots>>

\* What is in flight when the connection breaks is lost, in both directions.
Disconnect ==
  /\ conn /\ conn' = FALSE
  /\ uplink' = <<>> /\ downlink' = <<>>
  /\ UNCHANGED <<seqno, header, list, reportTab, operTab, received, made, clash,
                 overlap, crossed, rep, soc, ack, scan, restore, sup, now, boots>>

Tick ==
  /\ now < MaxTime /\ now' = now + 1
  /\ UNCHANGED <<seqno, header, list, reportTab, operTab, netVars, made, clash, overlap,
                 crossed, rep, soc, ack, scan, restore, sup, boots>>

\* Only the two tables survive a power cycle; the counter starts again at 0.
Restart ==
  /\ boots < MaxBoots /\ boots' = boots + 1
  /\ seqno' = 0 /\ header' = [t \in Threads |-> NotBuilding]
  /\ list' = <<>> /\ conn' = FALSE /\ uplink' = <<>> /\ downlink' = <<>>
  /\ rep' = IdleSender /\ soc' = IdleSender /\ ack' = NoAck /\ scan' = 0
  /\ restore' = BootRestore /\ sup' = IdleSupplement
  /\ overlap' = FALSE /\ crossed' = FALSE
  /\ UNCHANGED <<reportTab, operTab, received, made, clash, now>>

ReportThread == (\E m \in Reports : ReportBuild(m)) \/ ReportSend \/ ReportRecord
                \/ ReportInsert
OperationSending == (\E m \in Operations : OperationBuild(m)) \/ OperationSend
                    \/ OperationRecord \/ OperationInsert
AckTreating == AckRefused \/ AckReport \/ AckOperation
               \/ CancelNext \/ CancelMatch \/ CancelDelete \/ CancelMiss
Restoration(t) ==
  RestoreReportsBegin(t) \/ RestoreReportHeader(t) \/ RestoreReport(t)
  \/ RestoreReportsDone(t) \/ RestoreOperationsBegin(t) \/ RestoreOperation(t)
  \/ RestoreDone(t)
Supplementing == SupplementBegin \/ SupplementShort \/ SupplementGet
                 \/ SupplementDelete \/ SupplementSend \/ SupplementSet
Environment == (\E ok \in BOOLEAN : Answer(ok)) \/ Connect \/ Disconnect \/ Tick
               \/ Restart

Next == ReportThread \/ OperationSending \/ AckTreating
        \/ (\E t \in Restorers : Restoration(t)) \/ Supplementing
        \/ (\E t \in Threads : OtherHeader(t) \/ OtherSend(t)) \/ Environment

Spec == Init /\ [][Next]_vars

-----------------------------------------------------------------------------
(* Properties.                                                               *)

InState(tab, n) == {tab[k].msg : k \in {j \in DOMAIN tab : tab[j].state = n}}
Outstanding == InState(reportTab, 0) \union InState(operTab, 0)
Settled     == InState(reportTab, 1) \union InState(operTab, 1)

\* report_sqlite3.c and operation_sqlite3.c say of the state column "=1: the
\* platform's acknowledgement was received": a row is settled only when the server
\* has accepted that very message.  It is so whatever mixture of retries,
\* renumbering, restarts, wrapped counters and late acknowledgements led to it, as
\* long as no number was ever given to a message while another one still had it.
AckMeansReceived == ~clash => Settled \subseteq received

\* The same without the circumstance, as the comment in the code states it.
SettledIsReceived == Settled \subseteq received

\* "Delete the messages the platform has acknowledged" (gb905_record_cancel): a
\* message leaves the RAM list when the server has accepted it, when its retries
\* are used up, or with the power; nothing else loses it unless a number clashed, or
\* one thread deleted a record between another's look-up and its use of an index.
LeavesForCause ==
  [][\A i \in DOMAIN list :
       \/ \E j \in DOMAIN list' : list'[j].msg = list[i].msg
       \/ list[i].msg \in received
       \/ list[i].try > RetryCount
       \/ boots' # boots
       \/ clash \/ overlap]_vars

\* An operation record, which the platform bills by, is never queued twice: the
\* restore after an emptied list never meets a record that is still queued, nor does
\* the one at boot, unless the socket thread sends or restores while that one runs.
OperationQueuedOnce ==
  ~crossed /\ ~overlap =>
    \A i, j \in DOMAIN list :
      i # j /\ list[i].id = OPERATION => list[i].msg # list[j].msg

\* The tables implement the outbox: what was saved stays outstanding until it is
\* settled, and only a received message is settled unless a number clashed.
O == INSTANCE Outbox WITH outstanding <- Outstanding, settled <- Settled
ImplementsOutbox == O!OutboxSpec
=============================================================================
