------------------------------ MODULE RecordList ------------------------------
(***************************************************************************)
(* The RAM list of src/src/app/record/fleety_record.c, one step per call   *)
(* on the list library.  The main loop (gb905_record_supplement), the      *)
(* socket thread (gb905_record_cancel) and any thread that records a       *)
(* message (gb905_record_msg) use the list without a lock.  A record holds *)
(* a pointer to a buffer of its own; elem_get copies the record and with   *)
(* it the pointer.  A call of the list library is atomic here: the library *)
(* comes without source.                                                   *)
(*                                                                         *)
(* A message is told from another by the number it was sent under, as      *)
(* gb905_record_cancel does.  A report that is restored from its table gets *)
(* a new number and is another message here, of the same content.          *)
(***************************************************************************)
EXTENDS Integers, Sequences, FiniteSets, SequencesExt

CONSTANTS
  Msgs,          \* messages that may be recorded
  Operations,    \* those of them that are operation records; the others are reports
  Bufs,          \* heap addresses malloc may return
  Free,          \* the content of an address that is not allocated
  Recorders,     \* threads that record messages: Socket its operation records,
                 \* the others reports
  Socket,        \* the one of them that calls gb905_record_cancel too
  MaxNode,       \* MAX_NODE_COUNT
  MaxSupplement, \* MAX_SUPPLEMENT_COUNT
  RetryCount     \* setting tcp_msg_retry_count

ASSUME ListAssumption ==
  /\ Free \notin Msgs /\ Operations \subseteq Msgs
  /\ IsFiniteSet(Recorders) /\ Socket \in Recorders
  /\ MaxNode \in Nat \ {0} /\ MaxSupplement \in Nat \ {0} /\ RetryCount \in Nat

VARIABLES
  list,       \* msg_record_list[MAIN_SOCKET]
  heap,       \* what each address holds
  adding,     \* per recorder: the message that passed the size check, or Free
  saving,     \* per recorder: the message it has yet to insert into its table, or Free
  rows,       \* messages with an outstanding row in one of the two tables
  sup,        \* gb905_record_supplement: position, count, copied record
  can,        \* gb905_record_cancel: acknowledged message, position, copied record,
              \* and the rows it has yet to restore
  made,       \* history: messages given to gb905_record_msg
  queued,     \* history: messages appended
  cancelled,  \* history: messages an acknowledgement deleted
  dropped,    \* history: messages given up after the last retry
  of,         \* history: the content of a message, as the message it was first sent as
  parted,     \* history: contents whose acknowledgement was treated before their row
              \* was inserted, or that were restored while they were in the list
  overlap     \* history: supplement and the look-up of cancel have been under way together

histVars == <<queued, cancelled, dropped>>
vars == <<list, heap, adding, saving, rows, sup, can, made, histVars, of, parted, overlap>>

Record == [msg : Msgs, buf : Bufs, try : 0..RetryCount+1]

SupIdle == sup.pc = "idle"
CanIdle == can.pc = "idle"
Looking == can.pc \in {"get", "free", "delete"}
Restoring == can.pc \in {"begin", "reports", "operations"}

TypeOK ==
  /\ list \in Seq(Record)
  /\ heap \in [Bufs -> Msgs \union {Free}]
  /\ adding \in [Recorders -> Msgs \union {Free}]
  /\ sup \in [pc : {"idle", "get", "free", "delete", "send", "set"}, i : Nat,
              count : 0..MaxSupplement, rec : Record \union {Free}]
  /\ sup.pc \notin {"idle", "get"} => sup.rec \in Record
  /\ sup.pc \in {"send", "set"} => sup.rec.try <= RetryCount
  /\ can \in [pc : {"idle", "get", "free", "delete", "check", "begin", "reports",
                    "operations"},
              i : Nat, ack : Msgs \union {Free}, rec : Record \union {Free},
              left : SUBSET Msgs]
  /\ Looking => can.ack \in Msgs
  /\ can.pc \in {"free", "delete"} => can.rec \in Record
  /\ saving \in [Recorders -> Msgs \union {Free}]
  /\ rows \subseteq Msgs /\ made \subseteq Msgs /\ queued \subseteq Msgs
  /\ cancelled \subseteq Msgs /\ dropped \subseteq Msgs
  /\ of \in [Msgs -> Msgs] /\ parted \subseteq Msgs
  /\ overlap \in BOOLEAN

NoSup == [pc |-> "idle", i |-> 0, count |-> 0, rec |-> Free]
NoCan == [pc |-> "idle", i |-> 0, ack |-> Free, rec |-> Free, left |-> {}]

\* The first start, with empty tables; RecordStore has the restore at boot.
Init ==
  /\ list = <<>> /\ heap = [b \in Bufs |-> Free]
  /\ adding = [t \in Recorders |-> Free] /\ saving = [t \in Recorders |-> Free]
  /\ rows = {}
  /\ sup = NoSup /\ can = NoCan
  /\ made = {} /\ queued = {} /\ cancelled = {} /\ dropped = {}
  /\ of = [m \in Msgs |-> m] /\ parted = {}
  /\ overlap = FALSE

-----------------------------------------------------------------------------
(* gb905_record_msg: the size is checked, then a buffer is allocated and the *)
(* record appended.  Whoever sends the message inserts its row afterwards.   *)

Unused(t) ==
  {m \in Msgs \ made : m \in Operations <=> t = Socket}

\* Mutant: the comparison lets a full list through.
RecordCheckOffByOne(t, m) ==
  /\ adding[t] = Free /\ saving[t] = Free /\ (t = Socket => CanIdle) /\ m \in Unused(t)
  /\ made' = made \union {m}
  /\ IF Len(list) > MaxNode
     THEN saving' = [saving EXCEPT ![t] = m] /\ adding' = adding
     ELSE adding' = [adding EXCEPT ![t] = m] /\ saving' = saving
  /\ UNCHANGED <<list, heap, rows, sup, can, histVars, of, parted, overlap>>

RecordCheck(t, m) ==
  /\ adding[t] = Free /\ saving[t] = Free /\ (t = Socket => CanIdle) /\ m \in Unused(t)
  /\ made' = made \union {m}
  /\ IF Len(list) >= MaxNode
     THEN saving' = [saving EXCEPT ![t] = m] /\ adding' = adding
     ELSE adding' = [adding EXCEPT ![t] = m] /\ saving' = saving
  /\ UNCHANGED <<list, heap, rows, sup, can, histVars, of, parted, overlap>>

\* Back from gb905_record_msg: a sender inserts the row next, a restore has it already.
Return(t) ==
  /\ adding' = [adding EXCEPT ![t] = Free]
  /\ saving' = IF t = Socket /\ Restoring THEN saving
                ELSE [saving EXCEPT ![t] = adding[t]]

RecordAppend(t) ==
  /\ adding[t] # Free
  /\ \E b \in Bufs :
       /\ heap[b] = Free
       /\ heap' = [heap EXCEPT ![b] = adding[t]]
       /\ list' = Append(list, [msg |-> adding[t], buf |-> b, try |-> 0])
  /\ queued' = queued \union {adding[t]}
  /\ Return(t)
  /\ UNCHANGED <<rows, sup, can, made, cancelled, dropped, of, parted, overlap>>

\* malloc fails: the message is not queued.
RecordNoMemory(t) ==
  /\ adding[t] # Free
  /\ Return(t)
  /\ UNCHANGED <<list, heap, rows, sup, can, made, histVars, of, parted, overlap>>

\* The restore of the reports holds the mutex of their table.
RowInsert(t) ==
  /\ saving[t] # Free /\ (t # Socket => can.pc # "reports")
  /\ rows' = rows \union {saving[t]}
  /\ saving' = [saving EXCEPT ![t] = Free]
  /\ UNCHANGED <<list, heap, adding, sup, can, made, histVars, of, parted, overlap>>

-----------------------------------------------------------------------------
(* gb905_record_supplement, by the main loop.                                *)

SupplementBegin ==
  /\ SupIdle /\ list # <<>> /\ overlap' = (overlap \/ Looking)
  /\ sup' = [NoSup EXCEPT !.pc = "get", !.i = 1,
               !.count = IF Len(list) < MaxSupplement THEN Len(list) ELSE MaxSupplement]
  /\ UNCHANGED <<list, heap, adding, saving, rows, can, made, histVars, of, parted>>

\* i++, and the loop ends at count.
NextElement ==
  IF sup.i < sup.count THEN [sup EXCEPT !.pc = "get", !.i = @ + 1] ELSE NoSup

\* Mutant: the retries are not counted.
SupplementGetNoLimit ==
  /\ sup.pc = "get"
  /\ \/ sup.i \notin DOMAIN list /\ sup' = NoSup
     \/ /\ sup.i \in DOMAIN list
        /\ sup' = [sup EXCEPT !.pc = "send", !.rec = list[sup.i]]
  /\ UNCHANGED <<list, heap, adding, saving, rows, can, made, histVars, of, parted,
                 overlap>>

\* elem_get: copy the record; give up, retransmit when due, or go on.
SupplementGet ==
  /\ sup.pc = "get"
  /\ \/ sup.i \notin DOMAIN list /\ sup' = NoSup
     \/ /\ sup.i \in DOMAIN list
        /\ list[sup.i].try > RetryCount
        /\ sup' = [sup EXCEPT !.pc = "free", !.rec = list[sup.i]]
     \/ /\ sup.i \in DOMAIN list
        /\ list[sup.i].try <= RetryCount
        /\ \E due \in BOOLEAN :
             sup' = IF due THEN [sup EXCEPT !.pc = "send", !.rec = list[sup.i]]
                           ELSE NextElement
  /\ UNCHANGED <<list, heap, adding, saving, rows, can, made, histVars, of, parted,
                 overlap>>

SupplementFree ==
  /\ sup.pc = "free"
  /\ heap' = [heap EXCEPT ![sup.rec.buf] = Free]
  /\ sup' = [sup EXCEPT !.pc = "delete"]
  /\ UNCHANGED <<list, adding, saving, rows, can, made, histVars, of, parted, overlap>>

SupplementDelete ==
  /\ sup.pc = "delete"
  /\ list' = IF sup.i \in DOMAIN list THEN RemoveAt(list, sup.i) ELSE list
  /\ dropped' = dropped \union {sup.rec.msg}
  /\ sup' = NextElement
  /\ UNCHANGED <<heap, adding, saving, rows, can, made, queued, cancelled, of, parted,
                 overlap>>

\* The message id in the buffer is rewritten and the buffer is sent.
SupplementSend ==
  /\ sup.pc = "send"
  /\ sup' = [sup EXCEPT !.pc = "set"]
  /\ UNCHANGED <<list, heap, adding, saving, rows, can, made, histVars, of, parted,
                 overlap>>

\* Mutant: the copy goes back to the position after the next.
SupplementSetAfterIncrement ==
  /\ sup.pc = "set"
  /\ list' = IF sup.i + 1 \in DOMAIN list
             THEN [list EXCEPT ![sup.i + 1] = [sup.rec EXCEPT !.try = @ + 1]] ELSE list
  /\ sup' = NextElement
  /\ UNCHANGED <<heap, adding, saving, rows, can, made, histVars, of, parted, overlap>>

\* elem_set: the copy goes back to position i, whatever is there by now.
SupplementSet ==
  /\ sup.pc = "set"
  /\ list' = IF sup.i \in DOMAIN list
             THEN [list EXCEPT ![sup.i] = [sup.rec EXCEPT !.try = @ + 1]] ELSE list
  /\ sup' = NextElement
  /\ UNCHANGED <<heap, adding, saving, rows, can, made, histVars, of, parted, overlap>>

-----------------------------------------------------------------------------
(* gb905_record_cancel, by the socket thread, behind the update of the row;  *)
(* the acknowledgement may come before the message is recorded or its row    *)
(* inserted.                                                                 *)

Sending == {adding[t] : t \in Recorders} \union {saving[t] : t \in Recorders}

\* Mutant: the row stays outstanding.
CancelBeginKeepsRow(m) ==
  /\ CanIdle /\ adding[Socket] = Free /\ saving[Socket] = Free /\ m \in made
  /\ parted' = IF m \in Sending THEN parted \union {of[m]} ELSE parted
  /\ overlap' = (overlap \/ ~SupIdle)
  /\ can' = [NoCan EXCEPT !.pc = "get", !.i = 1, !.ack = m]
  /\ UNCHANGED <<list, heap, adding, saving, rows, sup, made, histVars, of>>

CancelBegin(m) ==
  /\ CanIdle /\ adding[Socket] = Free /\ saving[Socket] = Free /\ m \in made
  /\ rows' = rows \ {m}
  /\ parted' = IF m \in Sending THEN parted \union {of[m]} ELSE parted
  /\ overlap' = (overlap \/ ~SupIdle)
  /\ can' = [NoCan EXCEPT !.pc = "get", !.i = 1, !.ack = m]
  /\ UNCHANGED <<list, heap, adding, saving, sup, made, histVars, of>>

CancelGet ==
  /\ can.pc = "get"
  /\ can' = IF can.i \notin DOMAIN list THEN [NoCan EXCEPT !.pc = "check"]
            ELSE IF list[can.i].msg = can.ack
            THEN [can EXCEPT !.pc = "free", !.rec = list[can.i]]
            ELSE [can EXCEPT !.i = @ + 1]
  /\ UNCHANGED <<list, heap, adding, saving, rows, sup, made, histVars, of, parted,
                 overlap>>

\* Mutant: the first buffer of the list is released instead of the copied one.
CancelFreesHead ==
  /\ can.pc = "free"
  /\ heap' = [heap EXCEPT ![list[1].buf] = Free]
  /\ can' = [can EXCEPT !.pc = "delete"]
  /\ UNCHANGED <<list, adding, saving, rows, sup, made, histVars, of, parted, overlap>>

CancelFree ==
  /\ can.pc = "free"
  /\ heap' = [heap EXCEPT ![can.rec.buf] = Free]
  /\ can' = [can EXCEPT !.pc = "delete"]
  /\ UNCHANGED <<list, adding, saving, rows, sup, made, histVars, of, parted, overlap>>

\* Mutant: the node stays in the list.
CancelKeepsNode ==
  /\ can.pc = "delete"
  /\ list' = list
  /\ cancelled' = cancelled \union {can.ack}
  /\ can' = [NoCan EXCEPT !.pc = "check"]
  /\ UNCHANGED <<heap, adding, saving, rows, sup, made, queued, dropped, of, parted,
                 overlap>>

CancelDelete ==
  /\ can.pc = "delete"
  /\ list' = IF can.i \in DOMAIN list THEN RemoveAt(list, can.i) ELSE list
  /\ cancelled' = cancelled \union {can.ack}
  /\ can' = [NoCan EXCEPT !.pc = "check"]
  /\ UNCHANGED <<heap, adding, saving, rows, sup, made, queued, dropped, of, parted,
                 overlap>>

\* Whether anything was deleted or not: if the list is empty then, both tables are
\* restored.
CancelCheck ==
  /\ can.pc = "check"
  /\ can' = IF list = <<>> THEN [NoCan EXCEPT !.pc = "begin"] ELSE NoCan
  /\ UNCHANGED <<list, heap, adding, saving, rows, sup, made, histVars, of, parted,
                 overlap>>

\* report_sqlite3_restore_record: the mutex and the SELECT.
RestoreReports ==
  /\ can.pc = "begin"
  /\ can' = [NoCan EXCEPT !.pc = "reports", !.left = rows \ Operations]
  /\ UNCHANGED <<list, heap, adding, saving, rows, sup, made, histVars, of, parted,
                 overlap>>

\* gb905_record_msg for a row, up to the size check; rows come in any order here.
Requeue(m) ==
  adding' = IF Len(list) >= MaxNode THEN adding ELSE [adding EXCEPT ![Socket] = m]

\* A report gets a new number n, in its row as well.
RestoreReport(m, n) ==
  /\ can.pc = "reports" /\ adding[Socket] = Free /\ m \in can.left
  /\ n \in Msgs \ (made \union Operations)
  /\ made' = made \union {n} /\ of' = [of EXCEPT ![n] = of[m]]
  /\ rows' = (rows \ {m}) \union {n}
  /\ parted' = IF \E i \in DOMAIN list : of[list[i].msg] = of[m]
               THEN parted \union {of[m]} ELSE parted
  /\ Requeue(n)
  /\ can' = [can EXCEPT !.left = @ \ {m}]
  /\ UNCHANGED <<list, heap, saving, sup, histVars, overlap>>

RestoreOperations ==
  /\ can.pc = "reports" /\ adding[Socket] = Free /\ can.left = {}
  /\ can' = [NoCan EXCEPT !.pc = "operations", !.left = rows \intersect Operations]
  /\ UNCHANGED <<list, heap, adding, saving, rows, sup, made, histVars, of, parted,
                 overlap>>

\* An operation record keeps its number.
RestoreOperation(m) ==
  /\ can.pc = "operations" /\ adding[Socket] = Free /\ m \in can.left
  /\ Requeue(m)
  /\ can' = [can EXCEPT !.left = @ \ {m}]
  /\ UNCHANGED <<list, heap, saving, rows, sup, made, histVars, of, parted, overlap>>

RestoreDone ==
  /\ can.pc = "operations" /\ adding[Socket] = Free /\ can.left = {}
  /\ can' = NoCan
  /\ UNCHANGED <<list, heap, adding, saving, rows, sup, made, histVars, of, parted,
                 overlap>>

Recording  == \E t \in Recorders :
                \/ \E m \in Msgs : RecordCheck(t, m)
                \/ RecordAppend(t) \/ RecordNoMemory(t) \/ RowInsert(t)
Supplement == SupplementBegin \/ SupplementGet \/ SupplementFree \/ SupplementDelete
              \/ SupplementSend \/ SupplementSet
Cancelling == (\E m \in Msgs : CancelBegin(m)) \/ CancelGet \/ CancelFree \/ CancelDelete
              \/ CancelCheck
Restore    == \/ RestoreReports \/ (\E m, n \in Msgs : RestoreReport(m, n))
              \/ RestoreOperations \/ (\E m \in Msgs : RestoreOperation(m)) \/ RestoreDone

Next == Recording \/ Supplement \/ Cancelling \/ Restore
Spec == Init /\ [][Next]_vars

-----------------------------------------------------------------------------
(* Properties.                                                               *)

InList == {list[i].msg : i \in DOMAIN list}
Deleting(i) == (sup.pc = "delete" /\ sup.i = i) \/ (can.pc = "delete" /\ can.i = i)

\* The size check and the append are two steps (gb905_record_msg): however many
\* threads pass the check together, the list outgrows MAX_NODE_COUNT by no more
\* than one record per further thread.
ListBound == Len(list) <= MaxNode + Cardinality(Recorders) - 1

\* The others hold until supplement and cancel overlap.

\* Every record in the list owns its buffer: it is allocated, holds the record's
\* message, and no other record points to it (msg_buf of msg_record_t).
OwnBuffers ==
  ~overlap =>
    \A i \in DOMAIN list :
      ~Deleting(i) => /\ heap[list[i].buf] = list[i].msg
                      /\ \A j \in DOMAIN list : i # j /\ ~Deleting(j)
                           => list[i].buf # list[j].buf

\* A copied record is used only while its buffer still belongs to it: what
\* supplement sends, and what either loop frees, is the message it looked at.
CopyStillValid ==
  ~overlap => /\ sup.pc \in {"send", "free"} => heap[sup.rec.buf] = sup.rec.msg
              /\ can.pc = "free" => heap[can.rec.buf] = can.rec.msg

\* A queued message leaves the list only acknowledged or after its last retry.
NothingLost == ~overlap => queued \subseteq InList \union cancelled \union dropped

\* "Delete the messages the platform has acknowledged": what gb905_record_cancel
\* deleted is not in the list any more and does not come back, under its number or,
\* restored from a row, under another; unless its row was inserted after the
\* acknowledgement, or restored while it was queued.
CancelledStaysOut ==
  \A i \in DOMAIN list, m \in cancelled :
    ~Deleting(i) /\ of[list[i].msg] = of[m] => of[m] \in parted

\* The same until supplement and cancel overlap.
CancelledStaysOutAlone == ~overlap => CancelledStaysOut
=============================================================================
