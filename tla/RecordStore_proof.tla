-------------------------- MODULE RecordStore_proof --------------------------
(***************************************************************************)
(* Theorems about RecordStore, for every value of its constants.           *)
(***************************************************************************)
EXTENDS RecordStore, SequenceTheorems, TLAPS

-----------------------------------------------------------------------------
(* Sequences: the RAM list, the tables, the connection.                      *)

\* A sequence number on the wire fits its field.
LEMMA WireSeqType ==
  ASSUME NEW a \in Nat, NEW b \in Nat \ {0}
  PROVE  a % b \in 0..b-1
  OBVIOUS

\* node_append adds one element at the tail.
LEMMA AppendType ==
  ASSUME NEW S, NEW s \in Seq(S), NEW e \in S
  PROVE  /\ Append(s, e) \in Seq(S)
         /\ DOMAIN Append(s, e) = 1..Len(s)+1
         /\ \A k \in DOMAIN Append(s, e) :
              Append(s, e)[k] = IF k = Len(s)+1 THEN e ELSE s[k]
  OBVIOUS

\* node_delete keeps the other elements.
LEMMA RemoveAtType ==
  ASSUME NEW S, NEW s \in Seq(S), NEW i \in DOMAIN s
  PROVE  /\ RemoveAt(s, i) \in Seq(S)
         /\ DOMAIN RemoveAt(s, i) = 1..Len(s)-1
         /\ \A k \in DOMAIN RemoveAt(s, i) :
              RemoveAt(s, i)[k] = IF k < i THEN s[k] ELSE s[k+1]
  <1> DEFINE a == SubSeq(s, 1, i-1)
             b == SubSeq(s, i+1, Len(s))
  <1>0. Len(s) \in Nat /\ i \in 1..Len(s)
    BY LenProperties
  <1>1. /\ a \in Seq(S) /\ Len(a) = i-1
        /\ \A k \in 1..i-1 : a[k] = s[k]
    BY <1>0, SubSeqProperties, ElementOfSeq
  <1>2. /\ b \in Seq(S) /\ Len(b) = Len(s) - i
        /\ \A k \in 1..Len(s)-i : b[k] = s[k+i]
    BY <1>0, SubSeqProperties, ElementOfSeq
  <1>6. RemoveAt(s, i) = a \o b
    BY DEF RemoveAt
  <1> HIDE DEF a, b
  <1>3. /\ a \o b \in Seq(S)
        /\ Len(a \o b) = Len(s) - 1
        /\ \A k \in 1..Len(s)-1 : (a \o b)[k] = IF k <= i-1 THEN a[k] ELSE b[k-(i-1)]
    BY <1>0, <1>1, <1>2, ConcatProperties
  <1>4. DOMAIN (a \o b) = 1..Len(s)-1
    BY <1>3, LenProperties
  <1>5. ASSUME NEW k \in 1..Len(s)-1
        PROVE  (a \o b)[k] = IF k < i THEN s[k] ELSE s[k+1]
    <2>0. k \in Nat /\ i \in Nat /\ Len(s) \in Nat /\ 1 <= k /\ k <= Len(s) - 1
      BY <1>0
    <2>1. CASE k < i
      <3>1. (a \o b)[k] = a[k] /\ k \in 1..i-1
        BY <2>1, <2>0, <1>3
      <3> QED  BY <3>1, <2>1, <1>1
    <2>2. CASE ~(k < i)
      <3>1. (a \o b)[k] = b[k-(i-1)] /\ k-(i-1) \in 1..Len(s)-i /\ k-(i-1)+i = k+1
        BY <2>2, <2>0, <1>0, <1>3
      <3>2. b[k-(i-1)] = s[k-(i-1)+i]
        BY <3>1, <1>2
      <3> QED  BY <3>1, <3>2, <2>2
    <2> QED  BY <2>1, <2>2
  <1> QED  BY <1>3, <1>4, <1>5, <1>6

\* A queue without its first element.
LEMMA TailType ==
  ASSUME NEW S, NEW s \in Seq(S), s # <<>>
  PROVE  /\ Head(s) \in S /\ Head(s) = s[1] /\ 1 \in DOMAIN s
         /\ Tail(s) \in Seq(S)
         /\ DOMAIN Tail(s) = 1..Len(s)-1
         /\ \A k \in DOMAIN Tail(s) : Tail(s)[k] = s[k+1] /\ k+1 \in DOMAIN s
  <1>1. Len(s) \in Nat \ {0} /\ DOMAIN s = 1..Len(s)
    BY EmptySeq, LenProperties
  <1>2. /\ Head(s) \in S /\ Tail(s) \in Seq(S) /\ Len(Tail(s)) = Len(s) - 1
        /\ \A k \in 1..Len(Tail(s)) : Tail(s)[k] = s[k+1]
    BY HeadTailProperties
  <1>3. DOMAIN Tail(s) = 1..Len(s)-1
    BY <1>2, LenProperties
  <1> QED  BY <1>1, <1>2, <1>3

\* One column of a table changes: the rows keep their places.
LEMMA MapType ==
  ASSUME NEW S, NEW s \in Seq(S), NEW f,
         f = [k \in DOMAIN s |-> f[k]], \A k \in DOMAIN s : f[k] \in S
  PROVE  f \in Seq(S) /\ DOMAIN f = DOMAIN s
  <1>1. Len(s) \in Nat /\ DOMAIN s = 1..Len(s)
    BY LenProperties
  <1>2. f \in [1..Len(s) -> S]
    BY <1>1
  <1>3. f \in Seq(S)
    BY <1>1, <1>2, SeqDef
  <1> QED  BY <1>3

-----------------------------------------------------------------------------
LEMMA RecordMsgType ==
  ASSUME StoreAssumption, TypeOK, NEW id \in MsgIds, NEW q \in 0..SeqSpace-1,
         NEW m \in Messages, RecordMsg(id, q, m)
  PROVE  list' \in Seq(Rec(Messages))
  <1> DEFINE e == [id |-> id, seq |-> q, msg |-> m, try |-> 0, last |-> now]
  <1>1. e \in Rec(Messages)
    BY DEF StoreAssumption, TypeOK, Rec
  <1>2. Append(list, e) \in Seq(Rec(Messages))
    BY <1>1, AppendType DEF TypeOK
  <1> QED  BY <1>2 DEF RecordMsg, TypeOK

LEMMA TransmitType ==
  ASSUME TypeOK, NEW id \in MsgIds, NEW q \in 0..SeqSpace-1,
         NEW m \in Messages, Transmit(id, q, m)
  PROVE  uplink' \in Seq(Packet)
  <1> DEFINE e == [id |-> id, seq |-> q, msg |-> m]
  <1>1. e \in Packet
    BY DEF Packet
  <1>2. Append(uplink, e) \in Seq(Packet)
    BY <1>1, AppendType DEF TypeOK
  <1> QED  BY <1>2 DEF Transmit, TypeOK
(***************************************************************************)
(* Type correctness.  TypeOK is inductive: besides types it says that a    *)
(* sender between its calls has a message, and that the row a restore is   *)
(* renumbering exists.                                                     *)
(***************************************************************************)
LEMMA LoadSeqType ==
  ASSUME StoreAssumption, TypeOK, NEW t \in Threads, LoadSeq(t)
  PROVE  header' \in [Threads -> -1..MaxSeq-1]
  BY DEF StoreAssumption, TypeOK, LoadSeq

LEMMA StoreSeqType ==
  ASSUME StoreAssumption, TypeOK, NEW t \in Threads, StoreSeq(t)
  PROVE  /\ header' \in [Threads -> -1..MaxSeq-1]
         /\ seqno' \in 0..MaxSeq
         /\ header[t] \in Nat
         /\ WireSeq(t) \in 0..SeqSpace-1
  <1>1. header[t] \in 0..MaxSeq-1
    BY DEF StoreAssumption, TypeOK, StoreSeq, NotBuilding
  <1>2. WireSeq(t) \in 0..SeqSpace-1
    <2>1. header[t] \in Nat /\ SeqSpace \in Nat \ {0}
      BY <1>1 DEF StoreAssumption, TypeOK
    <2>2. header[t] % SeqSpace \in 0..SeqSpace-1
      BY <2>1, WireSeqType
    <2> QED  BY <2>2 DEF WireSeq
  <1>3. seqno' \in 0..MaxSeq /\ header' \in [Threads -> -1..MaxSeq-1]
    BY <1>1 DEF StoreAssumption, TypeOK, StoreSeq, NotBuilding
  <1> QED  BY <1>1, <1>2, <1>3

LEMMA NameType ==
  ASSUME TypeOK, NEW q, NEW m, Name(q, m)
  PROVE  clash' \in BOOLEAN
  <1> DEFINE more == AckUnderWay(q) \/ \E x \in Messages \ {m} : Holds(q, x)
  <1>1. clash' = (clash \/ more) /\ clash \in BOOLEAN
    BY DEF Name, TypeOK
  <1> HIDE DEF more
  <1> QED  BY <1>1

LEMMA AcknowledgedType ==
  ASSUME NEW S, NEW tab \in Seq(Row(S)), NEW q
  PROVE  /\ Acknowledged(tab, q) \in Seq(Row(S))
         /\ DOMAIN Acknowledged(tab, q) = DOMAIN tab
  <1>1. \A k \in DOMAIN tab : tab[k] \in Row(S)
    BY LenProperties, ElementOfSeq
  <1>2. \A k \in DOMAIN tab : Acknowledged(tab, q)[k] \in Row(S)
    BY <1>1 DEF Acknowledged, Row
  <1>3. Acknowledged(tab, q) = [k \in DOMAIN tab |-> Acknowledged(tab, q)[k]]
    BY DEF Acknowledged
  <1> HIDE DEF Acknowledged
  <1> QED  BY <1>2, <1>3, MapType

LEMMA RenumberedType ==
  ASSUME NEW S, NEW tab \in Seq(Row(S)), NEW old, NEW new \in 0..SeqSpace-1
  PROVE  /\ Renumbered(tab, old, new) \in Seq(Row(S))
         /\ DOMAIN Renumbered(tab, old, new) = DOMAIN tab
  <1>1. \A k \in DOMAIN tab : tab[k] \in Row(S)
    BY LenProperties, ElementOfSeq
  <1>2. \A k \in DOMAIN tab : Renumbered(tab, old, new)[k] \in Row(S)
    BY <1>1 DEF Renumbered, Row
  <1>3. Renumbered(tab, old, new) = [k \in DOMAIN tab |-> Renumbered(tab, old, new)[k]]
    BY DEF Renumbered
  <1> HIDE DEF Renumbered
  <1> QED  BY <1>2, <1>3, MapType

\* One thread's restore moves on; the other's stays where it is.
Phases == {"off", "begin", "reports", "header", "between", "operations"}

LEMMA RestoreMoves ==
  ASSUME TypeOK, NEW t \in Restorers, NEW p \in Phases, NEW c \in Nat,
         restore' = [restore EXCEPT ![t].phase = p, ![t].cur = c]
  PROVE  /\ restore' \in [Restorers -> Restore]
         /\ restore'[t].phase = p /\ restore'[t].cur = c
         /\ \A u \in Restorers \ {t} : restore'[u] = restore[u]
  BY DEF TypeOK, Restore, Phases

LEMMA RestoreStays ==
  ASSUME TypeOK, NEW t \in Restorers, NEW p \in Phases,
         restore' = [restore EXCEPT ![t].phase = p]
  PROVE  /\ restore' \in [Restorers -> Restore]
         /\ restore'[t].phase = p /\ restore'[t].cur = restore[t].cur
         /\ \A u \in Restorers \ {t} : restore'[u] = restore[u]
  BY DEF TypeOK, Restore, Phases

LEMMA RestoreAdvances ==
  ASSUME TypeOK, NEW t \in Restorers, NEW c \in Nat, restore' = [restore EXCEPT ![t].cur = c]
  PROVE  /\ restore' \in [Restorers -> Restore]
         /\ restore'[t].phase = restore[t].phase /\ restore'[t].cur = c
         /\ \A u \in Restorers \ {t} : restore'[u] = restore[u]
  BY DEF TypeOK, Restore

\* gb905_record_cancel ends, with a restore when the list is empty.
LEMMA EndMoves ==
  ASSUME TypeOK, RestoreIfEmpty
  PROVE  /\ restore' \in [Restorers -> Restore]
         /\ restore'["main"] = restore["main"]
         /\ \/ restore' = restore
            \/ list' = <<>> /\ restore'["socket"] = BeginRestore
         /\ crossed' \in BOOLEAN
  BY DEF TypeOK, Restore, RestoreIfEmpty, Restorers, BeginRestore

LEMMA NoRecType ==
  /\ NoRec \in Rec(Messages \union {None})
  /\ IdleSupplement \in Supplement /\ IdleSupplement.pc = "idle"
  BY StoreAssumption DEF StoreAssumption, NoRec, Rec, MsgIds, IdleSupplement, Supplement

LEMMA SupplementNextType ==
  ASSUME TypeOK, SupplementNext
  PROVE  sup' \in Supplement /\ sup'.pc \in {"idle", "get"}
  <1>1. sup \in Supplement
    BY DEF TypeOK
  <1>2. CASE sup' = IdleSupplement
    BY <1>2, NoRecType
  <1>3. CASE sup' = [sup EXCEPT !.pc = "get", !.i = @ + 1, !.rec = NoRec]
    <2>1. PICK r \in Rec(Messages \union {None}) : r = NoRec
      BY NoRecType
    <2>2. PICK n \in Nat : n = sup.i + 1
      BY <1>1 DEF Supplement
    <2>3. sup' = [sup EXCEPT !.pc = "get", !.i = n, !.rec = r]
      BY <1>3, <2>1, <2>2
    <2> QED  BY <1>1, <2>3 DEF Supplement
  <1> QED  BY <1>2, <1>3 DEF SupplementNext

\* The list, the tables, the connection and every thread's step keep their types for
\* all parameters (TypeOK): no number leaves its field, no row is restored past the end
\* of its table.
THEOREM TypeCorrect == Spec => []TypeOK
  <1>1. ASSUME StoreAssumption, Init PROVE TypeOK
    <2>1. list \in Seq(Rec(Messages)) /\ reportTab \in Seq(Row(Reports))
          /\ operTab \in Seq(Row(Operations))
          /\ uplink \in Seq(Packet)
          /\ downlink \in Seq(AckMsg)
      BY <1>1, EmptySeq DEF Init
    <2>2. header \in [Threads -> -1..MaxSeq-1] /\ seqno \in 0..MaxSeq
          /\ now \in 0..MaxTime /\ boots \in 0..MaxBoots
          /\ sup \in Supplement /\ sup.pc = "idle"
      BY <1>1, NoRecType DEF StoreAssumption, Init, NotBuilding
    <2>3. /\ rep \in Sender(Reports) /\ rep.pc = "idle"
          /\ soc \in Sender(Operations) /\ soc.pc = "idle"
      BY <1>1 DEF StoreAssumption, Init, IdleSender, Sender
    <2>4. ack \in AckMsg
      BY <1>1 DEF StoreAssumption, Init, NoAck, AckMsg, MsgIds
    <2>5. /\ restore \in [Restorers -> Restore]
          /\ \A t \in Restorers : restore[t].phase # "header"
      BY <1>1 DEF Init, BootRestore, BeginRestore, NotRestoring, Restorers, Restore
    <2> QED  BY <1>1, <2>1, <2>2, <2>3, <2>4, <2>5 DEF Init, TypeOK, Copied
  <1>2. ASSUME StoreAssumption, TypeOK, [Next]_vars PROVE TypeOK'
    <2> USE <1>2
    <2>1. CASE UNCHANGED vars
      BY <2>1 DEF TypeOK, vars, netVars, Copied
    <2>2. ASSUME NEW t \in Threads, OtherHeader(t) PROVE TypeOK'
      BY <2>2, LoadSeqType DEF OtherHeader, TypeOK, netVars, Copied
    <2>3. ASSUME NEW t \in Threads, OtherSend(t) PROVE TypeOK'
      BY <2>3, StoreSeqType DEF OtherSend, TypeOK, netVars, Copied
    <2>4. ASSUME NEW m \in Reports, ReportBuild(m) PROVE TypeOK'
      <3>1. header' \in [Threads -> -1..MaxSeq-1]
        BY <2>4, LoadSeqType DEF ReportBuild, Threads
      <3>2. rep' \in Sender(Reports) /\ rep'.pc = "send" /\ rep'.msg = m
        BY <2>4 DEF ReportBuild, TypeOK, Sender
      <3>3. made' \subseteq Messages
        BY <2>4 DEF ReportBuild, TypeOK, Messages
      <3> QED  BY <2>4, <3>1, <3>2, <3>3 DEF ReportBuild, TypeOK, netVars, Copied
    <2>5. CASE ReportSend
      <3>1. /\ header' \in [Threads -> -1..MaxSeq-1] /\ seqno' \in 0..MaxSeq
            /\ WireSeq("report") \in 0..SeqSpace-1
        BY <2>5, StoreSeqType DEF ReportSend, Threads
      <3>2. rep.msg \in Reports /\ REPORT \in MsgIds
        BY <2>5 DEF ReportSend, TypeOK, MsgIds, ReportIds
      <3>3. uplink' \in Seq(Packet)
        BY <2>5, <3>1, <3>2, TransmitType DEF ReportSend, Messages
      <3>4. rep' \in Sender(Reports) /\ rep'.pc = "record" /\ rep'.msg = rep.msg
        BY <2>5, <3>1, <3>2 DEF ReportSend, TypeOK, Sender
      <3>5. clash' \in BOOLEAN
        BY <2>5, NameType DEF ReportSend
      <3> QED  BY <2>5, <3>1, <3>2, <3>3, <3>4, <3>5 DEF ReportSend, TypeOK, Copied
    <2>6. CASE ReportRecord
      <3>1. rep.msg \in Messages /\ rep.seq \in 0..SeqSpace-1 /\ REPORT \in MsgIds
        BY <2>6 DEF ReportRecord, TypeOK, MsgIds, ReportIds, Messages, Sender
      <3>2. list' \in Seq(Rec(Messages))
        BY <2>6, <3>1, RecordMsgType DEF ReportRecord
      <3>3. rep' \in Sender(Reports) /\ rep'.pc = "insert" /\ rep'.msg = rep.msg
        BY <2>6 DEF ReportRecord, TypeOK, Sender
      <3> QED  BY <2>6, <3>2, <3>3 DEF ReportRecord, TypeOK, netVars, Copied
    <2>7. CASE ReportInsert
      <3> DEFINE row == [msg |-> rep.msg, seq |-> rep.seq, state |-> 0]
      <3>1. row \in Row(Reports)
        BY <2>7 DEF ReportInsert, TypeOK, Row, Sender
      <3>2. reportTab' \in Seq(Row(Reports))
        BY <2>7, <3>1, AppendType DEF ReportInsert, TypeOK
      <3>3. rep' = IdleSender
        BY <2>7 DEF ReportInsert
      <3>4. rep' \in Sender(Reports) /\ rep'.pc = "idle"
        BY <3>3, <2>7 DEF IdleSender, Sender, TypeOK, StoreAssumption
      <3>5. \A t \in Restorers : restore[t].phase # "header"
        BY <2>7 DEF ReportInsert, ReportTabFree
      <3> QED  BY <2>7, <3>2, <3>4, <3>5 DEF ReportInsert, TypeOK, netVars, Copied
    <2>8. ASSUME NEW m \in Operations, OperationBuild(m) PROVE TypeOK'
      <3>1. header' \in [Threads -> -1..MaxSeq-1]
        BY <2>8, LoadSeqType DEF OperationBuild, Threads
      <3>2. soc' \in Sender(Operations) /\ soc'.pc = "send" /\ soc'.msg = m
        BY <2>8 DEF OperationBuild, TypeOK, Sender
      <3>3. made' \subseteq Messages
        BY <2>8 DEF OperationBuild, TypeOK, Messages
      <3>4. crossed' \in BOOLEAN
        BY <2>8 DEF OperationBuild, TypeOK
      <3> QED  BY <2>8, <3>1, <3>2, <3>3, <3>4 DEF OperationBuild, TypeOK, netVars, Copied
    <2>9. CASE OperationSend
      <3>1. /\ header' \in [Threads -> -1..MaxSeq-1] /\ seqno' \in 0..MaxSeq
            /\ WireSeq("socket") \in 0..SeqSpace-1
        BY <2>9, StoreSeqType DEF OperationSend, Threads
      <3>2. soc.msg \in Operations /\ OPERATION \in MsgIds
        BY <2>9 DEF OperationSend, TypeOK, MsgIds, ReportIds
      <3>3. uplink' \in Seq(Packet)
        BY <2>9, <3>1, <3>2, TransmitType DEF OperationSend, Messages
      <3>4. soc' \in Sender(Operations) /\ soc'.pc = "record" /\ soc'.msg = soc.msg
        BY <2>9, <3>1, <3>2 DEF OperationSend, TypeOK, Sender
      <3>5. clash' \in BOOLEAN
        BY <2>9, NameType DEF OperationSend
      <3> QED  BY <2>9, <3>1, <3>2, <3>3, <3>4, <3>5 DEF OperationSend, TypeOK, Copied
    <2>10. CASE OperationRecord
      <3>1. soc.msg \in Messages /\ soc.seq \in 0..SeqSpace-1 /\ OPERATION \in MsgIds
        BY <2>10 DEF OperationRecord, TypeOK, MsgIds, ReportIds, Messages, Sender
      <3>2. list' \in Seq(Rec(Messages))
        BY <2>10, <3>1, RecordMsgType DEF OperationRecord
      <3>3. soc' \in Sender(Operations) /\ soc'.pc = "insert" /\ soc'.msg = soc.msg
            /\ soc.msg \in Operations
        BY <2>10 DEF OperationRecord, TypeOK, Sender
      <3> QED  BY <2>10, <3>2, <3>3 DEF OperationRecord, TypeOK, netVars, Copied
    <2>11. CASE OperationInsert
      <3> DEFINE row == [msg |-> soc.msg, seq |-> soc.seq, state |-> 0]
      <3>1. row \in Row(Operations)
        BY <2>11 DEF OperationInsert, TypeOK, Row, Sender
      <3>2. operTab' \in Seq(Row(Operations))
        BY <2>11, <3>1, AppendType DEF OperationInsert, TypeOK
      <3>3. soc' = IdleSender
        BY <2>11 DEF OperationInsert
      <3>4. soc' \in Sender(Operations) /\ soc'.pc = "idle"
        BY <3>3 DEF IdleSender, Sender, StoreAssumption
      <3> QED  BY <2>11, <3>2, <3>4 DEF OperationInsert, TypeOK, netVars, Copied
    <2>12. CASE AckRefused
      <3>1. downlink' \in Seq(AckMsg)
        BY <2>12, TailType DEF AckRefused, TypeOK
      <3> QED  BY <2>12, <3>1 DEF AckRefused, TypeOK, Copied
    <2>13. CASE AckReport
      <3>1. /\ downlink' \in Seq(AckMsg)
            /\ ack' \in AckMsg
        BY <2>13, TailType DEF AckReport, TypeOK
      <3>2. reportTab' \in Seq(Row(Reports)) /\ DOMAIN reportTab' = DOMAIN reportTab
        BY <2>13, AcknowledgedType DEF AckReport, TypeOK
      <3>3. soc' \in Sender(Operations) /\ soc'.pc = "cancel"
        BY <2>13 DEF AckReport, TypeOK, Sender
      <3>4. scan' \in Nat
        BY <2>13 DEF AckReport
      <3> QED  BY <2>13, <3>1, <3>2, <3>3, <3>4 DEF AckReport, TypeOK, Copied
    <2>14. CASE AckOperation
      <3>1. /\ downlink' \in Seq(AckMsg)
            /\ ack' \in AckMsg
        BY <2>14, TailType DEF AckOperation, TypeOK
      <3>2. operTab' \in Seq(Row(Operations))
        BY <2>14, AcknowledgedType DEF AckOperation, TypeOK
      <3>3. soc' \in Sender(Operations) /\ soc'.pc = "cancel"
        BY <2>14 DEF AckOperation, TypeOK, Sender
      <3>4. scan' \in Nat
        BY <2>14 DEF AckOperation
      <3> QED  BY <2>14, <3>1, <3>2, <3>3, <3>4 DEF AckOperation, TypeOK, Copied
    <2>15. CASE CancelNext
      BY <2>15 DEF CancelNext, TypeOK, netVars, Copied
    <2>32. CASE CancelMatch
      <3>1. soc' \in Sender(Operations) /\ soc'.pc = "delete"
        BY <2>32 DEF CancelMatch, TypeOK, Sender
      <3> QED  BY <2>32, <3>1 DEF CancelMatch, TypeOK, netVars, Copied
    <2>33. CASE CancelDelete \/ CancelMiss
      <3>1. list' \in Seq(Rec(Messages))
        <4>1. CASE list' = list
          BY <4>1 DEF TypeOK
        <4>2. CASE scan \in DOMAIN list /\ list' = RemoveAt(list, scan)
          BY <4>2, RemoveAtType DEF TypeOK
        <4> QED  BY <2>33, <4>1, <4>2 DEF CancelDelete, CancelMiss
      <3>2. soc' \in Sender(Operations) /\ soc'.pc = "idle"
        BY <2>33 DEF CancelDelete, CancelMiss, IdleSender, Sender, StoreAssumption
      <3>3. ack' \in AckMsg /\ scan' \in Nat
        <4>1. NoAck \in AckMsg
          BY DEF NoAck, AckMsg, MsgIds, StoreAssumption
        <4>2. ack' = NoAck /\ scan' = 0
          BY <2>33 DEF CancelDelete, CancelMiss
        <4> QED  BY <4>1, <4>2
      <3>4. RestoreIfEmpty /\ reportTab' = reportTab
        BY <2>33 DEF CancelDelete, CancelMiss
      <3>5. /\ restore' \in [Restorers -> Restore] /\ crossed' \in BOOLEAN
            /\ \A t \in Restorers : restore'[t].phase = "header" => restore'[t].cur \in DOMAIN reportTab
        <4>1. /\ restore' \in [Restorers -> Restore] /\ crossed' \in BOOLEAN
              /\ restore'["main"] = restore["main"]
              /\ restore' = restore \/ restore'["socket"] = BeginRestore
          BY <3>4, EndMoves
        <4> QED  BY <4>1 DEF TypeOK, Restorers, BeginRestore
      <3>6. overlap' \in BOOLEAN
        BY <2>33 DEF CancelDelete, CancelMiss, TypeOK, Copied
      <3>7. UNCHANGED <<seqno, header, reportTab, operTab, netVars, made, clash, rep, sup, now, boots>>
        BY <2>33 DEF CancelDelete, CancelMiss
      <3> QED  BY <3>1, <3>2, <3>3, <3>5, <3>6, <3>7 DEF TypeOK, netVars, Copied
    <2>34. ASSUME NEW t \in Restorers, RestoreReportsBegin(t) PROVE TypeOK'
      <3>1. "reports" \in Phases /\ 0 \in Nat
        BY DEF Phases
      <3>2. restore' \in [Restorers -> Restore] /\ restore'[t].phase = "reports"
            /\ \A u \in Restorers \ {t} : restore'[u] = restore[u]
        BY <2>34, <3>1, RestoreMoves DEF RestoreReportsBegin
      <3> QED  BY <2>34, <3>2 DEF RestoreReportsBegin, TypeOK, netVars, Copied
    <2>16. ASSUME NEW t \in Restorers, RestoreReportHeader(t) PROVE TypeOK'
      <3>1. header' \in [Threads -> -1..MaxSeq-1]
        BY <2>16, LoadSeqType DEF RestoreReportHeader, Restorers, Threads
      <3>2. PICK k \in DOMAIN reportTab :
               restore' = [restore EXCEPT ![t].phase = "header", ![t].cur = k]
        BY <2>16 DEF RestoreReportHeader
      <3>3. k \in Nat /\ "header" \in Phases
        BY LenProperties DEF TypeOK, Phases
      <3>4. /\ restore' \in [Restorers -> Restore] /\ restore'[t].cur \in DOMAIN reportTab
            /\ \A u \in Restorers \ {t} : restore'[u] = restore[u]
        BY <3>2, <3>3, RestoreMoves
      <3> QED  BY <2>16, <3>1, <3>4 DEF RestoreReportHeader, TypeOK, netVars, Copied
    <2>17. ASSUME NEW t \in Restorers, RestoreReport(t) PROVE TypeOK'
      <3>1. /\ header' \in [Threads -> -1..MaxSeq-1] /\ seqno' \in 0..MaxSeq
            /\ WireSeq(t) \in 0..SeqSpace-1
        BY <2>17, StoreSeqType DEF RestoreReport, Restorers, Threads
      <3>2. reportTab[restore[t].cur] \in Row(Reports)
        <4>1. restore[t].cur \in DOMAIN reportTab /\ reportTab \in Seq(Row(Reports))
          BY <2>17 DEF RestoreReport, TypeOK
        <4> QED  BY <4>1, LenProperties, ElementOfSeq
      <3>3. reportTab[restore[t].cur].msg \in Messages /\ SUPPLEMENT \in MsgIds
        BY <3>2 DEF Row, Messages, MsgIds, ReportIds
      <3>4. list' \in Seq(Rec(Messages))
        BY <2>17, <3>1, <3>3, RecordMsgType DEF RestoreReport
      <3>5. reportTab' \in Seq(Row(Reports)) /\ DOMAIN reportTab' = DOMAIN reportTab
        <4>1. reportTab' = Renumbered(reportTab, reportTab[restore[t].cur].seq, WireSeq(t))
          BY <2>17 DEF RestoreReport
        <4>2. reportTab \in Seq(Row(Reports))
          BY DEF TypeOK
        <4> QED  BY <4>1, <4>2, <3>1, RenumberedType
      <3>6. /\ restore' \in [Restorers -> Restore] /\ restore'[t].phase = "reports"
            /\ \A u \in Restorers \ {t} : restore'[u] = restore[u]
        <4>1. "reports" \in Phases /\ restore' = [restore EXCEPT ![t].phase = "reports"]
          BY <2>17 DEF Phases, RestoreReport
        <4> QED  BY <4>1, RestoreStays
      <3>7. clash' \in BOOLEAN
        BY <2>17, NameType DEF RestoreReport
      <3> QED  BY <2>17, <3>1, <3>4, <3>5, <3>6, <3>7 DEF RestoreReport, TypeOK, netVars, Copied
    <2>18. ASSUME NEW t \in Restorers, RestoreReportsDone(t) PROVE TypeOK'
      <3>1. "between" \in Phases /\ 0 \in Nat
        BY DEF Phases
      <3>2. restore' \in [Restorers -> Restore] /\ restore'[t].phase = "between"
            /\ \A u \in Restorers \ {t} : restore'[u] = restore[u]
        BY <2>18, <3>1, RestoreMoves DEF RestoreReportsDone
      <3> QED  BY <2>18, <3>2 DEF RestoreReportsDone, TypeOK, netVars, Copied
    <2>35. ASSUME NEW t \in Restorers, RestoreOperationsBegin(t) PROVE TypeOK'
      <3> DEFINE n == Len(operTab) + 1
      <3>1. "operations" \in Phases /\ n \in Nat
        BY LenProperties DEF TypeOK, Phases
      <3>2. restore' = [restore EXCEPT ![t].phase = "operations", ![t].cur = n]
        BY <2>35 DEF RestoreOperationsBegin
      <3> HIDE DEF n
      <3>3. restore' \in [Restorers -> Restore] /\ restore'[t].phase = "operations"
            /\ \A u \in Restorers \ {t} : restore'[u] = restore[u]
        BY <3>1, <3>2, RestoreMoves
      <3> QED  BY <2>35, <3>3 DEF RestoreOperationsBegin, TypeOK, netVars, Copied
    <2>19. ASSUME NEW t \in Restorers, RestoreOperation(t) PROVE TypeOK'
      <3>1. PICK k \in DOMAIN operTab : /\ RecordMsg(OPERATION, operTab[k].seq, operTab[k].msg)
                                        /\ restore' = [restore EXCEPT ![t].cur = k]
        BY <2>19 DEF RestoreOperation
      <3>2. k \in Nat /\ operTab[k] \in Row(Operations)
        BY LenProperties, ElementOfSeq DEF TypeOK
      <3>3. operTab[k].seq \in 0..SeqSpace-1 /\ operTab[k].msg \in Messages /\ OPERATION \in MsgIds
        BY <3>2 DEF Row, Messages, MsgIds
      <3>4. list' \in Seq(Rec(Messages))
        BY <3>1, <3>3, RecordMsgType
      <3>5. /\ restore' \in [Restorers -> Restore] /\ restore'[t].phase = "operations"
            /\ \A u \in Restorers \ {t} : restore'[u] = restore[u]
        BY <2>19, <3>1, <3>2, RestoreAdvances DEF RestoreOperation
      <3> QED  BY <2>19, <3>4, <3>5 DEF RestoreOperation, TypeOK, netVars, Copied
    <2>20. ASSUME NEW t \in Restorers, RestoreDone(t) PROVE TypeOK'
      <3>1. /\ restore' \in [Restorers -> Restore] /\ restore'[t].phase = "off"
            /\ \A u \in Restorers \ {t} : restore'[u] = restore[u]
        BY <2>20 DEF RestoreDone, TypeOK, Restore, NotRestoring
      <3> QED  BY <2>20, <3>1 DEF RestoreDone, TypeOK, netVars, Copied
    <2>21. CASE SupplementBegin
      <3> DEFINE n == IF Len(list) < MaxSupplement THEN Len(list) ELSE MaxSupplement
      <3>1. n \in 0..MaxSupplement
        <4>1. Len(list) \in Nat
          BY LenProperties DEF TypeOK
        <4> QED  BY <4>1 DEF StoreAssumption
      <3>2. sup' = [IdleSupplement EXCEPT !.pc = "get", !.i = 1, !.count = n]
        BY <2>21 DEF SupplementBegin
      <3> HIDE DEF n
      <3>3. IdleSupplement \in Supplement
        BY NoRecType
      <3>4. sup' \in Supplement /\ sup'.pc = "get"
        <4> HIDE DEF IdleSupplement
        <4> QED  BY <3>1, <3>2, <3>3 DEF Supplement
      <3> QED  BY <2>21, <3>4 DEF SupplementBegin, TypeOK, netVars, Copied
    <2>23. CASE SupplementShort
      BY <2>23, NoRecType DEF SupplementShort, TypeOK, netVars, Copied
    <2>24. CASE SupplementGet
      <3> DEFINE r == list[sup.i]
                 e == [r EXCEPT !.try = @ + 1, !.last = now]
      <3>1. r \in Rec(Messages)
        <4>1. sup.i \in DOMAIN list /\ list \in Seq(Rec(Messages))
          BY <2>24 DEF SupplementGet, TypeOK
        <4> QED  BY <4>1, LenProperties, ElementOfSeq
      <3>2. r.msg \in Messages /\ Rec(Messages) \subseteq Rec(Messages \union {None})
        BY <3>1 DEF Rec
      <3>3. CASE sup' = [sup EXCEPT !.pc = "delete", !.rec = r]
        <4>1. sup' \in Supplement /\ sup'.rec.msg \in Messages
          <5> HIDE DEF r
          <5> QED  BY <3>1, <3>2, <3>3 DEF TypeOK, Supplement
        <4> QED  BY <2>24, <4>1 DEF SupplementGet, TypeOK, netVars, Copied
      <3>4. CASE r.try <= RetryCount /\ sup' = [sup EXCEPT !.pc = "send", !.rec = e]
        <4>1. e \in Rec(Messages) /\ e.msg = r.msg
          <5>1. now \in 0..MaxTime /\ RetryCount \in Nat
            BY DEF TypeOK, StoreAssumption
          <5>2. r.try + 1 \in 0..RetryCount+1
            BY <3>1, <3>4, <5>1 DEF Rec
          <5> HIDE DEF r
          <5> QED  BY <3>1, <5>1, <5>2 DEF Rec
        <4>2. sup' \in Supplement /\ sup'.rec.msg \in Messages
          <5> HIDE DEF r, e
          <5> QED  BY <3>2, <3>4, <4>1 DEF TypeOK, Supplement
        <4> QED  BY <2>24, <4>2 DEF SupplementGet, TypeOK, netVars, Copied
      <3>5. CASE SupplementNext
        <4>1. sup' \in Supplement /\ sup'.pc \in {"idle", "get"}
          BY <3>5, SupplementNextType
        <4> QED  BY <2>24, <4>1 DEF SupplementGet, TypeOK, netVars, Copied
      <3> QED  BY <2>24, <3>3, <3>4, <3>5 DEF SupplementGet
    <2>25. CASE SupplementDelete
      <3>1. list' \in Seq(Rec(Messages))
        BY <2>25, RemoveAtType DEF SupplementDelete, TypeOK
      <3>2. sup' \in Supplement /\ sup'.pc \in {"idle", "get"}
        BY <2>25, SupplementNextType DEF SupplementDelete
      <3>3. overlap' \in BOOLEAN
        BY <2>25 DEF SupplementDelete, TypeOK
      <3> QED  BY <2>25, <3>1, <3>2, <3>3 DEF SupplementDelete, TypeOK, netVars, Copied
    <2>22. CASE SupplementSend
      <3>1. PICK r \in {sup.rec} \union (IF overlap THEN Range(list) ELSE {}) :
               Transmit(IF r.id = REPORT THEN SUPPLEMENT ELSE r.id, r.seq, r.msg)
        BY <2>22 DEF SupplementSend
      <3>2. r.id \in MsgIds /\ r.seq \in 0..SeqSpace-1 /\ r.msg \in Messages
        <4>1. CASE r = sup.rec
          BY <2>22, <4>1 DEF SupplementSend, TypeOK, Copied, Supplement, Rec
        <4>2. CASE r \in Range(list)
          <5>1. \A i \in DOMAIN list : list[i] \in Rec(Messages)
            BY LenProperties, ElementOfSeq DEF TypeOK
          <5> QED  BY <4>2, <5>1 DEF Range, Rec
        <4> QED  BY <3>1, <4>1, <4>2
      <3>3. uplink' \in Seq(Packet)
        <4>1. PICK id : id = IF r.id = REPORT THEN SUPPLEMENT ELSE r.id
          OBVIOUS
        <4>2. id \in MsgIds
          BY <3>2, <4>1 DEF MsgIds, ReportIds
        <4> QED  BY <3>1, <3>2, <4>1, <4>2, TransmitType
      <3>4. sup' \in Supplement /\ sup'.rec = sup.rec /\ Copied
        BY <2>22 DEF SupplementSend, TypeOK, Supplement, Copied
      <3> QED  BY <2>22, <3>3, <3>4 DEF SupplementSend, TypeOK, Copied
    <2>26. CASE SupplementSet
      <3>1. list' \in Seq(Rec(Messages))
        <4>1. CASE list' = list
          BY <4>1 DEF TypeOK
        <4>2. CASE sup.i \in DOMAIN list /\ list' = [list EXCEPT ![sup.i] = sup.rec]
          <5>1. sup.rec \in Rec(Messages)
            BY <2>26 DEF SupplementSet, TypeOK, Copied, Supplement, Rec
          <5>2. sup.i \in 1..Len(list)
            BY <4>2, LenProperties DEF TypeOK
          <5> QED  BY <4>2, <5>1, <5>2, ExceptSeq DEF TypeOK
        <4> QED  BY <2>26, <4>1, <4>2 DEF SupplementSet
      <3>2. sup' \in Supplement /\ sup'.pc \in {"idle", "get"}
        BY <2>26, SupplementNextType DEF SupplementSet
      <3> QED  BY <2>26, <3>1, <3>2 DEF SupplementSet, TypeOK, netVars, Copied
    <2>27. ASSUME NEW ok \in BOOLEAN, Answer(ok) PROVE TypeOK'
      <3> DEFINE p == Head(uplink)
                 a == [id |-> p.id, seq |-> p.seq, ok |-> ok]
      <3>1. /\ p \in Packet
            /\ uplink' \in Seq(Packet)
        BY <2>27, TailType DEF Answer, TypeOK
      <3>2. a \in AckMsg
        BY <3>1 DEF Packet, AckMsg
      <3>3. downlink' = Append(downlink, a)
        BY <2>27 DEF Answer
      <3>4. downlink' \in Seq(AckMsg)
        <4>1. downlink \in Seq(AckMsg)
          BY DEF TypeOK
        <4> HIDE DEF a
        <4>2. Append(downlink, a) \in Seq(AckMsg)
          BY <3>2, <4>1, AppendType
        <4> QED  BY <3>3, <4>2
      <3>5. received' \subseteq Messages
        <4>1. p.msg \in Messages
          BY <3>1 DEF Packet
        <4> QED  BY <2>27, <4>1 DEF Answer, TypeOK
      <3>6. UNCHANGED <<seqno, header, list, reportTab, operTab, conn, made, clash, overlap,
                        crossed, rep, soc, ack, scan, restore, sup, now, boots>>
        BY <2>27 DEF Answer
      <3> QED  BY <3>1, <3>4, <3>5, <3>6 DEF TypeOK, Copied
    <2>28. CASE Connect
      BY <2>28 DEF Connect, TypeOK, Copied
    <2>29. CASE Disconnect
      BY <2>29, EmptySeq DEF Disconnect, TypeOK, Copied
    <2>30. CASE Tick
      BY <2>30 DEF Tick, TypeOK, netVars, StoreAssumption, Copied
    <2>31. CASE Restart
      <3>1. list' \in Seq(Rec(Messages))
            /\ uplink' \in Seq(Packet)
            /\ downlink' \in Seq(AckMsg)
        BY <2>31, EmptySeq DEF Restart
      <3>2. rep' \in Sender(Reports) /\ soc' \in Sender(Operations)
            /\ rep'.pc = "idle" /\ soc'.pc = "idle"
        BY <2>31 DEF Restart, IdleSender, Sender, StoreAssumption
      <3>3. ack' \in AckMsg
        BY <2>31 DEF Restart, NoAck, AckMsg, MsgIds, StoreAssumption
      <3>4. header' \in [Threads -> -1..MaxSeq-1]
        BY <2>31 DEF Restart, NotBuilding, StoreAssumption
      <3>5. /\ restore' \in [Restorers -> Restore]
            /\ \A t \in Restorers : restore'[t].phase # "header"
            /\ sup' \in Supplement /\ sup'.pc = "idle"
        BY <2>31, NoRecType
        DEF Restart, BootRestore, BeginRestore, NotRestoring, Restorers, Restore
      <3>6. boots' \in 0..MaxBoots /\ seqno' \in 0..MaxSeq /\ conn' \in BOOLEAN
        <4>1. boots \in 0..MaxBoots /\ MaxBoots \in Nat /\ MaxSeq \in Nat
          BY DEF TypeOK, StoreAssumption
        <4>2. boots < MaxBoots /\ boots' = boots + 1 /\ seqno' = 0 /\ conn' = FALSE
          BY <2>31 DEF Restart
        <4>3. boots' \in 0..MaxBoots /\ seqno' \in 0..MaxSeq
          BY <4>1, <4>2
        <4>4. conn' \in BOOLEAN
          BY <4>2
        <4> QED  BY <4>3, <4>4
      <3>7. overlap' \in BOOLEAN /\ crossed' \in BOOLEAN /\ scan' \in Nat
        BY <2>31 DEF Restart
      <3> QED  BY <2>31, <3>1, <3>2, <3>3, <3>4, <3>5, <3>6, <3>7 DEF Restart, TypeOK, Copied
    <2> QED
      BY <2>1, <2>2, <2>3, <2>4, <2>5, <2>6, <2>7, <2>8, <2>9, <2>10, <2>11, <2>12,
         <2>13, <2>14, <2>15, <2>16, <2>17, <2>18, <2>19, <2>20, <2>21, <2>22, <2>23,
         <2>24, <2>25, <2>26, <2>27, <2>28, <2>29, <2>30, <2>31, <2>32, <2>33, <2>34, <2>35
      DEF Next, ReportThread, OperationSending, AckTreating, Restoration, Supplementing,
          Environment
  <1> QED  BY <1>1, <1>2, StoreAssumption, PTL DEF Spec

-----------------------------------------------------------------------------
(*  One message per sequence number.  An acknowledgement carries a number,   *)
(*  not a message, and the rows and records it reaches are found by that     *)
(*  number: AckMeansReceived rests on every number naming one message,       *)
(*  wherever the number is held (Holds).  SeqInv says that this is so until  *)
(*  the first clash, and that a number the server has acknowledged names     *)
(*  messages it has received.                                                *)

Unique == \A q \in Nat, m1, m2 \in Messages : Holds(q, m1) /\ Holds(q, m2) => m1 = m2
AckSound(a) == a.ok => \A m \in Messages : Holds(a.seq, m) => m \in received
AcksSound == \A i \in DOMAIN downlink : AckSound(downlink[i])
InHand == soc.pc \in {"cancel", "delete"}
InHandSound == InHand => ack.ok /\ AckSound(ack)
Core == Unique /\ AcksSound /\ InHandSound

RowsSound(tab) == \A k \in DOMAIN tab : tab[k].state = 1 => tab[k].msg \in received
ClashFree == Core /\ RowsSound(reportTab) /\ RowsSound(operTab)
InReports(t)    == restore[t].phase \in {"reports", "header"}
InOperations(t) == restore[t].phase = "operations"
OneRestorer ==
  \A t, u \in Restorers :
    (InReports(t) /\ InReports(u)) \/ (InOperations(t) /\ InOperations(u)) => t = u
RowOutstanding ==
  \A t \in Restorers :
    restore[t].phase = "header" => reportTab[restore[t].cur].state = 0

SeqInv == OneRestorer /\ RowOutstanding /\ (~clash => ClashFree)

\* Number n may be given to message M.
Free(n, M) == ~AckUnderWay(n) /\ \A x \in Messages \ {M} : ~Holds(n, x)

LEMMA RowsSoundEnough ==
  ASSUME RowsSound(reportTab), RowsSound(operTab)
  PROVE  Settled \subseteq received
  BY DEF RowsSound, Settled, InState

\* What the sequences hold, element by element.
LEMMA Elements ==
  ASSUME TypeOK
  PROVE  /\ list \in Seq(Rec(Messages)) /\ \A i \in DOMAIN list : list[i] \in Rec(Messages)
         /\ uplink \in Seq(Packet) /\ \A i \in DOMAIN uplink : uplink[i] \in Packet
         /\ downlink \in Seq(AckMsg) /\ \A i \in DOMAIN downlink : downlink[i] \in AckMsg
         /\ reportTab \in Seq(Row(Reports))
         /\ \A i \in DOMAIN reportTab : reportTab[i] \in Row(Reports)
         /\ operTab \in Seq(Row(Operations))
         /\ \A i \in DOMAIN operTab : operTab[i] \in Row(Operations)
  <1>1. /\ list \in Seq(Rec(Messages)) /\ uplink \in Seq(Packet) /\ downlink \in Seq(AckMsg)
        /\ reportTab \in Seq(Row(Reports)) /\ operTab \in Seq(Row(Operations))
    BY DEF TypeOK
  <1>2. ASSUME NEW S, NEW s \in Seq(S), NEW i \in DOMAIN s PROVE s[i] \in S
    BY LenProperties, ElementOfSeq
  <1> QED  BY <1>1, <1>2

\* A step after which the holders of a number are the old ones, or the message M
\* named under a number n that nobody had, keeps the numbers apart and the
\* acknowledgements sound.
LEMMA NamingStep ==
  ASSUME TypeOK, Unique, NEW n, NEW M, received \subseteq received',
         \A q \in Nat, m \in Messages :
           Holds(q, m)' => Holds(q, m) \/ (q = n /\ m = M /\ Free(n, M))
  PROVE  /\ Unique'
         /\ \A a \in AckMsg : AckSound(a) /\ (a.ok => AckUnderWay(a.seq)) => AckSound(a)'
  <1>0. SeqSpace \in Nat
    BY StoreAssumption DEF StoreAssumption
  <1> HIDE DEF Holds, AckUnderWay
  <1>1. Unique'
    <2> SUFFICES ASSUME NEW q \in Nat, NEW m1 \in Messages, NEW m2 \in Messages,
                        Holds(q, m1)', Holds(q, m2)'
                 PROVE  m1 = m2
      BY DEF Unique
    <2> QED  BY DEF Unique, Free
  <1>2. ASSUME NEW a \in AckMsg, AckSound(a), a.ok => AckUnderWay(a.seq)
        PROVE  AckSound(a)'
    <2>1. a.seq \in Nat
      BY <1>0 DEF AckMsg
    <2> QED  BY <1>2, <2>1 DEF AckSound, Free
  <1> QED  BY <1>1, <1>2

LEMMA RecordMsgHolds ==
  ASSUME TypeOK, NEW id, NEW q0, NEW m0, RecordMsg(id, q0, m0), NEW q, NEW m, InList(q, m)'
  PROVE  InList(q, m) \/ (q = q0 /\ m = m0)
  <1> DEFINE e == [id |-> id, seq |-> q0, msg |-> m0, try |-> 0, last |-> now]
  <1>1. CASE list' = list
    BY <1>1 DEF InList
  <1>2. CASE list' = Append(list, e)
    <2>1. PICK i \in DOMAIN list' : list'[i].seq = q /\ list'[i].msg = m
      BY DEF InList
    <2>2. DOMAIN list' = 1..Len(list)+1 /\ DOMAIN list = 1..Len(list) /\ Len(list) \in Nat
      BY <1>2, LenProperties DEF TypeOK
    <2>3. CASE i = Len(list)+1
      BY <1>2, <2>1, <2>3 DEF TypeOK
    <2>4. CASE i \in DOMAIN list
      BY <1>2, <2>1, <2>2, <2>4 DEF TypeOK, InList
    <2> QED  BY <2>1, <2>2, <2>3, <2>4
  <1> QED  BY <1>1, <1>2 DEF RecordMsg

LEMMA TransmitHolds ==
  ASSUME TypeOK, NEW id, NEW q0, NEW m0, Transmit(id, q0, m0), NEW q, NEW m, InUplink(q, m)'
  PROVE  InUplink(q, m) \/ (q = q0 /\ m = m0)
  <1> DEFINE e == [id |-> id, seq |-> q0, msg |-> m0]
  <1>1. CASE uplink' = uplink
    BY <1>1 DEF InUplink
  <1>2. CASE uplink' = Append(uplink, e)
    <2>1. PICK i \in DOMAIN uplink' : uplink'[i].seq = q /\ uplink'[i].msg = m
      BY DEF InUplink
    <2>2. DOMAIN uplink' = 1..Len(uplink)+1 /\ DOMAIN uplink = 1..Len(uplink) /\ Len(uplink) \in Nat
      BY <1>2, LenProperties DEF TypeOK
    <2>3. CASE i = Len(uplink)+1
      BY <1>2, <2>1, <2>3 DEF TypeOK
    <2>4. CASE i \in DOMAIN uplink
      BY <1>2, <2>1, <2>2, <2>4 DEF TypeOK, InUplink
    <2> QED  BY <2>1, <2>2, <2>3, <2>4
  <1> QED  BY <1>1, <1>2 DEF Transmit

LEMMA RemoveAtHolds ==
  ASSUME TypeOK, NEW i \in DOMAIN list, list' = RemoveAt(list, i), NEW q, NEW m, InList(q, m)'
  PROVE  InList(q, m)
  <1>1. PICK k \in DOMAIN list' : list'[k].seq = q /\ list'[k].msg = m
    BY DEF InList
  <1>2. /\ DOMAIN list' = 1..Len(list)-1 /\ DOMAIN list = 1..Len(list) /\ Len(list) \in Nat
        /\ list'[k] = IF k < i THEN list[k] ELSE list[k+1]
    <2>1. list \in Seq(Rec(Messages))
      BY DEF TypeOK
    <2>2. /\ DOMAIN RemoveAt(list, i) = 1..Len(list)-1
          /\ \A j \in DOMAIN RemoveAt(list, i) :
               RemoveAt(list, i)[j] = IF j < i THEN list[j] ELSE list[j+1]
      BY <2>1, RemoveAtType
    <2>3. DOMAIN list = 1..Len(list) /\ Len(list) \in Nat
      BY <2>1, LenProperties
    <2> QED  BY <2>2, <2>3
  <1>3. k \in DOMAIN list /\ k+1 \in DOMAIN list
    BY <1>2
  <1> QED  BY <1>1, <1>2, <1>3 DEF InList

LEMMA AppendRowHolds ==
  ASSUME NEW S, NEW tab \in Seq(S), NEW row, NEW q, NEW m, InTab(Append(tab, row), q, m)
  PROVE  InTab(tab, q, m) \/ (q = row.seq /\ m = row.msg)
  <1> DEFINE t == Append(tab, row)
  <1>1. PICK k \in DOMAIN t : t[k].state = 0 /\ t[k].seq = q /\ t[k].msg = m
    BY DEF InTab
  <1>2. DOMAIN t = 1..Len(tab)+1 /\ DOMAIN tab = 1..Len(tab) /\ Len(tab) \in Nat
    BY LenProperties
  <1>3. CASE k = Len(tab)+1
    BY <1>1, <1>3
  <1>4. CASE k \in DOMAIN tab
    <2>1. t[k] = tab[k]
      BY <1>2, <1>4
    <2> QED  BY <1>1, <1>4, <2>1 DEF InTab
  <1> QED  BY <1>1, <1>2, <1>3, <1>4

LEMMA AppendRowSound ==
  ASSUME NEW S, NEW tab \in Seq(S), NEW row, row.state = 0, RowsSound(tab)
  PROVE  RowsSound(Append(tab, row))
  <1>1. DOMAIN Append(tab, row) = 1..Len(tab)+1 /\ DOMAIN tab = 1..Len(tab) /\ Len(tab) \in Nat
    BY LenProperties
  <1>2. ASSUME NEW k \in DOMAIN Append(tab, row), Append(tab, row)[k].state = 1
        PROVE  Append(tab, row)[k].msg \in received
    <2>1. CASE k = Len(tab)+1
      BY <1>2, <2>1
    <2>2. CASE k \in DOMAIN tab
      <3>1. Append(tab, row)[k] = tab[k]
        BY <1>1, <2>2
      <3> QED  BY <1>2, <2>2, <3>1 DEF RowsSound
    <2> QED  BY <1>1, <2>1, <2>2
  <1> QED  BY <1>2 DEF RowsSound

LEMMA AcknowledgedHolds ==
  ASSUME NEW S, NEW tab \in Seq(Row(S)), NEW s, NEW q, NEW m, InTab(Acknowledged(tab, s), q, m)
  PROVE  InTab(tab, q, m)
  <1>1. \A k \in DOMAIN tab : tab[k] \in Row(S)
    BY LenProperties, ElementOfSeq
  <1> QED  BY <1>1 DEF InTab, Acknowledged, Row

\* Settling the rows of an acknowledged number settles received messages only.
LEMMA AcknowledgedSound ==
  ASSUME NEW S, NEW tab \in Seq(Row(S)), NEW s, RowsSound(tab),
         \A m : InTab(tab, s, m) => m \in received
  PROVE  RowsSound(Acknowledged(tab, s))
  <1>1. \A k \in DOMAIN tab : tab[k] \in Row(S)
    BY LenProperties, ElementOfSeq
  <1>2. ASSUME NEW k \in DOMAIN tab, Acknowledged(tab, s)[k].state = 1
        PROVE  Acknowledged(tab, s)[k].msg \in received
    <2>1. Acknowledged(tab, s)[k].msg = tab[k].msg
      BY <1>1 DEF Acknowledged, Row
    <2>2. CASE tab[k].state = 1
      BY <2>1, <2>2 DEF RowsSound
    <2>3. CASE tab[k].state = 0
      <3>1. tab[k].seq = s
        BY <1>2, <2>3 DEF Acknowledged
      <3> QED  BY <2>1, <2>3, <3>1 DEF InTab
    <2> QED  BY <1>1, <2>2, <2>3 DEF Row
  <1>3. DOMAIN Acknowledged(tab, s) = DOMAIN tab
    BY DEF Acknowledged
  <1> QED  BY <1>2, <1>3 DEF RowsSound

LEMMA RenumberedHolds ==
  ASSUME NEW S, NEW tab \in Seq(Row(S)), NEW old, NEW new, NEW q, NEW m,
         InTab(Renumbered(tab, old, new), q, m)
  PROVE  InTab(tab, q, m) \/ (q = new /\ InTab(tab, old, m))
  <1>1. \A k \in DOMAIN tab : tab[k] \in Row(S)
    BY LenProperties, ElementOfSeq
  <1>2. PICK k \in DOMAIN tab : /\ Renumbered(tab, old, new)[k].state = 0
                                /\ Renumbered(tab, old, new)[k].seq = q
                                /\ Renumbered(tab, old, new)[k].msg = m
    BY DEF InTab, Renumbered
  <1>3. CASE tab[k].seq = old
    <2>1. Renumbered(tab, old, new)[k] = [tab[k] EXCEPT !.seq = new]
      BY <1>3 DEF Renumbered
    <2> QED  BY <1>1, <1>2, <1>3, <2>1 DEF InTab, Row
  <1>4. CASE tab[k].seq # old
    BY <1>2, <1>4 DEF InTab, Renumbered
  <1> QED  BY <1>3, <1>4

LEMMA RenumberedSound ==
  ASSUME NEW S, NEW tab \in Seq(Row(S)), NEW old, NEW new, RowsSound(tab)
  PROVE  RowsSound(Renumbered(tab, old, new))
  <1>1. \A k \in DOMAIN tab : tab[k] \in Row(S)
    BY LenProperties, ElementOfSeq
  <1>2. \A k \in DOMAIN tab : /\ Renumbered(tab, old, new)[k].state = tab[k].state
                              /\ Renumbered(tab, old, new)[k].msg = tab[k].msg
    BY <1>1 DEF Renumbered, Row
  <1>3. DOMAIN Renumbered(tab, old, new) = DOMAIN tab
    BY DEF Renumbered
  <1> QED  BY <1>2, <1>3 DEF RowsSound

\* The conclusion every step draws from NamingStep.
LEMMA CoreStep ==
  ASSUME TypeOK, TypeOK', Core, NEW n, NEW M, received \subseteq received',
         \A q \in Nat, m \in Messages :
           Holds(q, m)' => Holds(q, m) \/ (q = n /\ m = M /\ Free(n, M)),
         \A i \in DOMAIN downlink' : \E j \in DOMAIN downlink : downlink'[i] = downlink[j],
         InHand' =>
           \/ InHand /\ ack' = ack
           \/ \E i \in DOMAIN downlink : downlink[i].ok /\ ack' = downlink[i]
  PROVE  Core'
  <1>1. /\ Unique'
        /\ \A a \in AckMsg : AckSound(a) /\ (a.ok => AckUnderWay(a.seq)) => AckSound(a)'
    BY NamingStep DEF Core
  <1>2. ASSUME NEW j \in DOMAIN downlink
        PROVE  \E a \in AckMsg : a = downlink[j] /\ AckSound(a)'
    <2>1. PICK a \in AckMsg : a = downlink[j]
      BY Elements
    <2>2. AckSound(a) /\ (a.ok => AckUnderWay(a.seq))
      BY <2>1 DEF Core, AcksSound, AckUnderWay
    <2>3. AckSound(a)'
      BY <1>1, <2>2
    <2> QED  BY <2>1, <2>3
  <1>4. AcksSound'
    <2> SUFFICES ASSUME NEW i \in DOMAIN downlink' PROVE AckSound(downlink[i])'
      BY DEF AcksSound
    <2>1. PICK j \in DOMAIN downlink : downlink'[i] = downlink[j]
      OBVIOUS
    <2>2. PICK a \in AckMsg : a = downlink[j] /\ AckSound(a)'
      BY <1>2
    <2> QED  BY <2>1, <2>2 DEF AckSound
  <1>5. InHandSound'
    <2> SUFFICES ASSUME InHand' PROVE ack'.ok /\ AckSound(ack)'
      BY DEF InHandSound
    <2>1. CASE InHand /\ ack' = ack
      <3>1. ack \in AckMsg /\ ack.ok /\ AckSound(ack) /\ AckUnderWay(ack.seq)
        BY <2>1 DEF Core, InHandSound, InHand, AckUnderWay, TypeOK
      <3>2. PICK a \in AckMsg : a = ack
        BY <3>1
      <3>3. AckSound(a)'
        BY <1>1, <3>1, <3>2
      <3> QED  BY <2>1, <3>1, <3>2, <3>3 DEF AckSound
    <2>2. ASSUME NEW i \in DOMAIN downlink, downlink[i].ok, ack' = downlink[i]
          PROVE  ack'.ok /\ AckSound(ack)'
      <3>1. PICK a \in AckMsg : a = downlink[i] /\ AckSound(a)'
        BY <1>2
      <3> QED  BY <2>2, <3>1 DEF AckSound
    <2> QED  BY <2>1, <2>2
  <1> QED  BY <1>1, <1>4, <1>5 DEF Core

\* Steps that name no message.
LEMMA StillStep ==
  ASSUME TypeOK, TypeOK', Core, received \subseteq received',
         \A q \in Nat, m \in Messages : Holds(q, m)' => Holds(q, m),
         \A i \in DOMAIN downlink' : \E j \in DOMAIN downlink : downlink'[i] = downlink[j],
         InHand' =>
           \/ InHand /\ ack' = ack
           \/ \E i \in DOMAIN downlink : downlink[i].ok /\ ack' = downlink[i]
  PROVE  Core'
  <1>1. PICK n, M : n = 0 /\ M = None
    OBVIOUS
  <1> HIDE DEF Holds
  <1>2. \A q \in Nat, m \in Messages :
           Holds(q, m)' => Holds(q, m) \/ (q = n /\ m = M /\ Free(n, M))
    OBVIOUS
  <1> QED  BY <1>2, CoreStep

\* Steps that leave the list, the connection and the tables alone.
LEMMA QuietStep ==
  ASSUME TypeOK, TypeOK', ClashFree, UNCHANGED <<list, uplink, reportTab, operTab, received>>,
         \A q \in Nat, m \in Messages : InSender(rep, q, m)' => InSender(rep, q, m),
         \A q \in Nat, m \in Messages : InSender(soc, q, m)' => InSender(soc, q, m),
         \A q \in Nat, m \in Messages : InCopy(q, m)' => InCopy(q, m),
         \A i \in DOMAIN downlink' : \E j \in DOMAIN downlink : downlink'[i] = downlink[j],
         InHand' => InHand /\ ack' = ack
  PROVE  ClashFree'
  <1>1. ASSUME NEW q \in Nat, NEW m \in Messages, Holds(q, m)' PROVE Holds(q, m)
    BY <1>1 DEF Holds, InList, InUplink, InTab
  <1>2. Core'
    BY <1>1, StillStep DEF ClashFree
  <1>3. RowsSound(reportTab)' /\ RowsSound(operTab)'
    BY DEF ClashFree, RowsSound
  <1> QED  BY <1>2, <1>3 DEF ClashFree

LEMMA SeqInvInit ==
  ASSUME Init
  PROVE  SeqInv
  <1>1. \A q, m : ~Holds(q, m)
    BY DEF Init, Holds, InList, InUplink, InTab, InSender, InCopy, IdleSender, IdleSupplement
  <1>2. soc.pc = "idle" /\ restore = BootRestore
    BY DEF Init, IdleSender
  <1>3. ~InHand /\ OneRestorer /\ RowOutstanding
    BY <1>2 DEF InHand, OneRestorer, InReports, InOperations, RowOutstanding, BootRestore,
                BeginRestore, NotRestoring, Restorers
  <1> HIDE DEF Holds
  <1> QED  BY <1>1, <1>3 DEF Init, SeqInv, ClashFree, Core, Unique, AcksSound, InHandSound,
                             RowsSound

\* A step leaves the restoring alone, moves one thread of it on, starts one of the
\* socket thread, or cuts the power.
LEMMA RestoreSteps ==
  ASSUME TypeOK, [Next]_vars
  PROVE  \/ restore' = restore
         \/ \E t \in Restorers : Restoration(t)
         \/ restore'["main"] = restore["main"] /\ restore'["socket"] = BeginRestore
         \/ Restart
  <1>1. CASE CancelDelete \/ CancelMiss
    <2>1. RestoreIfEmpty
      BY <1>1 DEF CancelDelete, CancelMiss
    <2> QED  BY <2>1, EndMoves
  <1>2. (ReportThread \/ OperationSending) => restore' = restore
    BY DEF ReportThread, ReportBuild, ReportSend, ReportRecord, ReportInsert, OperationSending,
           OperationBuild, OperationSend, OperationRecord, OperationInsert
  <1>3. CASE AckRefused \/ AckReport \/ AckOperation \/ CancelNext \/ CancelMatch
    BY <1>3 DEF AckRefused, AckReport, AckOperation, CancelNext, CancelMatch
  <1>4. Supplementing => restore' = restore
    BY DEF Supplementing, SupplementBegin, SupplementShort, SupplementGet, SupplementDelete,
           SupplementSend, SupplementSet
  <1>5. (\E t \in Threads : OtherHeader(t) \/ OtherSend(t)) => restore' = restore
    BY DEF OtherHeader, OtherSend
  <1>6. Environment => restore' = restore \/ Restart
    BY DEF Environment, Answer, Connect, Disconnect, Tick
  <1>7. (UNCHANGED vars) => restore' = restore
    BY DEF vars
  <1> QED  BY <1>1, <1>2, <1>3, <1>4, <1>5, <1>6, <1>7 DEF Next, AckTreating

\* What one step of a thread's restore does to its phase.
LEMMA PhaseSteps ==
  ASSUME TypeOK, NEW t \in Restorers, Restoration(t)
  PROVE  /\ \A u \in Restorers \ {t} : restore'[u] = restore[u]
         /\ InReports(t)' => InReports(t) \/ ReportTabFree
         /\ InOperations(t)' => InOperations(t) \/ OperTabFree
  <1>0. Phases = {"off", "begin", "reports", "header", "between", "operations"} /\ 0 \in Nat
        /\ Len(operTab) + 1 \in Nat
    BY LenProperties DEF Phases, TypeOK
  <1>1. CASE RestoreReportsBegin(t)
    <2>1. restore' = [restore EXCEPT ![t].phase = "reports", ![t].cur = 0] /\ ReportTabFree
      BY <1>1 DEF RestoreReportsBegin
    <2> QED  BY <1>0, <2>1, RestoreMoves DEF InOperations
  <1>2. CASE RestoreReportHeader(t)
    <2>1. PICK k \in DOMAIN reportTab : restore' = [restore EXCEPT ![t].phase = "header", ![t].cur = k]
      BY <1>2 DEF RestoreReportHeader
    <2>2. k \in Nat
      BY LenProperties DEF TypeOK
    <2>3. restore'[t].phase = "header" /\ \A u \in Restorers \ {t} : restore'[u] = restore[u]
      BY <1>0, <2>1, <2>2, RestoreMoves
    <2> QED  BY <1>2, <2>3 DEF RestoreReportHeader, InReports, InOperations
  <1>3. CASE RestoreReport(t)
    <2>1. restore' = [restore EXCEPT ![t].phase = "reports"] /\ restore[t].phase = "header"
      BY <1>3 DEF RestoreReport
    <2>2. restore'[t].phase = "reports" /\ \A u \in Restorers \ {t} : restore'[u] = restore[u]
      BY <1>0, <2>1, RestoreStays
    <2> QED  BY <2>1, <2>2 DEF InReports, InOperations
  <1>4. CASE RestoreReportsDone(t)
    <2>1. restore' = [restore EXCEPT ![t].phase = "between", ![t].cur = 0]
      BY <1>4 DEF RestoreReportsDone
    <2>2. restore'[t].phase = "between" /\ \A u \in Restorers \ {t} : restore'[u] = restore[u]
      BY <1>0, <2>1, RestoreMoves
    <2> QED  BY <2>2 DEF InReports, InOperations
  <1>5. CASE RestoreOperationsBegin(t)
    <2>1. restore' = [restore EXCEPT ![t].phase = "operations", ![t].cur = Len(operTab) + 1] /\ OperTabFree
      BY <1>5 DEF RestoreOperationsBegin
    <2>2. restore'[t].phase = "operations" /\ \A u \in Restorers \ {t} : restore'[u] = restore[u]
      BY <1>0, <2>1, RestoreMoves
    <2> QED  BY <2>1, <2>2 DEF InReports
  <1>6. CASE RestoreOperation(t)
    <2>1. PICK k \in DOMAIN operTab : restore' = [restore EXCEPT ![t].cur = k]
      BY <1>6 DEF RestoreOperation
    <2>2. k \in Nat
      BY LenProperties DEF TypeOK
    <2>3. restore'[t].phase = restore[t].phase /\ \A u \in Restorers \ {t} : restore'[u] = restore[u]
      BY <2>1, <2>2, RestoreAdvances
    <2> QED  BY <2>3 DEF InReports, InOperations
  <1>7. CASE RestoreDone(t)
    <2>1. restore' = [restore EXCEPT ![t] = NotRestoring]
      BY <1>7 DEF RestoreDone
    <2>2. restore'[t].phase = "off" /\ \A u \in Restorers \ {t} : restore'[u] = restore[u]
      BY <2>1 DEF TypeOK, NotRestoring
    <2> QED  BY <2>2 DEF InReports, InOperations
  <1> QED  BY <1>1, <1>2, <1>3, <1>4, <1>5, <1>6, <1>7 DEF Restoration

\* The two mutexes: one thread restores a table at a time.
LEMMA OneRestorerStep ==
  ASSUME TypeOK, OneRestorer, [Next]_vars
  PROVE  OneRestorer'
  <1>1. CASE restore' = restore
    BY <1>1 DEF OneRestorer, InReports, InOperations
  <1>2. CASE \E t \in Restorers : Restoration(t)
    <2>1. PICK t \in Restorers : Restoration(t)
      BY <1>2
    <2>2. /\ \A u \in Restorers \ {t} : restore'[u] = restore[u]
          /\ InReports(t)' => InReports(t) \/ ReportTabFree
          /\ InOperations(t)' => InOperations(t) \/ OperTabFree
      BY <2>1, PhaseSteps
    <2>3. \A u \in Restorers \ {t} : (InReports(u)' => InReports(u)) /\ (InOperations(u)' => InOperations(u))
      BY <2>2 DEF InReports, InOperations
    <2>4. /\ ReportTabFree => \A u \in Restorers : ~InReports(u)
          /\ OperTabFree => \A u \in Restorers : ~InOperations(u)
      BY DEF ReportTabFree, OperTabFree, InReports, InOperations
    <2> QED  BY <2>2, <2>3, <2>4 DEF OneRestorer
  <1>3. CASE restore'["main"] = restore["main"] /\ restore'["socket"] = BeginRestore
    BY <1>3 DEF OneRestorer, InReports, InOperations, BeginRestore, Restorers
  <1>4. CASE Restart
    BY <1>4 DEF Restart, OneRestorer, InReports, InOperations, BootRestore, BeginRestore,
                NotRestoring, Restorers
  <1> QED  BY <1>1, <1>2, <1>3, <1>4, RestoreSteps

\* While report_sqlite3_restore_record holds the mutex nobody else settles its row.
LEMMA RowOutstandingStep ==
  ASSUME TypeOK, OneRestorer, RowOutstanding, [Next]_vars
  PROVE  RowOutstanding'
  <1>1. ASSUME NEW t \in Restorers, restore'[t] = restore[t], reportTab' = reportTab
        PROVE  (restore[t].phase = "header" => reportTab[restore[t].cur].state = 0)'
    BY <1>1 DEF RowOutstanding
  <1>2. ASSUME reportTab' # reportTab
        PROVE  \/ ReportTabFree /\ restore' = restore
               \/ \E t \in Restorers : RestoreReport(t)
    <2>1. (ReportInsert \/ AckReport) => ReportTabFree /\ restore' = restore
      BY DEF ReportInsert, AckReport
    <2>2. ReportThread => ReportInsert \/ reportTab' = reportTab
      BY DEF ReportThread, ReportBuild, ReportSend, ReportRecord
    <2>3. OperationSending => reportTab' = reportTab
      BY DEF OperationSending, OperationBuild, OperationSend, OperationRecord, OperationInsert
    <2>4. AckTreating => AckReport \/ reportTab' = reportTab
      BY DEF AckTreating, AckRefused, AckOperation, CancelNext, CancelMatch, CancelDelete,
             CancelMiss
    <2>5. ASSUME NEW t \in Restorers, Restoration(t) PROVE RestoreReport(t) \/ reportTab' = reportTab
      BY <2>5 DEF Restoration, RestoreReportsBegin, RestoreReportHeader, RestoreReportsDone,
                  RestoreOperationsBegin, RestoreOperation, RestoreDone
    <2>6. Supplementing => reportTab' = reportTab
      BY DEF Supplementing, SupplementBegin, SupplementShort, SupplementGet, SupplementDelete,
             SupplementSend, SupplementSet
    <2>7. (\E t \in Threads : OtherHeader(t) \/ OtherSend(t)) => reportTab' = reportTab
      BY DEF OtherHeader, OtherSend
    <2>8. Environment => reportTab' = reportTab
      BY DEF Environment, Answer, Connect, Disconnect, Tick, Restart
    <2>9. (UNCHANGED vars) => reportTab' = reportTab
      BY DEF vars
    <2> QED  BY <1>2, <2>1, <2>2, <2>3, <2>4, <2>5, <2>6, <2>7, <2>8, <2>9 DEF Next
  <1>3. ASSUME NEW t \in Restorers, Restoration(t)
        PROVE  (restore[t].phase = "header" => reportTab[restore[t].cur].state = 0)'
    <2>0. /\ Phases = {"off", "begin", "reports", "header", "between", "operations"}
          /\ 0 \in Nat /\ Len(operTab) + 1 \in Nat
      BY LenProperties DEF Phases, TypeOK
    <2>1. CASE RestoreReportHeader(t)
      <3>1. PICK k \in DOMAIN reportTab :
               /\ reportTab[k].state = 0
               /\ restore' = [restore EXCEPT ![t].phase = "header", ![t].cur = k]
        BY <2>1 DEF RestoreReportHeader
      <3>2. k \in Nat
        BY LenProperties DEF TypeOK
      <3>3. restore'[t].cur = k
        BY <2>0, <3>1, <3>2, RestoreMoves
      <3> QED  BY <2>1, <3>1, <3>3 DEF RestoreReportHeader
    <2>2. CASE ~RestoreReportHeader(t)
      <3>1. CASE RestoreReport(t)
        <4>1. restore' = [restore EXCEPT ![t].phase = "reports"]
          BY <3>1 DEF RestoreReport
        <4>2. restore'[t].phase = "reports"
          BY <2>0, <4>1, RestoreStays
        <4> QED  BY <4>2
      <3>2. CASE RestoreReportsBegin(t) \/ RestoreReportsDone(t) \/ RestoreOperationsBegin(t)
        <4>1. PICK p \in Phases \ {"header"}, c \in Nat :
                 restore' = [restore EXCEPT ![t].phase = p, ![t].cur = c]
          BY <2>0, <3>2 DEF RestoreReportsBegin, RestoreReportsDone, RestoreOperationsBegin
        <4>2. restore'[t].phase = p
          BY <4>1, RestoreMoves
        <4> QED  BY <4>1, <4>2
      <3>3. CASE RestoreOperation(t)
        <4>1. PICK k \in DOMAIN operTab : restore' = [restore EXCEPT ![t].cur = k]
          BY <3>3 DEF RestoreOperation
        <4>2. k \in Nat
          BY LenProperties DEF TypeOK
        <4>3. restore'[t].phase = "operations"
          BY <3>3, <4>1, <4>2, RestoreAdvances DEF RestoreOperation
        <4> QED  BY <4>3
      <3>4. CASE RestoreDone(t)
        BY <3>4 DEF RestoreDone, NotRestoring, TypeOK
      <3> QED  BY <1>3, <2>2, <3>1, <3>2, <3>3, <3>4 DEF Restoration
    <2> QED  BY <2>1, <2>2
  <1>4. CASE ReportTabFree /\ restore' = restore
    BY <1>4 DEF ReportTabFree, RowOutstanding
  <1>5. ASSUME NEW t \in Restorers, RestoreReport(t) PROVE RowOutstanding'
    <2>1. \A u \in Restorers \ {t} : restore'[u] = restore[u]
      BY <1>5, PhaseSteps DEF Restoration
    <2>2. \A u \in Restorers \ {t} : restore[u].phase # "header"
      BY <1>5 DEF RestoreReport, OneRestorer, InReports
    <2>3. (restore[t].phase = "header" => reportTab[restore[t].cur].state = 0)'
      BY <1>3, <1>5 DEF Restoration
    <2> QED  BY <2>1, <2>2, <2>3 DEF RowOutstanding
  <1>6. CASE reportTab' = reportTab
    <2>1. CASE \E t \in Restorers : Restoration(t)
      <3>1. PICK t \in Restorers : Restoration(t)
        BY <2>1
      <3>2. \A u \in Restorers \ {t} : restore'[u] = restore[u]
        BY <3>1, PhaseSteps
      <3> QED  BY <1>1, <1>3, <1>6, <3>1, <3>2 DEF RowOutstanding
    <2>2. CASE restore' = restore
      BY <1>6, <2>2 DEF RowOutstanding
    <2>3. CASE restore'["main"] = restore["main"] /\ restore'["socket"] = BeginRestore
      BY <1>6, <2>3 DEF RowOutstanding, BeginRestore, Restorers
    <2>4. CASE Restart
      BY <2>4 DEF Restart, RowOutstanding, BootRestore, BeginRestore, NotRestoring, Restorers
    <2> QED  BY <2>1, <2>2, <2>3, <2>4, RestoreSteps
  <1> QED  BY <1>2, <1>4, <1>5, <1>6

\* A clash is never taken back, so a step that ends without one began without one.
LEMMA ClashStays ==
  ASSUME [Next]_vars, ~clash'
  PROVE  ~clash
  <1>1. CASE ReportSend \/ OperationSend \/ \E t \in Restorers : RestoreReport(t)
    BY <1>1 DEF ReportSend, OperationSend, RestoreReport, Name
  <1>2. CASE ~(ReportSend \/ OperationSend \/ \E t \in Restorers : RestoreReport(t))
    <2>1. CASE AckTreating \/ Supplementing
      BY <2>1
      DEF AckTreating, AckRefused, AckReport, AckOperation, CancelNext, CancelMatch,
          CancelDelete, CancelMiss, Supplementing, SupplementBegin, SupplementShort,
          SupplementGet, SupplementDelete, SupplementSend, SupplementSet
    <2>2. CASE ReportThread \/ OperationSending \/ Environment
      BY <1>2, <2>2
      DEF ReportThread, ReportBuild, ReportRecord, ReportInsert, OperationSending,
          OperationBuild, OperationRecord, OperationInsert, Environment, Answer, Connect,
          Disconnect, Tick, Restart
    <2>3. CASE \E t \in Threads : OtherHeader(t) \/ OtherSend(t)
      BY <2>3 DEF OtherHeader, OtherSend
    <2>4. CASE UNCHANGED vars
      BY <2>4 DEF vars
    <2>5. CASE \E t \in Restorers : Restoration(t)
      BY <1>2, <2>5
      DEF Restoration, RestoreReportsBegin, RestoreReportHeader, RestoreReportsDone,
          RestoreOperationsBegin, RestoreOperation, RestoreDone
    <2> QED  BY <2>1, <2>2, <2>3, <2>4, <2>5 DEF Next
  <1> QED  BY <1>1, <1>2

\* A number that is given out without a clash was free.
LEMMA NamedFree ==
  ASSUME NEW q, NEW m, Name(q, m), ~clash'
  PROVE  Free(q, m)
  <1> HIDE DEF Holds, AckUnderWay
  <1> QED  BY DEF Name, Free

LEMMA ClashFreeStep ==
  ASSUME TypeOK, TypeOK', RowOutstanding, ClashFree, ~clash', [Next]_vars
  PROVE  ClashFree'
  <1> USE DEF ClashFree
  <1>0. /\ \A i \in DOMAIN downlink : \E j \in DOMAIN downlink : downlink[i] = downlink[j]
        /\ SeqSpace \in Nat
    BY StoreAssumption DEF StoreAssumption
  <1>1. CASE UNCHANGED vars
    BY <1>1 DEF vars, netVars, Core, Unique, AcksSound, InHandSound, AckSound,
                RowsSound, Holds, InList, InUplink, InTab, InSender, InCopy, InHand
  <1>2. ASSUME NEW t \in Threads, OtherHeader(t) PROVE ClashFree'
    BY <1>2, <1>0, QuietStep DEF OtherHeader, netVars, InSender, InCopy, InHand
  <1>3. ASSUME NEW t \in Threads, OtherSend(t) PROVE ClashFree'
    BY <1>3, <1>0, QuietStep DEF OtherSend, netVars, InSender, InCopy, InHand
  <1>4. ASSUME NEW n \in Reports, ReportBuild(n) PROVE ClashFree'
    <2>1. rep'.pc = "send"
      BY <1>4 DEF ReportBuild, TypeOK, Sender
    <2> QED  BY <1>4, <1>0, <2>1, QuietStep DEF ReportBuild, netVars, InSender, InCopy, InHand
  <1>5. CASE ReportSend
    <2>1. PICK n : n = WireSeq("report")
      OBVIOUS
    <2>2. Free(n, rep.msg)
      BY <1>5, <2>1, NamedFree DEF ReportSend
    <2>3. rep'.seq = n /\ rep'.msg = rep.msg /\ rep'.pc = "record"
      BY <1>5, <2>1 DEF ReportSend, TypeOK, Sender
    <2>4. Transmit(REPORT, n, rep.msg)
      BY <1>5, <2>1 DEF ReportSend
    <2>5. ASSUME NEW q \in Nat, NEW m \in Messages, Holds(q, m)'
          PROVE  Holds(q, m) \/ (q = n /\ m = rep.msg /\ Free(n, rep.msg))
      <3>1. InUplink(q, m)' => InUplink(q, m) \/ (q = n /\ m = rep.msg)
        BY <2>4, TransmitHolds
      <3>2. InSender(rep, q, m)' => q = n /\ m = rep.msg
        BY <2>3 DEF InSender
      <3>3. /\ (InCopy(q, m)' => InCopy(q, m)) /\ (InList(q, m)' => InList(q, m)) /\ (InSender(soc, q, m)' => InSender(soc, q, m))
            /\ (InTab(reportTab, q, m)' => InTab(reportTab, q, m))
            /\ (InTab(operTab, q, m)' => InTab(operTab, q, m))
        BY <1>5 DEF ReportSend, InList, InTab, InSender, InCopy
      <3> QED  BY <2>2, <2>5, <3>1, <3>2, <3>3 DEF Holds
    <2>6. /\ received' = received /\ downlink' = downlink /\ ack' = ack
          /\ InHand' => InHand
      BY <1>5, <2>3 DEF ReportSend, InHand
    <2>7. Core'
      BY <1>0, <2>5, <2>6, CoreStep
    <2> QED  BY <1>5, <2>7 DEF ReportSend, RowsSound
  <1>6. CASE ReportRecord
    <2>1. rep'.seq = rep.seq /\ rep'.msg = rep.msg /\ InSender(rep, rep.seq, rep.msg)
      BY <1>6 DEF ReportRecord, TypeOK, Sender, InSender
    <2>2. ASSUME NEW q \in Nat, NEW m \in Messages, Holds(q, m)' PROVE Holds(q, m)
      <3>1. InList(q, m)' => InList(q, m) \/ (q = rep.seq /\ m = rep.msg)
        BY <1>6, RecordMsgHolds DEF ReportRecord
      <3>2. InSender(rep, q, m)' => q = rep.seq /\ m = rep.msg
        BY <2>1 DEF InSender
      <3> QED  BY <1>6, <2>1, <2>2, <3>1, <3>2 DEF Holds, ReportRecord, netVars, InUplink, InTab, InSender, InCopy
    <2>3. Core'
      BY <1>6, <1>0, <2>2, StillStep DEF ReportRecord, netVars, InHand
    <2> QED  BY <1>6, <2>3 DEF ReportRecord, netVars, RowsSound
  <1>7. CASE ReportInsert
    <2> DEFINE row == [msg |-> rep.msg, seq |-> rep.seq, state |-> 0]
    <2>1. InSender(rep, rep.seq, rep.msg) /\ rep'.pc = "idle" /\ reportTab' = Append(reportTab, row)
      BY <1>7 DEF ReportInsert, InSender, IdleSender
    <2>2. ASSUME NEW q \in Nat, NEW m \in Messages, Holds(q, m)' PROVE Holds(q, m)
      <3>1. InTab(reportTab, q, m)' => InTab(reportTab, q, m) \/ (q = rep.seq /\ m = rep.msg)
        <4>1. InTab(Append(reportTab, row), q, m) => InTab(reportTab, q, m) \/ (q = row.seq /\ m = row.msg)
          BY Elements, AppendRowHolds
        <4> QED  BY <2>1, <4>1 DEF InTab
      <3>2. ~InSender(rep, q, m)'
        BY <2>1 DEF InSender
      <3>3. /\ (InCopy(q, m)' => InCopy(q, m)) /\ (InList(q, m)' => InList(q, m)) /\ (InUplink(q, m)' => InUplink(q, m))
            /\ (InTab(operTab, q, m)' => InTab(operTab, q, m)) /\ (InSender(soc, q, m)' => InSender(soc, q, m))
        BY <1>7 DEF ReportInsert, netVars, InList, InUplink, InTab, InSender, InCopy
      <3> QED  BY <2>1, <2>2, <3>1, <3>2, <3>3 DEF Holds
    <2>3. Core'
      BY <1>7, <1>0, <2>2, StillStep DEF ReportInsert, netVars, InHand
    <2>4. row.state = 0 /\ reportTab \in Seq(Row(Reports)) /\ RowsSound(reportTab)
      BY DEF TypeOK
    <2>5. RowsSound(Append(reportTab, row))
      BY <2>4, AppendRowSound
    <2>6. RowsSound(reportTab)'
      BY <1>7, <2>1, <2>5 DEF ReportInsert, netVars, RowsSound
    <2> QED  BY <1>7, <2>3, <2>6 DEF ReportInsert, netVars, RowsSound
  <1>8. ASSUME NEW n \in Operations, OperationBuild(n) PROVE ClashFree'
    <2>1. soc'.pc = "send"
      BY <1>8 DEF OperationBuild, TypeOK, Sender
    <2> QED  BY <1>8, <1>0, <2>1, QuietStep DEF OperationBuild, netVars, InSender, InCopy, InHand
  <1>9. CASE OperationSend
    <2>1. PICK n : n = WireSeq("socket")
      OBVIOUS
    <2>2. Free(n, soc.msg)
      BY <1>9, <2>1, NamedFree DEF OperationSend
    <2>3. soc'.seq = n /\ soc'.msg = soc.msg /\ soc'.pc = "record"
      BY <1>9, <2>1 DEF OperationSend, TypeOK, Sender
    <2>4. Transmit(OPERATION, n, soc.msg)
      BY <1>9, <2>1 DEF OperationSend
    <2>5. ASSUME NEW q \in Nat, NEW m \in Messages, Holds(q, m)'
          PROVE  Holds(q, m) \/ (q = n /\ m = soc.msg /\ Free(n, soc.msg))
      <3>1. InUplink(q, m)' => InUplink(q, m) \/ (q = n /\ m = soc.msg)
        BY <2>4, TransmitHolds
      <3>2. InSender(soc, q, m)' => q = n /\ m = soc.msg
        BY <2>3 DEF InSender
      <3>3. /\ (InCopy(q, m)' => InCopy(q, m)) /\ (InList(q, m)' => InList(q, m)) /\ (InSender(rep, q, m)' => InSender(rep, q, m))
            /\ (InTab(reportTab, q, m)' => InTab(reportTab, q, m))
            /\ (InTab(operTab, q, m)' => InTab(operTab, q, m))
        BY <1>9 DEF OperationSend, InList, InTab, InSender, InCopy
      <3> QED  BY <2>2, <2>5, <3>1, <3>2, <3>3 DEF Holds
    <2>6. /\ received' = received /\ downlink' = downlink /\ ack' = ack
          /\ InHand' => InHand
      BY <1>9, <2>3 DEF OperationSend, InHand
    <2>7. Core'
      BY <1>0, <2>5, <2>6, CoreStep
    <2> QED  BY <1>9, <2>7 DEF OperationSend, RowsSound
  <1>10. CASE OperationRecord
    <2>1. soc'.seq = soc.seq /\ soc'.msg = soc.msg /\ soc'.pc = "insert" /\ InSender(soc, soc.seq, soc.msg)
      BY <1>10 DEF OperationRecord, TypeOK, Sender, InSender
    <2>2. ASSUME NEW q \in Nat, NEW m \in Messages, Holds(q, m)' PROVE Holds(q, m)
      <3>1. InList(q, m)' => InList(q, m) \/ (q = soc.seq /\ m = soc.msg)
        BY <1>10, RecordMsgHolds DEF OperationRecord
      <3>2. InSender(soc, q, m)' => q = soc.seq /\ m = soc.msg
        BY <2>1 DEF InSender
      <3> QED  BY <1>10, <2>1, <2>2, <3>1, <3>2 DEF Holds, OperationRecord, netVars, InUplink, InTab, InSender, InCopy
    <2>3. Core'
      BY <1>10, <1>0, <2>1, <2>2, StillStep DEF OperationRecord, netVars, InHand
    <2> QED  BY <1>10, <2>3 DEF OperationRecord, netVars, RowsSound
  <1>11. CASE OperationInsert
    <2> DEFINE row == [msg |-> soc.msg, seq |-> soc.seq, state |-> 0]
    <2>1. InSender(soc, soc.seq, soc.msg) /\ soc'.pc = "idle" /\ operTab' = Append(operTab, row)
      BY <1>11 DEF OperationInsert, InSender, IdleSender
    <2>2. ASSUME NEW q \in Nat, NEW m \in Messages, Holds(q, m)' PROVE Holds(q, m)
      <3>1. InTab(operTab, q, m)' => InTab(operTab, q, m) \/ (q = soc.seq /\ m = soc.msg)
        <4>1. InTab(Append(operTab, row), q, m) => InTab(operTab, q, m) \/ (q = row.seq /\ m = row.msg)
          BY Elements, AppendRowHolds
        <4> QED  BY <2>1, <4>1 DEF InTab
      <3>2. ~InSender(soc, q, m)'
        BY <2>1 DEF InSender
      <3>3. /\ (InCopy(q, m)' => InCopy(q, m)) /\ (InList(q, m)' => InList(q, m)) /\ (InUplink(q, m)' => InUplink(q, m))
            /\ (InTab(reportTab, q, m)' => InTab(reportTab, q, m)) /\ (InSender(rep, q, m)' => InSender(rep, q, m))
        BY <1>11 DEF OperationInsert, netVars, InList, InUplink, InTab, InSender, InCopy
      <3> QED  BY <2>1, <2>2, <3>1, <3>2, <3>3 DEF Holds
    <2>3. Core'
      BY <1>11, <1>0, <2>1, <2>2, StillStep DEF OperationInsert, netVars, InHand
    <2>4. row.state = 0 /\ operTab \in Seq(Row(Operations)) /\ RowsSound(operTab)
      BY DEF TypeOK
    <2>5. RowsSound(Append(operTab, row))
      BY <2>4, AppendRowSound
    <2>6. RowsSound(operTab)'
      BY <1>11, <2>1, <2>5 DEF OperationInsert, netVars, RowsSound
    <2> QED  BY <1>11, <2>3, <2>6 DEF OperationInsert, netVars, RowsSound
  <1>12. ASSUME downlink # <<>>, downlink' = Tail(downlink)
         PROVE  \A i \in DOMAIN downlink' : \E j \in DOMAIN downlink : downlink'[i] = downlink[j]
    <2>1. /\ DOMAIN Tail(downlink) = 1..Len(downlink)-1
          /\ \A k \in DOMAIN Tail(downlink) : /\ Tail(downlink)[k] = downlink[k+1]
                                             /\ k+1 \in DOMAIN downlink
      BY <1>12, Elements, TailType
    <2> QED  BY <1>12, <2>1
  <1>13. ASSUME downlink # <<>>, Head(downlink).ok
         PROVE  \A m \in Messages : Holds(Head(downlink).seq, m) => m \in received
    <2>1. Head(downlink) = downlink[1] /\ 1 \in DOMAIN downlink
      BY <1>13, TailType DEF TypeOK
    <2>2. AckSound(downlink[1])
      BY <2>1 DEF Core, AcksSound
    <2> HIDE DEF Holds
    <2> QED  BY <1>13, <2>1, <2>2 DEF AckSound
  <1>14. CASE AckRefused
    <2>1. ClashFree'
      BY <1>14, <1>0, <1>12, QuietStep DEF AckRefused, InSender, InCopy, InHand
    <2> QED  BY <2>1
  <1>15. CASE AckReport
    <2> DEFINE s == Head(downlink).seq
    <2>1. reportTab' = Acknowledged(reportTab, s) /\ reportTab \in Seq(Row(Reports))
          /\ soc'.pc = "cancel"
      BY <1>15 DEF AckReport, TypeOK, Sender
    <2>2. ASSUME NEW q \in Nat, NEW m \in Messages, Holds(q, m)' PROVE Holds(q, m)
      <3>1. InTab(reportTab, q, m)' => InTab(reportTab, q, m)
        BY <2>1, AcknowledgedHolds
      <3>2. ~InSender(soc, q, m)'
        BY <2>1 DEF InSender
      <3>3. /\ (InCopy(q, m)' => InCopy(q, m)) /\ (InList(q, m)' => InList(q, m)) /\ (InUplink(q, m)' => InUplink(q, m))
            /\ (InTab(operTab, q, m)' => InTab(operTab, q, m)) /\ (InSender(rep, q, m)' => InSender(rep, q, m))
        BY <1>15 DEF AckReport, InList, InUplink, InTab, InSender, InCopy
      <3> QED  BY <2>2, <3>1, <3>2, <3>3 DEF Holds
    <2>3. Core'
      <3>1. downlink[1].ok /\ ack' = downlink[1] /\ 1 \in DOMAIN downlink
        BY <1>15, TailType DEF AckReport, TypeOK
      <3> QED  BY <1>15, <1>12, <2>2, <3>1, StillStep DEF AckReport
    <2>4. ASSUME NEW m, InTab(reportTab, s, m) PROVE m \in received
      <3>1. m \in Messages
        BY <2>1, <2>4, Elements DEF InTab, Row, Messages
      <3> QED  BY <1>13, <1>15, <2>4, <3>1 DEF AckReport, Holds
    <2> HIDE DEF s
    <2>5. RowsSound(Acknowledged(reportTab, s))
      BY <2>1, <2>4, AcknowledgedSound
    <2>6. RowsSound(reportTab)'
      BY <1>15, <2>1, <2>5 DEF AckReport, RowsSound
    <2> QED  BY <1>15, <2>3, <2>6 DEF AckReport, RowsSound
  <1>16. CASE AckOperation
    <2> DEFINE s == Head(downlink).seq
    <2>1. operTab' = Acknowledged(operTab, s) /\ operTab \in Seq(Row(Operations))
          /\ soc'.pc = "cancel"
      BY <1>16 DEF AckOperation, TypeOK, Sender
    <2>2. ASSUME NEW q \in Nat, NEW m \in Messages, Holds(q, m)' PROVE Holds(q, m)
      <3>1. InTab(operTab, q, m)' => InTab(operTab, q, m)
        BY <2>1, AcknowledgedHolds
      <3>2. ~InSender(soc, q, m)'
        BY <2>1 DEF InSender
      <3>3. /\ (InCopy(q, m)' => InCopy(q, m)) /\ (InList(q, m)' => InList(q, m)) /\ (InUplink(q, m)' => InUplink(q, m))
            /\ (InTab(reportTab, q, m)' => InTab(reportTab, q, m)) /\ (InSender(rep, q, m)' => InSender(rep, q, m))
        BY <1>16 DEF AckOperation, InList, InUplink, InTab, InSender, InCopy
      <3> QED  BY <2>2, <3>1, <3>2, <3>3 DEF Holds
    <2>3. Core'
      <3>1. downlink[1].ok /\ ack' = downlink[1] /\ 1 \in DOMAIN downlink
        BY <1>16, TailType DEF AckOperation, TypeOK
      <3> QED  BY <1>16, <1>12, <2>2, <3>1, StillStep DEF AckOperation
    <2>4. ASSUME NEW m, InTab(operTab, s, m) PROVE m \in received
      <3>1. m \in Messages
        BY <2>1, <2>4, Elements DEF InTab, Row, Messages
      <3> QED  BY <1>13, <1>16, <2>4, <3>1 DEF AckOperation, Holds
    <2> HIDE DEF s
    <2>5. RowsSound(Acknowledged(operTab, s))
      BY <2>1, <2>4, AcknowledgedSound
    <2>6. RowsSound(operTab)'
      BY <1>16, <2>1, <2>5 DEF AckOperation, RowsSound
    <2> QED  BY <1>16, <2>3, <2>6 DEF AckOperation, RowsSound
  <1>17. CASE CancelNext \/ CancelMatch
    <2>1. InHand' => InHand
      BY <1>17 DEF CancelNext, CancelMatch, InHand
    <2>2. \A q \in Nat, m \in Messages : ~InSender(soc, q, m)'
      BY <1>17 DEF CancelNext, CancelMatch, InSender, TypeOK, Sender
    <2> QED  BY <1>17, <1>0, <2>1, <2>2, QuietStep
             DEF CancelNext, CancelMatch, netVars, InSender, InCopy
  <1>31. CASE CancelDelete \/ CancelMiss
    <2>1. soc'.pc = "idle"
      BY <1>31 DEF CancelDelete, CancelMiss, IdleSender
    <2>2. ASSUME NEW q \in Nat, NEW m \in Messages, Holds(q, m)' PROVE Holds(q, m)
      <3>1. InList(q, m)' => InList(q, m)
        <4>1. CASE list' = list
          BY <4>1 DEF InList
        <4>2. CASE \E i \in DOMAIN list : list' = RemoveAt(list, i)
          BY <4>2, RemoveAtHolds
        <4> QED  BY <1>31, <4>1, <4>2 DEF CancelDelete, CancelMiss
      <3>2. ~InSender(soc, q, m)'
        BY <2>1 DEF InSender
      <3>3. /\ (InCopy(q, m)' => InCopy(q, m)) /\ (InUplink(q, m)' => InUplink(q, m))
            /\ (InTab(operTab, q, m)' => InTab(operTab, q, m))
            /\ (InTab(reportTab, q, m)' => InTab(reportTab, q, m)) /\ (InSender(rep, q, m)' => InSender(rep, q, m))
        BY <1>31 DEF CancelDelete, CancelMiss, netVars, InUplink, InTab, InSender, InCopy
      <3> QED  BY <2>2, <3>1, <3>2, <3>3 DEF Holds
    <2>3. UNCHANGED <<received, downlink, reportTab, operTab>>
      BY <1>31 DEF CancelDelete, CancelMiss, netVars
    <2>4. Core'
      BY <1>0, <2>1, <2>2, <2>3, StillStep DEF InHand
    <2> QED  BY <2>3, <2>4 DEF RowsSound
  <1>18. ASSUME NEW t \in Restorers, RestoreReportHeader(t) PROVE ClashFree'
    BY <1>18, <1>0, QuietStep DEF RestoreReportHeader, netVars, InSender, InCopy, InHand
  <1>19. ASSUME NEW t \in Restorers, RestoreReport(t) PROVE ClashFree'
    <2>0. PICK n : n = WireSeq(t)
      OBVIOUS
    <2> DEFINE row == reportTab[restore[t].cur]
    <2>1. Free(n, row.msg)
      BY <1>19, <2>0, NamedFree DEF RestoreReport
    <2>2. /\ reportTab' = Renumbered(reportTab, row.seq, n)
          /\ RecordMsg(SUPPLEMENT, n, row.msg)
          /\ reportTab \in Seq(Row(Reports)) /\ restore[t].cur \in DOMAIN reportTab
      BY <1>19, <2>0 DEF RestoreReport, TypeOK
    <2>3. row \in Row(Reports)
      BY <2>2, LenProperties, ElementOfSeq
    <2>4. row.state = 0 /\ row.seq \in Nat /\ row.msg \in Messages
      BY <1>0, <1>19, <2>3 DEF RestoreReport, RowOutstanding, Row, Messages
    <2>5. Holds(row.seq, row.msg)
      BY <2>2, <2>4 DEF Holds, InTab
    <2>6. ASSUME NEW q \in Nat, NEW m \in Messages, Holds(q, m)'
          PROVE  Holds(q, m) \/ (q = n /\ m = row.msg /\ Free(n, row.msg))
      <3>1. InList(q, m)' => InList(q, m) \/ (q = n /\ m = row.msg)
        BY <2>2, RecordMsgHolds
      <3>2. InTab(reportTab, q, m)' => InTab(reportTab, q, m) \/ (q = n /\ InTab(reportTab, row.seq, m))
        <4>1. InTab(reportTab, q, m)' => InTab(Renumbered(reportTab, row.seq, n), q, m)
          BY <2>2 DEF InTab
        <4> HIDE DEF row
        <4> QED  BY <2>2, <4>1, RenumberedHolds
      <3>3. InTab(reportTab, row.seq, m) => Holds(row.seq, m)
        BY DEF Holds
      <3>4. Holds(row.seq, m) => m = row.msg
        BY <2>4, <2>5 DEF Core, Unique
      <3>5. /\ (InCopy(q, m)' => InCopy(q, m)) /\ (InUplink(q, m)' => InUplink(q, m)) /\ (InTab(operTab, q, m)' => InTab(operTab, q, m))
            /\ (InSender(rep, q, m)' => InSender(rep, q, m))
            /\ (InSender(soc, q, m)' => InSender(soc, q, m))
        BY <1>19 DEF RestoreReport, netVars, InUplink, InTab, InSender, InCopy
      <3> QED  BY <2>1, <2>6, <3>1, <3>2, <3>3, <3>4, <3>5 DEF Holds
    <2>7. /\ received' = received /\ downlink' = downlink /\ ack' = ack /\ (InHand' => InHand)
      BY <1>19 DEF RestoreReport, netVars, InHand
    <2> HIDE DEF row
    <2>8. Core'
      BY <1>0, <2>6, <2>7, CoreStep
    <2>9. RowsSound(Renumbered(reportTab, row.seq, n))
      BY <2>2, RenumberedSound
    <2>10. RowsSound(reportTab)'
      BY <1>19, <2>2, <2>9 DEF RestoreReport, netVars, RowsSound
    <2> QED  BY <1>19, <2>8, <2>10 DEF RestoreReport, netVars, RowsSound
  <1>20. ASSUME NEW t \in Restorers,
                RestoreReportsBegin(t) \/ RestoreReportsDone(t) \/ RestoreOperationsBegin(t)
         PROVE  ClashFree'
    BY <1>20, <1>0, QuietStep
    DEF RestoreReportsBegin, RestoreReportsDone, RestoreOperationsBegin, netVars, InSender, InCopy, InHand
  <1>21. ASSUME NEW t \in Restorers, RestoreOperation(t) PROVE ClashFree'
    <2>1. PICK k \in DOMAIN operTab : /\ operTab[k].state = 0
                                      /\ RecordMsg(OPERATION, operTab[k].seq, operTab[k].msg)
                                      /\ restore' = [restore EXCEPT ![t].cur = k]
      BY <1>21 DEF RestoreOperation
    <2>2. ASSUME NEW q \in Nat, NEW m \in Messages, Holds(q, m)' PROVE Holds(q, m)
      <3>1. InList(q, m)' => InList(q, m) \/ (q = operTab[k].seq /\ m = operTab[k].msg)
        BY <2>1, RecordMsgHolds
      <3>2. InTab(operTab, operTab[k].seq, operTab[k].msg)
        BY <2>1 DEF InTab
      <3>3. /\ (InCopy(q, m)' => InCopy(q, m)) /\ (InUplink(q, m)' => InUplink(q, m)) /\ (InTab(operTab, q, m)' => InTab(operTab, q, m))
            /\ (InTab(reportTab, q, m)' => InTab(reportTab, q, m))
            /\ (InSender(rep, q, m)' => InSender(rep, q, m)) /\ (InSender(soc, q, m)' => InSender(soc, q, m))
        BY <1>21 DEF RestoreOperation, netVars, InUplink, InTab, InSender, InCopy
      <3> QED  BY <2>2, <3>1, <3>2, <3>3 DEF Holds
    <2>3. Core'
      BY <1>21, <1>0, <2>2, StillStep DEF RestoreOperation, netVars, InHand
    <2> QED  BY <1>21, <2>3 DEF RestoreOperation, netVars, RowsSound
  <1>22. ASSUME NEW t \in Restorers, RestoreDone(t) PROVE ClashFree'
    BY <1>22, <1>0, QuietStep DEF RestoreDone, netVars, InSender, InCopy, InHand
  <1>23. CASE SupplementBegin \/ SupplementShort
    <2>1. sup'.pc \in {"idle", "get"}
      <3>1. CASE SupplementBegin
        <4>1. PICK n : sup' = [IdleSupplement EXCEPT !.pc = "get", !.i = 1, !.count = n]
          BY <3>1 DEF SupplementBegin
        <4> QED  BY <4>1 DEF IdleSupplement
      <3>2. CASE SupplementShort
        BY <3>2 DEF SupplementShort, IdleSupplement
      <3> QED  BY <1>23, <3>1, <3>2
    <2> QED  BY <1>23, <1>0, <2>1, QuietStep
             DEF SupplementBegin, SupplementShort, netVars, InSender, InCopy, InHand
  <1>32. SupplementNext => sup'.pc \in {"idle", "get"}
    BY SupplementNextType
  <1>24. CASE SupplementGet
    <2>1. UNCHANGED <<list, uplink, downlink, received, reportTab, operTab, rep, soc, ack>>
      BY <1>24 DEF SupplementGet, netVars
    <2>2. ASSUME NEW q \in Nat, NEW m \in Messages, InCopy(q, m)' PROVE InList(q, m)
      <3>1. sup'.pc \in {"send", "set"} /\ sup'.rec.seq = q /\ sup'.rec.msg = m
        BY <2>2 DEF InCopy
      <3>2. /\ sup.i \in DOMAIN list
            /\ sup' = [sup EXCEPT !.pc = "send",
                                  !.rec = [list[sup.i] EXCEPT !.try = @ + 1, !.last = now]]
        <4>1. CASE sup' = [sup EXCEPT !.pc = "delete", !.rec = list[sup.i]]
          BY <3>1, <4>1 DEF TypeOK, Supplement
        <4> QED  BY <1>24, <1>32, <3>1, <4>1 DEF SupplementGet
      <3>3. list[sup.i] \in Rec(Messages)
        BY <3>2, Elements
      <3>4. sup'.rec = [list[sup.i] EXCEPT !.try = @ + 1, !.last = now]
        BY <3>2 DEF TypeOK, Supplement
      <3>5. sup'.rec.seq = list[sup.i].seq /\ sup'.rec.msg = list[sup.i].msg
        BY <3>3, <3>4 DEF Rec
      <3> QED  BY <3>1, <3>2, <3>5 DEF InList
    <2>3. ASSUME NEW q \in Nat, NEW m \in Messages, Holds(q, m)' PROVE Holds(q, m)
      BY <2>1, <2>2, <2>3 DEF Holds, InList, InUplink, InTab, InSender
    <2>4. Core'
      BY <1>0, <2>1, <2>3, StillStep DEF InHand
    <2> QED  BY <2>1, <2>4 DEF RowsSound
  <1>25. CASE SupplementDelete
    <2>1. UNCHANGED <<uplink, downlink, received, reportTab, operTab, rep, soc, ack>>
          /\ sup'.pc \in {"idle", "get"}
      BY <1>25, <1>32 DEF SupplementDelete, netVars
    <2>2. ASSUME NEW q \in Nat, NEW m \in Messages, Holds(q, m)' PROVE Holds(q, m)
      <3>1. InList(q, m)' => InList(q, m)
        <4>1. CASE list' = list
          BY <4>1 DEF InList
        <4>2. CASE \E i \in DOMAIN list : list' = RemoveAt(list, i)
          BY <4>2, RemoveAtHolds
        <4> QED  BY <1>25, <4>1, <4>2 DEF SupplementDelete
      <3> QED  BY <2>1, <2>2, <3>1 DEF Holds, InUplink, InTab, InSender, InCopy
    <2>3. Core'
      BY <1>0, <2>1, <2>2, StillStep DEF InHand
    <2> QED  BY <2>1, <2>3 DEF RowsSound
  <1>33. CASE SupplementSend
    <2>1. PICK r \in {sup.rec} \union (IF overlap THEN Range(list) ELSE {}) :
             Transmit(IF r.id = REPORT THEN SUPPLEMENT ELSE r.id, r.seq, r.msg)
      BY <1>33 DEF SupplementSend
    <2>2. UNCHANGED <<list, downlink, received, reportTab, operTab, rep, soc, ack>>
          /\ sup.pc = "send" /\ sup'.rec = sup.rec
      BY <1>33 DEF SupplementSend, TypeOK, Supplement
    <2>3. InList(r.seq, r.msg) \/ InCopy(r.seq, r.msg)
      BY <2>1, <2>2 DEF InList, InCopy, Range
    <2>4. ASSUME NEW q \in Nat, NEW m \in Messages, Holds(q, m)' PROVE Holds(q, m)
      <3>1. InUplink(q, m)' => InUplink(q, m) \/ (q = r.seq /\ m = r.msg)
        BY <2>1, TransmitHolds
      <3>2. InCopy(q, m)' => InCopy(q, m)
        BY <2>2 DEF InCopy
      <3> QED  BY <2>2, <2>3, <2>4, <3>1, <3>2 DEF Holds, InList, InTab, InSender
    <2>5. Core'
      BY <1>0, <2>2, <2>4, StillStep DEF InHand
    <2> QED  BY <2>2, <2>5 DEF RowsSound
  <1>34. CASE SupplementSet
    <2>1. UNCHANGED <<uplink, downlink, received, reportTab, operTab, rep, soc, ack>>
          /\ sup.pc = "set" /\ sup'.pc \in {"idle", "get"}
      BY <1>34, <1>32 DEF SupplementSet, netVars
    <2>2. ASSUME NEW q \in Nat, NEW m \in Messages, Holds(q, m)' PROVE Holds(q, m)
      <3>1. InList(q, m)' => InList(q, m) \/ InCopy(q, m)
        <4>1. CASE list' = list
          BY <4>1 DEF InList
        <4>2. CASE sup.i \in DOMAIN list /\ list' = [list EXCEPT ![sup.i] = sup.rec]
          BY <2>1, <4>2 DEF InList, InCopy
        <4> QED  BY <1>34, <4>1, <4>2 DEF SupplementSet
      <3> QED  BY <2>1, <2>2, <3>1 DEF Holds, InUplink, InTab, InSender, InCopy
    <2>3. Core'
      BY <1>0, <2>1, <2>2, StillStep DEF InHand
    <2> QED  BY <2>1, <2>3 DEF RowsSound
  <1>26. ASSUME NEW ok \in BOOLEAN, Answer(ok) PROVE ClashFree'
    <2> DEFINE p == Head(uplink)
               a == [id |-> p.id, seq |-> p.seq, ok |-> ok]
    <2>1. /\ p \in Packet
          /\ p = uplink[1] /\ 1 \in DOMAIN uplink
          /\ \A k \in DOMAIN uplink' : uplink'[k] = uplink[k+1] /\ k+1 \in DOMAIN uplink
      <3>1. uplink # <<>> /\ uplink' = Tail(uplink) /\ uplink \in Seq(Packet)
        BY <1>26, Elements DEF Answer
      <3> QED  BY <3>1, TailType
    <2>2. downlink' = Append(downlink, a) /\ (ok => p.msg \in received') /\ received \subseteq received'
      BY <1>26 DEF Answer
    <2>3. Holds(p.seq, p.msg) /\ p.seq \in Nat /\ p.msg \in Messages
      BY <2>1, StoreAssumption DEF Holds, InUplink, Packet
    <2>4. ASSUME NEW q \in Nat, NEW m \in Messages, Holds(q, m)' PROVE Holds(q, m)
      <3>1. InUplink(q, m)' => InUplink(q, m)
        BY <2>1 DEF InUplink
      <3> QED  BY <1>26, <2>4, <3>1 DEF Answer, Holds, InList, InTab, InSender, InCopy
    <2>5. /\ Unique'
          /\ \A x \in AckMsg : AckSound(x) /\ (x.ok => AckUnderWay(x.seq)) => AckSound(x)'
      <3>1. PICK n, M : n = 0 /\ M = None
        OBVIOUS
      <3>2. \A q \in Nat, m \in Messages :
               Holds(q, m)' => Holds(q, m) \/ (q = n /\ m = M /\ Free(n, M))
        BY <2>4
      <3> HIDE DEF p
      <3> QED  BY <2>2, <3>2, NamingStep DEF Core
    <2>6. ASSUME NEW q \in Nat, q = p.seq, NEW m \in Messages, Holds(q, m)', ok
          PROVE  m \in received'
      <3>1. Holds(p.seq, m)
        <4> HIDE DEF Holds, p
        <4> QED  BY <2>3, <2>4, <2>6
      <3>2. m = p.msg
        BY <2>3, <3>1 DEF Core, Unique
      <3> QED  BY <2>2, <2>6, <3>2
    <2>8. ASSUME NEW i \in DOMAIN downlink' PROVE AckSound(downlink[i])'
      <3>1. DOMAIN downlink' = 1..Len(downlink)+1 /\ DOMAIN downlink = 1..Len(downlink)
            /\ Len(downlink) \in Nat
        BY <2>2, LenProperties DEF TypeOK
      <3>2. CASE i = Len(downlink)+1
        <4>1. downlink'[i] = a
          BY <2>2, <3>2 DEF TypeOK
        <4>2. downlink'[i].seq = p.seq /\ downlink'[i].ok = ok
          BY <4>1
        <4>3. PICK q \in Nat : q = p.seq
          BY <2>3
        <4>4. \A m \in Messages : Holds(q, m)' => (ok => m \in received')
          BY <2>6, <4>3 DEF Holds, InList, InUplink, InTab, InSender, InCopy
        <4> HIDE DEF Holds, p, a
        <4> QED  BY <4>2, <4>3, <4>4 DEF AckSound
      <3>3. CASE i \in DOMAIN downlink
        <4>1. PICK x \in AckMsg : x = downlink[i]
          BY <3>3, Elements
        <4>2. downlink'[i] = x
          BY <2>2, <3>1, <3>3, <4>1, Elements
        <4>3. AckSound(x) /\ (x.ok => AckUnderWay(x.seq))
          BY <3>3, <4>1 DEF Core, AcksSound, AckUnderWay
        <4>4. AckSound(x)'
          BY <2>5, <4>3
        <4> QED  BY <4>2, <4>4 DEF AckSound
      <3> QED  BY <3>1, <3>2, <3>3
    <2>9. AcksSound'
      BY <2>8 DEF AcksSound
    <2>10. InHandSound'
      <3> SUFFICES ASSUME InHand' PROVE ack'.ok /\ AckSound(ack)'
        BY DEF InHandSound
      <3>1. InHand /\ ack' = ack /\ ack \in AckMsg
        BY <1>26 DEF Answer, TypeOK, InHand
      <3>2. ack.ok /\ AckSound(ack) /\ AckUnderWay(ack.seq)
        BY <3>1 DEF Core, InHandSound, InHand, AckUnderWay
      <3>3. PICK x \in AckMsg : x = ack
        BY <3>1
      <3>4. AckSound(x)'
        BY <2>5, <3>2, <3>3
      <3> QED  BY <3>1, <3>2, <3>3, <3>4 DEF AckSound
    <2> QED  BY <1>26, <2>2, <2>5, <2>9, <2>10 DEF Answer, Core, RowsSound
  <1>27. CASE Connect
    BY <1>27, <1>0, QuietStep DEF Connect, netVars, InSender, InCopy, InHand
  <1>28. CASE Disconnect
    <2>1. ASSUME NEW q \in Nat, NEW m \in Messages, Holds(q, m)' PROVE Holds(q, m)
      BY <1>28, <2>1 DEF Disconnect, Holds, InList, InUplink, InTab, InSender, InCopy
    <2>2. Core'
      BY <1>28, <2>1, StillStep DEF Disconnect, InHand
    <2> QED  BY <1>28, <2>2 DEF Disconnect, RowsSound
  <1>29. CASE Tick
    BY <1>29, <1>0, QuietStep DEF Tick, netVars, InSender, InCopy, InHand
  <1>30. CASE Restart
    <2>0. rep'.pc = "idle" /\ soc'.pc = "idle" /\ sup'.pc = "idle"
      BY <1>30 DEF Restart, IdleSender, IdleSupplement
    <2>1. ASSUME NEW q \in Nat, NEW m \in Messages, Holds(q, m)' PROVE Holds(q, m)
      BY <1>30, <2>0, <2>1 DEF Restart, Holds, InList, InUplink, InTab, InSender, InCopy
    <2>2. Core'
      BY <1>30, <2>0, <2>1, StillStep DEF Restart, InHand
    <2> QED  BY <1>30, <2>2 DEF Restart, RowsSound
  <1> QED
    BY <1>1, <1>2, <1>3, <1>4, <1>5, <1>6, <1>7, <1>8, <1>9, <1>10, <1>11, <1>14, <1>15,
       <1>16, <1>17, <1>18, <1>19, <1>20, <1>21, <1>22, <1>23, <1>24, <1>25, <1>26, <1>27,
       <1>28, <1>29, <1>30, <1>31, <1>33, <1>34
    DEF Next, ReportThread, OperationSending, AckTreating, Restoration, Supplementing,
        Environment

LEMMA SeqInvStep ==
  ASSUME TypeOK, TypeOK', SeqInv, [Next]_vars
  PROVE  SeqInv'
  <1>1. RowOutstanding'
    BY RowOutstandingStep DEF SeqInv
  <1>3. OneRestorer'
    BY OneRestorerStep DEF SeqInv
  <1>2. ASSUME ~clash' PROVE ClashFree'
    BY <1>2, ClashStays, ClashFreeStep DEF SeqInv
  <1> QED  BY <1>1, <1>2, <1>3 DEF SeqInv

\* The invariant AckMeansReceived rests on: until a number has clashed, each number
\* held anywhere names one message, and an acknowledgement under way an accepted one.
THEOREM SequenceSound == Spec => []SeqInv
<1>1. Init => SeqInv
  BY SeqInvInit
<1>2. TypeOK /\ TypeOK' /\ SeqInv /\ [Next]_vars => SeqInv'
  BY SeqInvStep
<1> QED
  BY <1>1, <1>2, TypeCorrect, PTL DEF Spec

\* The main result: a row of a table is settled only when the server has accepted
\* that very message, unless a sequence number was given out while another message
\* still had it.  No interleaving of the three threads, of restores, retries,
\* disconnections, restarts, wrapped counters and late acknowledgements breaks it,
\* for any list size, retry limit, timeout and width of the number.
THEOREM AckSafe == Spec => []AckMeansReceived
<1>1. SeqInv => AckMeansReceived
  BY RowsSoundEnough DEF SeqInv, ClashFree, AckMeansReceived
<1> QED
  BY <1>1, SequenceSound, PTL
-----------------------------------------------------------------------------
(*  What the steps do to the list, to the copy of the main loop and to the   *)
(*  acknowledgement in hand.                                                 *)

Recording == ReportRecord \/ OperationRecord
             \/ \E t \in Restorers : RestoreReport(t) \/ RestoreOperation(t)

LEMMA ListSteps ==
  ASSUME [Next]_vars
  PROVE  list' = list \/ Recording \/ CancelDelete \/ SupplementDelete \/ SupplementSet
         \/ Restart
  <1>1. ReportThread => ReportRecord \/ list' = list
    BY DEF ReportThread, ReportBuild, ReportSend, ReportInsert, netVars
  <1>2. OperationSending => OperationRecord \/ list' = list
    BY DEF OperationSending, OperationBuild, OperationSend, OperationInsert, netVars
  <1>3. AckTreating => CancelDelete \/ list' = list
    BY DEF AckTreating, AckRefused, AckReport, AckOperation, CancelNext, CancelMatch, CancelMiss
  <1>4. ASSUME NEW t \in Restorers, Restoration(t)
        PROVE  RestoreReport(t) \/ RestoreOperation(t) \/ list' = list
    BY <1>4 DEF Restoration, RestoreReportsBegin, RestoreReportHeader, RestoreReportsDone,
                RestoreOperationsBegin, RestoreDone
  <1>5. Supplementing => SupplementDelete \/ SupplementSet \/ list' = list
    BY DEF Supplementing, SupplementBegin, SupplementShort, SupplementGet, SupplementSend
  <1>6. Environment => Restart \/ list' = list
    BY DEF Environment, Answer, Connect, Disconnect, Tick
  <1>7. (\E t \in Threads : OtherHeader(t) \/ OtherSend(t)) => list' = list
    BY DEF OtherHeader, OtherSend
  <1>8. (UNCHANGED vars) => list' = list
    BY DEF vars
  <1> QED  BY <1>1, <1>2, <1>3, <1>4, <1>5, <1>6, <1>7, <1>8 DEF Next, Recording

LEMMA CopySteps ==
  ASSUME TypeOK, [Next]_vars
  PROVE  sup' = sup \/ SupplementGet \/ SupplementSend \/ sup'.pc \in {"idle", "get"}
  <1>1. ReportThread \/ OperationSending => sup' = sup
    BY DEF ReportThread, ReportBuild, ReportSend, ReportRecord, ReportInsert, OperationSending,
           OperationBuild, OperationSend, OperationRecord, OperationInsert
  <1>2. AckTreating => sup' = sup
    BY DEF AckTreating, AckRefused, AckReport, AckOperation, CancelNext, CancelMatch,
           CancelDelete, CancelMiss
  <1>3. (\E t \in Restorers : Restoration(t)) => sup' = sup
    BY DEF Restoration, RestoreReportsBegin, RestoreReportHeader, RestoreReport,
           RestoreReportsDone, RestoreOperationsBegin, RestoreOperation, RestoreDone
  <1>4. CASE SupplementBegin
    <2>1. PICK n : sup' = [IdleSupplement EXCEPT !.pc = "get", !.i = 1, !.count = n]
      BY <1>4 DEF SupplementBegin
    <2> QED  BY <2>1 DEF IdleSupplement
  <1>5. CASE SupplementShort
    BY <1>5 DEF SupplementShort, IdleSupplement
  <1>6. CASE SupplementDelete \/ SupplementSet
    BY <1>6, SupplementNextType DEF SupplementDelete, SupplementSet
  <1>7. (\E t \in Threads : OtherHeader(t) \/ OtherSend(t)) => sup' = sup
    BY DEF OtherHeader, OtherSend
  <1>8. Environment => sup' = sup \/ sup'.pc = "idle"
    <2>1. Restart => sup'.pc = "idle"
      BY DEF Restart, IdleSupplement
    <2>2. Environment => sup' = sup \/ Restart
      BY DEF Environment, Answer, Connect, Disconnect, Tick
    <2> QED  BY <2>1, <2>2
  <1>9. (UNCHANGED vars) => sup' = sup
    BY DEF vars
  <1> QED  BY <1>1, <1>2, <1>3, <1>4, <1>5, <1>6, <1>7, <1>8, <1>9 DEF Next, Supplementing

LEMMA HitSteps ==
  ASSUME TypeOK, [Next]_vars, soc'.pc = "delete"
  PROVE  \/ CancelMatch
         \/ soc.pc = "delete" /\ UNCHANGED <<ack, scan>>
  <1>1. ReportThread => UNCHANGED <<soc, ack, scan>>
    BY DEF ReportThread, ReportBuild, ReportSend, ReportRecord, ReportInsert
  <1>2. OperationSending => soc'.pc # "delete"
    <2>1. OperationInsert => soc'.pc # "delete"
      BY DEF OperationInsert, IdleSender
    <2>2. (\E m \in Operations : OperationBuild(m)) \/ OperationSend \/ OperationRecord
            => soc'.pc # "delete"
      BY DEF OperationBuild, OperationSend, OperationRecord, TypeOK, Sender
    <2> QED  BY <2>1, <2>2 DEF OperationSending
  <1>3. AckTreating => CancelMatch \/ soc'.pc # "delete" \/ UNCHANGED <<soc, ack, scan>>
    <2>1. AckRefused => UNCHANGED <<soc, ack, scan>>
      BY DEF AckRefused
    <2>2. (AckReport \/ AckOperation) => soc'.pc = "cancel"
      BY DEF AckReport, AckOperation, TypeOK, Sender
    <2>3. (CancelNext \/ CancelDelete \/ CancelMiss) => soc'.pc # "delete"
      BY DEF CancelNext, CancelDelete, CancelMiss, IdleSender
    <2> QED  BY <2>1, <2>2, <2>3 DEF AckTreating
  <1>4. (\E t \in Restorers : Restoration(t)) => UNCHANGED <<soc, ack, scan>>
    BY DEF Restoration, RestoreReportsBegin, RestoreReportHeader, RestoreReport,
           RestoreReportsDone, RestoreOperationsBegin, RestoreOperation, RestoreDone
  <1>5. Supplementing => UNCHANGED <<soc, ack, scan>>
    BY DEF Supplementing, SupplementBegin, SupplementShort, SupplementGet, SupplementDelete,
           SupplementSend, SupplementSet
  <1>6. (\E t \in Threads : OtherHeader(t) \/ OtherSend(t)) => UNCHANGED <<soc, ack, scan>>
    BY DEF OtherHeader, OtherSend
  <1>7. Environment => UNCHANGED <<soc, ack, scan>> \/ soc'.pc # "delete"
    <2>1. Restart => soc'.pc # "delete"
      BY DEF Restart, IdleSender
    <2>2. Environment => UNCHANGED <<soc, ack, scan>> \/ Restart
      BY DEF Environment, Answer, Connect, Disconnect, Tick
    <2> QED  BY <2>1, <2>2
  <1>8. (UNCHANGED vars) => UNCHANGED <<soc, ack, scan>>
    BY DEF vars
  <1> QED  BY <1>1, <1>2, <1>3, <1>4, <1>5, <1>6, <1>7, <1>8 DEF Next

LEMMA MadeSteps ==
  ASSUME [Next]_vars
  PROVE  made \subseteq made'
  <1>1. ReportThread \/ OperationSending => made \subseteq made'
    BY DEF ReportThread, ReportBuild, ReportSend, ReportRecord, ReportInsert, OperationSending,
           OperationBuild, OperationSend, OperationRecord, OperationInsert
  <1>2. AckTreating \/ Supplementing => made \subseteq made'
    BY DEF AckTreating, AckRefused, AckReport, AckOperation, CancelNext, CancelMatch,
           CancelDelete, CancelMiss, Supplementing, SupplementBegin, SupplementShort,
           SupplementGet, SupplementDelete, SupplementSend, SupplementSet
  <1>3. (\E t \in Restorers : Restoration(t)) => made \subseteq made'
    BY DEF Restoration, RestoreReportsBegin, RestoreReportHeader, RestoreReport,
           RestoreReportsDone, RestoreOperationsBegin, RestoreOperation, RestoreDone
  <1>4. (\E t \in Threads : OtherHeader(t) \/ OtherSend(t)) => made \subseteq made'
    BY DEF OtherHeader, OtherSend
  <1>5. Environment => made \subseteq made'
    BY DEF Environment, Answer, Connect, Disconnect, Tick, Restart
  <1>6. (UNCHANGED vars) => made \subseteq made'
    BY DEF vars
  <1> QED  BY <1>1, <1>2, <1>3, <1>4, <1>5, <1>6 DEF Next

\* The circumstances are taken back by a power cycle only.
LEMMA CircumstancesStay ==
  ASSUME [Next]_vars, ~Restart
  PROVE  (~overlap' => ~overlap) /\ (~crossed' => ~crossed)
  <1>1. CASE ReportThread
    <2>1. UNCHANGED <<overlap, crossed>>
      BY <1>1 DEF ReportThread, ReportBuild, ReportSend, ReportRecord, ReportInsert
    <2> QED  BY <2>1
  <1>2. ASSUME NEW m \in Operations, OperationBuild(m)
        PROVE  (~overlap' => ~overlap) /\ (~crossed' => ~crossed)
    <2>1. overlap' = overlap /\ crossed' = (crossed \/ Restoring("main"))
      BY <1>2 DEF OperationBuild
    <2> QED  BY <2>1
  <1>3. CASE OperationSend \/ OperationRecord \/ OperationInsert
    BY <1>3 DEF OperationSend, OperationRecord, OperationInsert
  <1>4. CASE AckRefused \/ AckReport \/ AckOperation \/ CancelNext \/ CancelMatch
    BY <1>4 DEF AckRefused, AckReport, AckOperation, CancelNext, CancelMatch
  <1>5. RestoreIfEmpty => (~crossed' => ~crossed)
    BY DEF RestoreIfEmpty
  <1>6. CASE CancelDelete
    BY <1>5, <1>6 DEF CancelDelete
  <1>7. CASE CancelMiss
    BY <1>5, <1>7 DEF CancelMiss
  <1>8. CASE Supplementing /\ ~SupplementDelete
    BY <1>8 DEF Supplementing, SupplementBegin, SupplementShort, SupplementGet, SupplementSend,
                SupplementSet
  <1>9. CASE SupplementDelete
    BY <1>9 DEF SupplementDelete
  <1>10. CASE \E t \in Restorers : Restoration(t)
    BY <1>10 DEF Restoration, RestoreReportsBegin, RestoreReportHeader, RestoreReport,
                 RestoreReportsDone, RestoreOperationsBegin, RestoreOperation, RestoreDone
  <1>11. CASE \E t \in Threads : OtherHeader(t) \/ OtherSend(t)
    BY <1>11 DEF OtherHeader, OtherSend
  <1>12. CASE Environment /\ ~Restart
    <2>1. UNCHANGED <<overlap, crossed>>
      BY <1>12 DEF Environment, Answer, Connect, Disconnect, Tick
    <2> QED  BY <2>1
  <1>13. CASE UNCHANGED vars
    BY <1>13 DEF vars
  <1> QED  BY <1>1, <1>2, <1>3, <1>4, <1>6, <1>7, <1>8, <1>9, <1>10, <1>11, <1>12, <1>13
           DEF Next, OperationSending, AckTreating

-----------------------------------------------------------------------------
(*  Saved once, queued once.  A message is in a table at most once, and an   *)
(*  operation record is in the RAM list at most once: while the tables are   *)
(*  restored nobody else queues or restores records, and the list holds no   *)
(*  operation record above the restore cursor.  That takes the indices the   *)
(*  main loop and the socket thread hold to name the records they were taken *)
(*  from (IndexInv), as they do until a deletion falls in between.           *)

RowsOnce(tab) ==
  /\ \A k \in DOMAIN tab : tab[k].msg \in made
  /\ \A j, k \in DOMAIN tab : tab[j].msg = tab[k].msg => j = k
NoRow(tab, m) == \A k \in DOMAIN tab : tab[k].msg # m
SendersOnce ==
  /\ rep.pc # "idle" => rep.msg \in made /\ NoRow(reportTab, rep.msg)
  /\ soc.pc \in {"send", "record", "insert"} => soc.msg \in made /\ NoRow(operTab, soc.msg)
SavedOnce == RowsOnce(reportTab) /\ RowsOnce(operTab) /\ SendersOnce

\* The socket thread restores inside the treatment of an acknowledgement.
RestoreAlone == Restoring("socket") => soc.pc = "idle"

IsOperation(i) == list[i].id = OPERATION
ListKinds ==
  \A i \in DOMAIN list :
    IF IsOperation(i) THEN list[i].msg \in Operations \intersect made ELSE list[i].msg \in Reports
CopyKind ==
  Copied => IF sup.rec.id = OPERATION THEN sup.rec.msg \in Operations \intersect made
                                      ELSE sup.rec.msg \in Reports

\* The indices held by the main loop and by gb905_record_cancel are still right.
CopyCurrent ==
  Copied =>
    /\ sup.i \in DOMAIN list
    /\ list[sup.i].id = sup.rec.id /\ list[sup.i].seq = sup.rec.seq
    /\ list[sup.i].msg = sup.rec.msg
    /\ sup.pc = "delete" => list[sup.i].try > RetryCount
HitCurrent == soc.pc = "delete" => scan \in DOMAIN list /\ Cancels(ack, list[scan])
IndexInv == ~overlap => CopyCurrent /\ HitCurrent

NotQueued(m) == \A i \in DOMAIN list : list[i].msg # m
NoOperation  == \A i \in DOMAIN list : ~IsOperation(i)
RestoredFrom(cur) ==
  \A i \in DOMAIN list : IsOperation(i) =>
    \E k \in DOMAIN operTab : cur <= k /\ operTab[k].msg = list[i].msg
OpsOnce ==
  \A i, j \in DOMAIN list : i # j /\ list[i].id = OPERATION => list[i].msg # list[j].msg
RestoredPart(t) ==
  /\ restore[t].phase \in {"begin", "reports", "header", "between"} => NoOperation
  /\ restore[t].phase = "operations" => RestoredFrom(restore[t].cur)
RestoresApart ==
  \A t \in Restorers : Restoring(t) =>
    /\ soc.pc \notin {"send", "record", "insert"}
    /\ \A u \in Restorers : Restoring(u) => u = t
Queue == /\ OpsOnce /\ RestoresApart /\ \A t \in Restorers : RestoredPart(t)
         /\ soc.pc \in {"send", "record"} => NotQueued(soc.msg)

OnceInv == /\ SavedOnce /\ RestoreAlone /\ ListKinds /\ CopyKind /\ IndexInv
           /\ ~crossed /\ ~overlap => Queue

\* The list after a step that only removes records, or changes none of their kinds
\* and messages.
LEMMA ListKept ==
  ASSUME ListKinds, OpsOnce, made \subseteq made',
         NEW f \in [DOMAIN list' -> DOMAIN list],
         \A i, j \in DOMAIN list' : f[i] = f[j] => i = j,
         \A i \in DOMAIN list' : list'[i].id = list[f[i]].id /\ list'[i].msg = list[f[i]].msg
  PROVE  /\ ListKinds' /\ OpsOnce'
         /\ \A m : NotQueued(m) => NotQueued(m)'
         /\ NoOperation => NoOperation'
         /\ operTab' = operTab => \A cur : RestoredFrom(cur) => RestoredFrom(cur)'
  <1>1. ListKinds'
    BY DEF ListKinds, IsOperation
  <1>2. OpsOnce'
    BY DEF OpsOnce
  <1>3. ASSUME NEW m, NotQueued(m) PROVE NotQueued(m)'
    BY <1>3 DEF NotQueued
  <1>4. ASSUME NoOperation PROVE NoOperation'
    BY <1>4 DEF NoOperation, IsOperation
  <1>5. ASSUME operTab' = operTab, NEW cur, RestoredFrom(cur) PROVE RestoredFrom(cur)'
    <2> SUFFICES ASSUME NEW i \in DOMAIN list', list'[i].id = OPERATION
                 PROVE  \E k \in DOMAIN operTab' : cur <= k /\ operTab'[k].msg = list'[i].msg
      BY DEF RestoredFrom, IsOperation
    <2>1. f[i] \in DOMAIN list /\ list[f[i]].id = OPERATION /\ list[f[i]].msg = list'[i].msg
      OBVIOUS
    <2> QED  BY <1>5, <2>1 DEF RestoredFrom, IsOperation
  <1> QED  BY <1>1, <1>2, <1>3, <1>4, <1>5

\* A list that loses one record.
LEMMA ListShorter ==
  ASSUME TypeOK, NEW d \in DOMAIN list, list' = RemoveAt(list, d)
  PROVE  \E f \in [DOMAIN list' -> DOMAIN list] :
           /\ \A i, j \in DOMAIN list' : f[i] = f[j] => i = j
           /\ \A i \in DOMAIN list' : list'[i] = list[f[i]]
           /\ \A k \in DOMAIN list : k # d => \E i \in DOMAIN list' : f[i] = k
  <1>1. list \in Seq(Rec(Messages))
    BY DEF TypeOK
  <1>2. /\ DOMAIN list' = 1..Len(list)-1
        /\ \A k \in DOMAIN list' : list'[k] = IF k < d THEN list[k] ELSE list[k+1]
    BY <1>1, RemoveAtType
  <1>3. DOMAIN list = 1..Len(list) /\ Len(list) \in Nat
    BY <1>1, LenProperties
  <1> DEFINE f == [k \in DOMAIN list' |-> IF k < d THEN k ELSE k+1]
  <1>4. f \in [DOMAIN list' -> DOMAIN list]
    BY <1>2, <1>3
  <1>5. \A i, j \in DOMAIN list' : f[i] = f[j] => i = j
    BY <1>2, <1>3
  <1>6. \A i \in DOMAIN list' : list'[i] = list[f[i]]
    BY <1>2, <1>3
  <1>7. ASSUME NEW k \in DOMAIN list, k # d PROVE \E i \in DOMAIN list' : f[i] = k
    <2>1. CASE k < d
      <3>1. k \in DOMAIN list' /\ f[k] = k
        BY <1>2, <1>3, <2>1
      <3> QED  BY <3>1
    <2>2. CASE k > d
      <3>1. k-1 \in DOMAIN list' /\ f[k-1] = k
        BY <1>2, <1>3, <2>2
      <3> QED  BY <3>1
    <2> QED  BY <1>3, <1>7, <2>1, <2>2
  <1> HIDE DEF f
  <1> QED  BY <1>4, <1>5, <1>6, <1>7

\* gb905_record_msg puts at most one record at the tail.
LEMMA ListGrown ==
  ASSUME TypeOK, ListKinds, OpsOnce, made \subseteq made',
         NEW id, NEW q, NEW m, RecordMsg(id, q, m),
         IF id = OPERATION THEN m \in Operations \intersect made' /\ NotQueued(m) ELSE m \in Reports
  PROVE  /\ ListKinds' /\ OpsOnce'
         /\ \A i \in DOMAIN list' : \/ i \in DOMAIN list /\ list'[i] = list[i]
                                    \/ list'[i].id = id /\ list'[i].msg = m
  <1> DEFINE e == [id |-> id, seq |-> q, msg |-> m, try |-> 0, last |-> now]
  <1>0. Reports \intersect Operations = {}
    BY StoreAssumption DEF StoreAssumption
  <1>1. CASE list' = list
    BY <1>1 DEF ListKinds, IsOperation, OpsOnce
  <1>2. CASE list' = Append(list, e)
    <2>1. /\ DOMAIN list' = 1..Len(list)+1 /\ DOMAIN list = 1..Len(list) /\ Len(list) \in Nat
          /\ \A i \in DOMAIN list : list'[i] = list[i]
          /\ list'[Len(list)+1] = e
      BY <1>2, LenProperties DEF TypeOK
    <2>2. e.id = id /\ e.msg = m
      OBVIOUS
    <2> HIDE DEF e
    <2>3. \A i \in DOMAIN list' : i \in DOMAIN list \/ list'[i] = e
      BY <2>1
    <2>4. ListKinds'
      BY <2>1, <2>2, <2>3 DEF ListKinds, IsOperation
    <2>5. OpsOnce'
      <3> SUFFICES ASSUME NEW i \in DOMAIN list', NEW j \in DOMAIN list', i # j,
                          list'[i].id = OPERATION
                   PROVE  list'[i].msg # list'[j].msg
        BY DEF OpsOnce
      <3>1. CASE i \in DOMAIN list /\ j \in DOMAIN list
        BY <2>1, <3>1 DEF OpsOnce
      <3>2. CASE i \in DOMAIN list /\ j \notin DOMAIN list
        <4>1. list'[j] = e /\ list[i].msg \in Operations
          BY <2>1, <2>3, <3>2 DEF ListKinds, IsOperation
        <4> QED  BY <1>0, <2>1, <2>2, <3>2, <4>1 DEF NotQueued
      <3>3. CASE i \notin DOMAIN list /\ j \in DOMAIN list
        <4>1. list'[i] = e
          BY <2>3, <3>3
        <4> QED  BY <2>1, <2>2, <3>3, <4>1 DEF NotQueued
      <3>4. CASE i \notin DOMAIN list /\ j \notin DOMAIN list
        BY <2>1, <3>4
      <3> QED  BY <3>1, <3>2, <3>3, <3>4
    <2> QED  BY <2>1, <2>2, <2>3, <2>4, <2>5
  <1> QED  BY <1>1, <1>2 DEF RecordMsg

\* Rows keep their messages when their number or their state changes.
LEMMA RowsKept ==
  ASSUME NEW tab, NEW tab2, DOMAIN tab2 = DOMAIN tab,
         \A k \in DOMAIN tab : tab2[k].msg = tab[k].msg, RowsOnce(tab)
  PROVE  RowsOnce(tab2) /\ \A m : NoRow(tab, m) => NoRow(tab2, m)
  BY DEF RowsOnce, NoRow

LEMMA AcknowledgedKept ==
  ASSUME NEW S, NEW tab \in Seq(Row(S)), NEW q
  PROVE  /\ DOMAIN Acknowledged(tab, q) = DOMAIN tab
         /\ \A k \in DOMAIN tab : Acknowledged(tab, q)[k].msg = tab[k].msg
  <1>1. \A k \in DOMAIN tab : tab[k] \in Row(S)
    BY LenProperties, ElementOfSeq
  <1> QED  BY <1>1 DEF Acknowledged, Row

LEMMA RenumberedKept ==
  ASSUME NEW S, NEW tab \in Seq(Row(S)), NEW old, NEW new
  PROVE  /\ DOMAIN Renumbered(tab, old, new) = DOMAIN tab
         /\ \A k \in DOMAIN tab : /\ Renumbered(tab, old, new)[k].msg = tab[k].msg
                                  /\ Renumbered(tab, old, new)[k].state = tab[k].state
  <1>1. \A k \in DOMAIN tab : tab[k] \in Row(S)
    BY LenProperties, ElementOfSeq
  <1> QED  BY <1>1 DEF Renumbered, Row

LEMMA AppendKept ==
  ASSUME NEW S, NEW tab \in Seq(Row(S)), NEW row, RowsOnce(tab), NoRow(tab, row.msg),
         row.msg \in made
  PROVE  RowsOnce(Append(tab, row))
  <1>1. /\ DOMAIN Append(tab, row) = 1..Len(tab)+1 /\ DOMAIN tab = 1..Len(tab) /\ Len(tab) \in Nat
        /\ Append(tab, row)[Len(tab)+1] = row
        /\ \A k \in DOMAIN tab : Append(tab, row)[k] = tab[k]
    BY LenProperties
  <1>2. \A k \in DOMAIN Append(tab, row) : k \in DOMAIN tab \/ k = Len(tab)+1
    BY <1>1
  <1> QED  BY <1>1, <1>2 DEF RowsOnce, NoRow

\* Steps that insert no row and start no message.
LEMMA SavedQuiet ==
  ASSUME SavedOnce, made' = made,
         DOMAIN reportTab' = DOMAIN reportTab, DOMAIN operTab' = DOMAIN operTab,
         \A k \in DOMAIN reportTab : reportTab'[k].msg = reportTab[k].msg,
         \A k \in DOMAIN operTab : operTab'[k].msg = operTab[k].msg,
         rep'.pc # "idle" => rep.pc # "idle" /\ rep'.msg = rep.msg,
         soc'.pc \in {"send", "record", "insert"} =>
           soc.pc \in {"send", "record", "insert"} /\ soc'.msg = soc.msg
  PROVE  SavedOnce'
  <1>1. RowsOnce(reportTab)' /\ RowsOnce(operTab)'
    BY DEF SavedOnce, RowsOnce
  <1>2. SendersOnce'
    BY DEF SavedOnce, SendersOnce, NoRow
  <1> QED  BY <1>1, <1>2 DEF SavedOnce

LEMMA SavedOnceStep ==
  ASSUME TypeOK, SavedOnce, [Next]_vars
  PROVE  SavedOnce'
  <1>1. CASE UNCHANGED vars
    BY <1>1, SavedQuiet DEF vars
  <1>2. ASSUME NEW m \in Reports, ReportBuild(m) PROVE SavedOnce'
    <2>1. m \notin made /\ made' = made \union {m} /\ rep'.msg = m
      BY <1>2 DEF ReportBuild, TypeOK, Sender
    <2>2. RowsOnce(reportTab)' /\ RowsOnce(operTab)'
      BY <1>2, <2>1 DEF ReportBuild, netVars, SavedOnce, RowsOnce
    <2>3. SendersOnce'
      BY <1>2, <2>1 DEF ReportBuild, netVars, SavedOnce, RowsOnce, SendersOnce, NoRow
    <2> QED  BY <2>2, <2>3 DEF SavedOnce
  <1>3. ASSUME NEW m \in Operations, OperationBuild(m) PROVE SavedOnce'
    <2>1. m \notin made /\ made' = made \union {m} /\ soc'.msg = m
      BY <1>3 DEF OperationBuild, TypeOK, Sender
    <2>2. RowsOnce(reportTab)' /\ RowsOnce(operTab)'
      BY <1>3, <2>1 DEF OperationBuild, netVars, SavedOnce, RowsOnce
    <2>3. SendersOnce'
      BY <1>3, <2>1 DEF OperationBuild, netVars, SavedOnce, RowsOnce, SendersOnce, NoRow
    <2> QED  BY <2>2, <2>3 DEF SavedOnce
  <1>4. CASE ReportSend \/ ReportRecord
    <2>1. rep'.msg = rep.msg /\ rep.pc # "idle"
      BY <1>4 DEF ReportSend, ReportRecord, TypeOK, Sender
    <2> QED  BY <1>4, <2>1, SavedQuiet DEF ReportSend, ReportRecord, netVars
  <1>5. CASE OperationSend \/ OperationRecord
    <2>1. soc'.msg = soc.msg /\ soc.pc \in {"send", "record", "insert"}
      BY <1>5 DEF OperationSend, OperationRecord, TypeOK, Sender
    <2> QED  BY <1>5, <2>1, SavedQuiet DEF OperationSend, OperationRecord, netVars
  <1>6. CASE ReportInsert
    <2> DEFINE row == [msg |-> rep.msg, seq |-> rep.seq, state |-> 0]
    <2>1. reportTab' = Append(reportTab, row) /\ rep'.pc = "idle" /\ made' = made
      BY <1>6 DEF ReportInsert, IdleSender
    <2>2. row.msg \in made /\ NoRow(reportTab, row.msg) /\ reportTab \in Seq(Row(Reports))
      BY <1>6 DEF ReportInsert, SavedOnce, SendersOnce, TypeOK
    <2> HIDE DEF row
    <2>3. RowsOnce(Append(reportTab, row))
      BY <2>2, AppendKept DEF SavedOnce
    <2>4. RowsOnce(reportTab)' /\ RowsOnce(operTab)'
      BY <1>6, <2>1, <2>3 DEF ReportInsert, SavedOnce, RowsOnce
    <2>5. SendersOnce'
      BY <1>6, <2>1 DEF ReportInsert, SavedOnce, SendersOnce, NoRow
    <2> QED  BY <2>4, <2>5 DEF SavedOnce
  <1>7. CASE OperationInsert
    <2> DEFINE row == [msg |-> soc.msg, seq |-> soc.seq, state |-> 0]
    <2>1. operTab' = Append(operTab, row) /\ soc'.pc = "idle" /\ made' = made
      BY <1>7 DEF OperationInsert, IdleSender
    <2>2. row.msg \in made /\ NoRow(operTab, row.msg) /\ operTab \in Seq(Row(Operations))
      BY <1>7 DEF OperationInsert, SavedOnce, SendersOnce, TypeOK
    <2> HIDE DEF row
    <2>3. RowsOnce(Append(operTab, row))
      BY <2>2, AppendKept DEF SavedOnce
    <2>4. RowsOnce(reportTab)' /\ RowsOnce(operTab)'
      BY <1>7, <2>1, <2>3 DEF OperationInsert, SavedOnce, RowsOnce
    <2>5. SendersOnce'
      BY <1>7, <2>1 DEF OperationInsert, SavedOnce, SendersOnce, NoRow
    <2> QED  BY <2>4, <2>5 DEF SavedOnce
  <1>8. CASE AckReport \/ AckOperation
    <2>1. soc'.pc = "cancel" /\ rep' = rep /\ made' = made
      BY <1>8 DEF AckReport, AckOperation, TypeOK, Sender
    <2>2. /\ DOMAIN reportTab' = DOMAIN reportTab
          /\ \A k \in DOMAIN reportTab : reportTab'[k].msg = reportTab[k].msg
      BY <1>8, AcknowledgedKept DEF AckReport, AckOperation, TypeOK
    <2>3. /\ DOMAIN operTab' = DOMAIN operTab
          /\ \A k \in DOMAIN operTab : operTab'[k].msg = operTab[k].msg
      BY <1>8, AcknowledgedKept DEF AckReport, AckOperation, TypeOK
    <2> QED  BY <2>1, <2>2, <2>3, SavedQuiet
  <1>9. ASSUME NEW t \in Restorers, RestoreReport(t) PROVE SavedOnce'
    <2>1. PICK old, new : reportTab' = Renumbered(reportTab, old, new)
      BY <1>9 DEF RestoreReport
    <2>2. /\ DOMAIN reportTab' = DOMAIN reportTab
          /\ \A k \in DOMAIN reportTab : reportTab'[k].msg = reportTab[k].msg
      BY <2>1, RenumberedKept DEF TypeOK
    <2> QED  BY <1>9, <2>2, SavedQuiet DEF RestoreReport, netVars
  <1>10. CASE CancelDelete \/ CancelMiss \/ Restart
    <2>1. /\ soc'.pc = "idle" /\ (rep' = rep \/ rep'.pc = "idle")
          /\ reportTab' = reportTab /\ operTab' = operTab /\ made' = made
      BY <1>10 DEF CancelDelete, CancelMiss, Restart, IdleSender
    <2> QED  BY <2>1, SavedQuiet
  <1>14. CASE CancelNext \/ CancelMatch
    <2>1. /\ soc'.pc \notin {"send", "record", "insert"} /\ rep' = rep
          /\ reportTab' = reportTab /\ operTab' = operTab /\ made' = made
      BY <1>14 DEF CancelNext, CancelMatch, TypeOK, Sender
    <2> QED  BY <2>1, SavedQuiet
  <1>11. CASE Supplementing \/ AckRefused
    BY <1>11, SavedQuiet
    DEF Supplementing, SupplementBegin, SupplementShort, SupplementGet, SupplementDelete,
        SupplementSend, SupplementSet, AckRefused, netVars
  <1>12. ASSUME NEW t \in Restorers,
                RestoreReportsBegin(t) \/ RestoreReportHeader(t) \/ RestoreReportsDone(t)
                \/ RestoreOperationsBegin(t) \/ RestoreOperation(t) \/ RestoreDone(t)
         PROVE  SavedOnce'
    BY <1>12, SavedQuiet
    DEF RestoreReportsBegin, RestoreReportHeader, RestoreReportsDone, RestoreOperationsBegin,
        RestoreOperation, RestoreDone, netVars
  <1>13. CASE \/ \E t \in Threads : OtherHeader(t) \/ OtherSend(t)
              \/ (\E ok \in BOOLEAN : Answer(ok)) \/ Connect \/ Disconnect \/ Tick
    BY <1>13, SavedQuiet DEF OtherHeader, OtherSend, Answer, Connect, Disconnect, Tick, netVars
  <1> QED
    BY <1>1, <1>2, <1>3, <1>4, <1>5, <1>6, <1>7, <1>8, <1>9, <1>10, <1>11, <1>12, <1>13, <1>14
    DEF Next, ReportThread, OperationSending, AckTreating, Restoration, Environment

\* What gb905_record_msg leaves in the list.
LEMMA RecordGrows ==
  ASSUME TypeOK, NEW id, NEW q, NEW m, RecordMsg(id, q, m)
  PROVE  /\ \A i \in DOMAIN list : i \in DOMAIN list' /\ list'[i] = list[i]
         /\ \A i \in DOMAIN list' : \/ i \in DOMAIN list /\ list'[i] = list[i]
                                    \/ list'[i].id = id /\ list'[i].msg = m
  <1> DEFINE e == [id |-> id, seq |-> q, msg |-> m, try |-> 0, last |-> now]
  <1>1. CASE list' = list
    BY <1>1
  <1>2. CASE list' = Append(list, e)
    <2>1. /\ DOMAIN list' = 1..Len(list)+1 /\ DOMAIN list = 1..Len(list) /\ Len(list) \in Nat
          /\ \A i \in DOMAIN list : list'[i] = list[i]
          /\ list'[Len(list)+1] = e
      BY <1>2, LenProperties DEF TypeOK
    <2>2. e.id = id /\ e.msg = m
      OBVIOUS
    <2> HIDE DEF e
    <2> QED  BY <2>1, <2>2
  <1> QED  BY <1>1, <1>2 DEF RecordMsg

\* Who records, records a message of the right kind, and disturbs no index.
LEMMA Recorded ==
  ASSUME TypeOK, SavedOnce, Recording
  PROVE  /\ \E id, q, m : /\ RecordMsg(id, q, m)
                          /\ IF id = OPERATION THEN m \in Operations \intersect made
                                               ELSE m \in Reports
         /\ UNCHANGED <<sup, ack, scan, made>>
  <1>0. REPORT # OPERATION /\ SUPPLEMENT # OPERATION
    BY DEF REPORT, SUPPLEMENT, OPERATION
  <1>1. CASE ReportRecord
    <2>1. RecordMsg(REPORT, rep.seq, rep.msg) /\ rep.msg \in Reports
      BY <1>1 DEF ReportRecord, TypeOK
    <2> QED  BY <1>0, <1>1, <2>1 DEF ReportRecord
  <1>2. CASE OperationRecord
    <2>1. RecordMsg(OPERATION, soc.seq, soc.msg) /\ soc.msg \in Operations \intersect made
      BY <1>2 DEF OperationRecord, TypeOK, SavedOnce, SendersOnce
    <2> QED  BY <1>2, <2>1 DEF OperationRecord
  <1>3. ASSUME NEW t \in Restorers, RestoreReport(t)
        PROVE  /\ \E id, q, m : /\ RecordMsg(id, q, m)
                                /\ IF id = OPERATION THEN m \in Operations \intersect made
                                                     ELSE m \in Reports
               /\ UNCHANGED <<sup, ack, scan, made>>
    <2>1. restore[t].cur \in DOMAIN reportTab /\ UNCHANGED <<sup, ack, scan, made>>
      BY <1>3 DEF RestoreReport, TypeOK
    <2>2. reportTab[restore[t].cur].msg \in Reports
      BY <2>1, Elements DEF Row
    <2>3. RecordMsg(SUPPLEMENT, WireSeq(t), reportTab[restore[t].cur].msg)
      BY <1>3 DEF RestoreReport
    <2> QED  BY <1>0, <2>1, <2>2, <2>3
  <1>4. ASSUME NEW t \in Restorers, RestoreOperation(t)
        PROVE  /\ \E id, q, m : /\ RecordMsg(id, q, m)
                                /\ IF id = OPERATION THEN m \in Operations \intersect made
                                                     ELSE m \in Reports
               /\ UNCHANGED <<sup, ack, scan, made>>
    <2>1. PICK k \in DOMAIN operTab : RecordMsg(OPERATION, operTab[k].seq, operTab[k].msg)
      BY <1>4 DEF RestoreOperation
    <2>2. operTab[k].msg \in Operations \intersect made
      BY Elements DEF Row, SavedOnce, RowsOnce
    <2> QED  BY <1>4, <2>1, <2>2 DEF RestoreOperation
  <1> QED  BY <1>1, <1>2, <1>3, <1>4 DEF Recording

LEMMA KindsStep ==
  ASSUME TypeOK, SavedOnce, ListKinds, CopyKind, [Next]_vars
  PROVE  ListKinds' /\ CopyKind'
  <1>0. made \subseteq made'
    BY MadeSteps
  <1>1. ListKinds'
    <2>1. CASE list' = list
      BY <1>0, <2>1 DEF ListKinds, IsOperation
    <2>2. CASE Recording
      <3>1. PICK id, q, m : /\ RecordMsg(id, q, m)
                            /\ IF id = OPERATION THEN m \in Operations \intersect made
                                                 ELSE m \in Reports
        BY <2>2, Recorded
      <3>2. \A i \in DOMAIN list' : \/ i \in DOMAIN list /\ list'[i] = list[i]
                                    \/ list'[i].id = id /\ list'[i].msg = m
        BY <3>1, RecordGrows
      <3> QED  BY <1>0, <3>1, <3>2 DEF ListKinds, IsOperation
    <2>3. ASSUME NEW d \in DOMAIN list, list' = RemoveAt(list, d) PROVE ListKinds'
      <3>1. PICK f \in [DOMAIN list' -> DOMAIN list] : \A i \in DOMAIN list' : list'[i] = list[f[i]]
        BY <2>3, ListShorter
      <3> QED  BY <1>0, <3>1 DEF ListKinds, IsOperation
    <2>4. CASE SupplementSet
      <3>1. CASE sup.i \in DOMAIN list /\ list' = [list EXCEPT ![sup.i] = sup.rec]
        <4>1. Copied
          BY <2>4 DEF SupplementSet, Copied
        <4> QED  BY <1>0, <3>1, <4>1 DEF CopyKind, ListKinds, IsOperation
      <3> QED  BY <2>1, <2>4, <3>1 DEF SupplementSet
    <2>5. CASE Restart
      <3>1. DOMAIN list' = {}
        BY <2>5 DEF Restart
      <3> QED  BY <3>1 DEF ListKinds
    <2> QED  BY <2>1, <2>2, <2>3, <2>4, <2>5, ListSteps DEF CancelDelete, SupplementDelete
  <1>2. CopyKind'
    <2>1. CASE sup' = sup
      BY <1>0, <2>1 DEF CopyKind, Copied
    <2>2. CASE sup'.pc \in {"idle", "get"}
      BY <2>2 DEF CopyKind, Copied
    <2>3. CASE SupplementSend
      <3>1. Copied /\ sup'.rec = sup.rec
        BY <2>3 DEF SupplementSend, TypeOK, Supplement, Copied
      <3> QED  BY <1>0, <3>1 DEF CopyKind
    <2>4. CASE SupplementGet
      <3>1. sup.i \in DOMAIN list
        BY <2>4 DEF SupplementGet
      <3>2. list[sup.i] \in Rec(Messages)
        BY <3>1, Elements
      <3>3. CASE SupplementNext
        BY <2>2, <3>3, SupplementNextType
      <3>4. CASE sup'.rec.id = list[sup.i].id /\ sup'.rec.msg = list[sup.i].msg
        BY <1>0, <3>1, <3>4 DEF CopyKind, ListKinds, IsOperation
      <3>5. \/ SupplementNext
            \/ sup'.rec.id = list[sup.i].id /\ sup'.rec.msg = list[sup.i].msg
        <4>1. CASE sup' = [sup EXCEPT !.pc = "delete", !.rec = list[sup.i]]
          BY <4>1 DEF TypeOK, Supplement
        <4>2. CASE sup' = [sup EXCEPT !.pc = "send",
                                 !.rec = [list[sup.i] EXCEPT !.try = @ + 1, !.last = now]]
          <5>1. sup'.rec = [list[sup.i] EXCEPT !.try = @ + 1, !.last = now]
            BY <4>2 DEF TypeOK, Supplement
          <5> QED  BY <3>2, <5>1 DEF Rec
        <4> QED  BY <2>4, <4>1, <4>2 DEF SupplementGet
      <3> QED  BY <3>3, <3>4, <3>5
    <2> QED  BY <2>1, <2>2, <2>3, <2>4, CopySteps
  <1> QED  BY <1>1, <1>2

LEMMA IndexStep ==
  ASSUME TypeOK, SavedOnce, IndexInv, [Next]_vars
  PROVE  IndexInv'
  <1> SUFFICES ASSUME ~overlap' PROVE CopyCurrent' /\ HitCurrent'
    BY DEF IndexInv
  <1>1. CASE Restart
    <2>1. sup'.pc = "idle" /\ soc'.pc = "idle"
      BY <1>1 DEF Restart, IdleSupplement, IdleSender
    <2> QED  BY <2>1 DEF CopyCurrent, HitCurrent, Copied
  <1>2. CASE ~Restart
    <2>0. CopyCurrent /\ HitCurrent
      BY <1>2, CircumstancesStay DEF IndexInv
    <2>1. CASE list' = list
      <3>1. CopyCurrent'
        <4>1. CASE sup' = sup
          BY <2>0, <2>1, <4>1 DEF CopyCurrent, Copied
        <4>2. CASE sup'.pc \in {"idle", "get"}
          BY <4>2 DEF CopyCurrent, Copied
        <4>3. CASE SupplementSend
          <5>1. sup'.rec = sup.rec /\ sup'.i = sup.i /\ sup'.pc = "set" /\ Copied
            BY <4>3 DEF SupplementSend, TypeOK, Supplement, Copied
          <5> QED  BY <2>0, <2>1, <5>1 DEF CopyCurrent
        <4>4. CASE SupplementGet
          <5>1. sup.i \in DOMAIN list /\ list[sup.i] \in Rec(Messages)
            BY <4>4, Elements DEF SupplementGet
          <5>2. CASE /\ list[sup.i].try > RetryCount
                     /\ sup' = [sup EXCEPT !.pc = "delete", !.rec = list[sup.i]]
            <6>1. sup'.i = sup.i /\ sup'.rec = list[sup.i]
              BY <5>2 DEF TypeOK, Supplement
            <6> QED  BY <2>1, <5>1, <5>2, <6>1 DEF CopyCurrent
          <5>3. CASE sup' = [sup EXCEPT !.pc = "send",
                                   !.rec = [list[sup.i] EXCEPT !.try = @ + 1, !.last = now]]
            <6>1. sup'.i = sup.i /\ sup'.pc = "send"
                  /\ sup'.rec = [list[sup.i] EXCEPT !.try = @ + 1, !.last = now]
              BY <5>3 DEF TypeOK, Supplement
            <6>2. /\ sup'.rec.id = list[sup.i].id /\ sup'.rec.seq = list[sup.i].seq
                  /\ sup'.rec.msg = list[sup.i].msg
              BY <5>1, <6>1 DEF Rec
            <6> QED  BY <2>1, <5>1, <6>1, <6>2 DEF CopyCurrent
          <5> QED  BY <4>2, <4>4, <5>2, <5>3, SupplementNextType DEF SupplementGet
        <4> QED  BY <4>1, <4>2, <4>3, <4>4, CopySteps
      <3>2. HitCurrent'
        <4> SUFFICES ASSUME soc'.pc = "delete"
                     PROVE  scan' \in DOMAIN list' /\ Cancels(ack', list'[scan'])
          BY DEF HitCurrent, Cancels
        <4>1. CASE CancelMatch
          BY <4>1 DEF CancelMatch
        <4>2. CASE soc.pc = "delete" /\ UNCHANGED <<ack, scan>>
          BY <2>0, <2>1, <4>2 DEF HitCurrent
        <4> QED  BY <4>1, <4>2, HitSteps
      <3> QED  BY <3>1, <3>2
    <2>2. CASE Recording
      <3>1. PICK id, q, m : RecordMsg(id, q, m)
        BY <2>2, Recorded
      <3>2. /\ \A i \in DOMAIN list : i \in DOMAIN list' /\ list'[i] = list[i]
            /\ UNCHANGED <<sup, ack, scan>>
        BY <2>2, <3>1, RecordGrows, Recorded
      <3>3. CopyCurrent'
        BY <2>0, <3>2 DEF CopyCurrent, Copied
      <3>4. soc'.pc = "delete" => soc.pc = "delete"
        <4>1. CancelMatch => list' = list
          BY DEF CancelMatch
        <4> QED  BY <2>1, <2>2, <4>1, HitSteps
                 DEF Recording, CancelMatch, ReportRecord, OperationRecord, RestoreReport,
                     RestoreOperation
      <3>5. HitCurrent'
        BY <2>0, <3>2, <3>4 DEF HitCurrent, Cancels
      <3> QED  BY <3>3, <3>5
    <2>3. CASE CancelDelete
      <3>1. ~Copied /\ sup' = sup /\ soc'.pc = "idle"
        BY <2>3 DEF CancelDelete, IdleSender
      <3> QED  BY <3>1 DEF CopyCurrent, Copied, HitCurrent
    <2>4. CASE SupplementDelete
      <3>1. soc.pc # "delete" /\ soc' = soc /\ sup'.pc \in {"idle", "get"}
        BY <2>4, SupplementNextType DEF SupplementDelete
      <3> QED  BY <3>1 DEF CopyCurrent, Copied, HitCurrent
    <2>5. CASE SupplementSet
      <3>1. /\ sup'.pc \in {"idle", "get"} /\ UNCHANGED <<soc, ack, scan>> /\ Copied
        BY <2>5, SupplementNextType DEF SupplementSet, Copied
      <3>2. /\ list' = [list EXCEPT ![sup.i] = sup.rec] /\ sup.i \in DOMAIN list
            /\ list[sup.i].id = sup.rec.id /\ list[sup.i].seq = sup.rec.seq
        BY <2>0, <2>5, <3>1 DEF SupplementSet, CopyCurrent
      <3>3. /\ DOMAIN list' = DOMAIN list
            /\ \A i \in DOMAIN list : list'[i].id = list[i].id /\ list'[i].seq = list[i].seq
        BY <3>2
      <3>4. HitCurrent'
        BY <2>0, <3>1, <3>3 DEF HitCurrent, Cancels
      <3> QED  BY <3>1, <3>4 DEF CopyCurrent, Copied
    <2> QED  BY <1>2, <2>1, <2>2, <2>3, <2>4, <2>5, ListSteps
  <1> QED  BY <1>1, <1>2

\* The socket thread restores alone: the other steps of it wait.
LEMMA RestoreAloneStep ==
  ASSUME TypeOK, RestoreAlone, [Next]_vars
  PROVE  RestoreAlone'
  <1>1. CASE OperationSending \/ AckTreating
    <2>1. CASE CancelDelete \/ CancelMiss
      BY <2>1 DEF CancelDelete, CancelMiss, IdleSender, RestoreAlone
    <2>2. CASE ~(CancelDelete \/ CancelMiss)
      <3>1. restore' = restore
        BY <1>1, <2>2
        DEF OperationSending, OperationBuild, OperationSend, OperationRecord, OperationInsert,
            AckTreating, AckRefused, AckReport, AckOperation, CancelNext, CancelMatch
      <3>2. SocketIdle \/ soc.pc # "idle"
        BY <1>1, <2>2
        DEF OperationSending, OperationBuild, OperationSend, OperationRecord, OperationInsert,
            AckTreating, AckRefused, AckReport, AckOperation, CancelNext, CancelMatch
      <3> QED  BY <3>1, <3>2 DEF RestoreAlone, SocketIdle, Restoring
    <2> QED  BY <2>1, <2>2
  <1>2. ASSUME NEW t \in Restorers, Restoration(t) PROVE RestoreAlone'
    <2>1. Restoring(t) /\ soc' = soc
      BY <1>2 DEF Restoration, RestoreReportsBegin, RestoreReportHeader, RestoreReport,
                  RestoreReportsDone, RestoreOperationsBegin, RestoreOperation, RestoreDone,
                  Restoring
    <2>2. \A u \in Restorers \ {t} : restore'[u] = restore[u]
      BY <1>2, PhaseSteps
    <2> QED  BY <2>1, <2>2 DEF RestoreAlone, Restoring, Restorers
  <1>3. CASE Restart
    BY <1>3 DEF Restart, IdleSender, RestoreAlone
  <1>4. ASSUME UNCHANGED <<restore, soc>> PROVE RestoreAlone'
    BY <1>4 DEF RestoreAlone, Restoring
  <1>5. ReportThread => UNCHANGED <<restore, soc>>
    BY DEF ReportThread, ReportBuild, ReportSend, ReportRecord, ReportInsert
  <1>6. Supplementing => UNCHANGED <<restore, soc>>
    BY DEF Supplementing, SupplementBegin, SupplementShort, SupplementGet, SupplementDelete,
           SupplementSend, SupplementSet
  <1>7. (\E t \in Threads : OtherHeader(t) \/ OtherSend(t)) => UNCHANGED <<restore, soc>>
    BY DEF OtherHeader, OtherSend
  <1>8. Environment => Restart \/ UNCHANGED <<restore, soc>>
    BY DEF Environment, Answer, Connect, Disconnect, Tick
  <1>9. (UNCHANGED vars) => UNCHANGED <<restore, soc>>
    BY DEF vars
  <1> QED  BY <1>1, <1>2, <1>3, <1>4, <1>5, <1>6, <1>7, <1>8, <1>9 DEF Next

\* Steps that leave the list, the restoring and the operation table alone.
LEMMA QueueQuiet ==
  ASSUME Queue, UNCHANGED <<list, restore, operTab>>,
         soc'.pc \in {"send", "record"} => soc.pc \in {"send", "record"} /\ soc'.msg = soc.msg,
         soc'.pc \in {"send", "record", "insert"} => soc.pc \in {"send", "record", "insert"}
  PROVE  Queue'
  <1>1. OpsOnce' /\ (soc'.pc \in {"send", "record"} => NotQueued(soc.msg)')
    BY DEF Queue, OpsOnce, NotQueued
  <1>2. RestoresApart'
    BY DEF Queue, RestoresApart, Restoring
  <1>3. \A t \in Restorers : RestoredPart(t)'
    BY DEF Queue, RestoredPart, NoOperation, RestoredFrom, IsOperation
  <1> QED  BY <1>1, <1>2, <1>3 DEF Queue

\* The one thread that restores moves on.
LEMMA QueueMoves ==
  ASSUME Queue, NEW t \in Restorers, Restoring(t),
         \A u \in Restorers \ {t} : restore'[u] = restore[u],
         soc' = soc, OpsOnce', RestoredPart(t)'
  PROVE  Queue'
  <1>1. soc.pc \notin {"send", "record", "insert"}
        /\ \A u \in Restorers \ {t} : restore[u].phase = "off"
    BY DEF Queue, RestoresApart, Restoring
  <1>2. \A u \in Restorers \ {t} : restore'[u].phase = "off"
    BY <1>1
  <1>3. RestoresApart'
    BY <1>1, <1>2 DEF RestoresApart, Restoring
  <1>4. \A u \in Restorers : RestoredPart(u)'
    BY <1>2 DEF RestoredPart
  <1> QED  BY <1>1, <1>3, <1>4 DEF Queue

\* The list loses a record, or its records keep their kinds and messages.
LEMMA QueueShrinks ==
  ASSUME ListKinds, Queue, UNCHANGED <<restore, operTab>>, made \subseteq made',
         soc' = soc \/ soc'.pc = "idle",
         NEW f \in [DOMAIN list' -> DOMAIN list],
         \A i, j \in DOMAIN list' : f[i] = f[j] => i = j,
         \A i \in DOMAIN list' : list'[i].id = list[f[i]].id /\ list'[i].msg = list[f[i]].msg
  PROVE  Queue'
  <1>1. /\ OpsOnce'
        /\ \A m : NotQueued(m) => NotQueued(m)'
        /\ NoOperation => NoOperation'
        /\ \A cur : RestoredFrom(cur) => RestoredFrom(cur)'
    BY ListKept DEF Queue
  <1>2. soc'.pc \in {"send", "record"} => NotQueued(soc.msg)'
    <2>1. PICK m : m = soc.msg
      OBVIOUS
    <2>2. soc.pc \in {"send", "record"} => NotQueued(m)'
      BY <1>1, <2>1 DEF Queue
    <2> QED  BY <2>1, <2>2 DEF NotQueued
  <1>3. RestoresApart'
    BY DEF Queue, RestoresApart, Restoring
  <1>4. ASSUME NEW t \in Restorers PROVE RestoredPart(t)'
    <2>1. PICK c : c = restore[t].cur
      OBVIOUS
    <2>2. RestoredFrom(c) => RestoredFrom(c)'
      BY <1>1
    <2>3. RestoredPart(t)
      BY DEF Queue
    <2> QED  BY <1>1, <2>1, <2>2, <2>3 DEF RestoredPart, RestoredFrom, IsOperation
  <1> QED  BY <1>1, <1>2, <1>3, <1>4 DEF Queue

\* What an emptied list starts at the end of gb905_record_cancel.
LEMMA QueueRefills ==
  ASSUME TypeOK, Queue, RestoreIfEmpty, ~crossed', list' = <<>>, soc'.pc = "idle"
  PROVE  Queue'
  <1>1. DOMAIN list' = {}
    OBVIOUS
  <1>2. restore'["main"] = restore["main"] /\ restore["main"].phase = "off"
    <2>1. restore' = [restore EXCEPT !["socket"] = BeginRestore] /\ ~Restoring("main")
      BY DEF RestoreIfEmpty
    <2> QED  BY <2>1 DEF TypeOK, Restorers, Restoring
  <1>3. RestoresApart'
    BY <1>2 DEF RestoresApart, Restoring, Restorers
  <1> QED  BY <1>1, <1>3 DEF Queue, OpsOnce, RestoredPart, NoOperation, RestoredFrom

LEMMA QueueStep ==
  ASSUME TypeOK, TypeOK', SavedOnce, SavedOnce', RestoreAlone, ListKinds, ListKinds',
         IndexInv, Queue, ~overlap, ~overlap', ~crossed', [Next]_vars, ~Restart
  PROVE  Queue'
  <1>0. made \subseteq made' /\ Reports \intersect Operations = {}
    BY MadeSteps, StoreAssumption DEF StoreAssumption
  <1>1. CASE UNCHANGED vars
    BY <1>1, QueueQuiet DEF vars
  <1>2. CASE (\E m \in Reports : ReportBuild(m)) \/ ReportSend \/ ReportInsert
    <2>1. UNCHANGED <<list, restore, operTab, soc>>
      BY <1>2 DEF ReportBuild, ReportSend, ReportInsert
    <2> QED  BY <2>1, QueueQuiet
  <1>3. CASE ReportRecord
    <2>1. RecordMsg(REPORT, rep.seq, rep.msg) /\ rep.msg \in Reports /\ REPORT # OPERATION
          /\ UNCHANGED <<soc, restore, operTab, made>>
      BY <1>3 DEF ReportRecord, TypeOK, REPORT, OPERATION
    <2>2. OpsOnce'
      <3>1. PICK x : x = REPORT
        OBVIOUS
      <3> HIDE DEF REPORT
      <3> QED  BY <2>1, <3>1, ListGrown DEF Queue
    <2>3. \A i \in DOMAIN list' : \/ i \in DOMAIN list /\ list'[i] = list[i]
                                  \/ list'[i].id # OPERATION /\ list'[i].msg = rep.msg
      <3> HIDE DEF REPORT
      <3>1. PICK x : x = REPORT
        OBVIOUS
      <3> QED  BY <2>1, <3>1, RecordGrows
    <2>4. soc'.pc \in {"send", "record"} => NotQueued(soc.msg)'
      <3>1. soc.pc \in {"send", "record"} => soc.msg \in Operations
        BY DEF TypeOK
      <3> QED  BY <1>0, <2>1, <2>3, <3>1 DEF Queue, NotQueued
    <2>5. RestoresApart'
      BY <2>1 DEF Queue, RestoresApart, Restoring
    <2>6. \A t \in Restorers : RestoredPart(t)'
      BY <2>1, <2>3 DEF Queue, RestoredPart, NoOperation, RestoredFrom, IsOperation
    <2> QED  BY <2>2, <2>4, <2>5, <2>6 DEF Queue
  <1>4. ASSUME NEW m \in Operations, OperationBuild(m) PROVE Queue'
    <2>1. /\ m \notin made /\ soc'.msg = m /\ soc'.pc = "send"
          /\ UNCHANGED <<list, operTab, restore>>
      BY <1>4 DEF OperationBuild, TypeOK, Sender
    <2>2. ~Restoring("main") /\ ~Restoring("socket")
      <3>1. crossed' = (crossed \/ Restoring("main")) /\ SocketIdle
        BY <1>4 DEF OperationBuild
      <3> QED  BY <3>1 DEF SocketIdle
    <2>3. RestoresApart' /\ \A t \in Restorers : RestoredPart(t)'
      BY <2>1, <2>2 DEF RestoresApart, Restoring, RestoredPart, Restorers
    <2>4. NotQueued(soc.msg)'
      BY <1>0, <2>1 DEF NotQueued, ListKinds, IsOperation
    <2>5. OpsOnce'
      BY <2>1 DEF Queue, OpsOnce
    <2> QED  BY <2>3, <2>4, <2>5 DEF Queue
  <1>5. ASSUME soc.pc \in {"send", "record", "insert"}
        PROVE  \A t \in Restorers : restore[t].phase = "off"
    BY <1>5 DEF Queue, RestoresApart, Restoring
  <1>6. CASE OperationSend
    <2>1. soc'.msg = soc.msg /\ soc.pc = "send" /\ UNCHANGED <<list, restore, operTab>>
      BY <1>6 DEF OperationSend, TypeOK, Sender
    <2> QED  BY <2>1, QueueQuiet
  <1>7. CASE OperationRecord
    <2>1. /\ RecordMsg(OPERATION, soc.seq, soc.msg) /\ UNCHANGED <<made, restore>>
          /\ soc'.pc = "insert" /\ soc.msg \in Operations \intersect made'
          /\ NotQueued(soc.msg) /\ \A t \in Restorers : restore[t].phase = "off"
      BY <1>5, <1>7 DEF OperationRecord, netVars, Queue, SavedOnce, SendersOnce, TypeOK, Sender
    <2>2. OpsOnce'
      <3> HIDE DEF OPERATION
      <3> QED  BY <2>1, ListGrown DEF Queue
    <2>3. RestoresApart' /\ \A t \in Restorers : RestoredPart(t)'
      BY <2>1 DEF RestoresApart, Restoring, RestoredPart
    <2> QED  BY <2>1, <2>2, <2>3 DEF Queue
  <1>8. CASE OperationInsert
    <2>1. /\ UNCHANGED <<list, restore>> /\ soc'.pc = "idle"
          /\ \A t \in Restorers : restore[t].phase = "off"
      BY <1>5, <1>8 DEF OperationInsert, netVars, IdleSender
    <2>2. RestoresApart' /\ \A t \in Restorers : RestoredPart(t)'
      BY <2>1 DEF RestoresApart, Restoring, RestoredPart
    <2> QED  BY <2>1, <2>2 DEF Queue, OpsOnce
  <1>9. CASE AckRefused \/ AckReport \/ CancelNext \/ CancelMatch
    <2>1. UNCHANGED <<list, restore, operTab>>
          /\ (soc' = soc \/ soc'.pc \in {"cancel", "delete"})
      BY <1>9 DEF AckRefused, AckReport, CancelNext, CancelMatch, TypeOK, Sender
    <2> QED  BY <2>1, QueueQuiet
  <1>10. CASE AckOperation
    <2>1. UNCHANGED <<list, restore>> /\ soc'.pc = "cancel"
          /\ \A t \in Restorers : restore[t].phase # "operations"
      BY <1>10 DEF AckOperation, OperTabFree, TypeOK, Sender
    <2>2. RestoresApart' /\ \A t \in Restorers : RestoredPart(t)'
      BY <2>1 DEF Queue, RestoresApart, Restoring, RestoredPart, NoOperation, IsOperation
    <2> QED  BY <2>1, <2>2 DEF Queue, OpsOnce
  <1>11. ASSUME CancelDelete \/ CancelMiss, list' # <<>> PROVE restore' = restore
    BY <1>11 DEF CancelDelete, CancelMiss, RestoreIfEmpty
  <1>12. ASSUME NEW d \in DOMAIN list, list' = RemoveAt(list, d),
                UNCHANGED <<restore, operTab>>, soc' = soc \/ soc'.pc = "idle"
         PROVE  Queue'
    <2>1. PICK f \in [DOMAIN list' -> DOMAIN list] :
             /\ \A i, j \in DOMAIN list' : f[i] = f[j] => i = j
             /\ \A i \in DOMAIN list' : list'[i] = list[f[i]]
      BY <1>12, ListShorter
    <2> QED  BY <1>0, <1>12, <2>1, QueueShrinks
  <1>13. CASE CancelDelete \/ CancelMiss
    <2>1. soc'.pc = "idle" /\ operTab' = operTab /\ RestoreIfEmpty
      BY <1>13 DEF CancelDelete, CancelMiss, IdleSender
    <2>2. CASE list' = <<>>
      BY <2>1, <2>2, QueueRefills
    <2>3. CASE list' # <<>>
      <3>1. restore' = restore
        BY <1>11, <1>13, <2>3
      <3>2. CASE list' = list
        BY <2>1, <3>1, <3>2, QueueQuiet
      <3> QED  BY <1>12, <1>13, <2>1, <3>1, <3>2 DEF CancelDelete, CancelMiss
    <2> QED  BY <2>2, <2>3
  <1>14. ASSUME NEW t \in Restorers, Restoration(t)
         PROVE  Restoring(t) /\ soc' = soc /\ operTab' = operTab
                /\ \A u \in Restorers \ {t} : restore'[u] = restore[u]
    BY <1>14, PhaseSteps
    DEF Restoration, RestoreReportsBegin, RestoreReportHeader, RestoreReport,
        RestoreReportsDone, RestoreOperationsBegin, RestoreOperation, RestoreDone, Restoring
  <1>15. ASSUME list' = list PROVE OpsOnce' /\ (NoOperation => NoOperation')
    BY <1>15 DEF Queue, OpsOnce, NoOperation, IsOperation
  <1>16. ASSUME NEW t \in Restorers,
                RestoreReportsBegin(t) \/ RestoreReportHeader(t) \/ RestoreReportsDone(t)
                \/ RestoreOperationsBegin(t)
         PROVE  Queue'
    <2>1. list' = list /\ NoOperation
      BY <1>16 DEF RestoreReportsBegin, RestoreReportHeader, RestoreReportsDone,
                   RestoreOperationsBegin, Queue, RestoredPart
    <2>2. NoOperation'
      BY <1>15, <2>1
    <2>3. RestoredPart(t)'
      BY <2>2 DEF RestoredPart, NoOperation, RestoredFrom
    <2> QED  BY <1>14, <1>15, <1>16, <2>1, <2>3, QueueMoves DEF Restoration
  <1>17. ASSUME NEW t \in Restorers, RestoreReport(t) PROVE Queue'
    <2>1. /\ restore[t].phase = "header" /\ restore' = [restore EXCEPT ![t].phase = "reports"]
          /\ restore[t].cur \in DOMAIN reportTab /\ made' = made /\ NoOperation
      BY <1>17 DEF RestoreReport, TypeOK, Queue, RestoredPart
    <2>2. PICK q, m : RecordMsg(SUPPLEMENT, q, m) /\ m \in Reports
      <3>1. reportTab[restore[t].cur] \in Row(Reports)
        BY <2>1, Elements
      <3> QED  BY <1>17, <3>1 DEF RestoreReport, Row
    <2>3. SUPPLEMENT # OPERATION
      BY DEF SUPPLEMENT, OPERATION
    <2>4. OpsOnce' /\ NoOperation'
      <3>1. PICK x : x = SUPPLEMENT
        OBVIOUS
      <3> HIDE DEF SUPPLEMENT
      <3>2. OpsOnce'
        BY <2>1, <2>2, <2>3, <3>1, ListGrown DEF Queue
      <3>3. \A i \in DOMAIN list' : \/ i \in DOMAIN list /\ list'[i] = list[i]
                                    \/ list'[i].id = SUPPLEMENT
        BY <2>2, <3>1, RecordGrows
      <3> QED  BY <2>1, <2>3, <3>2, <3>3 DEF NoOperation, IsOperation
    <2>5. RestoredPart(t)'
      BY <2>4 DEF RestoredPart, NoOperation, RestoredFrom
    <2> QED  BY <1>14, <1>17, <2>4, <2>5, QueueMoves DEF Restoration
  <1>18. ASSUME NEW t \in Restorers, RestoreOperation(t) PROVE Queue'
    <2>1. PICK k \in DOMAIN operTab :
             /\ k < restore[t].cur
             /\ RecordMsg(OPERATION, operTab[k].seq, operTab[k].msg)
             /\ restore' = [restore EXCEPT ![t].cur = k]
      BY <1>18 DEF RestoreOperation
    <2>2. /\ restore'[t].phase = "operations" /\ restore'[t].cur = k
          /\ restore[t].phase = "operations" /\ restore[t].cur \in Nat /\ k \in Nat
          /\ UNCHANGED <<operTab, made>>
      <3>1. k \in Nat
        BY LenProperties DEF TypeOK
      <3>2. restore[t] \in Restore /\ restore[t].phase = "operations"
        BY <1>18 DEF RestoreOperation, TypeOK
      <3>3. restore'[t].phase = restore[t].phase /\ restore'[t].cur = k
        BY <2>1, <3>1, RestoreAdvances
      <3> QED  BY <1>18, <3>1, <3>2, <3>3 DEF RestoreOperation, Restore
    <2>3. operTab[k].msg \in Operations \intersect made'
      <3>1. operTab[k] \in Row(Operations)
        BY Elements
      <3> QED  BY <2>2, <3>1 DEF Row, SavedOnce, RowsOnce
    <2>9. RestoredFrom(restore[t].cur)
      BY <2>2 DEF Queue, RestoredPart
    <2>4. NotQueued(operTab[k].msg)
      <3> SUFFICES ASSUME NEW i \in DOMAIN list, list[i].msg = operTab[k].msg PROVE FALSE
        BY DEF NotQueued
      <3>1. IsOperation(i)
        BY <1>0, <2>3 DEF ListKinds
      <3>2. PICK j \in DOMAIN operTab : restore[t].cur <= j /\ operTab[j].msg = list[i].msg
        BY <2>9, <3>1 DEF RestoredFrom
      <3>3. j = k
        BY <3>2 DEF SavedOnce, RowsOnce
      <3> QED  BY <2>1, <2>2, <3>2, <3>3
    <2>5. /\ OpsOnce'
          /\ \A i \in DOMAIN list' : \/ i \in DOMAIN list /\ list'[i] = list[i]
                                     \/ list'[i].id = OPERATION /\ list'[i].msg = operTab[k].msg
      <3>1. OpsOnce /\ made \subseteq made'
        BY <2>2 DEF Queue
      <3> HIDE DEF OPERATION
      <3> QED  BY <2>1, <2>3, <2>4, <3>1, ListGrown
    <2>6. RestoredPart(t)'
      <3> SUFFICES ASSUME NEW i \in DOMAIN list', list'[i].id = OPERATION
                   PROVE  \E j \in DOMAIN operTab : k <= j /\ operTab[j].msg = list'[i].msg
        BY <2>2 DEF RestoredPart, RestoredFrom, IsOperation
      <3>1. CASE i \in DOMAIN list /\ list'[i] = list[i]
        <4>1. PICK j \in DOMAIN operTab : restore[t].cur <= j /\ operTab[j].msg = list[i].msg
          BY <2>9, <3>1 DEF RestoredFrom, IsOperation
        <4>2. j \in Nat
          <5>1. operTab \in Seq(Row(Operations))
            BY DEF TypeOK
          <5>2. DOMAIN operTab = 1..Len(operTab) /\ Len(operTab) \in Nat
            BY <5>1, LenProperties
          <5> QED  BY <5>2
        <4> QED  BY <2>1, <2>2, <3>1, <4>1, <4>2
      <3>2. CASE list'[i].msg = operTab[k].msg
        BY <2>2, <3>2
      <3> QED  BY <2>5, <3>1, <3>2
    <2> QED  BY <1>14, <1>18, <2>5, <2>6, QueueMoves DEF Restoration
  <1>19. ASSUME NEW t \in Restorers, RestoreDone(t) PROVE Queue'
    <2>1. restore'[t].phase = "off" /\ list' = list
      BY <1>19 DEF RestoreDone, NotRestoring, TypeOK
    <2>2. RestoredPart(t)'
      BY <2>1 DEF RestoredPart
    <2> QED  BY <1>14, <1>15, <1>19, <2>1, <2>2, QueueMoves DEF Restoration
  <1>20. CASE SupplementBegin \/ SupplementShort \/ SupplementGet \/ SupplementSend
    <2>1. UNCHANGED <<list, restore, operTab, soc>>
      BY <1>20 DEF SupplementBegin, SupplementShort, SupplementGet, SupplementSend
    <2> QED  BY <2>1, QueueQuiet
  <1>21. CASE SupplementDelete
    <2>1. UNCHANGED <<restore, operTab, soc>>
      BY <1>21 DEF SupplementDelete
    <2>2. CASE list' = list
      BY <2>1, <2>2, QueueQuiet
    <2> QED  BY <1>12, <1>21, <2>1, <2>2 DEF SupplementDelete
  <1>22. CASE SupplementSet
    <2>1. UNCHANGED <<restore, operTab, soc>>
      BY <1>22 DEF SupplementSet
    <2>2. /\ list' = [list EXCEPT ![sup.i] = sup.rec] /\ sup.i \in DOMAIN list
          /\ list[sup.i].id = sup.rec.id /\ list[sup.i].msg = sup.rec.msg
      BY <1>22 DEF SupplementSet, IndexInv, CopyCurrent, Copied
    <2>3. /\ DOMAIN list' = DOMAIN list
          /\ \A i \in DOMAIN list : list'[i].id = list[i].id /\ list'[i].msg = list[i].msg
      BY <2>2
    <2> DEFINE f == [i \in DOMAIN list' |-> i]
    <2>4. /\ f \in [DOMAIN list' -> DOMAIN list]
          /\ \A i, j \in DOMAIN list' : f[i] = f[j] => i = j
          /\ \A i \in DOMAIN list' : list'[i].id = list[f[i]].id /\ list'[i].msg = list[f[i]].msg
      BY <2>3
    <2> HIDE DEF f
    <2> QED  BY <1>0, <2>1, <2>4, QueueShrinks
  <1>23. CASE \/ \E t \in Threads : OtherHeader(t) \/ OtherSend(t)
              \/ Environment
    <2>1. UNCHANGED <<list, restore, operTab, soc>>
      BY <1>23 DEF OtherHeader, OtherSend, Environment, Answer, Connect, Disconnect, Tick
    <2> QED  BY <2>1, QueueQuiet
  <1> QED
    BY <1>1, <1>2, <1>3, <1>4, <1>6, <1>7, <1>8, <1>9, <1>10, <1>13, <1>16, <1>17, <1>18,
       <1>19, <1>20, <1>21, <1>22, <1>23
    DEF Next, ReportThread, OperationSending, AckTreating, Restoration, Supplementing

LEMMA OnceInit ==
  ASSUME Init
  PROVE  OnceInv
  <1>1. /\ DOMAIN list = {} /\ DOMAIN reportTab = {} /\ DOMAIN operTab = {}
        /\ rep.pc = "idle" /\ soc.pc = "idle" /\ sup.pc = "idle" /\ restore = BootRestore
    BY DEF Init, IdleSender, IdleSupplement
  <1>2. restore["main"].phase = "begin" /\ restore["socket"].phase = "off"
    BY <1>1 DEF BootRestore, BeginRestore, NotRestoring, Restorers
  <1>3. SavedOnce /\ RestoreAlone /\ ListKinds /\ CopyKind /\ IndexInv
    BY <1>1 DEF SavedOnce, RowsOnce, SendersOnce, RestoreAlone, ListKinds, CopyKind, Copied,
                IndexInv, CopyCurrent, HitCurrent
  <1>4. Queue
    BY <1>1, <1>2 DEF Queue, OpsOnce, RestoresApart, Restoring, Restorers, RestoredPart,
                      NoOperation, RestoredFrom
  <1> QED  BY <1>3, <1>4 DEF OnceInv

LEMMA OnceStep ==
  ASSUME TypeOK, TypeOK', OnceInv, [Next]_vars
  PROVE  OnceInv'
  <1>1. /\ SavedOnce' /\ RestoreAlone' /\ ListKinds' /\ CopyKind' /\ IndexInv'
    BY SavedOnceStep, RestoreAloneStep, KindsStep, IndexStep DEF OnceInv
  <1>2. ASSUME ~crossed', ~overlap' PROVE Queue'
    <2>1. CASE Restart
      <3>1. DOMAIN list' = {} /\ soc'.pc = "idle" /\ restore' = BootRestore
        BY <2>1 DEF Restart, IdleSender
      <3>2. restore'["main"].phase = "begin" /\ restore'["socket"].phase = "off"
        BY <3>1 DEF BootRestore, BeginRestore, NotRestoring, Restorers
      <3> QED  BY <3>1, <3>2 DEF Queue, OpsOnce, RestoresApart, Restoring, Restorers,
                                 RestoredPart, NoOperation, RestoredFrom
    <2>2. CASE ~Restart
      <3>1. ~crossed /\ ~overlap
        BY <1>2, <2>2, CircumstancesStay
      <3> QED  BY <1>1, <1>2, <2>2, <3>1, QueueStep DEF OnceInv
    <2> QED  BY <2>1, <2>2
  <1> QED  BY <1>1, <1>2 DEF OnceInv

LEMMA OnceAlways == Spec => []OnceInv
<1>1. Init => OnceInv
  BY OnceInit
<1>2. TypeOK /\ TypeOK' /\ OnceInv /\ [Next]_vars => OnceInv'
  BY OnceStep
<1> QED
  BY <1>1, <1>2, TypeCorrect, PTL DEF Spec

\* An operation record is queued at most once, whatever the restores, restarts and
\* acknowledgements before, unless the socket thread sends or restores records while
\* the main thread restores them at boot (crossed), or a deletion came between the
\* look-up and the use of an index (overlap).
THEOREM QueuedOnce == Spec => []OperationQueuedOnce
<1>1. OnceInv => OperationQueuedOnce
  BY DEF OnceInv, Queue, OpsOnce, OperationQueuedOnce
<1> QED
  BY <1>1, OnceAlways, PTL

-----------------------------------------------------------------------------
(*  What leaves the RAM list.                                                *)

Kept(i) == \E j \in DOMAIN list' : list'[j].msg = list[i].msg
Cause(i) == \/ list[i].msg \in received
            \/ list[i].try > RetryCount
            \/ boots' # boots
            \/ clash \/ overlap

\* The element a cancel deletes has been received.
LEMMA HitReceived ==
  ASSUME TypeOK, SeqInv, HitCurrent, ~clash, soc.pc = "delete"
  PROVE  scan \in DOMAIN list /\ list[scan].msg \in received
  <1>1. ack.ok /\ AckSound(ack)
    BY DEF SeqInv, ClashFree, Core, InHandSound, InHand
  <1>2. scan \in DOMAIN list /\ Cancels(ack, list[scan])
    BY DEF HitCurrent
  <1>3. list[scan].seq = ack.seq /\ list[scan] \in Rec(Messages)
    BY <1>2, Elements DEF Cancels
  <1>4. Holds(ack.seq, list[scan].msg) /\ list[scan].msg \in Messages
    BY <1>2, <1>3 DEF Holds, InList, Rec
  <1> HIDE DEF Holds
  <1> QED  BY <1>1, <1>2, <1>4 DEF AckSound

LEMMA LeavesStep ==
  ASSUME TypeOK, SeqInv, SavedOnce, IndexInv, Next, NEW i \in DOMAIN list
  PROVE  Kept(i) \/ Cause(i)
  <1>1. CASE list' = list
    BY <1>1 DEF Kept
  <1>2. CASE Recording
    <2>1. PICK id, q, m : RecordMsg(id, q, m)
      BY <1>2, Recorded
    <2> QED  BY <2>1, RecordGrows DEF Kept
  <1>3. ASSUME NEW d \in DOMAIN list, list' = RemoveAt(list, d), i # d PROVE Kept(i)
    <2>1. PICK f \in [DOMAIN list' -> DOMAIN list] :
             /\ \A j \in DOMAIN list' : list'[j] = list[f[j]]
             /\ \A k \in DOMAIN list : k # d => \E j \in DOMAIN list' : f[j] = k
      BY <1>3, ListShorter
    <2>2. PICK j \in DOMAIN list' : f[j] = i
      BY <1>3, <2>1
    <2> QED  BY <2>1, <2>2 DEF Kept
  <1>4. CASE clash \/ overlap
    BY <1>4 DEF Cause
  <1>5. CASE CancelDelete /\ ~clash /\ ~overlap
    <2>1. scan \in DOMAIN list /\ list[scan].msg \in received
      BY <1>5, HitReceived DEF CancelDelete, IndexInv
    <2>2. list' = RemoveAt(list, scan)
      BY <1>5, <2>1 DEF CancelDelete
    <2>3. CASE i = scan
      BY <2>1, <2>3 DEF Cause
    <2> QED  BY <1>3, <2>1, <2>2, <2>3
  <1>6. CASE SupplementDelete /\ ~overlap
    <2>1. sup.i \in DOMAIN list /\ list[sup.i].try > RetryCount
      BY <1>6 DEF SupplementDelete, IndexInv, CopyCurrent, Copied
    <2>2. list' = RemoveAt(list, sup.i)
      BY <1>6, <2>1 DEF SupplementDelete
    <2>3. CASE i = sup.i
      BY <2>1, <2>3 DEF Cause
    <2> QED  BY <1>3, <2>1, <2>2, <2>3
  <1>7. CASE SupplementSet /\ ~overlap
    <2>1. sup.i \in DOMAIN list /\ list[sup.i].msg = sup.rec.msg
      BY <1>7 DEF SupplementSet, IndexInv, CopyCurrent, Copied
    <2>2. list' = [list EXCEPT ![sup.i] = sup.rec]
      BY <1>7, <2>1 DEF SupplementSet
    <2>3. DOMAIN list' = DOMAIN list
      BY <2>2
    <2>4. list'[i] = IF i = sup.i THEN sup.rec ELSE list[i]
      BY <2>2
    <2> QED  BY <2>1, <2>3, <2>4 DEF Kept
  <1>8. CASE Restart
    <2>1. boots' = boots + 1 /\ boots \in 0..MaxBoots /\ MaxBoots \in Nat
      BY <1>8, StoreAssumption DEF Restart, TypeOK, StoreAssumption
    <2>2. boots' # boots
      BY <2>1
    <2> QED  BY <2>2 DEF Cause
  <1> QED  BY <1>1, <1>2, <1>4, <1>5, <1>6, <1>7, <1>8, ListSteps

\* A queued message leaves the RAM list for a cause: received, out of retries, or
\* with the power, until a number clashes or one thread deletes a record between
\* another's look-up and its use of an index.
THEOREM LeavesSafe == Spec => LeavesForCause
<1>1. ASSUME TypeOK, SeqInv, OnceInv, [Next]_vars
      PROVE  [\A i \in DOMAIN list :
               \/ \E j \in DOMAIN list' : list'[j].msg = list[i].msg
               \/ list[i].msg \in received
               \/ list[i].try > RetryCount
               \/ boots' # boots
               \/ clash \/ overlap]_vars
  <2>1. ASSUME Next, NEW i \in DOMAIN list PROVE Kept(i) \/ Cause(i)
    BY <1>1, <2>1, LeavesStep DEF OnceInv
  <2> QED  BY <1>1, <2>1 DEF Kept, Cause
<1> QED
  BY <1>1, TypeCorrect, SequenceSound, OnceAlways, PTL DEF Spec, LeavesForCause
-----------------------------------------------------------------------------
(*  The tables implement the outbox.                                         *)

LEMMA AppendStates ==
  ASSUME NEW S, NEW tab \in Seq(Row(S)), NEW row, row.state = 0
  PROVE  /\ InState(Append(tab, row), 0) = InState(tab, 0) \union {row.msg}
         /\ InState(Append(tab, row), 1) = InState(tab, 1)
  <1>1. /\ DOMAIN Append(tab, row) = 1..Len(tab)+1 /\ DOMAIN tab = 1..Len(tab) /\ Len(tab) \in Nat
        /\ Append(tab, row)[Len(tab)+1] = row
        /\ \A k \in DOMAIN tab : Append(tab, row)[k] = tab[k]
    BY LenProperties
  <1>2. \A k \in DOMAIN Append(tab, row) : k \in DOMAIN tab \/ k = Len(tab)+1
    BY <1>1
  <1>3. Len(tab)+1 \in DOMAIN Append(tab, row) /\ DOMAIN tab \subseteq DOMAIN Append(tab, row)
    BY <1>1
  <1> QED  BY <1>1, <1>2, <1>3 DEF InState

LEMMA AcknowledgedStates ==
  ASSUME NEW S, NEW tab \in Seq(Row(S)), NEW q, RowsOnce(tab)
  PROVE  \E T \in SUBSET InState(tab, 0) :
           /\ InState(Acknowledged(tab, q), 0) = InState(tab, 0) \ T
           /\ InState(Acknowledged(tab, q), 1) = InState(tab, 1) \union T
           /\ \A m \in T : InTab(tab, q, m)
  <1> DEFINE T == {tab[k].msg : k \in {j \in DOMAIN tab : tab[j].state = 0 /\ tab[j].seq = q}}
             ack2 == Acknowledged(tab, q)
  <1>1. \A k \in DOMAIN tab : tab[k] \in Row(S)
    BY LenProperties, ElementOfSeq
  <1>2. /\ DOMAIN ack2 = DOMAIN tab
        /\ \A k \in DOMAIN tab :
             /\ ack2[k].msg = tab[k].msg
             /\ ack2[k].state = IF tab[k].seq = q THEN 1 ELSE tab[k].state
             /\ tab[k].state \in {0, 1}
    BY <1>1 DEF Acknowledged, Row
  <1>3. T \in SUBSET InState(tab, 0) /\ \A m \in T : InTab(tab, q, m)
    BY DEF InState, InTab
  <1> HIDE DEF ack2
  <1>4. InState(ack2, 0) = InState(tab, 0) \ T
    BY <1>2 DEF InState, RowsOnce
  <1>5. InState(ack2, 1) = InState(tab, 1) \union T
    BY <1>2 DEF InState
  <1> HIDE DEF T
  <1> QED  BY <1>3, <1>4, <1>5 DEF ack2

LEMMA RenumberedStates ==
  ASSUME NEW S, NEW tab \in Seq(Row(S)), NEW old, NEW new, NEW n
  PROVE  InState(Renumbered(tab, old, new), n) = InState(tab, n)
  BY RenumberedKept DEF InState

\* A message has a row in one of the tables at most, and in one state.
LEMMA StatesApart ==
  ASSUME TypeOK, SavedOnce
  PROVE  /\ InState(reportTab, 0) \subseteq Reports /\ InState(reportTab, 1) \subseteq Reports
         /\ InState(operTab, 0) \subseteq Operations /\ InState(operTab, 1) \subseteq Operations
         /\ Reports \intersect Operations = {}
  <1>1. Reports \intersect Operations = {}
    BY StoreAssumption DEF StoreAssumption
  <1>2. /\ \A k \in DOMAIN reportTab : reportTab[k].msg \in Reports
        /\ \A k \in DOMAIN operTab : operTab[k].msg \in Operations
    BY Elements DEF Row
  <1> QED  BY <1>1, <1>2 DEF InState

LEMMA OutboxParts ==
  /\ Outstanding = InState(reportTab, 0) \union InState(operTab, 0)
  /\ Settled = InState(reportTab, 1) \union InState(operTab, 1)
  /\ Outstanding' = InState(reportTab', 0) \union InState(operTab', 0)
  /\ Settled' = InState(reportTab', 1) \union InState(operTab', 1)
  BY DEF Outstanding, Settled, InState

oVars == <<Outstanding, Settled, received, clash>>

\* Steps that touch no table: an answer, a clash or a stutter.
LEMMA OutboxQuiet ==
  ASSUME TypeOK, TypeOK', reportTab' = reportTab, operTab' = operTab,
         \/ clash' = clash /\ (received' = received \/ \E m \in Messages : received' = received \union {m})
         \/ received' = received /\ clash' = TRUE
  PROVE  [O!OutboxNext]_oVars
  <1>1. Outstanding' = Outstanding /\ Settled' = Settled
    BY DEF Outstanding, Settled, InState
  <1>2. CASE clash' = clash /\ received' = received
    BY <1>1, <1>2 DEF oVars
  <1>3. ASSUME NEW m \in Messages, clash' = clash, received' = received \union {m}
        PROVE  [O!OutboxNext]_oVars
    <2>1. O!Receive(m)
      BY <1>1, <1>3 DEF O!Receive
    <2> QED  BY <2>1 DEF O!OutboxNext
  <1>4. CASE received' = received /\ clash' = TRUE
    <2>1. O!Clash
      BY <1>1, <1>4 DEF O!Clash
    <2> QED  BY <2>1 DEF O!OutboxNext
  <1> QED  BY <1>2, <1>3, <1>4

LEMMA NameClash ==
  ASSUME TypeOK, TypeOK', NEW q, NEW m, Name(q, m)
  PROVE  clash' = clash \/ clash' = TRUE
  <1>1. clash \in BOOLEAN /\ clash' \in BOOLEAN
    BY DEF TypeOK
  <1>2. clash => clash'
    BY DEF Name
  <1> QED  BY <1>1, <1>2

LEMMA OutboxStep ==
  ASSUME TypeOK, TypeOK', SeqInv, SavedOnce, [Next]_vars
  PROVE  [O!OutboxNext]_oVars
  <1>1. CASE UNCHANGED vars
    BY <1>1, OutboxQuiet DEF vars, netVars
  <1>2. CASE ReportInsert
    <2> DEFINE row == [msg |-> rep.msg, seq |-> rep.seq, state |-> 0]
    <2>1. /\ reportTab' = Append(reportTab, row) /\ operTab' = operTab
          /\ received' = received /\ clash' = clash /\ rep.msg \in Reports
          /\ NoRow(reportTab, rep.msg) /\ row.msg = rep.msg /\ row.state = 0
      BY <1>2 DEF ReportInsert, netVars, SavedOnce, SendersOnce, TypeOK
    <2> HIDE DEF row
    <2>2. /\ InState(reportTab', 0) = InState(reportTab, 0) \union {rep.msg}
          /\ InState(reportTab', 1) = InState(reportTab, 1)
      <3>1. reportTab \in Seq(Row(Reports))
        BY DEF TypeOK
      <3>2. /\ InState(Append(reportTab, row), 0) = InState(reportTab, 0) \union {row.msg}
            /\ InState(Append(reportTab, row), 1) = InState(reportTab, 1)
        BY <2>1, <3>1, AppendStates
      <3> QED  BY <2>1, <3>2
    <2>3. /\ Outstanding' = Outstanding \union {rep.msg} /\ Settled' = Settled
      BY <2>1, <2>2, OutboxParts
    <2>4. rep.msg \notin Outstanding \union Settled
      BY <2>1, StatesApart DEF Outstanding, Settled, InState, NoRow
    <2>5. O!Save(rep.msg)
      BY <2>1, <2>3, <2>4 DEF O!Save
    <2> QED  BY <2>1, <2>5 DEF O!OutboxNext, Messages
  <1>3. CASE OperationInsert
    <2> DEFINE row == [msg |-> soc.msg, seq |-> soc.seq, state |-> 0]
    <2>1. /\ operTab' = Append(operTab, row) /\ reportTab' = reportTab
          /\ received' = received /\ clash' = clash /\ soc.msg \in Operations
          /\ NoRow(operTab, soc.msg) /\ row.msg = soc.msg /\ row.state = 0
      BY <1>3 DEF OperationInsert, netVars, SavedOnce, SendersOnce, TypeOK
    <2> HIDE DEF row
    <2>2. /\ InState(operTab', 0) = InState(operTab, 0) \union {soc.msg}
          /\ InState(operTab', 1) = InState(operTab, 1)
      <3>1. operTab \in Seq(Row(Operations))
        BY DEF TypeOK
      <3>2. /\ InState(Append(operTab, row), 0) = InState(operTab, 0) \union {row.msg}
            /\ InState(Append(operTab, row), 1) = InState(operTab, 1)
        BY <2>1, <3>1, AppendStates
      <3> QED  BY <2>1, <3>2
    <2>3. /\ Outstanding' = Outstanding \union {soc.msg} /\ Settled' = Settled
      BY <2>1, <2>2, OutboxParts
    <2>4. soc.msg \notin Outstanding \union Settled
      BY <2>1, StatesApart DEF Outstanding, Settled, InState, NoRow
    <2>5. O!Save(soc.msg)
      BY <2>1, <2>3, <2>4 DEF O!Save
    <2> QED  BY <2>1, <2>5 DEF O!OutboxNext, Messages
  <1>4. ASSUME downlink # <<>>, Head(downlink).ok, ~clash, NEW m \in Messages,
               Holds(Head(downlink).seq, m)
        PROVE  m \in received
    <2>1. Head(downlink) = downlink[1] /\ 1 \in DOMAIN downlink
      BY <1>4, TailType DEF TypeOK
    <2>2. AckSound(downlink[1])
      BY <1>4, <2>1 DEF SeqInv, ClashFree, Core, AcksSound
    <2> HIDE DEF Holds
    <2> QED  BY <1>4, <2>1, <2>2 DEF AckSound
  <1>5. CASE AckReport
    <2>1. PICK q : q = Head(downlink).seq
      OBVIOUS
    <2>2. /\ reportTab' = Acknowledged(reportTab, q) /\ operTab' = operTab
          /\ received' = received /\ clash' = clash
      BY <1>5, <2>1 DEF AckReport
    <2>3. PICK T \in SUBSET InState(reportTab, 0) :
             /\ InState(reportTab', 0) = InState(reportTab, 0) \ T
             /\ InState(reportTab', 1) = InState(reportTab, 1) \union T
             /\ \A m \in T : InTab(reportTab, q, m)
      BY <2>2, AcknowledgedStates DEF TypeOK, SavedOnce
    <2>4. /\ Outstanding' = Outstanding \ T /\ Settled' = Settled \union T
          /\ T \subseteq Outstanding
      BY <2>2, <2>3, StatesApart, OutboxParts
    <2>5. clash \/ T \subseteq received
      <3>1. T \subseteq Messages
        BY <2>3, StatesApart DEF Messages
      <3> QED  BY <1>4, <1>5, <2>1, <2>3, <3>1 DEF AckReport, Holds
    <2>6. O!Settle(T)
      BY <2>2, <2>4, <2>5 DEF O!Settle
    <2> QED  BY <2>4, <2>6 DEF O!OutboxNext
  <1>6. CASE AckOperation
    <2>1. PICK q : q = Head(downlink).seq
      OBVIOUS
    <2>2. /\ operTab' = Acknowledged(operTab, q) /\ reportTab' = reportTab
          /\ received' = received /\ clash' = clash
      BY <1>6, <2>1 DEF AckOperation
    <2>3. PICK T \in SUBSET InState(operTab, 0) :
             /\ InState(operTab', 0) = InState(operTab, 0) \ T
             /\ InState(operTab', 1) = InState(operTab, 1) \union T
             /\ \A m \in T : InTab(operTab, q, m)
      BY <2>2, AcknowledgedStates DEF TypeOK, SavedOnce
    <2>4. /\ Outstanding' = Outstanding \ T /\ Settled' = Settled \union T
          /\ T \subseteq Outstanding
      BY <2>2, <2>3, StatesApart, OutboxParts
    <2>5. clash \/ T \subseteq received
      <3>1. T \subseteq Messages
        BY <2>3, StatesApart DEF Messages
      <3> QED  BY <1>4, <1>6, <2>1, <2>3, <3>1 DEF AckOperation, Holds
    <2>6. O!Settle(T)
      BY <2>2, <2>4, <2>5 DEF O!Settle
    <2> QED  BY <2>4, <2>6 DEF O!OutboxNext
  <1>7. ASSUME NEW t \in Restorers, RestoreReport(t) PROVE [O!OutboxNext]_oVars
    <2>1. PICK old, new : reportTab' = Renumbered(reportTab, old, new)
      BY <1>7 DEF RestoreReport
    <2>2. \A n : InState(reportTab', n) = InState(reportTab, n)
      BY <2>1, RenumberedStates DEF TypeOK
    <2>3. /\ operTab' = operTab /\ received' = received
          /\ clash' = clash \/ clash' = TRUE
      BY <1>7, NameClash DEF RestoreReport, netVars
    <2>4. Outstanding' = Outstanding /\ Settled' = Settled
      BY <2>2, <2>3, OutboxParts
    <2>5. CASE clash' = clash
      BY <2>3, <2>4, <2>5 DEF oVars
    <2>6. CASE clash' = TRUE
      <3>1. O!Clash
        BY <2>3, <2>4, <2>6 DEF O!Clash
      <3> QED  BY <3>1 DEF O!OutboxNext
    <2> QED  BY <2>3, <2>5, <2>6
  <1>8. CASE ReportSend \/ OperationSend
    <2>1. /\ reportTab' = reportTab /\ operTab' = operTab /\ received' = received
          /\ clash' = clash \/ clash' = TRUE
      BY <1>8, NameClash DEF ReportSend, OperationSend
    <2> QED  BY <2>1, OutboxQuiet
  <1>9. ASSUME NEW ok \in BOOLEAN, Answer(ok) PROVE [O!OutboxNext]_oVars
    <2>1. Head(uplink) \in Packet /\ reportTab' = reportTab /\ operTab' = operTab /\ clash' = clash
      BY <1>9, TailType DEF Answer, TypeOK
    <2>2. Head(uplink).msg \in Messages
      BY <2>1 DEF Packet
    <2>3. received' = received \/ received' = received \union {Head(uplink).msg}
      BY <1>9 DEF Answer
    <2> QED  BY <2>1, <2>2, <2>3, OutboxQuiet
  <1>10. CASE \/ (\E m \in Reports : ReportBuild(m)) \/ ReportRecord
              \/ (\E m \in Operations : OperationBuild(m)) \/ OperationRecord
              \/ AckRefused \/ CancelNext \/ CancelMatch \/ CancelDelete \/ CancelMiss
              \/ Supplementing
    BY <1>10, OutboxQuiet
    DEF ReportBuild, ReportRecord, OperationBuild, OperationRecord, AckRefused, CancelNext,
        CancelMatch, CancelDelete, CancelMiss, Supplementing, SupplementBegin,
        SupplementShort, SupplementGet, SupplementDelete, SupplementSend, SupplementSet,
        netVars
  <1>11. ASSUME NEW t \in Restorers, Restoration(t), ~RestoreReport(t)
         PROVE  [O!OutboxNext]_oVars
    BY <1>11, OutboxQuiet
    DEF Restoration, RestoreReportsBegin, RestoreReportHeader, RestoreReportsDone,
        RestoreOperationsBegin, RestoreOperation, RestoreDone, netVars
  <1>12. CASE \/ \E t \in Threads : OtherHeader(t) \/ OtherSend(t)
              \/ Connect \/ Disconnect \/ Tick \/ Restart
    BY <1>12, OutboxQuiet DEF OtherHeader, OtherSend, Connect, Disconnect, Tick, Restart, netVars
  <1> QED
    BY <1>1, <1>2, <1>3, <1>5, <1>6, <1>7, <1>8, <1>9, <1>10, <1>11, <1>12
    DEF Next, ReportThread, OperationSending, AckTreating, Environment

\* RecordStore implements the outbox: what was saved stays outstanding until it is
\* settled, nothing is forgotten, and only received messages are settled until a
\* number clashes.
THEOREM StoreImplementsOutbox == Spec => ImplementsOutbox
<1>1. Init => O!OutboxInit
  BY DEF Init, O!OutboxInit, Outstanding, Settled, InState
<1>2. TypeOK /\ TypeOK' /\ SeqInv /\ SavedOnce /\ [Next]_vars => [O!OutboxNext]_(O!outboxVars)
  BY OutboxStep DEF O!outboxVars, oVars
<1>3. OnceInv => SavedOnce
  BY DEF OnceInv
<1> QED
  BY <1>1, <1>2, <1>3, TypeCorrect, SequenceSound, OnceAlways, PTL
  DEF Spec, O!OutboxSpec, ImplementsOutbox

==============================================================================
