--------------------------- MODULE RecordList_proof ---------------------------
(* Proofs about RecordList: its bound with every overlap, and what it keeps    *)
(* while supplement and cancel do not overlap.                                *)
EXTENDS RecordList, SequenceTheorems, FiniteSetTheorems, TLAPS

-----------------------------------------------------------------------------
(* Sequences: node_append and node_delete.                                   *)

\* node_append adds one element at the tail.
LEMMA AppendType ==
  ASSUME NEW S, NEW s \in Seq(S), NEW e \in S
  PROVE  /\ Append(s, e) \in Seq(S)
         /\ DOMAIN Append(s, e) = 1..Len(s)+1
         /\ \A k \in DOMAIN Append(s, e) :
              Append(s, e)[k] = IF k = Len(s)+1 THEN e ELSE s[k]
  OBVIOUS

\* node_delete keeps the other elements.
LEMMA RemoveAtType ==
  ASSUME NEW S, NEW s \in Seq(S), NEW i \in DOMAIN s
  PROVE  /\ RemoveAt(s, i) \in Seq(S)
         /\ DOMAIN RemoveAt(s, i) = 1..Len(s)-1
         /\ \A k \in DOMAIN RemoveAt(s, i) :
              RemoveAt(s, i)[k] = IF k < i THEN s[k] ELSE s[k+1]
  <1> DEFINE a == SubSeq(s, 1, i-1)
             b == SubSeq(s, i+1, Len(s))
  <1>0. Len(s) \in Nat /\ i \in 1..Len(s)
    BY LenProperties
  <1>1. /\ a \in Seq(S) /\ Len(a) = i-1
        /\ \A k \in 1..i-1 : a[k] = s[k]
    BY <1>0, SubSeqProperties, ElementOfSeq
  <1>2. /\ b \in Seq(S) /\ Len(b) = Len(s) - i
        /\ \A k \in 1..Len(s)-i : b[k] = s[k+i]
    BY <1>0, SubSeqProperties, ElementOfSeq
  <1>6. RemoveAt(s, i) = a \o b
    BY DEF RemoveAt
  <1> HIDE DEF a, b
  <1>3. /\ a \o b \in Seq(S)
        /\ Len(a \o b) = Len(s) - 1
        /\ \A k \in 1..Len(s)-1 : (a \o b)[k] = IF k <= i-1 THEN a[k] ELSE b[k-(i-1)]
    BY <1>0, <1>1, <1>2, ConcatProperties
  <1>4. DOMAIN (a \o b) = 1..Len(s)-1
    BY <1>3, LenProperties
  <1>5. ASSUME NEW k \in 1..Len(s)-1
        PROVE  (a \o b)[k] = IF k < i THEN s[k] ELSE s[k+1]
    <2>0. k \in Nat /\ i \in Nat /\ Len(s) \in Nat /\ 1 <= k /\ k <= Len(s) - 1
      BY <1>0
    <2>1. CASE k < i
      <3>1. (a \o b)[k] = a[k] /\ k \in 1..i-1
        BY <2>1, <2>0, <1>3
      <3> QED  BY <3>1, <2>1, <1>1
    <2>2. CASE ~(k < i)
      <3>1. (a \o b)[k] = b[k-(i-1)] /\ k-(i-1) \in 1..Len(s)-i /\ k-(i-1)+i = k+1
        BY <2>2, <2>0, <1>0, <1>3
      <3>2. b[k-(i-1)] = s[k-(i-1)+i]
        BY <3>1, <1>2
      <3> QED  BY <3>1, <3>2, <2>2
    <2> QED  BY <2>1, <2>2
  <1> QED  BY <1>3, <1>4, <1>5, <1>6

-----------------------------------------------------------------------------
\* Reading an element gives a record; overwriting one keeps the sequence.
LEMMA ElementType ==
  ASSUME TypeOK, NEW i \in DOMAIN list
  PROVE  list[i] \in Record
  <1>1. list \in Seq(Record)
    BY DEF TypeOK
  <1> QED  BY <1>1, LenProperties, ElementOfSeq

LEMMA NextElementType ==
  ASSUME TypeOK
  PROVE  /\ NextElement \in [pc : {"idle", "get", "free", "delete", "send", "set"},
                             i : Nat, count : 0..MaxSupplement, rec : Record \union {Free}]
         /\ NextElement.pc \in {"idle", "get"}
  <1>1. 0 \in 0..MaxSupplement
    BY ListAssumption
  <1>2. CASE NextElement = NoSup
    BY <1>1, <1>2 DEF NoSup
  <1>3. CASE NextElement = [sup EXCEPT !.pc = "get", !.i = @ + 1]
    <2>1. sup \in [pc : {"idle", "get", "free", "delete", "send", "set"}, i : Nat,
                   count : 0..MaxSupplement, rec : Record \union {Free}]
      BY DEF TypeOK
    <2>2. sup.i + 1 \in Nat
      BY <2>1
    <2> QED  BY <1>3, <2>1, <2>2
  <1> QED  BY <1>2, <1>3 DEF NextElement

CanType == [pc : {"idle", "get", "free", "delete", "check", "begin", "reports",
                  "operations"},
            i : Nat, ack : Msgs \union {Free}, rec : Record \union {Free},
            left : SUBSET Msgs]

LEMMA NoCanType ==
  /\ NoCan \in CanType
  /\ NoCan.pc = "idle" /\ NoCan.left = {}
  BY DEF NoCan, CanType

\* Outside the look-up the model keeps nothing of it but the rows left to restore.
LEMMA TurnType ==
  ASSUME NEW pc \in {"idle", "check", "begin"}
  PROVE  /\ [NoCan EXCEPT !.pc = pc] \in CanType
         /\ [NoCan EXCEPT !.pc = pc].pc = pc /\ [NoCan EXCEPT !.pc = pc].left = {}
  BY DEF NoCan, CanType

LEMMA LeftType ==
  ASSUME NEW left \in SUBSET Msgs
  PROVE  /\ [NoCan EXCEPT !.pc = "reports", !.left = left] \in CanType
         /\ [NoCan EXCEPT !.pc = "reports", !.left = left].pc = "reports"
         /\ [NoCan EXCEPT !.pc = "reports", !.left = left].left = left
         /\ [NoCan EXCEPT !.pc = "operations", !.left = left] \in CanType
         /\ [NoCan EXCEPT !.pc = "operations", !.left = left].pc = "operations"
         /\ [NoCan EXCEPT !.pc = "operations", !.left = left].left = left
  BY DEF NoCan, CanType

\* What a thread holds after a step of its own.
LEMMA ReturnType ==
  ASSUME TypeOK, NEW t \in Recorders, Return(t)
  PROVE  /\ adding' \in [Recorders -> Msgs \union {Free}]
         /\ saving' \in [Recorders -> Msgs \union {Free}]
  BY DEF Return, TypeOK

LEMMA NoSupType ==
  /\ NoSup \in [pc : {"idle", "get", "free", "delete", "send", "set"}, i : Nat,
                count : 0..MaxSupplement, rec : Record \union {Free}]
  /\ NoSup.pc = "idle"
  BY ListAssumption DEF NoSup

\* The model keeps its shape for all parameters and every overlap.
THEOREM ListTypeCorrect == Spec => []TypeOK
<1>1. Init => TypeOK
  <2> SUFFICES ASSUME Init PROVE TypeOK
    OBVIOUS
  <2>1. overlap \in BOOLEAN
    BY DEF Init
  <2>2. list \in Seq(Record) /\ heap \in [Bufs -> Msgs \union {Free}]
        /\ adding \in [Recorders -> Msgs \union {Free}]
        /\ saving \in [Recorders -> Msgs \union {Free}] /\ of \in [Msgs -> Msgs]
    BY DEF Init
  <2>3. can \in CanType /\ ~Looking
    BY NoCanType DEF Init, Looking
  <2>4. sup \in [pc : {"idle", "get", "free", "delete", "send", "set"}, i : Nat,
                 count : 0..MaxSupplement, rec : Record \union {Free}] /\ sup.pc = "idle"
    BY NoSupType DEF Init
  <2>5. rows = {} /\ made = {} /\ queued = {} /\ cancelled = {} /\ dropped = {} /\ parted = {}
    BY DEF Init
  <2> QED  BY <2>1, <2>2, <2>3, <2>4, <2>5 DEF TypeOK, CanType, Looking
<1>2. TypeOK /\ [Next]_vars => TypeOK'
  <2> SUFFICES ASSUME TypeOK, [Next]_vars
               PROVE  TypeOK'
    OBVIOUS
  <2>1. CASE UNCHANGED vars
    BY <2>1 DEF vars, histVars, TypeOK, Looking
  <2>2. ASSUME NEW t \in Recorders, NEW m \in Msgs, RecordCheck(t, m)
        PROVE  TypeOK'
    <3>1. /\ adding' \in [Recorders -> Msgs \union {Free}]
          /\ saving' \in [Recorders -> Msgs \union {Free}]
          /\ made' \subseteq Msgs
      BY <2>2 DEF RecordCheck, TypeOK
    <3>2. UNCHANGED <<list, heap, rows, sup, can, histVars, of, parted, overlap>>
      BY <2>2 DEF RecordCheck
    <3> QED  BY <3>1, <3>2 DEF TypeOK, histVars, Looking
  <2>3. ASSUME NEW t \in Recorders, RecordAppend(t)
        PROVE  TypeOK'
    <3>1. PICK b \in Bufs : /\ heap' = [heap EXCEPT ![b] = adding[t]]
                            /\ list' = Append(list, [msg |-> adding[t], buf |-> b, try |-> 0])
      BY <2>3 DEF RecordAppend
    <3>2. adding[t] \in Msgs
      BY <2>3 DEF RecordAppend, TypeOK
    <3>3. [msg |-> adding[t], buf |-> b, try |-> 0] \in Record
      BY <3>2, ListAssumption DEF Record
    <3>4. list' \in Seq(Record)
      BY <3>1, <3>3, AppendType DEF TypeOK
    <3>5. queued' \subseteq Msgs
      BY <2>3, <3>2 DEF RecordAppend, TypeOK
    <3>6. heap' \in [Bufs -> Msgs \union {Free}]
      BY <3>1, <3>2 DEF TypeOK
    <3>7. /\ adding' \in [Recorders -> Msgs \union {Free}]
          /\ saving' \in [Recorders -> Msgs \union {Free}]
      BY <2>3, ReturnType DEF RecordAppend
    <3>8. UNCHANGED <<rows, sup, can, made, cancelled, dropped, of, parted, overlap>>
      BY <2>3 DEF RecordAppend
    <3> QED  BY <3>4, <3>5, <3>6, <3>7, <3>8 DEF TypeOK, Looking
  <2>4. ASSUME NEW t \in Recorders, RecordNoMemory(t)
        PROVE  TypeOK'
    <3>1. /\ adding' \in [Recorders -> Msgs \union {Free}]
          /\ saving' \in [Recorders -> Msgs \union {Free}]
      BY <2>4, ReturnType DEF RecordNoMemory
    <3>2. UNCHANGED <<list, heap, rows, sup, can, made, histVars, of, parted, overlap>>
      BY <2>4 DEF RecordNoMemory
    <3> QED  BY <3>1, <3>2 DEF TypeOK, histVars, Looking
  <2>5. CASE SupplementBegin
    <3>1. Len(list) \in Nat
      BY LenProperties DEF TypeOK
    <3>2. /\ sup' \in [pc : {"idle", "get", "free", "delete", "send", "set"}, i : Nat,
                       count : 0..MaxSupplement, rec : Record \union {Free}]
          /\ sup'.pc = "get"
      <4> DEFINE c == IF Len(list) < MaxSupplement THEN Len(list) ELSE MaxSupplement
      <4>1. c \in 0..MaxSupplement
        BY <3>1, ListAssumption
      <4>2. sup' = [NoSup EXCEPT !.pc = "get", !.i = 1, !.count = c]
        BY <2>5 DEF SupplementBegin
      <4> HIDE DEF c
      <4> QED  BY <4>1, <4>2, NoSupType
    <3>3. overlap' \in BOOLEAN
      BY <2>5 DEF SupplementBegin, TypeOK
    <3>4. UNCHANGED <<list, heap, adding, saving, rows, can, made, histVars, of, parted>>
      BY <2>5 DEF SupplementBegin
    <3> QED  BY <3>2, <3>3, <3>4 DEF TypeOK, histVars, Looking
  <2>6. CASE SupplementGet
    <3>1. UNCHANGED <<list, heap, adding, saving, rows, can, made, histVars, of, parted,
                      overlap>>
      BY <2>6 DEF SupplementGet
    <3>2. /\ sup' \in [pc : {"idle", "get", "free", "delete", "send", "set"}, i : Nat,
                       count : 0..MaxSupplement, rec : Record \union {Free}]
          /\ sup'.pc \notin {"idle", "get"} => sup'.rec \in Record
          /\ sup'.pc \in {"send", "set"} => sup'.rec.try <= RetryCount
      <4>1. CASE sup' = NoSup
        BY <4>1, NoSupType
      <4>2. CASE sup' = NextElement
        BY <4>2, NextElementType
      <4>r. ASSUME NEW i \in DOMAIN list PROVE list[i] \in Record
        BY <4>r, ElementType
      <4>3. CASE /\ sup.i \in DOMAIN list
                 /\ sup' = [sup EXCEPT !.pc = "free", !.rec = list[sup.i]]
        BY <4>3, <4>r DEF TypeOK
      <4>4. CASE /\ sup.i \in DOMAIN list /\ list[sup.i].try <= RetryCount
                 /\ sup' = [sup EXCEPT !.pc = "send", !.rec = list[sup.i]]
        BY <4>4, <4>r DEF TypeOK
      <4> QED  BY <2>6, <4>1, <4>2, <4>3, <4>4 DEF SupplementGet
    <3> QED  BY <3>1, <3>2 DEF TypeOK, histVars, Looking
  <2>7. CASE SupplementFree
    BY <2>7 DEF SupplementFree, TypeOK, histVars, Looking
  <2>8. CASE SupplementDelete
    <3>1. list' \in Seq(Record)
      BY <2>8, RemoveAtType DEF SupplementDelete, TypeOK
    <3>2. dropped' \subseteq Msgs
      BY <2>8 DEF SupplementDelete, TypeOK, Record
    <3>3. /\ sup' = NextElement
          /\ UNCHANGED <<heap, adding, saving, rows, can, made, queued, cancelled, of, parted,
                         overlap>>
      BY <2>8 DEF SupplementDelete
    <3> QED  BY <3>1, <3>2, <3>3, NextElementType DEF TypeOK, Looking
  <2>9. CASE SupplementSend
    BY <2>9 DEF SupplementSend, TypeOK, histVars, Looking
  <2>10. CASE SupplementSet
    <3> DEFINE r == [sup.rec EXCEPT !.try = @ + 1]
    <3>1. r \in Record
      <4>1. sup.rec \in Record /\ sup.rec.try <= RetryCount
        BY <2>10 DEF SupplementSet, TypeOK
      <4>2. sup.rec.try + 1 \in 0..RetryCount+1
        BY <4>1, ListAssumption DEF Record
      <4> QED  BY <4>1, <4>2 DEF Record
    <3>2. list' = list \/ (sup.i \in DOMAIN list /\ list' = [list EXCEPT ![sup.i] = r])
      BY <2>10 DEF SupplementSet
    <3>3. list' \in Seq(Record)
      <4> HIDE DEF r
      <4> QED  BY <3>1, <3>2, ExceptSeq DEF TypeOK
    <3>4. /\ sup' = NextElement
          /\ UNCHANGED <<heap, adding, saving, rows, can, made, histVars, of, parted, overlap>>
      BY <2>10 DEF SupplementSet
    <3> QED  BY <3>3, <3>4, NextElementType DEF TypeOK, histVars, Looking
  <2>11. ASSUME NEW m \in Msgs, CancelBegin(m)
         PROVE  TypeOK'
    <3>1. can' \in CanType /\ can'.pc = "get" /\ can'.ack = m
      BY <2>11 DEF CancelBegin, CanType, NoCan
    <3>2. overlap' \in BOOLEAN
      BY <2>11 DEF CancelBegin, TypeOK
    <3>3. rows' \subseteq Msgs /\ parted' \subseteq Msgs
      BY <2>11 DEF CancelBegin, TypeOK
    <3>4. UNCHANGED <<list, heap, adding, saving, sup, made, histVars, of>>
      BY <2>11 DEF CancelBegin
    <3> QED  BY <3>1, <3>2, <3>3, <3>4 DEF TypeOK, histVars, Looking, CanType
  <2>12. ASSUME can' \in CanType, Looking' => can'.ack \in Msgs,
                can'.pc \in {"free", "delete"} => can'.rec \in Record,
                UNCHANGED <<list, heap, adding, saving, rows, sup, made, histVars, of,
                            parted, overlap>>
         PROVE  TypeOK'
    BY <2>12 DEF TypeOK, histVars, CanType
  <2>13. CASE CancelGet
    <3>1. UNCHANGED <<list, heap, adding, saving, rows, sup, made, histVars, of, parted,
                      overlap>> /\ can \in CanType /\ can.pc = "get" /\ can.ack \in Msgs
      BY <2>13 DEF CancelGet, TypeOK, CanType, Looking
    <3>2. CASE can' = [NoCan EXCEPT !.pc = "check"]
      <4>1. can' \in CanType /\ can'.pc = "check"
        BY <3>2, TurnType
      <4> QED  BY <3>1, <4>1, <2>12 DEF Looking
    <3>3. CASE can.i \in DOMAIN list /\ can' = [can EXCEPT !.pc = "free", !.rec = list[can.i]]
      <4>1. can' \in CanType /\ can'.ack \in Msgs /\ can'.rec \in Record
        BY <3>1, <3>3, ElementType DEF CanType
      <4> QED  BY <3>1, <4>1, <2>12 DEF Looking
    <3>4. CASE can' = [can EXCEPT !.i = @ + 1]
      <4>1. can' \in CanType /\ can'.ack \in Msgs /\ can'.pc = "get"
        BY <3>1, <3>4 DEF CanType
      <4> QED  BY <3>1, <4>1, <2>12 DEF Looking
    <3> QED  BY <2>13, <3>2, <3>3, <3>4 DEF CancelGet
  <2>14. CASE CancelFree
    BY <2>14 DEF CancelFree, TypeOK, histVars, Looking
  <2>15. CASE CancelDelete
    <3>1. list' \in Seq(Record)
      BY <2>15, RemoveAtType DEF CancelDelete, TypeOK
    <3>2. cancelled' \subseteq Msgs
      BY <2>15 DEF CancelDelete, TypeOK, Looking
    <3>3. can' \in CanType /\ can'.pc = "check"
      BY <2>15, TurnType DEF CancelDelete
    <3>4. UNCHANGED <<heap, adding, saving, rows, sup, made, queued, dropped, of, parted,
                      overlap>>
      BY <2>15 DEF CancelDelete
    <3> QED  BY <3>1, <3>2, <3>3, <3>4 DEF TypeOK, Looking, CanType
  <2>16. CASE CancelCheck
    <3>1. can' \in CanType /\ ~Looking' /\ can'.pc \notin {"free", "delete"}
      <4>1. CASE can' = NoCan
        BY <4>1, NoCanType DEF Looking
      <4>2. CASE can' = [NoCan EXCEPT !.pc = "begin"]
        BY <4>2, TurnType DEF Looking
      <4> QED  BY <2>16, <4>1, <4>2 DEF CancelCheck
    <3> QED  BY <2>16, <3>1, <2>12 DEF CancelCheck
  <2>17. CASE RestoreReports \/ RestoreOperations \/ RestoreDone
    <3>1. can' \in CanType /\ ~Looking' /\ can'.pc \notin {"free", "delete"}
      <4>1. CASE can' = NoCan
        BY <4>1, NoCanType DEF Looking
      <4>2. rows \ Operations \in SUBSET Msgs /\ rows \intersect Operations \in SUBSET Msgs
        BY DEF TypeOK
      <4>4. CASE RestoreReports
        <5> DEFINE l == rows \ Operations
        <5>0. l \in SUBSET Msgs /\ can' = [NoCan EXCEPT !.pc = "reports", !.left = l]
          BY <4>2, <4>4 DEF RestoreReports
        <5> HIDE DEF l
        <5>1. can' \in CanType /\ can'.pc = "reports"
          BY <5>0, LeftType
        <5> QED  BY <5>1 DEF Looking
      <4>5. CASE RestoreOperations
        <5> DEFINE l == rows \intersect Operations
        <5>0. l \in SUBSET Msgs /\ can' = [NoCan EXCEPT !.pc = "operations", !.left = l]
          BY <4>2, <4>5 DEF RestoreOperations
        <5> HIDE DEF l
        <5>1. can' \in CanType /\ can'.pc = "operations"
          BY <5>0, LeftType
        <5> QED  BY <5>1 DEF Looking
      <4>6. CASE RestoreDone
        BY <4>6, <4>1 DEF RestoreDone
      <4> QED  BY <2>17, <4>4, <4>5, <4>6
    <3> QED
      BY <2>17, <3>1, <2>12 DEF RestoreReports, RestoreOperations, RestoreDone
  <2>18. ASSUME NEW t \in Recorders, RowInsert(t)
         PROVE  TypeOK'
    <3>1. saving' \in [Recorders -> Msgs \union {Free}] /\ rows' \subseteq Msgs
      BY <2>18 DEF RowInsert, TypeOK
    <3>2. UNCHANGED <<list, heap, adding, sup, can, made, histVars, of, parted, overlap>>
      BY <2>18 DEF RowInsert
    <3> QED  BY <3>1, <3>2 DEF TypeOK, histVars, Looking
  <2>19. ASSUME NEW m \in Msgs, NEW n \in Msgs, RestoreReport(m, n) \/ RestoreOperation(m)
         PROVE  TypeOK'
    <3>1. /\ can' \in CanType /\ ~Looking' /\ can'.pc \notin {"free", "delete"}
      <4>1. can \in CanType /\ can.pc \in {"reports", "operations"}
            /\ can' = [can EXCEPT !.left = @ \ {m}]
        BY <2>19 DEF RestoreReport, RestoreOperation, TypeOK, CanType
      <4> QED  BY <4>1 DEF CanType, Looking
    <3>2. adding' \in [Recorders -> Msgs \union {Free}]
      BY <2>19 DEF RestoreReport, RestoreOperation, Requeue, TypeOK
    <3>3. /\ made' \subseteq Msgs /\ rows' \subseteq Msgs
          /\ parted' \subseteq Msgs /\ of' \in [Msgs -> Msgs]
      BY <2>19 DEF RestoreReport, RestoreOperation, TypeOK
    <3>4. UNCHANGED <<list, heap, saving, sup, histVars, overlap>>
      BY <2>19 DEF RestoreReport, RestoreOperation
    <3> QED  BY <3>1, <3>2, <3>3, <3>4 DEF TypeOK, histVars, CanType
  <2> QED
    BY <2>1, <2>2, <2>3, <2>4, <2>5, <2>6, <2>7, <2>8, <2>9, <2>10, <2>11, <2>13,
       <2>14, <2>15, <2>16, <2>17, <2>18, <2>19
    DEF Next, Recording, Supplement, Cancelling, Restore
<1> QED  BY <1>1, <1>2, PTL DEF Spec

-----------------------------------------------------------------------------
(* The bound.  The size check and the append are apart, so the bound alone is *)
(* not inductive: the threads between the two have to be counted as well.     *)

Passed == {t \in Recorders : adding[t] # Free}
Room == Len(list) + Cardinality(Passed) <= MaxNode - 1 + Cardinality(Recorders)

LEMMA PassedFinite ==
  /\ IsFiniteSet(Passed) /\ Cardinality(Passed) \in Nat
  /\ Cardinality(Recorders) \in Nat /\ Cardinality(Recorders) >= 1
  /\ Cardinality(Passed) <= Cardinality(Recorders)
  <1>1. Passed \subseteq Recorders
    BY DEF Passed
  <1>2. IsFiniteSet(Passed) /\ Cardinality(Passed) <= Cardinality(Recorders)
    BY <1>1, FS_Subset, ListAssumption
  <1>3. Cardinality(Passed) \in Nat /\ Cardinality(Recorders) \in Nat
    BY <1>2, FS_CardinalityType, ListAssumption
  <1>4. Cardinality(Recorders) # 0
    BY FS_EmptySet, ListAssumption
  <1> QED  BY <1>2, <1>3, <1>4

\* One thread more, or one thread less, between its check and its append.
LEMMA PassedLeaves ==
  ASSUME TypeOK, NEW t \in Recorders, adding[t] # Free, adding' = [adding EXCEPT ![t] = Free]
  PROVE  Cardinality(Passed') = Cardinality(Passed) - 1
  <1>1. Passed' = Passed \ {t} /\ t \in Passed
    BY DEF Passed, TypeOK
  <1> QED  BY <1>1, PassedFinite, FS_RemoveElement

LEMMA PassedEnters ==
  ASSUME NEW P, IsFiniteSet(P), NEW t, t \notin P
  PROVE  Cardinality(P \union {t}) = Cardinality(P) + 1
  BY FS_AddElement

LEMMA RoomStep ==
  ASSUME TypeOK, TypeOK', Room, [Next]_vars
  PROVE  Room'
  <1>0. /\ Len(list) \in Nat /\ Len(list') \in Nat /\ MaxNode \in Nat
        /\ Cardinality(Passed) \in Nat /\ Cardinality(Recorders) \in Nat
        /\ Cardinality(Passed) <= Cardinality(Recorders)
    BY LenProperties, PassedFinite, ListAssumption DEF TypeOK
  <1>1. ASSUME adding' = adding, Len(list') <= Len(list)
        PROVE  Room'
    <2>1. Passed' = Passed
      BY <1>1 DEF Passed
    <2> QED  BY <1>0, <1>1, <2>1 DEF Room
  <1>2. ASSUME list' = list, adding' = adding \/ Len(list) < MaxNode
        PROVE  Room'
    <2>1. CASE adding' = adding
      BY <1>2, <1>1, <1>0, <2>1
    <2>2. CASE Len(list) < MaxNode
      <3>1. Passed' \subseteq Recorders
        BY DEF Passed
      <3>2. Cardinality(Passed') <= Cardinality(Recorders) /\ Cardinality(Passed') \in Nat
        BY <3>1, FS_Subset, FS_CardinalityType, ListAssumption
      <3> QED  BY <1>0, <1>2, <2>2, <3>2 DEF Room
    <2> QED  BY <1>2, <2>1, <2>2
  <1>3. ASSUME NEW t \in Recorders, RecordAppend(t)
        PROVE  Room'
    <2>1. Cardinality(Passed') = Cardinality(Passed) - 1
      BY <1>3, PassedLeaves DEF RecordAppend, Return
    <2>2. Len(list') = Len(list) + 1
      BY <1>3 DEF RecordAppend, TypeOK
    <2> QED  BY <1>0, <2>1, <2>2 DEF Room
  <1>4. ASSUME NEW t \in Recorders, RecordNoMemory(t)
        PROVE  Room'
    <2>1. Cardinality(Passed') = Cardinality(Passed) - 1 /\ list' = list
      BY <1>4, PassedLeaves DEF RecordNoMemory, Return
    <2> QED  BY <1>0, <2>1 DEF Room
  <1>5. ASSUME adding' = adding,
               list' = list \/ (\E i \in DOMAIN list : list' = RemoveAt(list, i))
        PROVE  Room'
    <2>1. CASE list' = list
      BY <1>1, <1>5, <2>1, <1>0
    <2>2. ASSUME NEW i \in DOMAIN list, list' = RemoveAt(list, i)
          PROVE  Room'
      <3>1. list \in Seq(Record) /\ list' \in Seq(Record)
        BY DEF TypeOK
      <3>2. DOMAIN list' = 1..Len(list)-1 /\ DOMAIN list' = 1..Len(list')
            /\ DOMAIN list = 1..Len(list)
        BY <2>2, <3>1, RemoveAtType, LenProperties
      <3>3. Len(list') <= Len(list)
        BY <1>0, <3>2
      <3> QED  BY <1>1, <1>5, <3>3
    <2> QED  BY <1>5, <2>1, <2>2
  <1>6. CASE SupplementSet
    <2>1. list' = list \/ \E r : list' = [list EXCEPT ![sup.i] = r]
      BY <1>6 DEF SupplementSet
    <2>2. list \in Seq(Record) /\ list' \in Seq(Record) /\ DOMAIN list' = DOMAIN list
      BY <2>1 DEF TypeOK
    <2>3. Len(list') = Len(list)
      BY <2>2, <1>0, LenProperties
    <2> QED  BY <1>1, <1>6, <1>0, <2>3 DEF SupplementSet
  <1>7. ASSUME NEW t \in Recorders, NEW m \in Msgs, RecordCheck(t, m)
        PROVE  Room'
    BY <1>0, <1>2, <1>7 DEF RecordCheck
  <1>8. ASSUME NEW m \in Msgs, NEW n \in Msgs, RestoreReport(m, n) \/ RestoreOperation(m)
        PROVE  Room'
    BY <1>0, <1>2, <1>8 DEF RestoreReport, RestoreOperation, Requeue
  <1>9. CASE SupplementDelete \/ CancelDelete
    BY <1>5, <1>9 DEF SupplementDelete, CancelDelete
  <1>10. ASSUME adding' = adding, list' = list
         PROVE  Room'
    BY <1>5, <1>10
  <1>11. ASSUME NEW t \in Recorders, RowInsert(t)
         PROVE  Room'
    BY <1>10, <1>11 DEF RowInsert
  <1>12. CASE \/ SupplementBegin \/ SupplementGet \/ SupplementFree \/ SupplementSend
              \/ UNCHANGED vars
    BY <1>10, <1>12 DEF vars, SupplementBegin, SupplementGet, SupplementFree, SupplementSend
  <1>13. CASE \/ (\E m \in Msgs : CancelBegin(m)) \/ CancelGet \/ CancelFree \/ CancelCheck
              \/ RestoreReports \/ RestoreOperations \/ RestoreDone
    BY <1>10, <1>13 DEF CancelBegin, CancelGet, CancelFree, CancelCheck, RestoreReports,
       RestoreOperations, RestoreDone
  <1> QED
    BY <1>3, <1>4, <1>6, <1>7, <1>8, <1>9, <1>11, <1>12, <1>13
    DEF Next, Recording, Supplement, Cancelling, Restore

\* However many threads record at once, for any MAX_NODE_COUNT and whatever
\* overlaps, the list outgrows its limit by at most one record per
\* further thread.
THEOREM ListBounded == Spec => []ListBound
<1>1. Init => Room
  <2> SUFFICES ASSUME Init PROVE Room
    OBVIOUS
  <2>1. Passed = {} /\ Len(list) = 0
    BY DEF Init, Passed
  <2> QED  BY <2>1, FS_EmptySet, PassedFinite, ListAssumption DEF Room
<1>2. TypeOK /\ TypeOK' /\ Room /\ [Next]_vars => Room'
  BY RoomStep
<1>3. TypeOK /\ Room => ListBound
  <2> SUFFICES ASSUME TypeOK, Room PROVE ListBound
    OBVIOUS
  <2>1. Len(list) \in Nat /\ MaxNode \in Nat
    BY LenProperties, ListAssumption DEF TypeOK
  <2> QED  BY <2>1, PassedFinite DEF Room, ListBound
<1> QED  BY <1>1, <1>2, <1>3, ListTypeCorrect, PTL DEF Spec

-----------------------------------------------------------------------------
(* While supplement and the look-up of cancel have not overlapped, each finds *)
(* what it copied where it left it: recording only appends (Solo).  What an   *)
(* acknowledgement deletes was then the only thing left of its message, in    *)
(* the list, in a table or on its way there (Story).  The four properties     *)
(* about buffers and lost or returning messages follow.                       *)

Alone == SupIdle \/ ~Looking
SupAt == sup.pc \in {"free", "delete", "send", "set"} =>
           sup.i \in DOMAIN list /\ list[sup.i] = sup.rec
CanAt == can.pc \in {"free", "delete"} =>
           can.i \in DOMAIN list /\ list[can.i] = can.rec /\ can.rec.msg = can.ack
\* A message is made once: it is in one place at most.
Once ==
  /\ cancelled \subseteq made
  /\ \A i \in DOMAIN list :
       /\ list[i].msg \in made /\ list[i].msg \notin cancelled
       /\ \A j \in DOMAIN list : i # j => list[i].msg # list[j].msg
  /\ \A t \in Recorders : adding[t] # Free =>
       /\ adding[t] \in made /\ adding[t] \notin cancelled
       /\ \A i \in DOMAIN list : list[i].msg # adding[t]
       /\ \A u \in Recorders : u # t => adding[u] # adding[t]
Own ==
  \A i \in DOMAIN list :
    ~Deleting(i) => /\ heap[list[i].buf] = list[i].msg
                    /\ \A j \in DOMAIN list : i # j /\ ~Deleting(j)
                         => list[i].buf # list[j].buf
Lost == queued \subseteq InList \union cancelled \union dropped

Solo == Alone /\ SupAt /\ CanAt /\ Once /\ Own /\ Lost

\* The senders: one message each, and a report has no row yet.
Hand(t) == {adding[t], saving[t]} \ {Free}
Hands ==
  \A t \in Recorders :
    /\ adding[t] = Free \/ saving[t] = Free
    /\ saving[t] \in made \union {Free}
    /\ t # Socket => Hand(t) \intersect (rows \union Operations) = {}
    /\ \A u \in Recorders : u # t => Hand(t) \intersect Hand(u) = {}
\* The socket thread has nothing in hand while it treats an acknowledgement, but for the
\* row it restores.
SocketHand ==
  /\ CanIdle => Hand(Socket) \subseteq Operations
  /\ ~CanIdle => saving[Socket] = Free
  /\ can.pc \in {"get", "free", "delete", "check", "begin"} => adding[Socket] = Free
  /\ can.pc = "reports" => adding[Socket] \notin Operations
\* The rows left to restore are not in the list, nor is an outstanding operation record
\* when its turn comes: the list was empty.
Left ==
  /\ can.pc = "reports" => can.left \subseteq rows \ Operations
  /\ can.pc = "operations" => /\ can.left \subseteq rows \intersect Operations
                              /\ adding[Socket] \notin can.left
                              /\ InList \intersect can.left = {}
  /\ can.pc \in {"begin", "reports"} => InList \intersect Operations = {}
\* An operation record with an outstanding row was never deleted.
Billed ==
  /\ rows \intersect Operations \intersect cancelled = {}
  /\ saving[Socket] \notin cancelled
  /\ Looking => can.ack \in made /\ can.ack \notin rows \intersect Operations
\* What a message says was first said by a message that was made.
Contents ==
  /\ rows \subseteq made
  /\ \A m \in Msgs : IF m \in made THEN of[m] \in made ELSE of[m] = m
\* Until the row and the record of a content part, one message at most carries it, and
\* none any more once it was deleted.
Live == InList \union rows \union UNION {Hand(t) : t \in Recorders}
Single ==
  /\ \A m, n \in Live : of[m] = of[n] /\ of[m] \notin parted => m = n
  /\ \A m \in Live, c \in cancelled : of[m] = of[c] => of[m] \in parted
Late == Looking /\ can.ack \in rows \union Sending => of[can.ack] \in parted

Story == Hands /\ SocketHand /\ Left /\ Billed /\ Contents /\ Single /\ Late

SoloInv == ~overlap => Solo /\ Story

LEMMA SoloType ==
  ASSUME TypeOK
  PROVE  /\ list \in Seq(Record) /\ Len(list) \in Nat /\ DOMAIN list = 1..Len(list)
         /\ \A i \in DOMAIN list : list[i] \in Record /\ list[i].msg \in Msgs /\ list[i].buf \in Bufs
         /\ \A i \in DOMAIN list : list[i].msg # Free
  <1>1. list \in Seq(Record) /\ Len(list) \in Nat /\ DOMAIN list = 1..Len(list)
    BY LenProperties DEF TypeOK
  <1>2. \A r \in Record : r.msg \in Msgs /\ r.buf \in Bufs /\ r.msg # Free
    BY ListAssumption DEF Record
  <1>3. \A i \in DOMAIN list : list[i] \in Record
    BY ElementType
  <1> QED  BY <1>1, <1>2, <1>3

\* The steps that touch neither list nor heap.
LEMMA SoloLook ==
  ASSUME TypeOK, Solo, ~overlap',
         \/ SupplementBegin \/ SupplementGet \/ SupplementSend
         \/ (\E m \in Msgs : CancelBegin(m)) \/ CancelGet \/ CancelCheck
         \/ RestoreReports \/ RestoreOperations \/ RestoreDone
         \/ (\E t \in Recorders : RowInsert(t)) \/ UNCHANGED vars
  PROVE  Solo'
  <1>1. UNCHANGED <<list, heap, adding, made, queued, cancelled, dropped>>
    BY DEF SupplementBegin, SupplementGet, SupplementSend, CancelBegin, CancelGet,
           CancelCheck, RestoreReports, RestoreOperations, RestoreDone, RowInsert, vars,
           histVars
  <1>2. Alone /\ SupAt /\ CanAt /\ Once /\ Own /\ Lost
    BY DEF Solo
  <1>3. Once' /\ Lost'
    BY <1>1, <1>2 DEF Once, Lost, InList
  <1>4. Alone' /\ SupAt' /\ CanAt' /\ \A i : Deleting(i)' <=> Deleting(i)
    <2> USE DEF Alone, SupIdle, Looking, SupAt, CanAt, Deleting
    <2>1. CASE UNCHANGED vars \/ \E t \in Recorders : RowInsert(t)
      <3>1. can' = can /\ sup' = sup
        BY <2>1 DEF vars, RowInsert
      <3> QED  BY <1>1, <1>2, <3>1
    <2>2. CASE SupplementBegin
      <3>1. sup.pc = "idle" /\ sup'.pc = "get" /\ can' = can /\ ~Looking
        BY <2>2 DEF SupplementBegin, NoSup
      <3> QED  BY <1>1, <1>2, <3>1
    <2>3. CASE SupplementGet
      <3>1. /\ sup.pc = "get" /\ can' = can
            /\ \/ sup'.pc \in {"idle", "get"}
               \/ /\ sup'.pc \in {"free", "send"}
                  /\ sup'.i \in DOMAIN list /\ sup'.rec = list[sup'.i]
        BY <2>3, NoSupType, NextElementType DEF SupplementGet, TypeOK
      <3> QED  BY <1>1, <1>2, <3>1
    <2>4. CASE SupplementSend
      <3>1. /\ sup.pc = "send" /\ sup'.pc = "set" /\ can' = can
            /\ sup'.i = sup.i /\ sup'.rec = sup.rec
        BY <2>4 DEF SupplementSend, TypeOK
      <3> QED  BY <1>1, <1>2, <3>1
    <2>5. ASSUME NEW m \in Msgs, CancelBegin(m)
          PROVE  Alone' /\ SupAt' /\ CanAt' /\ \A i : Deleting(i)' <=> Deleting(i)
      <3>1. can.pc = "idle" /\ can'.pc = "get" /\ sup' = sup /\ sup.pc = "idle"
        BY <2>5 DEF CancelBegin, NoCan, CanIdle
      <3> QED  BY <1>1, <1>2, <3>1
    <2>6. CASE CancelGet
      <3>1. /\ can.pc = "get" /\ sup' = sup
            /\ \/ can'.pc \in {"check", "get"}
               \/ /\ can'.pc = "free" /\ can'.rec.msg = can'.ack
                  /\ can'.i \in DOMAIN list /\ can'.rec = list[can'.i]
        <4>1. CASE can' = [NoCan EXCEPT !.pc = "check"]
          BY <2>6, <4>1, TurnType DEF CancelGet
        <4>2. CASE ~(can' = [NoCan EXCEPT !.pc = "check"])
          BY <2>6, <4>2 DEF CancelGet, TypeOK
        <4> QED  BY <4>1, <4>2
      <3> QED  BY <1>1, <1>2, <3>1
    <2>7. CASE CancelCheck \/ RestoreReports \/ RestoreOperations \/ RestoreDone
      <3>1. sup' = sup
        BY <2>7 DEF CancelCheck, RestoreReports, RestoreOperations, RestoreDone
      <3>2. can.pc \in {"check", "begin", "reports", "operations"}
        BY <2>7 DEF CancelCheck, RestoreReports, RestoreOperations, RestoreDone
      <3>3. can'.pc \in {"idle", "begin", "reports", "operations"}
        <4>1. CASE CancelCheck
          BY <4>1, TurnType, NoCanType DEF CancelCheck
        <4>2. CASE RestoreReports
          BY <4>2 DEF RestoreReports, NoCan
        <4>3. CASE RestoreOperations
          BY <4>3 DEF RestoreOperations, NoCan
        <4>4. CASE RestoreDone
          BY <4>4, NoCanType DEF RestoreDone
        <4> QED  BY <2>7, <4>1, <4>2, <4>3, <4>4
      <3> QED  BY <1>1, <1>2, <3>1, <3>2, <3>3
    <2> QED  BY <2>1, <2>2, <2>3, <2>4, <2>5, <2>6, <2>7
  <1>5. Own'
    BY <1>1, <1>2, <1>4 DEF Own
  <1> QED  BY <1>3, <1>4, <1>5 DEF Solo

\* gb905_record_msg only appends, and takes a buffer nobody has.
LEMMA SoloCheck ==
  ASSUME TypeOK, Solo, Story, NEW t \in Recorders, NEW m \in Msgs,
         \/ RecordCheck(t, m) \/ (\E n \in Msgs : t = Socket /\ RestoreReport(n, m))
         \/ (t = Socket /\ RestoreOperation(m))
  PROVE  Solo'
  <1>1. /\ UNCHANGED <<list, heap, sup, queued, cancelled, dropped>>
        /\ Alone /\ SupAt /\ CanAt /\ Once /\ Own /\ Lost
        /\ Hands /\ Left /\ Billed /\ Contents
    BY DEF RecordCheck, RestoreReport, RestoreOperation, histVars, Solo, Story
  <1>2. adding' = adding \/ adding' = [adding EXCEPT ![t] = m]
    BY DEF RecordCheck, RestoreReport, RestoreOperation, Requeue
  <1>3. \A u \in Recorders : adding'[u] = adding[u] \/ (u = t /\ adding'[u] = m)
    BY <1>2 DEF TypeOK
  <1>4. /\ made \subseteq made' /\ m \in made' /\ m \notin cancelled /\ m \notin InList
        /\ \A u \in Recorders : u # t => adding[u] # m
    <2>1. CASE m \notin made /\ made' = made \union {m}
      BY <1>1, <2>1, ListAssumption DEF Once, InList
    <2>2. CASE t = Socket /\ RestoreOperation(m)
      <3>1. m \in rows \intersect Operations /\ made' = made /\ InList \intersect can.left = {}
            /\ m \in can.left
        BY <1>1, <2>2 DEF RestoreOperation, Left
      <3>2. \A u \in Recorders : u # t => adding[u] # m
        BY <1>1, <2>2, <3>1, ListAssumption DEF Hands, Hand
      <3> QED  BY <1>1, <3>1, <3>2 DEF Billed, Contents
    <2> QED  BY <2>1, <2>2 DEF RecordCheck, Unused, RestoreReport
  <1>5. Once'
    BY <1>1, <1>3, <1>4 DEF Once, InList
  <1>6. /\ \A i : Deleting(i)' <=> Deleting(i)
        /\ Looking' <=> Looking
        /\ can'.pc \in {"free", "delete"} => can' = can
    <2>1. CASE can' = can
      BY <1>1, <2>1 DEF Deleting, Looking
    <2>2. CASE can.pc \in {"reports", "operations"} /\ can'.pc = can.pc
      BY <1>1, <2>2 DEF Deleting, Looking
    <2> QED
      BY <2>1, <2>2 DEF RecordCheck, RestoreReport, RestoreOperation, TypeOK
  <1> QED
    BY <1>1, <1>5, <1>6 DEF Solo, Alone, SupIdle, SupAt, CanAt, Own, Lost, InList

LEMMA SoloAppend ==
  ASSUME TypeOK, Solo, Story, NEW t \in Recorders, RecordAppend(t)
  PROVE  Solo'
  <1> DEFINE a == adding[t]
  <1>1. PICK b \in Bufs : /\ heap[b] = Free /\ heap' = [heap EXCEPT ![b] = a]
                          /\ list' = Append(list, [msg |-> a, buf |-> b, try |-> 0])
    BY DEF RecordAppend
  <1>2. /\ a # Free /\ a \in Msgs /\ queued' = queued \union {a}
        /\ adding' = [adding EXCEPT ![t] = Free]
        /\ UNCHANGED <<sup, can, made, cancelled, dropped>>
        /\ Alone /\ SupAt /\ CanAt /\ Once /\ Own /\ Lost
    BY DEF RecordAppend, Return, Solo, TypeOK
  <1>3. PICK n \in Nat : n = Len(list) + 1
    BY SoloType
  <1>4. /\ DOMAIN list' = 1..n /\ DOMAIN list = 1..n-1 /\ n \in DOMAIN list'
        /\ list'[n] = [msg |-> a, buf |-> b, try |-> 0]
        /\ \A i \in DOMAIN list : i \in DOMAIN list' /\ i # n /\ list'[i] = list[i]
        /\ \A i \in DOMAIN list' : i # n => i \in DOMAIN list
    BY <1>1, <1>3, SoloType
  <1>5. list'[n].msg = a /\ list'[n].buf = b
    BY <1>4
  <1>6. \A u \in Recorders : IF u = t THEN adding'[u] = Free ELSE adding'[u] = adding[u]
    BY <1>2 DEF TypeOK
  <1>7. /\ a \in made /\ a \notin cancelled /\ \A i \in DOMAIN list : list[i].msg # a
        /\ \A u \in Recorders : u # t => adding[u] # a
    BY <1>2 DEF Once
  <1> HIDE DEF a
  <1>8. Once'
    <2>1. ASSUME NEW i \in DOMAIN list'
          PROVE  /\ list'[i].msg \in made' /\ list'[i].msg \notin cancelled'
                 /\ \A j \in DOMAIN list' : i # j => list'[i].msg # list'[j].msg
      BY <1>2, <1>4, <1>5, <1>7 DEF Once
    <2>2. ASSUME NEW u \in Recorders, adding'[u] # Free
          PROVE  /\ adding'[u] \in made' /\ adding'[u] \notin cancelled'
                 /\ \A i \in DOMAIN list' : list'[i].msg # adding'[u]
                 /\ \A v \in Recorders : v # u => adding'[v] # adding'[u]
      <3>1. u # t /\ adding'[u] = adding[u]
        BY <1>6, <2>2
      <3>2. \A v \in Recorders : v # u => adding'[v] # adding'[u]
        BY <1>2, <1>6, <2>2, <3>1 DEF Once
      <3>3. \A i \in DOMAIN list' : list'[i].msg # adding'[u]
        BY <1>2, <1>4, <1>5, <1>7, <2>2, <3>1 DEF Once
      <3> QED  BY <1>2, <2>2, <3>1, <3>2, <3>3 DEF Once
    <2>3. cancelled' \subseteq made'
      BY <1>2 DEF Once
    <2> QED  BY <2>1, <2>2, <2>3 DEF Once
  <1>9. Own'
    <2>1. \A i : Deleting(i)' <=> Deleting(i)
      BY <1>2 DEF Deleting
    <2>2. ASSUME NEW i \in DOMAIN list, ~Deleting(i)
          PROVE  list[i].buf # b /\ heap'[list[i].buf] = list[i].msg
      <3>1. heap[list[i].buf] = list[i].msg
        BY <1>2, <2>2 DEF Own
      <3>2. list[i].buf # b
        BY <1>1, <3>1, SoloType
      <3> QED  BY <1>1, <3>1, <3>2, SoloType DEF TypeOK
    <2>3. heap'[b] = a
      BY <1>1 DEF TypeOK
    <2> QED  BY <1>2, <1>4, <1>5, <2>1, <2>2, <2>3 DEF Own
  <1>10. Lost'
    BY <1>2, <1>4, <1>5 DEF Lost, InList
  <1>11. Alone' /\ SupAt' /\ CanAt'
    BY <1>2, <1>4 DEF Alone, SupIdle, Looking, SupAt, CanAt
  <1> QED  BY <1>8, <1>9, <1>10, <1>11 DEF Solo

LEMMA SoloNoMemory ==
  ASSUME TypeOK, Solo, Story, NEW t \in Recorders, RecordNoMemory(t)
  PROVE  Solo'
  <1>1. /\ UNCHANGED <<list, heap, sup, can, made, queued, cancelled, dropped>>
        /\ adding' = [adding EXCEPT ![t] = Free]
        /\ Alone /\ SupAt /\ CanAt /\ Once /\ Own /\ Lost
    BY DEF RecordNoMemory, Return, histVars, Solo
  <1>2. \A u \in Recorders : adding'[u] = adding[u] \/ adding'[u] = Free
    BY <1>1 DEF TypeOK
  <1>3. Once'
    BY <1>1, <1>2 DEF Once
  <1> QED
    BY <1>1, <1>3 DEF Solo, Alone, SupIdle, Looking, SupAt, CanAt, Own, Deleting, Lost, InList

\* A buffer is released: only the record about to be deleted had it.
LEMMA SoloFree ==
  ASSUME TypeOK, Solo, Story, SupplementFree \/ CancelFree
  PROVE  Solo'
  <1>1. /\ UNCHANGED <<list, adding, made, queued, cancelled, dropped, overlap>>
        /\ Alone /\ SupAt /\ CanAt /\ Once /\ Own /\ Lost
    BY DEF SupplementFree, CancelFree, histVars, Solo
  <1>2. PICK n \in DOMAIN list :
          /\ heap' = [heap EXCEPT ![list[n].buf] = Free]
          /\ ~Deleting(n) /\ \A i : Deleting(i)' <=> Deleting(i) \/ i = n
          /\ Alone' /\ SupAt' /\ CanAt'
    <2> USE DEF Alone, SupIdle, Looking, SupAt, CanAt, Deleting
    <2>1. CASE SupplementFree
      <3>1. /\ sup.pc = "free" /\ sup'.pc = "delete" /\ sup'.i = sup.i /\ sup'.rec = sup.rec
            /\ can' = can /\ heap' = [heap EXCEPT ![sup.rec.buf] = Free]
        BY <2>1 DEF SupplementFree, TypeOK
      <3> QED  BY <1>1, <3>1
    <2>2. CASE CancelFree
      <3>1. /\ can.pc = "free" /\ can'.pc = "delete" /\ can'.i = can.i /\ can'.rec = can.rec
            /\ can'.ack = can.ack
            /\ sup' = sup /\ heap' = [heap EXCEPT ![can.rec.buf] = Free]
        BY <2>2 DEF CancelFree, TypeOK
      <3> QED  BY <1>1, <3>1
    <2> QED  BY <2>1, <2>2
  <1>3. Own'
    <2>1. ASSUME NEW i \in DOMAIN list, ~Deleting(i), i # n
          PROVE  heap'[list[i].buf] = list[i].msg
      BY <1>1, <1>2, <2>1, SoloType DEF Own, TypeOK
    <2> QED  BY <1>1, <1>2, <2>1 DEF Own
  <1>4. Once' /\ Lost'
    BY <1>1 DEF Once, Lost, InList
  <1> QED  BY <1>2, <1>3, <1>4 DEF Solo

\* A record is deleted, and its message noted.
LEMMA SoloDelete ==
  ASSUME TypeOK, Solo, Story, SupplementDelete \/ CancelDelete
  PROVE  Solo'
  <1>1. /\ UNCHANGED <<heap, adding, made, queued, overlap>>
        /\ Alone /\ SupAt /\ CanAt /\ Once /\ Own /\ Lost
    BY DEF SupplementDelete, CancelDelete, Solo
  <1>2. PICK n \in DOMAIN list :
          /\ list' = RemoveAt(list, n)
          /\ \A i : Deleting(i) <=> i = n
          /\ \/ dropped' = dropped \union {list[n].msg} /\ cancelled' = cancelled
             \/ cancelled' = cancelled \union {list[n].msg} /\ dropped' = dropped
          /\ sup'.pc \in {"idle", "get"} /\ can'.pc \notin {"get", "free", "delete"}
    <2> USE DEF Alone, SupIdle, Looking, SupAt, CanAt, Deleting
    <2>1. CASE SupplementDelete
      <3>1. /\ sup.pc = "delete" /\ sup' = NextElement /\ can' = can
            /\ list' = (IF sup.i \in DOMAIN list THEN RemoveAt(list, sup.i) ELSE list)
            /\ dropped' = dropped \union {sup.rec.msg} /\ cancelled' = cancelled
        BY <2>1 DEF SupplementDelete
      <3> QED  BY <1>1, <3>1, NextElementType
    <2>2. CASE CancelDelete
      <3>1. /\ can.pc = "delete" /\ can' = [NoCan EXCEPT !.pc = "check"] /\ sup' = sup
            /\ list' = (IF can.i \in DOMAIN list THEN RemoveAt(list, can.i) ELSE list)
            /\ cancelled' = cancelled \union {can.ack} /\ dropped' = dropped
        BY <2>2 DEF CancelDelete
      <3>2. can'.pc = "check"
        BY <3>1, TurnType
      <3> QED  BY <1>1, <3>1, <3>2
    <2> QED  BY <2>1, <2>2
  <1>3. /\ DOMAIN list' = 1..Len(list)-1
        /\ \A i \in DOMAIN list' : list'[i] = IF i < n THEN list[i] ELSE list[i + 1]
    BY <1>2, RemoveAtType, SoloType
  <1> DEFINE old(i) == IF i < n THEN i ELSE i + 1
  <1>4. /\ \A i \in DOMAIN list' :
              old(i) \in DOMAIN list /\ old(i) # n /\ list'[i] = list[old(i)]
        /\ \A i, j \in DOMAIN list' : i # j => old(i) # old(j)
        /\ \A k \in DOMAIN list : k # n => \E i \in DOMAIN list' : list'[i] = list[k]
    <2>0. n \in 1..Len(list) /\ Len(list) \in Nat /\ DOMAIN list = 1..Len(list)
      BY SoloType
    <2>1. \A i \in DOMAIN list' :
             old(i) \in DOMAIN list /\ old(i) # n /\ list'[i] = list[old(i)]
      BY <1>3, <2>0
    <2>2. \A i, j \in DOMAIN list' : i # j => old(i) # old(j)
      BY <1>3, <2>0
    <2>3. ASSUME NEW k \in DOMAIN list, k # n
          PROVE  \E i \in DOMAIN list' : list'[i] = list[k]
      <3>1. CASE k < n
        <4>1. k \in DOMAIN list' /\ list'[k] = list[k]
          BY <1>3, <2>0, <3>1
        <4> QED  BY <4>1
      <3>2. CASE k > n
        <4>1. k - 1 \in DOMAIN list' /\ ~(k - 1 < n) /\ (k - 1) + 1 = k
          BY <1>3, <2>0, <3>2
        <4>2. list'[k - 1] = list[k]
          BY <1>3, <4>1
        <4> QED  BY <4>1, <4>2
      <3> QED  BY <2>0, <2>3, <3>1, <3>2
    <2> QED  BY <2>1, <2>2, <2>3
  <1> HIDE DEF old
  <1>5. Once'
    <2>1. cancelled' \subseteq made'
      BY <1>1, <1>2 DEF Once
    <2>2. ASSUME NEW i \in DOMAIN list'
          PROVE  /\ list'[i].msg \in made' /\ list'[i].msg \notin cancelled'
                 /\ \A j \in DOMAIN list' : i # j => list'[i].msg # list'[j].msg
      BY <1>1, <1>2, <1>4 DEF Once
    <2>3. ASSUME NEW t \in Recorders, adding'[t] # Free
          PROVE  /\ adding'[t] \in made' /\ adding'[t] \notin cancelled'
                 /\ \A i \in DOMAIN list' : list'[i].msg # adding'[t]
                 /\ \A u \in Recorders : u # t => adding'[u] # adding'[t]
      BY <1>1, <1>2, <1>4, <2>3 DEF Once
    <2> QED  BY <2>1, <2>2, <2>3 DEF Once
  <1>6. Own'
    BY <1>1, <1>2, <1>4 DEF Own
  <1>7. Lost'
    <2>1. ASSUME NEW m \in InList
          PROVE  m = list[n].msg \/ m \in InList'
      BY <1>4 DEF InList
    <2> QED  BY <1>1, <1>2, <2>1 DEF Lost
  <1>8. Alone' /\ SupAt' /\ CanAt'
    BY <1>2 DEF Alone, SupIdle, Looking, SupAt, CanAt
  <1> QED  BY <1>5, <1>6, <1>7, <1>8 DEF Solo

\* The copy goes back where it came from.
LEMMA SoloSet ==
  ASSUME TypeOK, Solo, Story, SupplementSet
  PROVE  Solo'
  <1>1. /\ UNCHANGED <<heap, adding, can, made, queued, cancelled, dropped, overlap>>
        /\ sup.pc = "set" /\ sup'.pc \in {"idle", "get"}
        /\ Alone /\ SupAt /\ CanAt /\ Once /\ Own /\ Lost
    BY NextElementType DEF SupplementSet, histVars, Solo
  <1>2. /\ sup.i \in DOMAIN list /\ list[sup.i] = sup.rec /\ ~Looking
        /\ list' = [list EXCEPT ![sup.i] = [sup.rec EXCEPT !.try = @ + 1]]
    BY <1>1 DEF SupAt, Alone, SupIdle, Looking, SupplementSet
  <1>3. sup.rec \in [msg : Msgs, buf : Bufs, try : 0..RetryCount+1]
    BY <1>1 DEF TypeOK, Record
  <1>4. /\ DOMAIN list' = DOMAIN list
        /\ \A i \in DOMAIN list : list'[i].msg = list[i].msg /\ list'[i].buf = list[i].buf
    <2>1. [sup.rec EXCEPT !.try = @ + 1].msg = sup.rec.msg
          /\ [sup.rec EXCEPT !.try = @ + 1].buf = sup.rec.buf
      BY <1>3
    <2> HIDE DEF Record
    <2> QED  BY <1>2, <2>1, SoloType
  <1>5. \A i : ~Deleting(i) /\ ~Deleting(i)'
    BY <1>1, <1>2 DEF Deleting, Looking
  <1>6. Once' /\ Own'
    BY <1>1, <1>4, <1>5 DEF Once, Own
  <1>7. InList' = InList
    BY <1>4 DEF InList
  <1>8. Alone' /\ SupAt' /\ CanAt' /\ Lost'
    BY <1>1, <1>2, <1>7 DEF Alone, SupIdle, Looking, SupAt, CanAt, Lost
  <1> QED  BY <1>6, <1>8 DEF Solo

\* gb905_record_msg returned: what was in hand is, at most, in the list and in hand still.
LEMMA StoryReturn ==
  ASSUME TypeOK, Once, Story, NEW t \in Recorders, adding[t] # Free, Return(t),
         InList' \subseteq InList \union {adding[t]},
         UNCHANGED <<rows, can, made, cancelled, of, parted>>
  PROVE  Story'
  <1> DEFINE a == adding[t]
  <1>0. Hands /\ SocketHand /\ Left /\ Billed /\ Contents /\ Single /\ Late
    BY DEF Story
  <1>1. /\ a \in Msgs /\ a # Free /\ saving[t] = Free /\ a \in made /\ a \notin cancelled
        /\ a \in Hand(t) /\ Free \notin Msgs
    BY <1>0, ListAssumption DEF TypeOK, Hands, Once, Hand
  <1>2. /\ \A u \in Recorders : u # t => adding'[u] = adding[u] /\ saving'[u] = saving[u]
        /\ adding'[t] = Free
        /\ saving'[t] = IF t = Socket /\ Restoring THEN Free ELSE a
    BY <1>1 DEF Return, TypeOK
  <1> HIDE DEF a
  <1>3. \A u \in Recorders : /\ Hand(u)' \subseteq Hand(u)
                             /\ adding'[u] \in {Free, adding[u]}
                             /\ saving'[u] \in {Free, saving[u], a}
    BY <1>1, <1>2 DEF Hand
  <1>4. Hands'
    BY <1>0, <1>1, <1>2, <1>3 DEF Hands
  <1>5. SocketHand'
    <2>1. CanIdle => Hand(Socket)' \subseteq Operations
      BY <1>0, <1>3, ListAssumption DEF SocketHand
    <2>2. ~CanIdle => saving'[Socket] = Free
      BY <1>0, <1>1, <1>2, ListAssumption DEF SocketHand, CanIdle, Restoring, TypeOK, a
    <2>3. /\ can.pc \in {"get", "free", "delete", "check", "begin"} => adding'[Socket] = Free
          /\ can.pc = "reports" => adding'[Socket] \notin Operations
      BY <1>0, <1>1, <1>3, ListAssumption DEF SocketHand
    <2> QED  BY <2>1, <2>2, <2>3 DEF SocketHand, CanIdle
  <1>6. Left'
    <2>1. can.pc \in {"begin", "reports"} => a \notin Operations
      BY <1>0, <1>1, ListAssumption DEF SocketHand, Hands, a
    <2>2. can.pc = "operations" => a \notin can.left
      BY <1>0, <1>1, ListAssumption DEF Left, Hands, a
    <2>3. can.pc = "operations" => adding'[Socket] \notin can.left
      BY <1>0, <1>1, <1>3, ListAssumption DEF Left
    <2> HIDE DEF a
    <2> QED  BY <1>0, <2>1, <2>2, <2>3 DEF Left, a
  <1>7. Billed'
    BY <1>0, <1>1, <1>2, ListAssumption DEF Billed, Looking, TypeOK
  <1>8. Contents'
    BY <1>0 DEF Contents
  <1>9. Single'
    <2>1. Live' \subseteq Live
      BY <1>1, <1>3 DEF Live, a
    <2> QED  BY <1>0, <2>1 DEF Single
  <1>10. Late'
    <2>1. Looking => can.ack # Free
      BY <1>1 DEF TypeOK
    <2>2. \A x \in Sending' : x = Free \/ x \in Sending
      BY <1>1, <1>3 DEF Sending, a
    <2> QED  BY <1>0, <2>1, <2>2 DEF Late, Looking
  <1> QED  BY <1>4, <1>5, <1>6, <1>7, <1>8, <1>9, <1>10 DEF Story

\* The list at most shrinks, and gb905_record_cancel goes on.
LEMMA StoryTurn ==
  ASSUME TypeOK, Story, InList' \subseteq InList, SocketHand', Left',
         Looking' => Looking /\ can'.ack = can.ack,
         UNCHANGED <<adding, saving, rows, made, cancelled, of, parted>>
  PROVE  Story'
  <1>0. Hands /\ Billed /\ Contents /\ Single /\ Late
    BY DEF Story
  <1>1. Hands' /\ Contents'
    BY <1>0 DEF Hands, Hand, Contents
  <1>2. Billed' /\ Late'
    BY <1>0 DEF Billed, Late, Sending
  <1>3. Single'
    <2>1. Live' \subseteq Live
      BY DEF Live, Hand
    <2> QED  BY <1>0, <2>1 DEF Single
  <1> QED  BY <1>1, <1>2, <1>3 DEF Story

\* A deletion removes what no other record carries.
LEMMA Removed ==
  ASSUME TypeOK, Once, NEW n \in DOMAIN list, list' = RemoveAt(list, n)
  PROVE  InList' \subseteq InList \ {list[n].msg}
  <1>1. /\ n \in 1..Len(list) /\ Len(list) \in Nat /\ DOMAIN list = 1..Len(list)
        /\ DOMAIN list' = 1..Len(list)-1
        /\ \A i \in DOMAIN list' : list'[i] = IF i < n THEN list[i] ELSE list[i + 1]
    BY RemoveAtType, SoloType
  <1>2. ASSUME NEW i \in DOMAIN list'
        PROVE  \E k \in DOMAIN list : k # n /\ list'[i] = list[k]
    <2>1. CASE i < n
      <3>1. i \in DOMAIN list /\ i # n /\ list'[i] = list[i]
        BY <1>1, <1>2, <2>1
      <3> QED  BY <3>1
    <2>2. CASE ~(i < n)
      <3>1. i + 1 \in DOMAIN list /\ i + 1 # n /\ list'[i] = list[i + 1]
        BY <1>1, <1>2, <2>2
      <3> QED  BY <3>1
    <2> QED  BY <2>1, <2>2
  <1> QED  BY <1>2 DEF InList, Once

\* gb905_record_supplement adds nothing to the list.
LEMMA StorySupplement ==
  ASSUME TypeOK, Solo, Story, Supplement \/ UNCHANGED vars
  PROVE  Story'
  <1>1. UNCHANGED <<adding, saving, rows, can, made, cancelled, of, parted>>
    BY DEF Supplement, SupplementBegin, SupplementGet, SupplementFree, SupplementDelete,
           SupplementSend, SupplementSet, histVars, vars
  <1>2. InList' \subseteq InList
    <2>1. CASE list' = list
      BY <2>1 DEF InList
    <2>2. CASE SupplementDelete
      <3>1. ASSUME NEW i \in DOMAIN list, list' = RemoveAt(list, i)
            PROVE  InList' \subseteq InList
        BY <3>1, Removed DEF Solo
      <3>2. list' = list \/ (sup.i \in DOMAIN list /\ list' = RemoveAt(list, sup.i))
        BY <2>2 DEF SupplementDelete
      <3> QED  BY <2>1, <3>1, <3>2
    <2>3. CASE SupplementSet
      <3>1. \A i \in DOMAIN list : sup.i = i => list[i] = sup.rec
        BY <2>3 DEF SupplementSet, Solo, SupAt
      <3>2. sup.rec \in [msg : Msgs, buf : Bufs, try : 0..RetryCount+1]
        BY <2>3 DEF SupplementSet, TypeOK, Record
      <3>3. [sup.rec EXCEPT !.try = @ + 1].msg = sup.rec.msg
        BY <3>2
      <3>4. DOMAIN list' = DOMAIN list /\ \A i \in DOMAIN list : list'[i].msg = list[i].msg
        BY <2>3, <3>1, <3>3, SoloType DEF SupplementSet
      <3> QED  BY <3>4 DEF InList
    <2> QED
      BY <2>1, <2>2, <2>3 DEF Supplement, SupplementBegin, SupplementGet, SupplementFree,
         SupplementSend, vars
  <1>3. SocketHand' /\ Left'
    <2>1. SocketHand /\ Left
      BY DEF Story
    <2> QED  BY <1>1, <1>2, <2>1 DEF SocketHand, Hand, CanIdle, Left
  <1> QED  BY <1>1, <1>2, <1>3, StoryTurn DEF Looking

\* The steps of gb905_record_cancel that read, and the turns of a restore.
LEMMA StoryLook ==
  ASSUME TypeOK, Story,
         \/ CancelGet \/ CancelFree \/ CancelCheck
         \/ RestoreReports \/ RestoreOperations \/ RestoreDone
  PROVE  Story'
  <1>0. /\ SocketHand /\ Left /\ Free \notin Msgs /\ Operations \subseteq Msgs
        /\ rows \subseteq Msgs
    BY ListAssumption DEF Story, TypeOK
  <1>1. /\ UNCHANGED <<list, adding, saving, rows, made, cancelled, of, parted>>
        /\ InList' = InList /\ can.pc # "idle"
    BY DEF CancelGet, CancelFree, CancelCheck, RestoreReports, RestoreOperations, RestoreDone,
           histVars, InList
  <1>2. saving[Socket] = Free /\ adding[Socket] = Free
    BY <1>0, <1>1 DEF SocketHand, CanIdle, CancelGet, CancelFree, CancelCheck, RestoreReports,
       RestoreOperations, RestoreDone
  <1>3. SocketHand'
    BY <1>0, <1>1, <1>2 DEF SocketHand, Hand
  <1>4. Left' /\ (Looking' => Looking /\ can'.ack = can.ack)
    <2>1. CASE CancelGet
      <3>1. /\ can.pc = "get" /\ can'.pc \in {"get", "free", "check"}
            /\ can'.pc # "check" => can'.ack = can.ack
        <4>1. CASE can' = [NoCan EXCEPT !.pc = "check"]
          BY <2>1, <4>1, TurnType DEF CancelGet
        <4>2. CASE ~(can' = [NoCan EXCEPT !.pc = "check"])
          BY <2>1, <4>2 DEF CancelGet, TypeOK
        <4> QED  BY <4>1, <4>2
      <3> QED  BY <3>1 DEF Left, Looking
    <2>2. CASE CancelFree
      <3>1. can.pc = "free" /\ can'.pc = "delete" /\ can'.ack = can.ack
        BY <2>2 DEF CancelFree, TypeOK
      <3> QED  BY <3>1 DEF Left, Looking
    <2>3. CASE CancelCheck
      <3>1. can'.pc = "idle" \/ (can'.pc = "begin" /\ list = <<>>)
        BY <2>3, TurnType, NoCanType DEF CancelCheck
      <3>2. can'.pc = "begin" => InList = {}
        BY <3>1 DEF InList
      <3> QED  BY <1>1, <3>1, <3>2 DEF Left, Looking
    <2>4. CASE RestoreReports
      <3>1. can.pc = "begin" /\ can'.pc = "reports" /\ can'.left = rows \ Operations
        BY <2>4 DEF RestoreReports, NoCan
      <3> QED  BY <1>0, <1>1, <3>1 DEF Left, Looking
    <2>5. CASE RestoreOperations
      <3>1. /\ can.pc = "reports" /\ can'.pc = "operations"
            /\ can'.left = rows \intersect Operations
        BY <2>5 DEF RestoreOperations, NoCan
      <3> QED  BY <1>0, <1>1, <1>2, <3>1 DEF Left, Looking
    <2>6. CASE RestoreDone
      <3>1. can'.pc = "idle"
        BY <2>6, NoCanType DEF RestoreDone
      <3> QED  BY <3>1 DEF Left, Looking
    <2> QED  BY <2>1, <2>2, <2>3, <2>4, <2>5, <2>6
  <1> QED  BY <1>1, <1>3, <1>4, StoryTurn

\* A new message has no row and no other carries what it says.
LEMMA StoryCheck ==
  ASSUME TypeOK, Once, Story, NEW t \in Recorders, NEW m \in Msgs, RecordCheck(t, m)
  PROVE  Story'
  <1>0. /\ Hands /\ SocketHand /\ Left /\ Billed /\ Contents /\ Single /\ Late
        /\ Free \notin Msgs /\ Operations \subseteq Msgs /\ rows \subseteq Msgs
    BY ListAssumption DEF Story, TypeOK
  <1>1. /\ m \notin made /\ made' = made \union {m} /\ adding[t] = Free /\ saving[t] = Free
        /\ (t = Socket => can.pc = "idle") /\ (m \in Operations <=> t = Socket)
        /\ InList' = InList
        /\ UNCHANGED <<rows, can, cancelled, of, parted>>
    BY DEF RecordCheck, Unused, histVars, InList, CanIdle
  <1>2. /\ \A u \in Recorders : u # t => adding'[u] = adding[u] /\ saving'[u] = saving[u]
        /\ \/ adding'[t] = Free /\ saving'[t] = m
           \/ adding'[t] = m /\ saving'[t] = Free
    BY <1>1 DEF RecordCheck, TypeOK
  <1>3. /\ \A u \in Recorders : u # t => Hand(u)' = Hand(u)
        /\ Hand(t)' = {m}
    BY <1>0, <1>2 DEF Hand
  <1>4. /\ \A u \in Recorders : Hand(u) \subseteq made
        /\ InList \subseteq made /\ rows \subseteq made /\ cancelled \subseteq made
    BY <1>0 DEF Once, Hands, Hand, Contents, InList
  <1>5. Hands'
    <2>1. ASSUME NEW u \in Recorders
          PROVE  /\ adding'[u] = Free \/ saving'[u] = Free
                 /\ saving'[u] \in made' \union {Free}
                 /\ u # Socket => Hand(u)' \intersect (rows' \union Operations) = {}
      BY <1>0, <1>1, <1>2, <1>3, <1>4 DEF Hands
    <2>2. ASSUME NEW u \in Recorders, NEW v \in Recorders, u # v
          PROVE  Hand(u)' \intersect Hand(v)' = {}
      BY <1>0, <1>1, <1>3, <1>4, <2>2 DEF Hands
    <2> QED  BY <2>1, <2>2 DEF Hands
  <1>6. SocketHand'
    <2>1. CASE t = Socket
      BY <1>1, <1>3, <2>1 DEF SocketHand, CanIdle
    <2>2. CASE t # Socket
      BY <1>0, <1>1, <1>2, <1>3, <2>2, ListAssumption DEF SocketHand, CanIdle
    <2> QED  BY <2>1, <2>2
  <1>7. Left'
    <2>1. t # Socket => adding'[Socket] = adding[Socket]
      BY <1>2, ListAssumption
    <2> QED  BY <1>0, <1>1, <2>1 DEF Left
  <1>8. Billed'
    <2>1. saving'[Socket] \in {m, Free, saving[Socket]}
      BY <1>2, ListAssumption
    <2>2. Free \notin cancelled
      BY <1>0 DEF TypeOK
    <2> QED  BY <1>0, <1>1, <1>4, <2>1, <2>2 DEF Billed, Looking
  <1>9. Contents'
    BY <1>0, <1>1 DEF Contents
  <1>10. Single'
    <2>1. Live' \subseteq Live \union {m} /\ Live \subseteq made
      BY <1>1, <1>3, <1>4 DEF Live
    <2>2. of[m] = m /\ \A x \in made : of[x] \in made
      BY <1>0, <1>1, <1>4 DEF Contents, TypeOK
    <2> QED  BY <1>0, <1>1, <1>4, <2>1, <2>2 DEF Single
  <1>11. Late'
    <2>1. Looking => can.ack # Free /\ can.ack \in made
      BY <1>0 DEF TypeOK, Billed
    <2>2. \A x \in Sending' : x = Free \/ x = m \/ x \in Sending
      BY <1>2 DEF Sending
    <2> QED  BY <1>0, <1>1, <2>1, <2>2 DEF Late, Looking
  <1> QED  BY <1>5, <1>6, <1>7, <1>8, <1>9, <1>10, <1>11 DEF Story

\* The row of a sent message: an acknowledgement treated before is behind it.
LEMMA StoryInsert ==
  ASSUME TypeOK, Once, Story, NEW t \in Recorders, RowInsert(t)
  PROVE  Story'
  <1> DEFINE a == saving[t]
  <1>0. /\ Hands /\ SocketHand /\ Left /\ Billed /\ Contents /\ Single /\ Late
        /\ Free \notin Msgs /\ Operations \subseteq Msgs /\ rows \subseteq Msgs
        /\ Socket \in Recorders
    BY ListAssumption DEF Story, TypeOK
  <1>1. /\ a # Free /\ a \in Msgs /\ a \in made /\ adding[t] = Free /\ a \in Hand(t)
        /\ t = Socket => can.pc = "idle" /\ a \notin cancelled
        /\ t # Socket => a \notin Operations /\ can.pc # "reports"
        /\ rows' = rows \union {a} /\ saving' = [saving EXCEPT ![t] = Free]
        /\ InList' = InList
        /\ UNCHANGED <<adding, can, made, cancelled, of, parted>>
    BY <1>0 DEF RowInsert, Hands, SocketHand, Billed, Hand, CanIdle, histVars, InList, TypeOK
  <1>2. /\ \A u \in Recorders : u # t => Hand(u)' = Hand(u) /\ saving'[u] = saving[u]
        /\ Hand(t)' = {} /\ saving'[t] = Free
    BY <1>1 DEF Hand, TypeOK
  <1> HIDE DEF a
  <1>3. Hands'
    <2>1. ASSUME NEW u \in Recorders
          PROVE  /\ adding'[u] = Free \/ saving'[u] = Free
                 /\ saving'[u] \in made' \union {Free}
                 /\ u # Socket => Hand(u)' \intersect (rows' \union Operations) = {}
      BY <1>0, <1>1, <1>2 DEF Hands
    <2>2. ASSUME NEW u \in Recorders, NEW v \in Recorders, u # v
          PROVE  Hand(u)' \intersect Hand(v)' = {}
      BY <1>0, <1>2, <2>2 DEF Hands
    <2> QED  BY <2>1, <2>2 DEF Hands
  <1>4. SocketHand'
    BY <1>0, <1>1, <1>2 DEF SocketHand, CanIdle
  <1>5. Left'
    BY <1>0, <1>1 DEF Left
  <1>6. Billed'
    <2>1. Free \notin cancelled
      BY <1>0 DEF TypeOK
    <2> QED  BY <1>0, <1>1, <1>2, <2>1 DEF Billed, Looking
  <1>7. Contents'
    BY <1>0, <1>1 DEF Contents
  <1>8. Single'
    <2>1. Live' \subseteq Live
      BY <1>1, <1>2 DEF Live
    <2> QED  BY <1>0, <1>1, <2>1 DEF Single
  <1>9. Late'
    <2>1. a \in Sending
      BY DEF Sending, a
    <2>2. \A x \in Sending' : x = Free \/ x \in Sending
      BY <1>1, <1>2 DEF Sending
    <2>3. Looking => can.ack # Free
      BY <1>0 DEF TypeOK
    <2> QED  BY <1>0, <1>1, <2>1, <2>2, <2>3 DEF Late, Looking
  <1> QED  BY <1>3, <1>4, <1>5, <1>6, <1>7, <1>8, <1>9 DEF Story

\* An acknowledgement settles the row; if the message is still in the hands of who sent
\* it, row and record part.
LEMMA StoryBegin ==
  ASSUME TypeOK, Story, NEW m \in Msgs, CancelBegin(m)
  PROVE  Story'
  <1>0. Hands /\ SocketHand /\ Left /\ Billed /\ Contents /\ Single
    BY DEF Story
  <1>1. /\ adding[Socket] = Free /\ saving[Socket] = Free /\ m \in made
        /\ rows' = rows \ {m} /\ parted \subseteq parted'
        /\ can'.pc = "get" /\ can'.ack = m
        /\ InList' = InList
        /\ UNCHANGED <<adding, saving, made, cancelled, of>>
    BY DEF CancelBegin, NoCan, histVars, InList
  <1>2. Hands'
    BY <1>0, <1>1 DEF Hands, Hand
  <1>3. SocketHand' /\ Left'
    BY <1>1 DEF SocketHand, Left, CanIdle
  <1>4. Billed' /\ Contents'
    BY <1>0, <1>1 DEF Billed, Contents, Looking
  <1>5. Single'
    <2>1. Live' \subseteq Live
      BY <1>1 DEF Live, Hand
    <2> QED  BY <1>0, <1>1, <2>1 DEF Single
  <1>6. Late'
    <2>1. m \in Sending => of[m] \in parted'
      BY DEF CancelBegin
    <2> QED  BY <1>1, <2>1 DEF Late, Looking, Sending
  <1> QED  BY <1>2, <1>3, <1>4, <1>5, <1>6 DEF Story

\* What is deleted was the last of its content, or row and record have parted.
LEMMA StoryDelete ==
  ASSUME TypeOK, Solo, Story, CancelDelete
  PROVE  Story'
  <1> DEFINE a == can.ack
  <1>0. /\ Hands /\ SocketHand /\ Left /\ Billed /\ Contents /\ Single /\ Late
        /\ Free \notin Msgs /\ rows \subseteq Msgs
    BY ListAssumption DEF Story, TypeOK
  <1>1. /\ can.pc = "delete" /\ can'.pc = "check" /\ Looking
        /\ cancelled' = cancelled \union {a}
        /\ UNCHANGED <<adding, saving, rows, made, of, parted>>
    BY TurnType DEF CancelDelete, Looking
  <1>2. InList' \subseteq InList \ {a} /\ a \in InList /\ a \in Msgs
    <2>1. /\ can.i \in DOMAIN list /\ list[can.i].msg = a
          /\ list' = RemoveAt(list, can.i) /\ Once
      BY <1>1 DEF CancelDelete, Solo, CanAt
    <2>2. InList' \subseteq InList \ {list[can.i].msg}
      BY <2>1, Removed
    <2>3. a \in InList
      BY <2>1 DEF InList
    <2> QED  BY <2>1, <2>2, <2>3, <1>1 DEF TypeOK
  <1> HIDE DEF a
  <1>3. Hands' /\ Contents'
    BY <1>0, <1>1 DEF Hands, Hand, Contents
  <1>4. SocketHand'
    BY <1>0, <1>1 DEF SocketHand, Hand, CanIdle
  <1>5. Left'
    BY <1>1 DEF Left
  <1>6. Billed'
    <2>1. saving[Socket] = Free /\ a \notin rows \intersect Operations
      BY <1>0, <1>1 DEF SocketHand, CanIdle, Billed, a
    <2> QED  BY <1>0, <1>1, <1>2, <2>1 DEF Billed, Looking
  <1>7. Late'
    BY <1>1 DEF Late, Looking
  <1>8. Single'
    <2>1. Live' \subseteq Live /\ a \in Live
      BY <1>1, <1>2 DEF Live, Hand
    <2>2. ASSUME NEW x \in Live', of[x] = of[a], of[x] \notin parted
          PROVE  FALSE
      <3>1. x = a
        BY <1>0, <2>1, <2>2 DEF Single
      <3>2. a \in rows \/ \E t \in Recorders : a \in Hand(t)
        BY <1>1, <1>2, <3>1 DEF Live, Hand
      <3>3. a \in rows \union Sending
        BY <3>2 DEF Sending, Hand
      <3> QED  BY <1>0, <1>1, <2>2, <3>1, <3>3 DEF Late, a
    <2> QED  BY <1>0, <1>1, <2>1, <2>2 DEF Single
  <1> QED  BY <1>3, <1>4, <1>5, <1>6, <1>7, <1>8 DEF Story

\* A restored report goes on under a new number, in its row as well.
LEMMA StoryReport ==
  ASSUME TypeOK, Once, Story, NEW m \in Msgs, NEW n \in Msgs, RestoreReport(m, n)
  PROVE  Story'
  <1>0. /\ Hands /\ SocketHand /\ Left /\ Billed /\ Contents /\ Single
        /\ Free \notin Msgs /\ Operations \subseteq Msgs /\ rows \subseteq Msgs
        /\ Socket \in Recorders
    BY ListAssumption DEF Story, TypeOK
  <1>1. /\ can.pc = "reports" /\ can'.pc = "reports" /\ can'.left = can.left \ {m}
        /\ m \in can.left /\ adding[Socket] = Free /\ saving[Socket] = Free
        /\ n \notin made /\ n \notin Operations /\ made' = made \union {n}
        /\ rows' = (rows \ {m}) \union {n} /\ parted \subseteq parted'
        /\ InList' = InList
        /\ UNCHANGED <<saving, cancelled>>
    BY <1>0 DEF RestoreReport, SocketHand, CanIdle, TypeOK, histVars, InList
  <1>2. m \in rows /\ m \notin Operations /\ m \in made /\ m # n
    BY <1>0, <1>1 DEF Left, Contents
  <1>3. of'[n] = of[m] /\ \A x \in Msgs : x # n => of'[x] = of[x]
    BY DEF RestoreReport, TypeOK
  <1>4. /\ \A u \in Recorders : u # Socket => adding'[u] = adding[u]
        /\ adding'[Socket] \in {Free, n}
    BY <1>0, <1>1 DEF RestoreReport, Requeue, TypeOK
  <1>5. /\ \A u \in Recorders : u # Socket => Hand(u)' = Hand(u)
        /\ Hand(Socket)' \subseteq {n} /\ Hand(Socket) = {}
    BY <1>1, <1>4 DEF Hand
  <1>6. /\ \A u \in Recorders : Hand(u) \subseteq made
        /\ InList \subseteq made /\ rows \subseteq made /\ cancelled \subseteq made
    BY <1>0 DEF Once, Hands, Hand, Contents, InList
  <1>7. Hands'
    <2>1. ASSUME NEW u \in Recorders
          PROVE  /\ adding'[u] = Free \/ saving'[u] = Free
                 /\ saving'[u] \in made' \union {Free}
                 /\ u # Socket => Hand(u)' \intersect (rows' \union Operations) = {}
      BY <1>0, <1>1, <1>4, <1>5, <1>6 DEF Hands
    <2>2. ASSUME NEW u \in Recorders, NEW v \in Recorders, u # v
          PROVE  Hand(u)' \intersect Hand(v)' = {}
      BY <1>0, <1>1, <1>5, <1>6, <2>2 DEF Hands
    <2> QED  BY <2>1, <2>2 DEF Hands
  <1>8. SocketHand'
    BY <1>0, <1>1, <1>4 DEF SocketHand, CanIdle
  <1>9. Left'
    BY <1>0, <1>1 DEF Left
  <1>10. Billed'
    BY <1>0, <1>1 DEF Billed, Looking
  <1>11. Contents'
    <2>1. rows' \subseteq made'
      BY <1>1, <1>6
    <2>2. ASSUME NEW x \in Msgs
          PROVE  IF x \in made' THEN of'[x] \in made' ELSE of'[x] = x
      BY <1>0, <1>1, <1>2, <1>3, <2>2 DEF Contents
    <2> QED  BY <2>1, <2>2 DEF Contents
  <1>12. m \in Live' => of[m] \in parted'
    <2>1. ASSUME m \in Live' PROVE m \in InList
      <3>1. m \notin rows' /\ m \notin Hand(Socket)'
        BY <1>1, <1>2, <1>5
      <3>2. \A u \in Recorders : m \notin Hand(u)'
        BY <1>0, <1>2, <1>5, <3>1 DEF Hands
      <3> QED  BY <1>1, <2>1, <3>1, <3>2 DEF Live
    <2>2. m \in InList => of[m] \in parted'
      BY DEF RestoreReport, InList
    <2> QED  BY <2>1, <2>2
  <1>13. /\ Live' \subseteq Live \union {n} /\ n \notin Live /\ m \in Live
         /\ Live \subseteq made /\ made \subseteq Msgs
    <2>1. Live' \subseteq Live \union {n}
      BY <1>1, <1>5 DEF Live
    <2>2. Live \subseteq made /\ m \in Live
      BY <1>2, <1>6 DEF Live
    <2> QED  BY <1>1, <2>1, <2>2 DEF TypeOK
  <1>14. Single'
    <2>1. ASSUME NEW x \in Live', NEW y \in Live', of'[x] = of'[y], of'[x] \notin parted'
          PROVE  x = y
      <3>1. CASE x # n /\ y # n
        BY <1>0, <1>1, <1>3, <1>13, <2>1, <3>1 DEF Single
      <3>2. ASSUME NEW z \in Live', z # n, of'[z] = of'[n], of'[z] \notin parted'
            PROVE  FALSE
        <4>1. z \in Live /\ of[z] = of[m] /\ of[z] \notin parted
          BY <1>1, <1>3, <1>13, <3>2
        <4>2. z = m
          BY <1>0, <1>13, <4>1 DEF Single
        <4> QED  BY <1>3, <1>12, <1>13, <3>2, <4>1, <4>2
      <3> QED  BY <2>1, <3>1, <3>2
    <2>2. ASSUME NEW x \in Live', NEW c \in cancelled', of'[x] = of'[c]
          PROVE  of'[x] \in parted'
      <3>1. c \in cancelled /\ of'[c] = of[c]
        BY <1>1, <1>3, <1>6, <1>13, <2>2
      <3>2. CASE x # n
        BY <1>0, <1>1, <1>3, <1>13, <2>2, <3>1, <3>2 DEF Single
      <3>3. CASE x = n
        BY <1>0, <1>1, <1>3, <1>13, <2>2, <3>1, <3>3 DEF Single
      <3> QED  BY <3>2, <3>3
    <2> QED  BY <2>1, <2>2 DEF Single
  <1>15. Late'
    BY <1>1 DEF Late, Looking
  <1> QED
    BY <1>7, <1>8, <1>9, <1>10, <1>11, <1>14, <1>15 DEF Story

\* A restored operation record goes on under its own number.
LEMMA StoryOperation ==
  ASSUME TypeOK, Once, Story, NEW m \in Msgs, RestoreOperation(m)
  PROVE  Story'
  <1>0. /\ Hands /\ SocketHand /\ Left /\ Billed /\ Contents /\ Single
        /\ Free \notin Msgs /\ Operations \subseteq Msgs /\ rows \subseteq Msgs
        /\ Socket \in Recorders
    BY ListAssumption DEF Story, TypeOK
  <1>1. /\ can.pc = "operations" /\ can'.pc = "operations" /\ can'.left = can.left \ {m}
        /\ m \in can.left /\ adding[Socket] = Free /\ saving[Socket] = Free
        /\ InList' = InList
        /\ UNCHANGED <<saving, rows, made, cancelled, of, parted>>
    BY <1>0 DEF RestoreOperation, SocketHand, CanIdle, TypeOK, histVars, InList
  <1>2. m \in rows /\ m \in Operations /\ can.left \subseteq rows \intersect Operations
        /\ InList \intersect can.left = {} /\ can.left \subseteq Msgs
    BY <1>0, <1>1 DEF Left
  <1>4. /\ \A u \in Recorders : u # Socket => adding'[u] = adding[u]
        /\ adding'[Socket] \in {Free, m}
    BY <1>0, <1>1 DEF RestoreOperation, Requeue, TypeOK
  <1>5. /\ \A u \in Recorders : u # Socket => Hand(u)' = Hand(u)
        /\ Hand(Socket)' \subseteq {m} /\ Hand(Socket) = {}
    BY <1>1, <1>4 DEF Hand
  <1>7. Hands'
    <2>1. ASSUME NEW u \in Recorders
          PROVE  /\ adding'[u] = Free \/ saving'[u] = Free
                 /\ saving'[u] \in made' \union {Free}
                 /\ u # Socket => Hand(u)' \intersect (rows' \union Operations) = {}
      BY <1>0, <1>1, <1>4, <1>5 DEF Hands
    <2>2. ASSUME NEW u \in Recorders, NEW v \in Recorders, u # v
          PROVE  Hand(u)' \intersect Hand(v)' = {}
      BY <1>0, <1>2, <1>5, <2>2 DEF Hands
    <2> QED  BY <2>1, <2>2 DEF Hands
  <1>8. SocketHand'
    BY <1>0, <1>1, <1>4 DEF SocketHand, CanIdle
  <1>9. Left'
    BY <1>0, <1>1, <1>2, <1>4 DEF Left
  <1>10. Billed' /\ Contents'
    BY <1>0, <1>1 DEF Billed, Contents, Looking
  <1>11. Single'
    <2>1. Live' \subseteq Live
      BY <1>1, <1>2, <1>5 DEF Live
    <2> QED  BY <1>0, <1>1, <2>1 DEF Single
  <1>12. Late'
    BY <1>1 DEF Late, Looking
  <1> QED  BY <1>7, <1>8, <1>9, <1>10, <1>11, <1>12 DEF Story

LEMMA SoloInvariant == Spec => [](TypeOK /\ SoloInv)
<1>1. Init => SoloInv
  <2> SUFFICES ASSUME Init PROVE Solo /\ Story
    BY DEF SoloInv
  <2>1. /\ list = <<>> /\ sup.pc = "idle" /\ can.pc = "idle" /\ rows = {} /\ made = {}
        /\ cancelled = {} /\ queued = {}
        /\ \A t \in Recorders : adding[t] = Free /\ saving[t] = Free
        /\ \A m \in Msgs : of[m] = m
    BY DEF Init, NoSup, NoCan
  <2>2. Solo
    BY <2>1 DEF Solo, Alone, SupIdle, Looking, SupAt, CanAt, Once, Own, Lost
  <2>3. InList = {} /\ \A t \in Recorders : Hand(t) = {}
    BY <2>1 DEF InList, Hand
  <2>4. Hands /\ SocketHand
    BY <2>1, <2>3, ListAssumption DEF Hands, SocketHand, CanIdle
  <2>5. Left /\ Billed /\ Contents /\ Late
    BY <2>1 DEF Left, Billed, Contents, Late, Looking
  <2>6. Single
    BY <2>1, <2>3 DEF Single, Live
  <2> QED  BY <2>2, <2>4, <2>5, <2>6 DEF Story
<1>2. TypeOK /\ SoloInv /\ [Next]_vars => SoloInv'
  <2> SUFFICES ASSUME TypeOK, Solo, Story, [Next]_vars, ~overlap'
               PROVE  Solo' /\ Story'
    <3>1. ~overlap' /\ [Next]_vars => ~overlap
      BY DEF Next, Recording, RecordCheck, RecordAppend, RecordNoMemory, RowInsert,
         Supplement, SupplementBegin, SupplementGet, SupplementFree, SupplementDelete,
         SupplementSend, SupplementSet, Cancelling, CancelBegin, CancelGet, CancelFree,
         CancelDelete, CancelCheck, Restore, RestoreReports, RestoreReport,
         RestoreOperations, RestoreOperation, RestoreDone, vars
    <3> QED  BY <3>1 DEF SoloInv
  <2>0. Once /\ Socket \in Recorders
    BY ListAssumption DEF Solo
  <2>1. ASSUME NEW t \in Recorders, NEW m \in Msgs, RecordCheck(t, m)
        PROVE  Solo' /\ Story'
    BY <2>0, <2>1, SoloCheck, StoryCheck
  <2>2. ASSUME NEW t \in Recorders, RecordAppend(t)
        PROVE  Solo' /\ Story'
    <3>1. /\ adding[t] # Free /\ Return(t)
          /\ UNCHANGED <<rows, can, made, cancelled, of, parted>>
      BY <2>2 DEF RecordAppend
    <3>2. InList' \subseteq InList \union {adding[t]}
      <4>1. PICK b \in Bufs : list' = Append(list, [msg |-> adding[t], buf |-> b, try |-> 0])
        BY <2>2 DEF RecordAppend
      <4> DEFINE e == [msg |-> adding[t], buf |-> b, try |-> 0]
      <4>2. e \in Record /\ e.msg = adding[t]
        BY <3>1, ListAssumption DEF Record, TypeOK
      <4> HIDE DEF e
      <4>3. \A k \in DOMAIN list' : \/ k \in DOMAIN list /\ list'[k] = list[k]
                                   \/ list'[k] = e
        BY <4>1, <4>2, AppendType, SoloType DEF e
      <4> QED  BY <4>2, <4>3 DEF InList
    <3> QED  BY <2>0, <2>2, <3>1, <3>2, SoloAppend, StoryReturn
  <2>3. ASSUME NEW t \in Recorders, RecordNoMemory(t)
        PROVE  Solo' /\ Story'
    <3>1. /\ adding[t] # Free /\ Return(t) /\ InList' = InList
          /\ UNCHANGED <<rows, can, made, cancelled, of, parted>>
      BY <2>3 DEF RecordNoMemory, histVars, InList
    <3> QED  BY <2>0, <2>3, <3>1, SoloNoMemory, StoryReturn
  <2>4. ASSUME NEW t \in Recorders, RowInsert(t)
        PROVE  Solo' /\ Story'
    BY <2>0, <2>4, SoloLook, StoryInsert
  <2>5. CASE Supplement \/ UNCHANGED vars
    <3>1. Story'
      BY <2>5, StorySupplement
    <3>2. Solo'
      BY <2>5, SoloLook, SoloFree, SoloDelete, SoloSet DEF Supplement
    <3> QED  BY <3>1, <3>2
  <2>6. ASSUME NEW m \in Msgs, CancelBegin(m)
        PROVE  Solo' /\ Story'
    BY <2>6, SoloLook, StoryBegin
  <2>7. CASE CancelDelete
    BY <2>7, SoloDelete, StoryDelete
  <2>8. CASE \/ CancelGet \/ CancelCheck
             \/ RestoreReports \/ RestoreOperations \/ RestoreDone
    BY <2>8, SoloLook, StoryLook
  <2>9. CASE CancelFree
    BY <2>9, SoloFree, StoryLook
  <2>10. ASSUME NEW m \in Msgs, NEW n \in Msgs, RestoreReport(m, n)
         PROVE  Solo' /\ Story'
    BY <2>0, <2>10, SoloCheck, StoryReport
  <2>11. ASSUME NEW m \in Msgs, RestoreOperation(m)
         PROVE  Solo' /\ Story'
    BY <2>0, <2>11, SoloCheck, StoryOperation
  <2> QED
    BY <2>1, <2>2, <2>3, <2>4, <2>5, <2>6, <2>7, <2>8, <2>9, <2>10, <2>11
    DEF Next, Recording, Cancelling, Restore
<1> QED  BY <1>1, <1>2, ListTypeCorrect, PTL DEF Spec

\* While only one of the two loops runs, however many threads record meanwhile, no two
\* records share a buffer and none has lost its own (OwnBuffers).
THEOREM BuffersOwned == Spec => []OwnBuffers
<1>1. SoloInv => OwnBuffers
  BY DEF SoloInv, Solo, Own, OwnBuffers
<1> QED  BY <1>1, SoloInvariant, PTL

\* What is sent or freed is then what was looked at (CopyStillValid): no send from a
\* buffer that was freed or given to another message.
THEOREM CopyValid == Spec => []CopyStillValid
<1>1. SoloInv => CopyStillValid
  <2> SUFFICES ASSUME SoloInv, ~overlap
               PROVE  /\ sup.pc \in {"send", "free"} => heap[sup.rec.buf] = sup.rec.msg
                      /\ can.pc = "free" => heap[can.rec.buf] = can.rec.msg
    BY DEF CopyStillValid
  <2>1. Alone /\ SupAt /\ CanAt /\ Own
    BY DEF SoloInv, Solo
  <2> QED  BY <2>1 DEF Alone, SupIdle, Looking, SupAt, CanAt, Own, Deleting
<1> QED  BY <1>1, SoloInvariant, PTL

\* A queued message leaves the list only acknowledged or given up (NothingLost).
THEOREM NoneLost == Spec => []NothingLost
<1>1. SoloInv => NothingLost
  BY DEF SoloInv, Solo, Lost, NothingLost
<1> QED  BY <1>1, SoloInvariant, PTL

\* What an acknowledgement deleted does not come back, under its number or, restored from
\* its table, under another, unless its row was inserted behind the acknowledgement or
\* restored while it was queued (CancelledStaysOutAlone).  The run v_list shows that it
\* does come back when the two loops overlap.
THEOREM StaysOut == Spec => []CancelledStaysOutAlone
<1>1. SoloInv => CancelledStaysOutAlone
  <2> SUFFICES ASSUME SoloInv, ~overlap, NEW i \in DOMAIN list, NEW m \in cancelled,
                      of[list[i].msg] = of[m]
               PROVE  of[m] \in parted
    BY DEF CancelledStaysOutAlone, CancelledStaysOut
  <2>1. list[i].msg \in Live /\ Single
    BY DEF SoloInv, Story, Live, InList
  <2> QED  BY <2>1 DEF Single
<1> QED  BY <1>1, SoloInvariant, PTL
=============================================================================
