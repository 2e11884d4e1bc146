--------------------------- MODULE EventQueue_proof ---------------------------
(* Proofs about EventQueue, with every overlap of producers.                  *)
EXTENDS EventQueue, SequenceTheorems, TLAPS

-----------------------------------------------------------------------------
(* The wake-up bytes, and indices that wrap.                                 *)

\* A sequence with one more event.
LEMMA AppendType ==
  ASSUME NEW S, NEW s \in Seq(S), NEW e \in S
  PROVE  /\ Append(s, e) \in Seq(S)
         /\ DOMAIN Append(s, e) = 1..Len(s)+1
         /\ \A k \in DOMAIN Append(s, e) :
              Append(s, e)[k] = IF k = Len(s)+1 THEN e ELSE s[k]
  OBVIOUS

\* A counter that has not wrapped is its own number on the wire.
LEMMA SmallMod ==
  ASSUME NEW a \in Nat, NEW b \in Nat \ {0}, a < b
  PROVE  a % b = a
  OBVIOUS

LEMMA Quotient ==
  ASSUME NEW a \in Nat, NEW s \in Nat \ {0}
  PROVE  \E q \in Nat, r \in 0..s-1 : a = q*s + r /\ a % s = r
  <1>1. a = (a \div s) * s + (a % s) /\ a \div s \in Nat /\ a % s \in 0..s-1
    BY SMT
  <1> QED  BY <1>1

LEMMA Remainder ==
  ASSUME NEW q \in Nat, NEW s \in Nat \ {0}, NEW r \in 0..s-1
  PROVE  (q*s + r) % s = r
  OBVIOUS

\* An index that is moved on by one stays the count modulo the size.
LEMMA NextIndex ==
  ASSUME NEW a \in Nat, NEW s \in Nat \ {0}
  PROVE  ((a % s) + 1) % s = (a + 1) % s
  <1>1. PICK q \in Nat, r \in 0..s-1 : a = q*s + r /\ a % s = r
    BY Quotient
  <1>2. CASE r + 1 < s
    <2>1. (q*s + (r+1)) % s = r+1 /\ (0*s + (r+1)) % s = r+1
      BY <1>2, Remainder
    <2> QED  BY <1>1, <2>1
  <1>3. CASE r + 1 = s
    <2>1. ((q+1)*s + 0) % s = 0 /\ (1*s + 0) % s = 0
      BY <1>3, Remainder
    <2>2. (q+1)*s + 0 = q*s + s
      OBVIOUS
    <2> QED  BY <1>1, <1>3, <2>1, <2>2
  <1> QED  BY <1>2, <1>3

\* Fewer than s apart, two counts have different indices.
LEMMA OtherIndex ==
  ASSUME NEW a \in Nat, NEW b \in Nat, NEW s \in Nat \ {0}, a < b, b < a + s
  PROVE  a % s # b % s
  <1> SUFFICES ASSUME a % s = b % s PROVE FALSE
    OBVIOUS
  <1>1. PICK q \in Nat, r \in 0..s-1 : a = q*s + r /\ a % s = r
    BY Quotient
  <1>2. PICK p \in Nat, t \in 0..s-1 : b = p*s + t /\ b % s = t
    BY Quotient
  <1>3. p*s > q*s /\ p*s < q*s + s
    BY <1>1, <1>2
  <1>4. p > q
    <2>1. p <= q => p*s <= q*s
      OBVIOUS
    <2> QED  BY <1>3, <2>1
  <1>5. (q+1)*s <= p*s /\ (q+1)*s = q*s + s
    BY <1>4
  <1> QED  BY <1>3, <1>5

-----------------------------------------------------------------------------
\* The model keeps its shape for any number of producers, slots and events.
THEOREM QueueTypeCorrect == Spec => []TypeOK
<1> USE QueueAssumption
<1>1. Init => TypeOK
  <2> SUFFICES ASSUME Init PROVE TypeOK
    OBVIOUS
  <2>1. 0 \in 0..Slots-1
    BY QueueAssumption
  <2>2. /\ push \in [Producers -> [pc : PushSteps, ev : Events \union {NoEvent}, n : Int]]
        /\ \A p \in Producers : push[p].pc = "idle"
    BY DEF Init, PushSteps
  <2>3. treat \in [pc : TreatSteps, ev : Events \union {NoEvent}, n : Int]
    BY DEF Init, TreatSteps
  <2>4. pushed \in Seq(Events) /\ treated \in Seq(Events \union {NoEvent})
    BY DEF Init
  <2>5. buff \in [0..Slots-1 -> Events \union {NoEvent}]
    BY DEF Init
  <2> QED  BY <2>1, <2>2, <2>3, <2>4, <2>5 DEF Init, TypeOK
<1>2. TypeOK /\ [Next]_vars => TypeOK'
  <2> SUFFICES ASSUME TypeOK, [Next]_vars
               PROVE  TypeOK'
    OBVIOUS
  <2>0. /\ (ptr_in + 1) % Slots \in 0..Slots-1 /\ (ptr_out + 1) % Slots \in 0..Slots-1
    BY DEF TypeOK
  <2>1. CASE UNCHANGED vars
    BY <2>1 DEF vars, TypeOK
  <2>2. ASSUME NEW p \in Producers, NEW e \in Events, PushBegin(p, e)
        PROVE  TypeOK'
    <3>1. overlap' \in BOOLEAN
      BY <2>2 DEF PushBegin, TypeOK, Occupied
    <3>2. push' = [push EXCEPT ![p].pc = "in", ![p].ev = e]
      BY <2>2 DEF PushBegin
    <3>3. push' \in [Producers -> [pc : PushSteps, ev : Events \union {NoEvent}, n : Int]]
          /\ \A q \in Producers : push'[q].pc # "idle" => push'[q].ev \in Events
      BY <3>2 DEF TypeOK, PushSteps
    <3> QED  BY <2>2, <3>1, <3>3 DEF PushBegin, TypeOK, fifo
  <2>3. ASSUME NEW p \in Producers, PushIn(p)
        PROVE  TypeOK'
    <3>1. push[p].ev \in Events
      BY <2>3 DEF PushIn, TypeOK
    <3>2. pushed' \in Seq(Events)
      BY <2>3, <3>1, AppendType DEF PushIn, TypeOK
    <3>3. full' \in BOOLEAN
      BY <2>3 DEF PushIn
    <3>4. push' \in [Producers -> [pc : PushSteps, ev : Events \union {NoEvent}, n : Int]]
          /\ \A q \in Producers : push'[q].pc # "idle" => push'[q].ev \in Events
      BY <2>3, <3>1 DEF PushIn, TypeOK, PushSteps
    <3>5. buff' \in [0..Slots-1 -> Events \union {NoEvent}]
      BY <2>3, <3>1 DEF PushIn, TypeOK
    <3> QED  BY <2>3, <3>2, <3>3, <3>4, <3>5 DEF PushIn, TypeOK
  <2>4. ASSUME NEW p \in Producers,
               PushIndex(p) \/ PushMove(p) \/ PushLoad(p) \/ PushStore(p) \/ Wake(p)
        PROVE  TypeOK'
    <3>1. push[p].n + 1 \in Int /\ pipe + 1 \in Nat /\ count \in Int /\ ptr_in \in Int
      BY DEF TypeOK
    <3>5. CASE PushIndex(p)
      BY <3>1, <3>5 DEF PushIndex, TypeOK, fifo, PushSteps
    <3>6. CASE PushMove(p)
      <4>1. (push[p].n + 1) % Slots \in 0..Slots-1
        BY <3>1
      <4> QED  BY <3>6, <4>1 DEF PushMove, TypeOK, PushSteps
    <3>2. CASE PushLoad(p)
      BY <3>1, <3>2 DEF PushLoad, TypeOK, fifo, PushSteps
    <3>3. CASE PushStore(p)
      BY <3>1, <3>3 DEF PushStore, TypeOK, PushSteps
    <3>4. CASE Wake(p)
      BY <3>1, <3>4 DEF Wake, TypeOK, fifo, PushSteps
    <3> QED  BY <2>4, <3>2, <3>3, <3>4, <3>5, <3>6
  <2>5. CASE PipeRead
    BY <2>5 DEF PipeRead, TypeOK, fifo, TreatSteps
  <2>6. CASE Check
    <3>1. overlap' \in BOOLEAN
      BY <2>6 DEF Check, TypeOK, Occupied
    <3>2. treat' = [treat EXCEPT !.pc = "idle"] \/ treat' = [treat EXCEPT !.pc = "out"]
      BY <2>6 DEF Check
    <3>3. treat' \in [pc : TreatSteps, ev : Events \union {NoEvent}, n : Int]
      BY <3>2 DEF TypeOK, TreatSteps
    <3> QED  BY <2>6, <3>1, <3>3 DEF Check, TypeOK, fifo
  <2>7. CASE TakeOut
    <3>1. ptr_out' \in 0..Slots-1
      BY <2>7, <2>0 DEF TakeOut
    <3>2. buff[ptr_out] \in Events \union {NoEvent}
      BY DEF TypeOK
    <3>3. treat' \in [pc : TreatSteps, ev : Events \union {NoEvent}, n : Int]
      BY <2>7, <3>2 DEF TakeOut, TypeOK, TreatSteps
    <3> QED  BY <2>7, <3>1, <3>3 DEF TakeOut, TypeOK
  <2>8. CASE TakeLoad \/ TakeStore
    <3>1. count \in Int /\ treat.n - 1 \in Int
      BY DEF TypeOK
    <3>2. CASE TakeLoad
      BY <3>1, <3>2 DEF TakeLoad, TypeOK, fifo, TreatSteps
    <3>3. CASE TakeStore
      BY <3>1, <3>3 DEF TakeStore, TypeOK, TreatSteps
    <3> QED  BY <2>8, <3>2, <3>3
  <2>9. CASE Treat
    <3>1. treat.ev \in Events \union {NoEvent}
      BY DEF TypeOK
    <3>2. treated' \in Seq(Events \union {NoEvent})
      BY <2>9, <3>1, AppendType DEF Treat, TypeOK
    <3> QED  BY <2>9, <3>2 DEF Treat, TypeOK, fifo, TreatSteps
  <2> QED
    BY <2>1, <2>2, <2>3, <2>4, <2>5, <2>6, <2>7, <2>8, <2>9 DEF Next, PushStep, SocketStep
<1> QED  BY <1>1, <1>2, PTL DEF Spec

-----------------------------------------------------------------------------
(* The count.  The loop's check is old news by the time the count is          *)
(* decremented; it still holds because only the socket thread decrements, and *)
(* a producer stores at least one.                                            *)

CountInv ==
  /\ count >= 0
  /\ \A p \in Producers : push[p].pc = "store" => push[p].n >= 0
  /\ treat.pc \in {"out", "load"} => count >= 1
  /\ treat.pc = "store" => treat.n >= 1

LEMMA CountInvStep ==
  ASSUME TypeOK, CountInv, [Next]_vars
  PROVE  CountInv'
  <1>0. count \in Int /\ treat.n \in Int /\ \A p \in Producers : push[p].n \in Int
    BY DEF TypeOK
  <1>1. CASE UNCHANGED vars
    BY <1>1 DEF vars, CountInv
  <1>2. ASSUME NEW p \in Producers, NEW e \in Events, PushBegin(p, e)
        PROVE  CountInv'
    BY <1>2 DEF PushBegin, CountInv, TypeOK, fifo
  <1>3. ASSUME NEW p \in Producers,
               PushIn(p) \/ PushIndex(p) \/ PushMove(p) \/ PushLoad(p) \/ Wake(p)
        PROVE  CountInv'
    <2>1. /\ count' = count /\ treat' = treat
          /\ \A q \in Producers : push'[q].pc = "store" => push'[q] = push[q] \/ push'[q].n = count
      BY <1>3 DEF PushIn, PushIndex, PushMove, PushLoad, Wake, TypeOK, fifo
    <2>2. \A q \in Producers : push'[q].pc = "store" => push'[q].n >= 0
      BY <2>1 DEF CountInv
    <2> QED  BY <2>1, <2>2 DEF CountInv
  <1>4. ASSUME NEW p \in Producers, PushStore(p)
        PROVE  CountInv'
    <2>1. count' >= 1
      BY <1>0, <1>4 DEF PushStore, CountInv
    <2>2. treat' = treat /\ \A q \in Producers : push'[q].pc = "store" => push'[q] = push[q]
      BY <1>4 DEF PushStore, TypeOK
    <2>3. count' \in Int
      BY <1>0, <1>4 DEF PushStore
    <2> QED  BY <2>1, <2>2, <2>3 DEF CountInv
  <1>5. CASE SocketStep
    <2>1. push' = push
      BY <1>5 DEF SocketStep, PipeRead, Check, TakeOut, TakeLoad, TakeStore, Treat
    <2>2. CASE TakeStore
      BY <1>0, <2>1, <2>2 DEF TakeStore, CountInv, TypeOK
    <2>p. treat \in [pc : TreatSteps, ev : Events \union {NoEvent}, n : Int]
      BY DEF TypeOK
    <2>q. /\ PipeRead => treat'.pc = "check"
          /\ Check => treat'.pc \in {"idle", "out"}
          /\ TakeOut => treat'.pc = "load"
          /\ TakeLoad => treat'.pc = "store" /\ treat'.n = count
          /\ Treat => treat'.pc = "check"
      <3>1. PipeRead => treat'.pc = "check"
        BY <2>p DEF PipeRead
      <3>2. Check => treat'.pc \in {"idle", "out"}
        BY <2>p DEF Check
      <3>3. TakeOut => treat'.pc = "load"
        BY <2>p DEF TakeOut
      <3>4. TakeLoad => treat'.pc = "store" /\ treat'.n = count
        BY <2>p DEF TakeLoad
      <3>5. Treat => treat'.pc = "check"
        BY <2>p DEF Treat
      <3> QED  BY <3>1, <3>2, <3>3, <3>4, <3>5
    <2>3. CASE PipeRead \/ Check \/ TakeOut \/ TakeLoad \/ Treat
      <3>1. count' = count
        BY <2>3 DEF PipeRead, Check, TakeOut, TakeLoad, Treat, fifo
      <3>2. treat'.pc \in {"out", "load"} => count >= 1
        <4>1. CASE Check
          <5>1. treat'.pc = "out" => count # 0
            BY <4>1 DEF Check, TypeOK
          <5>2. treat'.pc \in {"idle", "out"}
            BY <4>1 DEF Check, TypeOK
          <5> QED  BY <1>0, <5>1, <5>2 DEF CountInv
        <4>2. CASE TakeOut
          BY <4>2 DEF TakeOut, CountInv, TypeOK
        <4>3. CASE PipeRead \/ TakeLoad \/ Treat
          BY <4>3, <2>q
        <4> QED  BY <2>3, <4>1, <4>2, <4>3
      <3>3. treat'.pc = "store" => treat'.n >= 1
        <4>1. CASE TakeLoad
          <5>1. treat.pc = "load"
            BY <4>1 DEF TakeLoad
          <5> QED  BY <4>1, <5>1, <2>q DEF CountInv
        <4>2. CASE ~TakeLoad
          BY <4>2, <2>3, <2>q
        <4> QED  BY <4>1, <4>2
      <3> QED  BY <2>1, <3>1, <3>2, <3>3 DEF CountInv
    <2> QED  BY <1>5, <2>2, <2>3 DEF SocketStep
  <1> QED
    BY <1>1, <1>2, <1>3, <1>4, <1>5 DEF Next, PushStep

\* However many threads push at once, without any lock, the count never becomes
\* negative: the loop of fleety_event_treat can treat stale slots, but it ends.
THEOREM CountSafe == Spec => []CountNotNegative
<1>1. Init => CountInv
  BY DEF Init, CountInv
<1>2. TypeOK /\ CountInv /\ [Next]_vars => CountInv'
  BY CountInvStep
<1>3. CountInv => CountNotNegative
  BY DEF CountInv, CountNotNegative
<1> QED  BY <1>1, <1>2, <1>3, QueueTypeCorrect, PTL DEF Spec

-----------------------------------------------------------------------------
(* The order.  While no two calls on the fifo meet and it does not overflow,  *)
(* the indices and the count say how many events were copied in and out, up   *)
(* to the steps a call still has to take, and the slots between the indices   *)
(* hold the events that wait.                                                 *)

P     == Len(pushed)
Taken == Len(treated) + (IF treat.pc \in {"load", "store", "treat"} THEN 1 ELSE 0)
Late  == IF treat.pc \in {"load", "store"} THEN 1 ELSE 0

Placed(p)  == push[p].pc \in {"index", "move"}
Counted(p) == push[p].pc \notin {"index", "move", "load", "store"}

OneCall ==
  /\ \A p, q \in Producers : InFifo(p) /\ InFifo(q) => p = q
  /\ OutFifo => \A p \in Producers : ~InFifo(p)
Indices ==
  /\ (\A p \in Producers : ~Placed(p)) => ptr_in = P % Slots
  /\ \A p \in Producers : Placed(p) => P >= 1 /\ ptr_in = (P - 1) % Slots
  /\ \A p \in Producers : push[p].pc = "move" => push[p].n = ptr_in
  /\ ptr_out = Taken % Slots
CountIs ==
  /\ (\A p \in Producers : Counted(p)) => count = P - Taken + Late
  /\ \A p \in Producers : ~Counted(p) => count = P - Taken + Late - 1
  /\ \A p \in Producers : push[p].pc = "store" => push[p].n = count
  /\ treat.pc = "store" => treat.n = count
WaitingHeld ==
  /\ Taken <= P /\ P - Taken <= Slots
  /\ treat.pc = "out" => Taken < P
  /\ \A k \in Taken+1..P : buff[(k - 1) % Slots] = pushed[k]
TreatedSo ==
  /\ \A k \in 1..Len(treated) : treated[k] = pushed[k]
  /\ treat.pc \in {"load", "store", "treat"} => treat.ev = pushed[Taken]

OrderInv ==
  ~full /\ ~overlap => OneCall /\ Indices /\ CountIs /\ WaitingHeld /\ TreatedSo

LEMMA Numbers ==
  ASSUME TypeOK
  PROVE  /\ P \in Nat /\ Taken \in Nat /\ Late \in {0, 1} /\ Len(treated) \in Nat
         /\ count \in Int /\ Slots \in Nat \ {0} /\ ptr_in \in Int /\ ptr_out \in Int
         /\ \A p \in Producers : push[p].n \in Int
         /\ treat.n \in Int
  BY QueueAssumption DEF TypeOK, P, Taken, Late

\* A producer's step inside fifo_in.
LEMMA ProducerOrder ==
  ASSUME TypeOK, OrderInv, ~full', ~overlap', NEW p \in Producers,
         PushIn(p) \/ PushIndex(p) \/ PushMove(p) \/ PushLoad(p) \/ PushStore(p)
  PROVE  OneCall' /\ Indices' /\ CountIs' /\ WaitingHeld' /\ TreatedSo'
  <1>1. /\ ~full /\ ~overlap /\ UNCHANGED <<ptr_out, treat, treated>>
        /\ OneCall /\ Indices /\ CountIs /\ WaitingHeld /\ TreatedSo
        /\ InFifo(p) /\ \A q \in Producers : q # p => push'[q] = push[q]
    <2>1. UNCHANGED <<ptr_out, treat, treated, overlap>>
      BY DEF PushIn, PushIndex, PushMove, PushLoad, PushStore, fifo
    <2>2. ~full
      <3>1. CASE PushIn(p)
        <4>1. full' = (full \/ Waiting >= Slots)
          BY <3>1 DEF PushIn
        <4> QED  BY <4>1, Zenon
      <3>2. CASE ~PushIn(p)
        BY <3>2 DEF PushIndex, PushMove, PushLoad, PushStore
      <3> QED  BY <3>1, <3>2
    <2>3. UNCHANGED <<ptr_out, treat, treated>> /\ ~full /\ ~overlap
      BY <2>1, <2>2
    <2>4. InFifo(p) /\ \A q \in Producers : q # p => push'[q] = push[q]
      BY DEF PushIn, PushIndex, PushMove, PushLoad, PushStore, InFifo, TypeOK
    <2> QED  BY <2>3, <2>4 DEF OrderInv
  <1>2. ~OutFifo /\ \A q \in Producers : q # p => ~InFifo(q) /\ ~InFifo(q)'
    BY <1>1 DEF OneCall, InFifo
  <1>3. OneCall'
    BY <1>1, <1>2 DEF OneCall, OutFifo
  <1>4. \A q \in Producers : q # p => /\ ~Placed(q) /\ Counted(q) /\ ~Placed(q)' /\ Counted(q)'
                                      /\ push'[q].pc \notin {"move", "store"}
    BY <1>2 DEF InFifo, Placed, Counted
  <1>5. Taken' = Taken /\ Late' = Late
    BY <1>1 DEF Taken, Late
  <1>0. P \in Nat /\ Taken \in Nat /\ count \in Int /\ Slots \in Nat \ {0} /\ Late \in Int
        /\ push[p].n \in Int
    BY Numbers
  <1>6. CASE PushIn(p)
    <2>0. Waiting < Slots
      <3>1. ~(Waiting >= Slots)
        BY <1>6 DEF PushIn
      <3>2. Waiting \in Int
        BY <1>0, Numbers DEF Waiting, P
      <3> QED  BY <1>0, <3>1, <3>2
    <2>1. /\ push[p].pc = "in" /\ push'[p].pc = "index"
          /\ UNCHANGED <<ptr_in, count>>
          /\ pushed' = Append(pushed, push[p].ev) /\ Waiting < Slots
          /\ buff' = [buff EXCEPT ![ptr_in] = push[p].ev]
      BY <1>6, <2>0 DEF PushIn, TypeOK
    <2>2. /\ P' = P + 1 /\ pushed'[P + 1] = push[p].ev
          /\ \A k \in 1..P : pushed'[k] = pushed[k]
      BY <2>1 DEF P, TypeOK
    <2>3. ~Placed(p) /\ Counted(p) /\ Placed(p)' /\ ~Counted(p)'
      BY <2>1 DEF Placed, Counted
    <2>4. ptr_in = P % Slots /\ count = P - Taken + Late
      BY <1>1, <1>4, <2>3 DEF Indices, CountIs
    <2>5. Indices'
      BY <1>1, <1>4, <1>5, <1>0, <2>1, <2>2, <2>3, <2>4 DEF Indices
    <2>6. CountIs'
      BY <1>1, <1>4, <1>5, <1>0, <2>1, <2>2, <2>3, <2>4 DEF CountIs
    <2>7. WaitingHeld'
      <3>1. P - Taken < Slots /\ Taken <= P
        <4>1. Waiting = P - Taken
          BY <1>0 DEF Waiting, P, Taken, TypeOK
        <4> QED  BY <1>1, <2>1, <4>1 DEF WaitingHeld
      <3>2. ASSUME NEW k \in Taken+1..P+1
            PROVE  buff'[(k - 1) % Slots] = pushed'[k]
        <4>1. CASE k = P + 1
          <5>1. P % Slots \in 0..Slots-1 /\ (k - 1) % Slots = P % Slots
            BY <1>0, <4>1
          <5> QED  BY <2>1, <2>2, <2>4, <4>1, <5>1 DEF TypeOK
        <4>2. CASE k # P + 1
          <5>1. k \in Taken+1..P /\ k - 1 \in Nat /\ k - 1 < P /\ P < (k - 1) + Slots
            BY <1>0, <3>1, <4>2
          <5>2. (k - 1) % Slots # P % Slots
            BY <1>0, <5>1, OtherIndex
          <5>3. (k - 1) % Slots \in 0..Slots-1
            BY <1>0, <5>1
          <5>4. buff[(k - 1) % Slots] = pushed[k]
            BY <1>1, <5>1 DEF WaitingHeld
          <5>5. pushed'[k] = pushed[k]
            BY <1>0, <2>2, <5>1
          <5> QED  BY <2>1, <2>4, <5>2, <5>3, <5>4, <5>5 DEF TypeOK
        <4> QED  BY <4>1, <4>2
      <3>3. Taken' <= P' /\ P' - Taken' <= Slots /\ (treat'.pc = "out" => Taken' < P')
        BY <1>5, <1>0, <2>2, <3>1
      <3> QED  BY <1>5, <2>2, <3>2, <3>3 DEF WaitingHeld
    <2>8. TreatedSo'
      <3>1. Len(treated) <= P /\ (treat.pc \in {"load", "store", "treat"} => Taken \in 1..P)
        BY <1>1, <1>0, Numbers DEF WaitingHeld, Taken
      <3>2. \A k \in 1..Len(treated) : pushed'[k] = pushed[k]
        BY <1>0, <2>2, <3>1, Numbers
      <3> QED  BY <1>1, <1>5, <2>2, <3>1, <3>2 DEF TreatedSo
    <2> QED  BY <1>3, <2>5, <2>6, <2>7, <2>8
  <1>7. ASSUME UNCHANGED <<buff, pushed>>, Indices', CountIs'
        PROVE  OneCall' /\ Indices' /\ CountIs' /\ WaitingHeld' /\ TreatedSo'
    <2>1. P' = P
      BY <1>7 DEF P
    <2> QED  BY <1>1, <1>3, <1>5, <1>7, <2>1 DEF WaitingHeld, TreatedSo
  <1>8. CASE PushIndex(p)
    <2>1. /\ push[p].pc = "index" /\ push'[p].pc = "move" /\ push'[p].n = ptr_in
          /\ UNCHANGED <<buff, ptr_in, count, pushed>>
      BY <1>8 DEF PushIndex, TypeOK, fifo
    <2>2. Placed(p) /\ Placed(p)' /\ ~Counted(p) /\ ~Counted(p)' /\ P' = P
      BY <2>1 DEF Placed, Counted, P
    <2>3. Indices' /\ CountIs'
      BY <1>1, <1>4, <1>5, <2>1, <2>2 DEF Indices, CountIs
    <2> QED  BY <1>7, <2>1, <2>3
  <1>9. CASE PushMove(p)
    <2>1. /\ push[p].pc = "move" /\ push'[p].pc = "load" /\ ptr_in' = (push[p].n + 1) % Slots
          /\ UNCHANGED <<buff, count, pushed>>
      BY <1>9 DEF PushMove, TypeOK
    <2>2. Placed(p) /\ ~Placed(p)' /\ ~Counted(p) /\ ~Counted(p)' /\ P' = P
      BY <2>1 DEF Placed, Counted, P
    <2>3. ptr_in' = P % Slots
      <3>1. P - 1 \in Nat /\ push[p].n = (P - 1) % Slots
        BY <1>1, <1>0, <2>1, <2>2 DEF Indices
      <3>2. (((P - 1) % Slots) + 1) % Slots = ((P - 1) + 1) % Slots
        BY <1>0, <3>1, NextIndex
      <3> QED  BY <1>0, <2>1, <3>1, <3>2
    <2>4. Indices'
      BY <1>1, <1>4, <1>5, <2>1, <2>2, <2>3 DEF Indices
    <2>5. CountIs'
      BY <1>1, <1>4, <1>5, <2>1, <2>2 DEF CountIs
    <2> QED  BY <1>7, <2>1, <2>4, <2>5
  <1>10. CASE PushLoad(p)
    <2>1. /\ push[p].pc = "load" /\ push'[p].pc = "store" /\ push'[p].n = count
          /\ UNCHANGED <<buff, ptr_in, count, pushed>>
      BY <1>10 DEF PushLoad, TypeOK, fifo
    <2>2. ~Placed(p) /\ ~Placed(p)' /\ ~Counted(p) /\ ~Counted(p)' /\ P' = P
      BY <2>1 DEF Placed, Counted, P
    <2>3. Indices' /\ CountIs'
      BY <1>1, <1>4, <1>5, <2>1, <2>2 DEF Indices, CountIs
    <2> QED  BY <1>7, <2>1, <2>3
  <1>11. CASE PushStore(p)
    <2>1. /\ push[p].pc = "store" /\ push'[p].pc = "wake" /\ count' = push[p].n + 1
          /\ UNCHANGED <<buff, ptr_in, pushed>>
      BY <1>11 DEF PushStore, TypeOK
    <2>2. ~Placed(p) /\ ~Placed(p)' /\ ~Counted(p) /\ Counted(p)' /\ P' = P
      BY <2>1 DEF Placed, Counted, P
    <2>3. Indices'
      BY <1>1, <1>4, <1>5, <2>1, <2>2 DEF Indices
    <2>4. count' = P - Taken + Late
      BY <1>1, <1>0, <2>1, <2>2 DEF CountIs
    <2>5. treat.pc # "store"
      BY <1>2 DEF OutFifo
    <2>6. CountIs'
      BY <1>1, <1>4, <1>5, <2>1, <2>2, <2>4, <2>5 DEF CountIs
    <2> QED  BY <1>7, <2>1, <2>3, <2>6
  <1> QED  BY <1>6, <1>8, <1>9, <1>10, <1>11

\* The steps of a producer outside fifo_in.
LEMMA OutsideOrder ==
  ASSUME TypeOK, OrderInv, ~full', ~overlap', NEW p \in Producers,
         Wake(p) \/ \E e \in Events : PushBegin(p, e)
  PROVE  OneCall' /\ Indices' /\ CountIs' /\ WaitingHeld' /\ TreatedSo'
  <1>1. /\ UNCHANGED <<fifo, treat, pushed, treated, full>>
        /\ \A q \in Producers : q # p => push'[q] = push[q]
        /\ Counted(p) /\ ~Placed(p) /\ push'[p].pc \in {"idle", "in"}
    BY DEF Wake, PushBegin, TypeOK, Counted, Placed
  <1>2. /\ ~overlap
        /\ push'[p].pc = "in" => ~OutFifo /\ \A q \in Producers : ~InFifo(q)
    <2>1. CASE Wake(p)
      <3>1. overlap' = overlap /\ push'[p].pc = "idle"
        BY <2>1 DEF Wake, TypeOK
      <3> QED  BY <3>1
    <2>2. ASSUME NEW e \in Events, PushBegin(p, e)
          PROVE  ~overlap /\ ~Occupied
      <3>1. overlap' = (overlap \/ Occupied)
        BY <2>2 DEF PushBegin
      <3> QED  BY <3>1, Zenon
    <2> QED  BY <2>1, <2>2 DEF Occupied
  <1>3. OneCall /\ Indices /\ CountIs /\ WaitingHeld /\ TreatedSo
    BY <1>1, <1>2 DEF OrderInv
  <1>4. OneCall'
    BY <1>1, <1>2, <1>3 DEF OneCall, InFifo, OutFifo
  <1>5. /\ Taken' = Taken /\ Late' = Late /\ P' = P /\ UNCHANGED <<ptr_in, ptr_out, count, buff>>
        /\ \A q \in Producers : (Placed(q)' <=> Placed(q)) /\ (Counted(q)' <=> Counted(q))
        /\ \A q \in Producers : push'[q].pc \in {"move", "store"} => push'[q] = push[q]
    BY <1>1 DEF Taken, Late, P, fifo, Placed, Counted
  <1>6. Indices' /\ CountIs'
    BY <1>1, <1>3, <1>5 DEF Indices, CountIs
  <1>7. WaitingHeld' /\ TreatedSo'
    BY <1>1, <1>3, <1>5 DEF WaitingHeld, TreatedSo
  <1> QED  BY <1>4, <1>6, <1>7

\* The socket thread.
LEMMA SocketOrder ==
  ASSUME TypeOK, OrderInv, ~full', ~overlap', SocketStep
  PROVE  OneCall' /\ Indices' /\ CountIs' /\ WaitingHeld' /\ TreatedSo'
  <1>0. /\ P \in Nat /\ Taken \in Nat /\ count \in Int /\ Slots \in Nat \ {0}
        /\ Late \in Int /\ treat.n \in Int /\ Len(treated) \in Nat
    BY Numbers
  <1>1. UNCHANGED <<buff, ptr_in, push, pushed, full>> /\ P' = P
    BY DEF SocketStep, PipeRead, Check, TakeOut, TakeLoad, TakeStore, Treat, fifo, P
  <1>2. ~overlap
    <2>1. CASE Check
      <3>1. overlap' = overlap \/ overlap' = (overlap \/ Occupied)
        BY <2>1 DEF Check
      <3> QED  BY <3>1, Zenon
    <2>2. CASE ~Check
      BY <2>2 DEF SocketStep, PipeRead, TakeOut, TakeLoad, TakeStore, Treat
    <2> QED  BY <2>1, <2>2
  <1>3. OneCall /\ Indices /\ CountIs /\ WaitingHeld /\ TreatedSo
    BY <1>1, <1>2 DEF OrderInv
  <1>4. \A p \in Producers : /\ (InFifo(p)' <=> InFifo(p)) /\ (Placed(p)' <=> Placed(p))
                             /\ (Counted(p)' <=> Counted(p)) /\ push'[p] = push[p]
    BY <1>1 DEF InFifo, Placed, Counted
  <1>5. OutFifo => \A p \in Producers : ~InFifo(p) /\ ~Placed(p) /\ Counted(p)
    BY <1>3 DEF OneCall, InFifo, Placed, Counted
  <1>6. ASSUME UNCHANGED <<ptr_out, count, treated>>, Taken' = Taken, Late' = Late,
               OutFifo' => \A p \in Producers : ~InFifo(p),
               treat'.pc = "out" => Taken < P,
               treat'.pc = "store" => treat'.n = count,
               treat'.pc \in {"load", "store", "treat"} => treat'.ev = pushed[Taken]
        PROVE  OneCall' /\ Indices' /\ CountIs' /\ WaitingHeld' /\ TreatedSo'
    <2>1. OneCall'
      BY <1>3, <1>4, <1>6 DEF OneCall
    <2>2. Indices' /\ CountIs'
      BY <1>1, <1>3, <1>4, <1>6 DEF Indices, CountIs
    <2>3. WaitingHeld' /\ TreatedSo'
      BY <1>1, <1>3, <1>6 DEF WaitingHeld, TreatedSo
    <2> QED  BY <2>1, <2>2, <2>3
  <1>7. CASE PipeRead
    <2>1. /\ treat.pc = "idle" /\ treat'.pc = "check" /\ UNCHANGED <<ptr_out, count, treated>>
      BY <1>7 DEF PipeRead, TypeOK, fifo
    <2> QED  BY <1>6, <2>1 DEF Taken, Late, OutFifo
  <1>8. CASE Check
    <2>1. treat.pc = "check" /\ UNCHANGED <<ptr_out, count, treated>>
      BY <1>8 DEF Check, fifo
    <2>2. CASE treat'.pc = "idle"
      BY <1>6, <2>1, <2>2 DEF Taken, Late, OutFifo
    <2>3. CASE treat'.pc # "idle"
      <3>1. treat'.pc = "out" /\ count # 0 /\ overlap' = (overlap \/ Occupied)
        BY <1>8, <2>3 DEF Check, TypeOK
      <3>2. ~Occupied
        BY <3>1, Zenon
      <3>3. \A p \in Producers : ~InFifo(p) /\ Counted(p)
        BY <3>2 DEF Occupied, InFifo, Counted
      <3>4. Late = 0 /\ Taken' = Taken /\ Late' = Late
        BY <2>1, <3>1 DEF Late, Taken
      <3>5. count = P - Taken /\ Taken <= P
        BY <1>0, <1>3, <3>3, <3>4 DEF CountIs, WaitingHeld
      <3>6. Taken < P
        BY <1>0, <3>1, <3>5
      <3> QED  BY <1>6, <2>1, <3>1, <3>3, <3>4, <3>6
    <2> QED  BY <2>2, <2>3
  <1>9. CASE TakeOut
    <2>1. /\ treat.pc = "out" /\ treat'.pc = "load" /\ treat'.ev = buff[ptr_out]
          /\ ptr_out' = (ptr_out + 1) % Slots /\ UNCHANGED <<count, treated>>
      BY <1>9 DEF TakeOut, TypeOK
    <2>2. Taken = Len(treated) /\ Taken' = Taken + 1 /\ Late = 0 /\ Late' = 1
      BY <1>0, <2>1 DEF Taken, Late
    <2>3. /\ OutFifo /\ OutFifo' /\ Taken < P /\ ptr_out = Taken % Slots
      BY <1>3, <2>1 DEF OutFifo, WaitingHeld, Indices
    <2>4. OneCall'
      BY <1>3, <1>4, <2>3 DEF OneCall
    <2>5. ptr_out' = (Taken + 1) % Slots
      BY <1>0, <2>1, <2>3, NextIndex
    <2>6. Indices'
      BY <1>1, <1>3, <1>4, <2>2, <2>5 DEF Indices
    <2>7. CountIs'
      <3>1. count = P - Taken
        BY <1>0, <1>3, <1>5, <2>2, <2>3 DEF CountIs
      <3> QED  BY <1>0, <1>1, <1>4, <1>5, <2>1, <2>2, <2>3, <3>1 DEF CountIs, Counted
    <2>8. treat'.ev = pushed[Taken + 1]
      <3>1. Taken + 1 \in Taken+1..P /\ (Taken + 1) - 1 = Taken
        BY <1>0, <2>3
      <3>2. buff[((Taken + 1) - 1) % Slots] = pushed[Taken + 1]
        BY <1>3, <3>1 DEF WaitingHeld
      <3> QED  BY <2>1, <2>3, <3>1, <3>2
    <2>9. WaitingHeld'
      <3>1. \A k \in Taken+2..P : buff[(k - 1) % Slots] = pushed[k]
        BY <1>0, <1>3 DEF WaitingHeld
      <3>2. (Taken + 1) + 1 = Taken + 2 /\ Taken + 1 <= P /\ P - (Taken + 1) <= Slots
        BY <1>0, <1>3, <2>3 DEF WaitingHeld
      <3> QED  BY <1>1, <2>1, <2>2, <3>1, <3>2 DEF WaitingHeld
    <2>10. TreatedSo'
      BY <1>1, <1>3, <2>1, <2>2, <2>8 DEF TreatedSo
    <2> QED  BY <2>4, <2>6, <2>7, <2>9, <2>10
  <1>10. CASE TakeLoad
    <2>1. /\ treat.pc = "load" /\ treat'.pc = "store" /\ treat'.n = count
          /\ treat'.ev = treat.ev /\ UNCHANGED <<ptr_out, count, treated>>
      BY <1>10 DEF TakeLoad, TypeOK, fifo
    <2>2. Taken' = Taken /\ Late' = Late /\ OutFifo
      BY <2>1 DEF Taken, Late, OutFifo
    <2>3. treat'.ev = pushed[Taken]
      BY <1>3, <2>1 DEF TreatedSo
    <2> QED  BY <1>5, <1>6, <2>1, <2>2, <2>3
  <1>11. CASE TakeStore
    <2>1. /\ treat.pc = "store" /\ treat'.pc = "treat" /\ count' = treat.n - 1
          /\ treat'.ev = treat.ev /\ UNCHANGED <<ptr_out, treated>>
      BY <1>11 DEF TakeStore, TypeOK
    <2>2. Taken' = Taken /\ Late = 1 /\ Late' = 0 /\ OutFifo /\ ~OutFifo'
      BY <2>1 DEF Taken, Late, OutFifo
    <2>3. count' = P - Taken
      BY <1>0, <1>3, <1>5, <2>1, <2>2 DEF CountIs
    <2>4. OneCall'
      BY <1>3, <1>4, <2>2 DEF OneCall
    <2>5. Indices'
      BY <1>1, <1>3, <1>4, <2>1, <2>2 DEF Indices
    <2>6. CountIs'
      BY <1>0, <1>1, <1>4, <1>5, <2>1, <2>2, <2>3 DEF CountIs, Counted
    <2>7. WaitingHeld' /\ TreatedSo'
      BY <1>1, <1>3, <2>1, <2>2 DEF WaitingHeld, TreatedSo
    <2> QED  BY <2>4, <2>5, <2>6, <2>7
  <1>12. CASE Treat
    <2>1. /\ treat.pc = "treat" /\ treat'.pc = "check" /\ treated' = Append(treated, treat.ev)
          /\ UNCHANGED <<ptr_out, count>>
      BY <1>12 DEF Treat, fifo
    <2>2. /\ Len(treated') = Len(treated) + 1 /\ treated'[Len(treated) + 1] = treat.ev
          /\ \A k \in 1..Len(treated) : treated'[k] = treated[k]
      BY <2>1 DEF TypeOK
    <2>3. /\ Taken = Len(treated) + 1 /\ Taken' = Taken /\ Late' = Late /\ ~OutFifo'
      BY <1>0, <2>1, <2>2 DEF Taken, Late, OutFifo
    <2>4. OneCall'
      BY <1>3, <1>4, <2>3 DEF OneCall
    <2>5. Indices' /\ CountIs'
      BY <1>1, <1>3, <1>4, <2>1, <2>3 DEF Indices, CountIs
    <2>6. WaitingHeld'
      BY <1>1, <1>3, <2>1, <2>3 DEF WaitingHeld
    <2>7. TreatedSo'
      BY <1>0, <1>1, <1>3, <2>1, <2>2, <2>3 DEF TreatedSo
    <2> QED  BY <2>4, <2>5, <2>6, <2>7
  <1> QED  BY <1>7, <1>8, <1>9, <1>10, <1>11, <1>12 DEF SocketStep

\* While the calls on the fifo do not meet and it does not overflow, the events are
\* treated in the order they were copied in, each once (TreatedInOrder).
THEOREM OrderSafe == Spec => []TreatedInOrder
<1>1. Init => OrderInv
  <2> SUFFICES ASSUME Init PROVE OrderInv
    OBVIOUS
  <2>1. P = 0 /\ Taken = 0 /\ Late = 0 /\ 0 % Slots = 0
    BY SmallMod, QueueAssumption DEF Init, P, Taken, Late
  <2> QED
    BY <2>1, QueueAssumption
    DEF Init, OrderInv, OneCall, InFifo, OutFifo, Indices, Placed, CountIs, Counted,
        WaitingHeld, TreatedSo
<1>2. TypeOK /\ OrderInv /\ [Next]_vars => OrderInv'
  <2> SUFFICES ASSUME TypeOK, OrderInv, [Next]_vars, ~full', ~overlap'
               PROVE  OneCall' /\ Indices' /\ CountIs' /\ WaitingHeld' /\ TreatedSo'
    BY DEF OrderInv
  <2>1. CASE UNCHANGED vars
    BY <2>1 DEF vars, OrderInv, OneCall, InFifo, OutFifo, Indices, Placed, CountIs, Counted,
                WaitingHeld, TreatedSo, P, Taken, Late
  <2> QED
    BY <2>1, ProducerOrder, OutsideOrder, SocketOrder DEF Next, PushStep
<1>3. TypeOK /\ OrderInv => TreatedInOrder
  <2> SUFFICES ASSUME TypeOK, WaitingHeld, TreatedSo
               PROVE  IsPrefix(treated, pushed)
    BY DEF OrderInv, TreatedInOrder
  <2>1. Len(treated) \in Nat /\ Len(pushed) \in Nat /\ Len(treated) <= Len(pushed)
    BY Numbers DEF WaitingHeld, Taken, P
  <2>2. SubSeq(treated, 1, Len(treated)) = SubSeq(pushed, 1, Len(treated))
    BY <2>1 DEF TreatedSo, TypeOK
  <2> QED  BY <2>1, <2>2 DEF IsPrefix
<1> QED  BY <1>1, <1>2, <1>3, QueueTypeCorrect, PTL DEF Spec
=============================================================================
