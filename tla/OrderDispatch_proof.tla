-------------------------- MODULE OrderDispatch_proof --------------------------
(* Proofs about OrderDispatch: however orders overlap, are cancelled or lost   *)
(* with the connection, a terminal in dispatch has an order to be done.        *)
EXTENDS OrderDispatch, SequenceTheorems, TLAPS

-----------------------------------------------------------------------------
(* Sequences.                                                                *)

\* The messages of both ends are those of the two sequences.
LEMMA Joined ==
  ASSUME NEW S, NEW s \in Seq(S), NEW t \in Seq(S)
  PROVE  /\ s \o t \in Seq(S)
         /\ \A i \in DOMAIN (s \o t) :
              \/ i \in DOMAIN s /\ (s \o t)[i] = s[i]
              \/ i \notin DOMAIN s /\ i > Len(s) /\ i - Len(s) \in DOMAIN t
                 /\ (s \o t)[i] = t[i - Len(s)]
  <1>1. /\ s \o t \in Seq(S) /\ Len(s \o t) = Len(s) + Len(t)
        /\ \A i \in 1..Len(s) + Len(t) :
             (s \o t)[i] = IF i <= Len(s) THEN s[i] ELSE t[i - Len(s)]
    BY ConcatProperties
  <1>2. /\ DOMAIN (s \o t) = 1..Len(s) + Len(t)
        /\ DOMAIN s = 1..Len(s) /\ DOMAIN t = 1..Len(t)
        /\ Len(s) \in Nat /\ Len(t) \in Nat
    BY <1>1, LenProperties
  <1> QED  BY <1>1, <1>2

\* One more message under way.
LEMMA Added ==
  ASSUME NEW S, NEW s \in Seq(S), NEW e \in S
  PROVE  /\ Append(s, e) \in Seq(S)
         /\ \A i \in DOMAIN Append(s, e) :
              \/ i \in DOMAIN s /\ Append(s, e)[i] = s[i]
              \/ i \notin DOMAIN s /\ i = Len(s) + 1 /\ Append(s, e)[i] = e
  OBVIOUS

\* A message is taken from the front: the others keep their order.
LEMMA Taken ==
  ASSUME NEW S, NEW s \in Seq(S), s # <<>>
  PROVE  /\ Tail(s) \in Seq(S) /\ Head(s) \in S /\ 1 \in DOMAIN s /\ Head(s) = s[1]
         /\ \A i \in DOMAIN Tail(s) : /\ i + 1 \in DOMAIN s /\ Tail(s)[i] = s[i + 1]
                                      /\ i \in Nat /\ i >= 1
  <1>1. /\ Head(s) \in S /\ Head(s) = s[1] /\ Tail(s) \in Seq(S)
        /\ Len(Tail(s)) = Len(s) - 1 /\ \A i \in 1..Len(Tail(s)) : Tail(s)[i] = s[i+1]
    BY HeadTailProperties
  <1>2. /\ DOMAIN s = 1..Len(s) /\ DOMAIN Tail(s) = 1..Len(Tail(s)) /\ Len(s) \in Nat
        /\ Len(s) > 0
    BY <1>1, LenProperties, EmptySeq
  <1> QED  BY <1>1, <1>2

-----------------------------------------------------------------------------
(* Types.                                                                    *)

\* An order is on the screen or tapped only after a briefing: UiGrab never grabs an
\* order that was not offered.
TypeInv == TypeOK /\ (shown # None \/ tap # None => brief # None)

LEMMA MessageTypes ==
  ASSUME NEW o \in Orders
  PROVE  /\ \A k \in {"grab", "finish", "cancel"} : Msg(k, o) \in UpMsg
         /\ \A k \in {"brief", "detail", "lost", "cancel", "ack_grab", "ack_finish",
                      "ack_cancel"} : Msg(k, o) \in DownMsg
  BY DEF Msg, UpMsg, DownMsg

\* What arrives is a message about an order.
LEMMA ArrivesType ==
  ASSUME TypeOK, NEW kind, Arrives(kind)
  PROVE  /\ down # <<>> /\ Head(down) \in DownMsg /\ Head(down).kind = kind
         /\ Subject \in Orders /\ down' \in Seq(DownMsg) /\ down' = Tail(down)
  <1>1. down \in Seq(DownMsg) /\ down # <<>> /\ down' = Tail(down) /\ Head(down).kind = kind
    BY DEF TypeOK, Arrives
  <1>2. Head(down) \in DownMsg /\ Tail(down) \in Seq(DownMsg)
    BY <1>1, Taken
  <1> QED  BY <1>1, <1>2 DEF Subject, DownMsg

\* What the server says is one message or two, or none.
LEMMA SaysType ==
  ASSUME TypeOK, NEW o \in Orders, NEW msgs \in Seq(DownMsg), NEW stage,
         stage \in {"new", "offered", "grabbed", "awarded", "finished", "cancelled",
                    "declined", "gone"},
         ServerSays(o, stage, msgs)
  PROVE  /\ down' \in Seq(DownMsg)
         /\ srv' \in [Orders -> {"new", "offered", "grabbed", "awarded", "finished",
                                 "cancelled", "declined", "gone"}]
  BY Joined DEF TypeOK, ServerSays

LEMMA TypeStep ==
  ASSUME OrderAssumption, TypeInv, [Next]_vars
  PROVE  TypeInv'
  <1> USE DEF TypeInv
  <1>1. CASE UNCHANGED vars
    BY <1>1 DEF vars, info, flag, screen, history, TypeOK
  <1>2. CASE TreatBrief
    <2>1. Subject \in Orders /\ down' \in Seq(DownMsg)
      BY <1>2, ArrivesType DEF TreatBrief
    <2>2. up' \in Seq(UpMsg)
      BY <1>2, <2>1, MessageTypes, Added DEF TreatBrief, TypeOK
    <2>3. shown' \in Orders \union {None} /\ brief' \in Orders /\ brief' # None
      BY <1>2, <2>1 DEF TreatBrief, TypeOK, OrderAssumption
    <2> QED  BY <1>2, <2>1, <2>2, <2>3 DEF TreatBrief, TypeOK, flag, history, Statuses
  <1>3. CASE TreatDetail
    <2>1. Subject \in Orders /\ down' \in Seq(DownMsg)
      BY <1>3, ArrivesType DEF TreatDetail
    <2>2. table' \in [Orders -> RowStates] /\ job' \in Orders \union {None}
          /\ saving' \in {"no", "order", "end"}
      BY <1>3, <2>1 DEF TreatDetail, TypeOK, RowStates
    <2> QED  BY <1>3, <2>1, <2>2 DEF TreatDetail, TypeOK, flag, history, Statuses
  <1>4. CASE TreatLost
    <2>1. down' \in Seq(DownMsg)
      BY <1>4, ArrivesType DEF TreatLost
    <2> QED  BY <1>4, <2>1 DEF TreatLost, TypeOK, history, info, flag, screen, Statuses
  <1>5. ASSUME NEW state \in RowStates, RowUpdated(state)
        PROVE  table' \in [Orders -> RowStates]
    BY <1>5 DEF RowUpdated, TypeOK
  <1>6. CASE TreatCancel
    <2>1. Subject \in Orders /\ down' \in Seq(DownMsg)
      BY <1>6, ArrivesType DEF TreatCancel
    <2>2. table' \in [Orders -> RowStates]
      BY <1>5, <1>6 DEF TreatCancel, RowStates
    <2>3. job' \in Orders \union {None} /\ orderly' \in BOOLEAN
      BY <1>6 DEF TreatCancel, TypeOK
    <2> QED  BY <1>6, <2>1, <2>2, <2>3 DEF TreatCancel, TypeOK, info, flag, Statuses
  <1>7. CASE TreatAckGrab
    <2>1. down' \in Seq(DownMsg)
      BY <1>7, ArrivesType DEF TreatAckGrab
    <2> QED  BY <1>7, <2>1 DEF TreatAckGrab, TypeOK, history, info, flag, screen, Statuses
  <1>8. CASE TreatAckFinish
    <2>1. Subject \in Orders /\ down' \in Seq(DownMsg)
      BY <1>8, ArrivesType DEF TreatAckFinish
    <2>2. table' \in [Orders -> RowStates]
      BY <1>5, <1>8 DEF TreatAckFinish, RowStates
    <2> QED  BY <1>8, <2>1, <2>2 DEF TreatAckFinish, TypeOK, info, flag, screen, Statuses
  <1>9. CASE TreatAckCancel
    <2>1. down' \in Seq(DownMsg)
      BY <1>9, ArrivesType DEF TreatAckCancel
    <2> QED  BY <1>9, <2>1 DEF TreatAckCancel, TypeOK, history, info, flag, screen, Statuses
  <1>10. CASE DriverTap
    BY <1>10 DEF DriverTap, TypeOK, info, flag
  <1>11. CASE UiGrab
    <2>1. brief \in Orders
      BY <1>11 DEF UiGrab, TypeOK
    <2>2. up' \in Seq(UpMsg)
      BY <1>11, <2>1, MessageTypes, Added DEF UiGrab, TypeOK
    <2> QED  BY <1>11, <2>2 DEF UiGrab, TypeOK, history, info, flag, Statuses
  <1>12. CASE UiFinish
    <2>1. up' \in Seq(UpMsg)
      BY <1>12, MessageTypes, Added DEF UiFinish, TypeOK
    <2> QED  BY <1>12, <2>1 DEF UiFinish, TypeOK, history, info, flag, Statuses
  <1>13. CASE UiCancel
    <2>1. up' \in Seq(UpMsg)
      BY <1>13, MessageTypes, Added DEF UiCancel, TypeOK
    <2> QED  BY <1>13, <2>1 DEF UiCancel, TypeOK, info, flag, Statuses
  <1>14. CASE Vacancy
    BY <1>14 DEF Vacancy, TypeOK, flag, history, info, screen
  <1>15. ASSUME NEW o \in Orders, Offer(o) \/ Withdraw(o) \/ Award(o) \/ ServerCancel(o)
         PROVE  TypeInv'
    <2>1. /\ <<Msg("brief", o)>> \in Seq(DownMsg) /\ <<Msg("detail", o)>> \in Seq(DownMsg)
          /\ <<Msg("lost", o)>> \in Seq(DownMsg) /\ <<Msg("cancel", o)>> \in Seq(DownMsg)
          /\ <<>> \in Seq(DownMsg)
      BY MessageTypes
    <2>2. /\ down' \in Seq(DownMsg)
          /\ srv' \in [Orders -> {"new", "offered", "grabbed", "awarded", "finished",
                                  "cancelled", "declined", "gone"}]
      BY <1>15, <2>1, SaysType DEF Offer, Withdraw, Award, ServerCancel
    <2>3. orderly' \in BOOLEAN
      BY <1>15 DEF TypeOK, Offer, Withdraw, Award, ServerCancel, history
    <2> QED
      BY <1>15, <2>2, <2>3
      DEF TypeOK, Offer, Withdraw, Award, ServerCancel, Terminal, info, flag, screen, history
  <1>16. CASE ServerRead
    <2>1. up \in Seq(UpMsg) /\ up # <<>> /\ up' = Tail(up)
      BY <1>16 DEF ServerRead, TypeOK
    <2>2. Head(up) \in UpMsg /\ up' \in Seq(UpMsg)
      BY <2>1, Taken
    <2> DEFINE o == Head(up).order
    <2>3. o \in Orders
      BY <2>2 DEF UpMsg
    <2>4. /\ <<Msg("ack_grab", o)>> \in Seq(DownMsg)
          /\ <<Msg("ack_grab", o), Msg("lost", o)>> \in Seq(DownMsg)
          /\ <<Msg("ack_finish", o)>> \in Seq(DownMsg)
          /\ <<Msg("ack_cancel", o)>> \in Seq(DownMsg)
      BY <2>3, MessageTypes
    <2>5. srv[o] \in {"new", "offered", "grabbed", "awarded", "finished", "cancelled",
                      "declined", "gone"}
      BY <2>3 DEF TypeOK
    <2> HIDE DEF o
    <2>6. \/ ServerSays(o, "grabbed", <<Msg("ack_grab", o)>>)
          \/ ServerSays(o, "gone", <<Msg("ack_grab", o), Msg("lost", o)>>)
          \/ ServerSays(o, srv[o], <<Msg("ack_grab", o)>>)
          \/ ServerSays(o, IF srv[o] = "awarded" THEN "finished" ELSE srv[o],
                        <<Msg("ack_finish", o)>>)
          \/ ServerSays(o, IF srv[o] = "awarded" THEN "declined" ELSE srv[o],
                        <<Msg("ack_cancel", o)>>)
      BY <1>16 DEF ServerRead, o
    <2>7. /\ down' \in Seq(DownMsg)
          /\ srv' \in [Orders -> {"new", "offered", "grabbed", "awarded", "finished",
                                  "cancelled", "declined", "gone"}]
      BY <2>3, <2>4, <2>5, <2>6, SaysType
    <2> QED  BY <1>16, <2>2, <2>7 DEF ServerRead, TypeOK, Terminal, info, flag, screen, history
  <1>17. CASE Disconnect
    <2>1. up' \in Seq(UpMsg) /\ down' \in Seq(DownMsg)
      BY <1>17, EmptySeq DEF Disconnect
    <2>2. faults' \in 0..MaxFaults
      BY <1>17 DEF Disconnect, TypeOK, OrderAssumption
    <2> QED  BY <1>17, <2>1, <2>2 DEF Disconnect, TypeOK, Terminal, info, flag, screen
  <1>18. CASE Restart
    <2>1. up' \in Seq(UpMsg) /\ down' \in Seq(DownMsg)
      BY <1>18, EmptySeq DEF Restart
    <2>2. faults' \in 0..MaxFaults
      BY <1>18 DEF Restart, TypeOK, OrderAssumption
    <2> QED  BY <1>18, <2>1, <2>2 DEF Restart, TypeOK, Statuses
  <1>19. CASE Save
    BY <1>19 DEF Save, TypeOK, info, screen
  <1> QED
    BY <1>1, <1>2, <1>3, <1>4, <1>6, <1>7, <1>8, <1>9, <1>10, <1>11, <1>12, <1>13, <1>14,
       <1>15, <1>16, <1>17, <1>18, <1>19
    DEF Next, Treat, Ui, Server

LEMMA TypeInit ==
  ASSUME OrderAssumption, Init
  PROVE  TypeInv
  <1>1. up \in Seq(UpMsg) /\ down \in Seq(DownMsg)
    BY EmptySeq DEF Init
  <1>2. type \in [Orders -> Types]
    BY DEF Init, OrderAssumption
  <1>3. /\ table \in [Orders -> RowStates]
        /\ srv \in [Orders -> {"new", "offered", "grabbed", "awarded", "finished",
                               "cancelled", "declined", "gone"}]
    BY DEF Init, RowStates
  <1>4. faults \in 0..MaxFaults
    BY DEF Init, OrderAssumption
  <1> QED  BY <1>1, <1>2, <1>3, <1>4 DEF Init, TypeInv, TypeOK, Statuses

\* Every order the terminal speaks of was offered to it, whatever overlaps and is lost:
\* no message is built from an empty briefing (TypeOK, TypeInv).
THEOREM DispatchTypeCorrect == Spec => []TypeOK
<1>1. OrderAssumption /\ Init => TypeInv
  BY TypeInit
<1>2. OrderAssumption /\ TypeInv /\ [Next]_vars => TypeInv'
  BY TypeStep
<1>3. TypeInv => TypeOK
  BY DEF TypeInv
<1> QED  BY <1>1, <1>2, <1>3, OrderAssumption, PTL DEF Spec

-----------------------------------------------------------------------------
(* The life of an order.                                                     *)

\* The server has not told the terminal that the order is its own.
Open(o) == srv[o] \in {"new", "offered", "grabbed"}

\* Nothing the driver or the terminal has done or will be told is the end of order o.
Unfinished(o) ==
  /\ job # o /\ o \notin ended
  /\ \A i \in DOMAIN up : up[i] # Msg("finish", o)

\* Messages on the way that say that o is the terminal's, or is over.
Details(o) == {i \in DOMAIN down : down[i] = Msg("detail", o)}
Ends(o)    == {i \in DOMAIN down : down[i] \in {Msg("cancel", o), Msg("ack_finish", o)}}

\* The details of an order come before every message of its end, once.
Life(o) ==
  /\ Open(o) => Unfinished(o) /\ Details(o) = {} /\ Ends(o) = {}
  /\ \A i \in Details(o) : Unfinished(o) /\ Details(o) = {i} /\ \A j \in Ends(o) : i < j
LifeInv == \A o \in Orders : Life(o)

OpenOrder == \E o \in Orders : table[o] # "none" /\ o \notin ended

\* A terminal in dispatch has an order on record: what put it in dispatch were the
\* details of an order that was not over, and is not while the flag is still to be saved;
\* and the next end of any order ends it, but for a power cut before the flag is saved.
DispatchInv == TypeInv /\ LifeInv /\ InDispatchHasOpenOrder /\ (saving = "order" => OpenOrder)

\* Nothing new is told.
LEMMA LifeQuiet ==
  ASSUME NEW o \in Orders, Life(o), down' = down, srv' = srv, Unfinished(o) => Unfinished(o)'
  PROVE  Life(o)'
  BY DEF Life, Open, Details, Ends, Msg

\* A message is treated.
LEMMA LifeTreated ==
  ASSUME TypeOK, NEW o \in Orders, Life(o), down # <<>>, down' = Tail(down), srv' = srv,
         Unfinished(o)
           /\ Head(down) \notin {Msg("detail", o), Msg("cancel", o), Msg("ack_finish", o)}
         => Unfinished(o)'
  PROVE  Life(o)'
  <1>1. /\ 1 \in DOMAIN down /\ Head(down) = down[1]
        /\ \A i \in DOMAIN Tail(down) : /\ i + 1 \in DOMAIN down /\ Tail(down)[i] = down[i + 1]
                                        /\ i \in Nat /\ i >= 1
    BY Taken DEF TypeOK
  <1>2. \A i \in Details(o)' : i + 1 \in Details(o) /\ i \in Nat /\ i >= 1
    BY <1>1 DEF Details, Msg
  <1>3. \A i \in Ends(o)' : i + 1 \in Ends(o) /\ i \in Nat
    BY <1>1 DEF Ends, Msg
  <1>4. CASE Head(down) = Msg("detail", o)
    <2>1. 1 \in Details(o)
      BY <1>1, <1>4 DEF Details
    <2>2. Details(o) = {1} /\ ~Open(o)
      BY <2>1 DEF Life
    <2>3. Details(o)' = {}
      BY <1>2, <2>2
    <2> QED  BY <2>2, <2>3 DEF Life, Open
  <1>5. CASE Head(down) \in {Msg("cancel", o), Msg("ack_finish", o)}
    <2>1. 1 \in Ends(o)
      BY <1>1, <1>5 DEF Ends
    <2>2. ~Open(o)
      BY <2>1 DEF Life
    <2>3. ASSUME NEW i \in Details(o)' PROVE FALSE
      <3>1. i + 1 < 1 /\ i \in Nat
        BY <1>2, <2>1, <2>3 DEF Life
      <3> QED  BY <3>1
    <2> QED  BY <2>2, <2>3 DEF Life, Open
  <1>6. CASE Head(down) \notin {Msg("detail", o), Msg("cancel", o), Msg("ack_finish", o)}
    <2>1. Unfinished(o) => Unfinished(o)'
      BY <1>6
    <2>2. Open(o)' => Unfinished(o)' /\ Details(o)' = {} /\ Ends(o)' = {}
      BY <1>2, <1>3, <2>1 DEF Life, Open
    <2>3. ASSUME NEW i \in Details(o)'
          PROVE  Unfinished(o)' /\ Details(o)' = {i} /\ \A j \in Ends(o)' : i < j
      <3>1. i + 1 \in Details(o) /\ i \in Nat
        BY <1>2, <2>3
      <3>2. Unfinished(o) /\ Details(o) = {i + 1} /\ \A j \in Ends(o) : i + 1 < j
        BY <3>1 DEF Life
      <3>3. ASSUME NEW k \in Details(o)' PROVE k = i
        <4>1. k + 1 \in Details(o) /\ k \in Nat
          BY <1>2, <3>3
        <4> QED  BY <3>1, <3>2, <4>1
      <3>4. ASSUME NEW j \in Ends(o)' PROVE i < j
        <4>1. j + 1 \in Ends(o) /\ j \in Nat
          BY <1>3, <3>4
        <4> QED  BY <3>1, <3>2, <4>1
      <3> QED  BY <2>1, <2>3, <3>2, <3>3, <3>4
    <2> QED  BY <2>2, <2>3 DEF Life
  <1> QED  BY <1>4, <1>5, <1>6

\* The server tells: nothing of order o, its end when it is the terminal's already, or
\* its details when they come with the award.
LEMMA LifeTold ==
  ASSUME TypeOK, NEW o \in Orders, Life(o), NEW msgs \in Seq(DownMsg), down' = down \o msgs,
         Open(o)' => Open(o), Unfinished(o) => Unfinished(o)',
         \/ \A k \in DOMAIN msgs :
              msgs[k] \notin {Msg("detail", o), Msg("cancel", o), Msg("ack_finish", o)}
         \/ ~Open(o) /\ \A k \in DOMAIN msgs : msgs[k] # Msg("detail", o)
         \/ Open(o) /\ ~Open(o)' /\ msgs = <<Msg("detail", o)>>
  PROVE  Life(o)'
  <1>1. /\ DOMAIN down = 1..Len(down) /\ Len(down) \in Nat
        /\ \A i \in DOMAIN down' :
             \/ i \in DOMAIN down /\ down'[i] = down[i]
             \/ i \notin DOMAIN down /\ i > Len(down) /\ i - Len(down) \in DOMAIN msgs
                /\ down'[i] = msgs[i - Len(down)]
    BY Joined, LenProperties DEF TypeOK
  <1>2. CASE \A k \in DOMAIN msgs : msgs[k] # Msg("detail", o)
    <2>1. Details(o)' \subseteq Details(o)
      BY <1>1, <1>2 DEF Details, Msg
    <2>2. \A j \in Ends(o)' : j \in Ends(o) \/ j > Len(down)
      BY <1>1 DEF Ends, Msg
    <2>3. Details(o) \subseteq 1..Len(down)
      BY <1>1 DEF Details
    <2>4. Open(o)' => Ends(o)' \subseteq Ends(o)
      <3>1. SUFFICES ASSUME Open(o)' PROVE Ends(o)' \subseteq Ends(o)
        OBVIOUS
      <3>2. \A k \in DOMAIN msgs : msgs[k] \notin {Msg("cancel", o), Msg("ack_finish", o)}
        BY <3>1, <1>2
      <3> QED  BY <3>2, <1>1 DEF Ends, Msg
    <2>5. ASSUME NEW i \in Details(o)'
          PROVE  Unfinished(o)' /\ Details(o)' = {i} /\ \A j \in Ends(o)' : i < j
      <3>1. i \in Details(o) /\ i \in 1..Len(down)
        BY <2>1, <2>3, <2>5
      <3>2. Unfinished(o) /\ Details(o) = {i} /\ \A j \in Ends(o) : i < j
        BY <3>1 DEF Life
      <3>3. \A j \in Ends(o)' : i < j
        <4>1. TAKE j \in Ends(o)'
        <4>2. CASE j \in Ends(o)
          BY <3>2, <4>2
        <4>3. CASE j > Len(down) /\ j \notin Ends(o)
          <5>1. j \in Nat
            BY <1>1 DEF Ends
          <5> QED  BY <3>1, <4>3, <1>1, <5>1
        <4> QED  BY <4>2, <4>3, <2>2
      <3> QED  BY <2>1, <2>5, <3>2, <3>3
    <2> QED  BY <2>1, <2>4, <2>5 DEF Life
  <1>3. CASE Open(o) /\ ~Open(o)' /\ msgs = <<Msg("detail", o)>>
    <2>1. Unfinished(o)' /\ Details(o) = {} /\ Ends(o) = {}
      BY <1>3 DEF Life
    <2>2. DOMAIN msgs = {1} /\ msgs[1] = Msg("detail", o)
      BY <1>3
    <2>3. Ends(o)' = {}
      BY <1>1, <2>1, <2>2 DEF Ends, Msg
    <2>4. \A i \in Details(o)' : i = Len(down) + 1
      <3>1. TAKE i \in Details(o)'
      <3>2. i \notin DOMAIN down
        BY <1>1, <2>1 DEF Details, Msg
      <3>3. i - Len(down) = 1 /\ i \in DOMAIN down'
        BY <1>1, <2>2, <3>2 DEF Details
      <3>4. i \in Nat
        BY <3>3, Joined, LenProperties DEF TypeOK
      <3> QED  BY <1>1, <3>3, <3>4
    <2> QED  BY <1>3, <2>1, <2>3, <2>4 DEF Life
  <1> QED  BY <1>2, <1>3

\* Messages that say nothing of the details or the end of an order.
Silent(msgs) == \A k \in DOMAIN msgs : msgs[k].kind \notin {"detail", "cancel", "ack_finish"}

LEMMA SilentMessages ==
  ASSUME NEW p
  PROVE  /\ Silent(<<>>) /\ Silent(<<Msg("brief", p)>>) /\ Silent(<<Msg("lost", p)>>)
         /\ Silent(<<Msg("ack_grab", p)>>) /\ Silent(<<Msg("ack_cancel", p)>>)
         /\ Silent(<<Msg("ack_grab", p), Msg("lost", p)>>)
  BY DEF Silent, Msg

LEMMA LifeStep ==
  ASSUME OrderAssumption, TypeInv, TypeInv', LifeInv, [Next]_vars
  PROVE  LifeInv'
  <1> SUFFICES ASSUME NEW o \in Orders PROVE Life(o)'
    BY DEF LifeInv
  <1> USE DEF TypeInv
  <1>0. /\ Life(o) /\ o # None /\ up \in Seq(UpMsg) /\ down \in Seq(DownMsg)
        /\ srv \in [Orders -> {"new", "offered", "grabbed", "awarded", "finished",
                               "cancelled", "declined", "gone"}]
    BY DEF LifeInv, OrderAssumption, TypeOK
  <1>1. CASE UNCHANGED vars
    BY <1>0, <1>1, LifeQuiet DEF vars, screen, history, Unfinished, Msg
  <1>2. ASSUME NEW kind, Arrives(kind), srv' = srv,
               Unfinished(o) => Unfinished(o)' \/ Head(down) = Msg(kind, o),
               Unfinished(o) /\ ~Unfinished(o)' => kind \in {"detail", "cancel", "ack_finish"}
        PROVE  Life(o)'
    <2>1. down # <<>> /\ down' = Tail(down)
      BY <1>2, ArrivesType
    <2> QED  BY <1>0, <1>2, <2>1, LifeTreated
  \* What arrives about another order, or of another kind, is no end of this one.
  <1>3. ASSUME NEW kind, Arrives(kind) PROVE Head(down) = Msg(kind, Subject)
    BY <1>3, ArrivesType DEF DownMsg, Msg, Subject
  <1>4. CASE TreatBrief
    <2>1. \A i \in DOMAIN up' : \/ i \in DOMAIN up /\ up'[i] = up[i]
                                \/ up'[i] = Msg("grab", Subject)
      <3>1. Subject \in Orders
        BY <1>4, ArrivesType DEF TreatBrief
      <3> QED  BY <1>0, <1>4, <3>1, Added, MessageTypes DEF TreatBrief
    <2>2. Unfinished(o) => Unfinished(o)'
      BY <1>4, <2>1 DEF TreatBrief, Unfinished, Msg, history
    <2> QED  BY <1>2, <1>4, <2>2 DEF TreatBrief
  <1>5. CASE TreatDetail
    <2>1. Unfinished(o) => Unfinished(o)' \/ Subject = o
      BY <1>5 DEF TreatDetail, Unfinished, Msg, history
    <2> QED  BY <1>2, <1>3, <1>5, <2>1 DEF TreatDetail
  <1>6. CASE TreatLost
    BY <1>2, <1>6 DEF TreatLost, Unfinished, Msg, history, screen
  <1>7. CASE TreatCancel
    <2>1. Unfinished(o) => Unfinished(o)' \/ Subject = o
      BY <1>0, <1>7 DEF TreatCancel, Unfinished, Msg
    <2> QED  BY <1>2, <1>3, <1>7, <2>1 DEF TreatCancel
  <1>8. CASE TreatAckGrab
    BY <1>2, <1>8 DEF TreatAckGrab, Unfinished, Msg, history, screen
  <1>9. CASE TreatAckFinish
    <2>1. Unfinished(o) => Unfinished(o)' \/ Subject = o
      BY <1>9 DEF TreatAckFinish, Unfinished, Msg, screen
    <2> QED  BY <1>2, <1>3, <1>9, <2>1 DEF TreatAckFinish
  <1>10. CASE TreatAckCancel
    BY <1>2, <1>10 DEF TreatAckCancel, Unfinished, Msg, history, screen
  <1>11. ASSUME NEW m \in UpMsg, up' = Append(up, m), m = Msg("finish", o) => job = o,
                job' \in {job, None}, ended' = ended
         PROVE  Unfinished(o) => Unfinished(o)'
    <2>1. \A i \in DOMAIN up' : \/ i \in DOMAIN up /\ up'[i] = up[i]
                                \/ up'[i] = m
      BY <1>0, <1>11, Added
    <2> QED  BY <1>0, <1>11, <2>1 DEF Unfinished, Msg
  <1>12. CASE DriverTap
    BY <1>0, <1>12, LifeQuiet DEF DriverTap, Unfinished, Msg
  <1>13. CASE UiGrab
    <2>1. brief \in Orders
      BY <1>13 DEF UiGrab, TypeOK
    <2>2. Msg("grab", brief) \in UpMsg /\ Msg("grab", brief) # Msg("finish", o)
      BY <2>1, MessageTypes DEF Msg
    <2>3. Unfinished(o) => Unfinished(o)'
      BY <1>11, <1>13, <2>2 DEF UiGrab, history
    <2> QED  BY <1>0, <1>13, <2>3, LifeQuiet DEF UiGrab
  <1>14. CASE UiFinish
    <2>1. job \in Orders
      BY <1>14 DEF UiFinish, TypeOK
    <2>2. Msg("finish", job) \in UpMsg /\ (Msg("finish", job) = Msg("finish", o) => job = o)
      BY <2>1, MessageTypes DEF Msg
    <2>3. Unfinished(o) => Unfinished(o)'
      BY <1>11, <1>14, <2>2 DEF UiFinish, history
    <2> QED  BY <1>0, <1>14, <2>3, LifeQuiet DEF UiFinish
  <1>15. CASE UiCancel
    <2>1. job \in Orders
      BY <1>15 DEF UiCancel, TypeOK
    <2>2. Msg("cancel", job) \in UpMsg /\ Msg("cancel", job) # Msg("finish", o)
      BY <2>1, MessageTypes DEF Msg
    <2>3. Unfinished(o) => Unfinished(o)'
      BY <1>11, <1>15, <2>2 DEF UiCancel
    <2> QED  BY <1>0, <1>15, <2>3, LifeQuiet DEF UiCancel
  <1>16. CASE Vacancy
    BY <1>0, <1>16, LifeQuiet DEF Vacancy, Unfinished, Msg, history, screen
  <1>17. ASSUME NEW p \in Orders, NEW stage, NEW msgs \in Seq(DownMsg),
                ServerSays(p, stage, msgs), UNCHANGED <<job, ended>>,
                \A i \in DOMAIN up' : \E k \in DOMAIN up : up'[i] = up[k],
                p = o /\ stage \in {"new", "offered", "grabbed"} => Open(o),
                \/ Silent(msgs)
                \/ /\ p = o => ~Open(o)
                   /\ \A k \in DOMAIN msgs : /\ msgs[k] # Msg("detail", o)
                                             /\ msgs[k].order = p
                \/ stage = "awarded" /\ (p = o => Open(o)) /\ msgs = <<Msg("detail", p)>>
         PROVE  Life(o)'
    <2>1. down' = down \o msgs /\ srv' = [srv EXCEPT ![p] = stage]
      BY <1>17 DEF ServerSays
    <2>2. Unfinished(o) => Unfinished(o)'
      BY <1>17 DEF Unfinished, Msg
    <2>3. Open(o)' => Open(o)
      BY <1>0, <1>17, <2>1 DEF Open
    <2>4. \/ \A k \in DOMAIN msgs :
               msgs[k] \notin {Msg("detail", o), Msg("cancel", o), Msg("ack_finish", o)}
          \/ ~Open(o) /\ \A k \in DOMAIN msgs : msgs[k] # Msg("detail", o)
          \/ Open(o) /\ ~Open(o)' /\ msgs = <<Msg("detail", o)>>
      <3>1. CASE Silent(msgs)
        BY <3>1 DEF Silent, Msg
      <3>2. CASE /\ p = o => ~Open(o)
                 /\ \A k \in DOMAIN msgs : msgs[k] # Msg("detail", o) /\ msgs[k].order = p
        BY <3>2 DEF Msg
      <3>3. CASE stage = "awarded" /\ (p = o => Open(o)) /\ msgs = <<Msg("detail", p)>>
        <4>1. CASE p = o
          <5>1. ~Open(o)'
            BY <1>0, <2>1, <3>3, <4>1 DEF Open
          <5> QED  BY <3>3, <4>1, <5>1
        <4>2. CASE p # o
          BY <3>3, <4>2 DEF Msg
        <4> QED  BY <4>1, <4>2
      <3> QED  BY <1>17, <3>1, <3>2, <3>3
    <2> QED  BY <1>0, <2>1, <2>2, <2>3, <2>4, LifeTold
  <1>18. ASSUME NEW p \in Orders, Offer(p) \/ Withdraw(p) \/ Award(p) \/ ServerCancel(p)
         PROVE  Life(o)'
    <2>0. UNCHANGED <<job, up, ended>>
      BY <1>18 DEF Offer, Withdraw, Award, ServerCancel, Terminal, screen, history
    <2>1. \A k \in {"brief", "detail", "lost", "cancel"} : <<Msg(k, p)>> \in Seq(DownMsg)
      BY MessageTypes
    <2>2. CASE Offer(p)
      <3>1. ServerSays(p, "offered", <<Msg("brief", p)>>) /\ srv[p] = "new"
        BY <2>2 DEF Offer
      <3> QED  BY <1>17, <2>0, <2>1, <3>1, SilentMessages DEF Open
    <2>3. CASE Withdraw(p)
      <3>1. <<>> \in Seq(DownMsg) /\ DOMAIN <<>> = {}
        BY EmptySeq
      <3> QED  BY <1>17, <2>0, <2>3, <3>1, SilentMessages DEF Withdraw
    <2>4. CASE Award(p)
      <3>1. CASE ServerSays(p, "awarded", <<Msg("detail", p)>>)
        BY <1>17, <2>0, <2>1, <2>4, <3>1 DEF Award, Open
      <3>2. CASE ServerSays(p, "gone", <<Msg("lost", p)>>)
        BY <1>17, <2>0, <2>1, <3>2, SilentMessages
      <3> QED  BY <2>4, <3>1, <3>2 DEF Award
    <2>5. CASE ServerCancel(p)
      <3>1. ServerSays(p, "cancelled", <<Msg("cancel", p)>>) /\ srv[p] = "awarded"
        BY <2>5 DEF ServerCancel
      <3>2. \A k \in DOMAIN <<Msg("cancel", p)>> :
              /\ <<Msg("cancel", p)>>[k] # Msg("detail", o)
              /\ <<Msg("cancel", p)>>[k].order = p
        BY DEF Msg
      <3> QED  BY <1>17, <2>0, <2>1, <3>1, <3>2 DEF Open
    <2> QED  BY <1>18, <2>2, <2>3, <2>4, <2>5
  <1>19. CASE ServerRead
    <2> DEFINE p == Head(up).order
    <2>1. /\ up # <<>> /\ up' = Tail(up) /\ Head(up) \in UpMsg /\ Head(up) = up[1]
          /\ 1 \in DOMAIN up
          /\ \A i \in DOMAIN up' : \E k \in DOMAIN up : up'[i] = up[k]
      BY <1>0, <1>19, Taken DEF ServerRead
    <2>2. UNCHANGED <<job, ended>>
      BY <1>19 DEF ServerRead, Terminal, screen, history
    <2>3. p \in Orders
      BY <2>1 DEF UpMsg
    <2>4. /\ <<Msg("ack_grab", p)>> \in Seq(DownMsg)
          /\ <<Msg("ack_grab", p), Msg("lost", p)>> \in Seq(DownMsg)
          /\ <<Msg("ack_finish", p)>> \in Seq(DownMsg)
          /\ <<Msg("ack_cancel", p)>> \in Seq(DownMsg)
      BY <2>3, MessageTypes
    <2>5. Head(up).kind = "finish" => Head(up) = Msg("finish", p)
      BY <2>1 DEF UpMsg, Msg
    <2> HIDE DEF p
    <2>6. \/ ServerSays(p, "grabbed", <<Msg("ack_grab", p)>>) /\ srv[p] = "offered"
          \/ ServerSays(p, "gone", <<Msg("ack_grab", p), Msg("lost", p)>>)
          \/ ServerSays(p, srv[p], <<Msg("ack_grab", p)>>)
          \/ /\ ServerSays(p, IF srv[p] = "awarded" THEN "finished" ELSE srv[p],
                           <<Msg("ack_finish", p)>>)
             /\ Head(up) = Msg("finish", p)
          \/ ServerSays(p, IF srv[p] = "awarded" THEN "declined" ELSE srv[p],
                        <<Msg("ack_cancel", p)>>)
      BY <1>19, <2>5 DEF ServerRead, p
    <2>7. CASE ServerSays(p, "grabbed", <<Msg("ack_grab", p)>>) /\ srv[p] = "offered"
      BY <1>17, <2>1, <2>2, <2>3, <2>4, <2>7, SilentMessages DEF Open
    <2>8. CASE ServerSays(p, "gone", <<Msg("ack_grab", p), Msg("lost", p)>>)
      BY <1>17, <2>1, <2>2, <2>3, <2>4, <2>8, SilentMessages DEF Open
    <2>9. CASE ServerSays(p, srv[p], <<Msg("ack_grab", p)>>)
      BY <1>17, <2>1, <2>2, <2>3, <2>4, <2>9, SilentMessages DEF Open
    <2>10. CASE /\ ServerSays(p, IF srv[p] = "awarded" THEN "finished" ELSE srv[p],
                              <<Msg("ack_finish", p)>>)
                /\ Head(up) = Msg("finish", p)
      <3>1. p = o => ~Open(o)
        BY <1>0, <2>1, <2>10 DEF Life, Unfinished
      <3>2. \A k \in DOMAIN <<Msg("ack_finish", p)>> :
              /\ <<Msg("ack_finish", p)>>[k] # Msg("detail", o)
              /\ <<Msg("ack_finish", p)>>[k].order = p
        BY DEF Msg
      <3>3. p = o /\ (IF srv[p] = "awarded" THEN "finished" ELSE srv[p])
                       \in {"new", "offered", "grabbed"} => Open(o)
        BY DEF Open
      <3> QED  BY <1>17, <2>1, <2>2, <2>3, <2>4, <2>10, <3>1, <3>2, <3>3
    <2>11. CASE ServerSays(p, IF srv[p] = "awarded" THEN "declined" ELSE srv[p],
                           <<Msg("ack_cancel", p)>>)
      BY <1>17, <2>1, <2>2, <2>3, <2>4, <2>11, SilentMessages DEF Open
    <2> QED  BY <2>6, <2>7, <2>8, <2>9, <2>10, <2>11
  <1>20. ASSUME Disconnect \/ Restart PROVE Life(o)'
    <2>1. /\ up' = <<>> /\ down' = <<>> /\ srv' = srv /\ ended' = ended /\ job' \in {job, None}
      BY <1>20 DEF Disconnect, Restart, Terminal, screen
    <2>2. Unfinished(o) => Unfinished(o)'
      BY <1>0, <2>1 DEF Unfinished, Msg
    <2>3. Details(o)' = {} /\ Ends(o)' = {}
      BY <2>1 DEF Details, Ends
    <2> QED  BY <1>0, <2>1, <2>2, <2>3 DEF Life, Open
  <1>21. CASE Save
    BY <1>0, <1>21, LifeQuiet DEF Save, Unfinished, Msg, screen
  <1> QED
    BY <1>1, <1>4, <1>5, <1>6, <1>7, <1>8, <1>9, <1>10, <1>12, <1>13, <1>14, <1>15, <1>16,
       <1>18, <1>19, <1>20, <1>21
    DEF Next, Treat, Ui, Server

-----------------------------------------------------------------------------
(* Dispatch.                                                                 *)

LEMMA OpenOrderStep ==
  ASSUME OrderAssumption, DispatchInv, [Next]_vars
  PROVE  InDispatchHasOpenOrder' /\ (saving' = "order" => OpenOrder')
  <1> USE DEF DispatchInv, TypeInv
  \* No row is ever removed, and what leaves the flag alone ends no order.
  <1>1. ASSUME order_state' = order_state, saving' = saving, torn' = torn, ended' = ended,
               table' = table
        PROVE  InDispatchHasOpenOrder' /\ (saving' = "order" => OpenOrder')
    BY <1>1 DEF InDispatchHasOpenOrder, OpenOrder
  <1>2. CASE Save
    <2>1. saving' = "no" /\ (order_state' => saving = "order") /\ ended' = ended /\ table' = table
      BY <1>2 DEF Save
    <2> QED  BY <2>1 DEF InDispatchHasOpenOrder, OpenOrder
  <1>3. CASE TreatDetail
    <2>1. Subject \in Orders /\ Head(down) = Msg("detail", Subject)
      BY <1>3, ArrivesType DEF TreatDetail, DownMsg, Msg, Subject
    <2>2. 1 \in DOMAIN down /\ Head(down) = down[1]
      BY <1>3, Taken, ArrivesType DEF TreatDetail, TypeOK
    <2>3. Subject \notin ended
      BY <2>1, <2>2 DEF LifeInv, Life, Details, Unfinished
    <2>4. CASE status = "crab_ack"
      <3>1. table' = [table EXCEPT ![Subject] = "crab_ack"] /\ ended' = ended
        BY <1>3, <2>4 DEF TreatDetail, history
      <3>2. table'[Subject] # "none"
        BY <2>1, <3>1 DEF TypeOK
      <3>3. OpenOrder'
        BY <2>1, <2>3, <3>1, <3>2 DEF OpenOrder
      <3> QED  BY <3>3 DEF InDispatchHasOpenOrder, OpenOrder
    <2>5. CASE status # "crab_ack"
      BY <1>1, <1>3, <2>5 DEF TreatDetail, history
    <2> QED  BY <2>4, <2>5
  <1>4. CASE TreatCancel \/ TreatAckFinish
    <2>1. saving' = "end"
      BY <1>4 DEF TreatCancel, TreatAckFinish
    <2> QED  BY <2>1 DEF InDispatchHasOpenOrder
  <1>5. CASE UNCHANGED vars
    BY <1>1, <1>5 DEF vars, history
  <1>6. CASE TreatBrief \/ TreatLost \/ TreatAckGrab \/ TreatAckCancel
    BY <1>1, <1>6 DEF TreatBrief, TreatLost, TreatAckGrab, TreatAckCancel, flag, history
  <1>7. CASE Ui \/ Vacancy
    BY <1>1, <1>7 DEF Ui, DriverTap, UiGrab, UiFinish, UiCancel, Vacancy, flag, history
  <1>8. CASE Server
    BY <1>1, <1>8
    DEF Server, ServerRead, Offer, Withdraw, Award, ServerCancel, Terminal, flag, history
  <1>9. CASE Disconnect
    BY <1>1, <1>9 DEF Disconnect, Terminal, flag
  <1>10. CASE Restart
    <2>1. /\ saving' = "no" /\ torn' = (torn \/ (saving = "end" /\ order_state))
          /\ order_state' = order_state /\ ended' = ended /\ table' = table
      BY <1>10 DEF Restart
    <2>2. order_state' /\ ~torn' => OpenOrder
      BY <2>1 DEF InDispatchHasOpenOrder, OpenOrder
    <2> QED  BY <2>1, <2>2 DEF InDispatchHasOpenOrder, OpenOrder
  <1> QED
    BY <1>2, <1>3, <1>4, <1>5, <1>6, <1>7, <1>8, <1>9, <1>10 DEF Next, Treat

\* Whatever orders overlap, whoever cancels, and whatever a restart or a lost connection
\* takes away, a terminal in dispatch has an order on record whose end it was not told, unless
\* the power was cut between the row of an ended order and the flag, which are saved one after
\* the other (InDispatchHasOpenOrder).
THEOREM DispatchSafe == Spec => []InDispatchHasOpenOrder
<1>1. OrderAssumption /\ Init => DispatchInv
  <2> SUFFICES ASSUME OrderAssumption, Init PROVE DispatchInv
    OBVIOUS
  <2>1. TypeInv
    BY TypeInit
  <2>2. LifeInv
    BY DEF Init, LifeInv, Life, Unfinished, Details, Ends, OrderAssumption
  <2>3. InDispatchHasOpenOrder
    BY DEF Init, InDispatchHasOpenOrder
  <2>4. saving # "order"
    BY DEF Init
  <2> QED  BY <2>1, <2>2, <2>3, <2>4 DEF DispatchInv
<1>2. OrderAssumption /\ DispatchInv /\ [Next]_vars => DispatchInv'
  BY TypeStep, LifeStep, OpenOrderStep DEF DispatchInv
<1>3. DispatchInv => InDispatchHasOpenOrder
  BY DEF DispatchInv
<1> QED  BY <1>1, <1>2, <1>3, OrderAssumption, PTL DEF Spec

-----------------------------------------------------------------------------
(* The story of one order, as long as it goes as it should.                  *)

\* What the flag is, or will be as soon as it is saved.
InDispatch == IF saving = "no" THEN order_state ELSE saving = "order"

\* Once grabbed, an order is on the screen only if the terminal grabbed it itself.
Off(o) == tap = None /\ (shown = None \/ (shown = o /\ type[o] = "appoint"))

Offered(o) ==
  /\ srv[o] \in {"offered", "gone"} /\ up = <<>> /\ job = None /\ ~InDispatch
  /\ \/ down = <<Msg("brief", o)>> /\ shown = None /\ tap = None
     \/ /\ down = <<>> /\ brief = o
        /\ (shown = None /\ tap \in {None, o}) \/ (shown = o /\ tap = None)
        /\ type[o] = "appoint" => shown = None /\ tap = None

Grabbing(o) ==
  /\ srv[o] \in {"offered", "gone"} /\ up = <<Msg("grab", o)>> /\ down = <<>>
  /\ Off(o) /\ job = None /\ ~InDispatch

Grabbed(o) ==
  /\ srv[o] = "grabbed" /\ up = <<>> /\ Off(o) /\ job = None /\ ~InDispatch
  /\ down = <<Msg("ack_grab", o)>> \/ (down = <<>> /\ status = "crab_ack")

Lost(o) ==
  /\ srv[o] = "gone" /\ up = <<>> /\ Off(o) /\ job = None /\ ~InDispatch
  /\ down \in {<<Msg("ack_grab", o), Msg("lost", o)>>, <<Msg("lost", o)>>, <<>>}

Awarded(o) ==
  /\ up = <<>> /\ Off(o) /\ job = None /\ ~InDispatch
  /\ \/ /\ srv[o] = "awarded"
        /\ \/ down = <<Msg("ack_grab", o), Msg("detail", o)>>
           \/ down = <<Msg("detail", o)>> /\ status = "crab_ack"
     \/ /\ srv[o] = "cancelled"
        /\ \/ down = <<Msg("ack_grab", o), Msg("detail", o), Msg("cancel", o)>>
           \/ down = <<Msg("detail", o), Msg("cancel", o)>> /\ status = "crab_ack"

\* The row of the order is the one an end is recorded in.
OnRecord(o) == detail = o /\ table[o] # "none"

Working(o) ==
  /\ \/ srv[o] = "awarded" /\ down = <<>>
     \/ srv[o] = "cancelled" /\ down = <<Msg("cancel", o)>>
  /\ (job = o /\ up = <<>>) \/ (job = None /\ up = <<Msg("finish", o)>>)
  /\ Off(o) /\ OnRecord(o) /\ (InDispatch <=> type[o] # "reserved")

Ending(o) ==
  /\ Off(o) /\ OnRecord(o) /\ job = None
  /\ \/ srv[o] = "finished" /\ up = <<>> /\ down = <<Msg("ack_finish", o)>>
     \/ /\ srv[o] = "cancelled"
        /\ \/ up = <<>> /\ down = <<Msg("cancel", o), Msg("ack_finish", o)>>
           \/ up = <<Msg("finish", o)>> /\ down = <<>> /\ ~InDispatch
           \/ up = <<>> /\ down = <<Msg("ack_finish", o)>> /\ ~InDispatch

Over(o) ==
  /\ srv[o] \in {"finished", "cancelled"} /\ up = <<>> /\ down = <<>>
  /\ Off(o) /\ job = None /\ ~InDispatch
  /\ srv[o] = "finished" => table[o] = "complete_ack"

Story(o) == \/ Offered(o) \/ Grabbing(o) \/ Grabbed(o) \/ Lost(o) \/ Awarded(o)
            \/ Working(o) \/ Ending(o) \/ Over(o)

\* The orders before it are over.
Past(o) == ~UnderWay(o) /\ (srv[o] = "finished" => table[o] = "complete_ack")

NoOrder == /\ up = <<>> /\ down = <<>> /\ shown = None /\ tap = None /\ job = None
           /\ ~InDispatch /\ \A p \in Orders : Past(p)

StoryInv ==
  orderly => \/ NoOrder
             \/ \E o \in Orders : Story(o) /\ \A p \in Orders \ {o} : Past(p)

\* Short sequences of messages.
LEMMA One ==
  ASSUME NEW a
  PROVE  /\ <<a>> # <<>> /\ Head(<<a>>) = a /\ Tail(<<a>>) = <<>>
         /\ <<>> \o <<a>> = <<a>> /\ Append(<<>>, a) = <<a>>
  OBVIOUS

LEMMA Two ==
  ASSUME NEW a, NEW b
  PROVE  /\ <<a, b>> # <<>> /\ Head(<<a, b>>) = a /\ Tail(<<a, b>>) = <<b>>
         /\ <<>> \o <<a, b>> = <<a, b>> /\ <<a>> \o <<b>> = <<a, b>>
  <1>1. <<a, b>> # <<>> /\ Head(<<a, b>>) = a
    OBVIOUS
  <1>2. Tail(<<a, b>>) = <<b>>
    OBVIOUS
  <1>3. <<>> \o <<a, b>> = <<a, b>>
    OBVIOUS
  <1>4. <<a>> \o <<b>> = <<a, b>>
    <2> DEFINE s == <<a>> \o <<b>>
    <2>1. {<<a>>, <<b>>, <<a, b>>} \subseteq Seq({a, b})
      OBVIOUS
    <2>2. s \in Seq({a, b}) /\ Len(s) = 2
      BY <2>1, ConcatProperties
    <2>3. s[1] = a /\ s[2] = b
      BY <2>1, ConcatProperties
    <2>4. Len(<<a, b>>) = 2 /\ <<a, b>>[1] = a /\ <<a, b>>[2] = b
      OBVIOUS
    <2> HIDE DEF s
    <2>5. \A i \in 1..2 : s[i] = <<a, b>>[i]
      BY <2>3, <2>4
    <2> QED  BY <2>1, <2>2, <2>4, <2>5, SeqEqual DEF s
  <1> QED  BY <1>1, <1>2, <1>3, <1>4

LEMMA Three ==
  ASSUME NEW a, NEW b, NEW c
  PROVE  /\ <<a, b, c>> # <<>> /\ Head(<<a, b, c>>) = a /\ Tail(<<a, b, c>>) = <<b, c>>
         /\ <<a, b>> \o <<c>> = <<a, b, c>>
  <1>1. <<a, b, c>> # <<>> /\ Head(<<a, b, c>>) = a
    OBVIOUS
  <1>2. Tail(<<a, b, c>>) = <<b, c>>
    OBVIOUS
  <1>3. <<a, b>> \o <<c>> = <<a, b, c>>
    <2> DEFINE s == <<a, b>> \o <<c>>
    <2>1. {<<a, b>>, <<c>>, <<a, b, c>>} \subseteq Seq({a, b, c})
      OBVIOUS
    <2>2. s \in Seq({a, b, c}) /\ Len(s) = 3
      BY <2>1, ConcatProperties
    <2>3. s[1] = a /\ s[2] = b /\ s[3] = c
      BY <2>1, ConcatProperties
    <2>4. /\ Len(<<a, b, c>>) = 3
          /\ <<a, b, c>>[1] = a /\ <<a, b, c>>[2] = b /\ <<a, b, c>>[3] = c
      OBVIOUS
    <2> HIDE DEF s
    <2>5. \A i \in 1..3 : s[i] = <<a, b, c>>[i]
      BY <2>3, <2>4
    <2> QED  BY <2>1, <2>2, <2>4, <2>5, SeqEqual DEF s
  <1> QED  BY <1>1, <1>2, <1>3

\* Which message arrives at which point of the story.
LEMMA Arrived ==
  ASSUME NEW o \in Orders, Story(o), NEW kind, Arrives(kind)
  PROVE  /\ Subject = o
         /\ \/ kind = "brief" /\ Offered(o) /\ shown = None /\ tap = None /\ down' = <<>>
            \/ kind = "ack_grab" /\ \/ Grabbed(o) /\ down' = <<>>
                                    \/ Lost(o) /\ down' = <<Msg("lost", o)>>
                                    \/ /\ Awarded(o) /\ srv[o] = "awarded"
                                       /\ down' = <<Msg("detail", o)>>
                                    \/ /\ Awarded(o) /\ srv[o] = "cancelled"
                                       /\ down' = <<Msg("detail", o), Msg("cancel", o)>>
            \/ kind = "lost" /\ Lost(o) /\ down' = <<>>
            \/ kind = "detail" /\ Awarded(o) /\ status = "crab_ack"
               /\ \/ srv[o] = "awarded" /\ down' = <<>>
                  \/ srv[o] = "cancelled" /\ down' = <<Msg("cancel", o)>>
            \/ kind = "cancel" /\ srv[o] = "cancelled"
               /\ \/ Working(o) /\ down' = <<>>
                  \/ Ending(o) /\ up = <<>> /\ down' = <<Msg("ack_finish", o)>>
            \/ kind = "ack_finish" /\ Ending(o) /\ up = <<>> /\ down' = <<>>
  <1>1. down # <<>> /\ Head(down).kind = kind /\ down' = Tail(down) /\ Subject = Head(down).order
    BY DEF Arrives, Subject
  <1>2. \A k, p : Msg(k, p).kind = k /\ Msg(k, p).order = p
    BY DEF Msg
  <1>3. CASE Offered(o)
    <2>1. down = <<Msg("brief", o)>> /\ shown = None /\ tap = None
      BY <1>1, <1>3 DEF Offered
    <2>2. Head(down) = Msg("brief", o) /\ Tail(down) = <<>>
      BY <2>1, One, Two, Three
    <2> QED  BY <1>1, <1>2, <1>3, <2>1, <2>2
  <1>4. CASE Grabbing(o)
    BY <1>1, <1>4 DEF Grabbing
  <1>5. CASE Grabbed(o)
    BY <1>1, <1>2, <1>5, One, Two, Three DEF Grabbed
  <1>6. CASE Lost(o)
    <2>1. \/ down = <<Msg("ack_grab", o), Msg("lost", o)>>
          \/ down = <<Msg("lost", o)>>
      BY <1>1, <1>6 DEF Lost
    <2>2. \/ Head(down) = Msg("ack_grab", o) /\ Tail(down) = <<Msg("lost", o)>>
          \/ Head(down) = Msg("lost", o) /\ Tail(down) = <<>>
      <3>1. CASE down = <<Msg("ack_grab", o), Msg("lost", o)>>
        BY <3>1
      <3>2. CASE down = <<Msg("lost", o)>>
        BY <3>2
      <3> QED  BY <2>1, <3>1, <3>2
    <2> QED  BY <1>1, <1>2, <1>6, <2>2
  <1>7. CASE Awarded(o)
    <2>1. CASE srv[o] = "awarded"
      <3>1. \/ down = <<Msg("ack_grab", o), Msg("detail", o)>>
            \/ down = <<Msg("detail", o)>> /\ status = "crab_ack"
        BY <1>7, <2>1 DEF Awarded
      <3>2. \/ Head(down) = Msg("ack_grab", o) /\ Tail(down) = <<Msg("detail", o)>>
            \/ Head(down) = Msg("detail", o) /\ Tail(down) = <<>> /\ status = "crab_ack"
        <4>1. CASE down = <<Msg("ack_grab", o), Msg("detail", o)>>
          BY <4>1
        <4>2. CASE down = <<Msg("detail", o)>> /\ status = "crab_ack"
          BY <4>2
        <4> QED  BY <3>1, <4>1, <4>2
      <3> QED  BY <1>1, <1>2, <1>7, <2>1, <3>2
    <2>2. CASE srv[o] = "cancelled"
      <3>1. \/ down = <<Msg("ack_grab", o), Msg("detail", o), Msg("cancel", o)>>
            \/ down = <<Msg("detail", o), Msg("cancel", o)>> /\ status = "crab_ack"
        BY <1>7, <2>2 DEF Awarded
      <3>2. \/ /\ Head(down) = Msg("ack_grab", o)
               /\ Tail(down) = <<Msg("detail", o), Msg("cancel", o)>>
            \/ /\ Head(down) = Msg("detail", o)
               /\ Tail(down) = <<Msg("cancel", o)>> /\ status = "crab_ack"
        <4>1. CASE down = <<Msg("ack_grab", o), Msg("detail", o), Msg("cancel", o)>>
          BY <4>1
        <4>2. CASE down = <<Msg("detail", o), Msg("cancel", o)>> /\ status = "crab_ack"
          BY <4>2
        <4> QED  BY <3>1, <4>1, <4>2
      <3> QED  BY <1>1, <1>2, <1>7, <2>2, <3>2
    <2> QED  BY <1>7, <2>1, <2>2 DEF Awarded
  <1>8. CASE Working(o)
    <2>1. srv[o] = "cancelled" /\ down = <<Msg("cancel", o)>>
      BY <1>1, <1>8 DEF Working
    <2>2. Head(down) = Msg("cancel", o) /\ Tail(down) = <<>>
      BY <2>1
    <2> QED  BY <1>1, <1>2, <1>8, <2>1, <2>2
  <1>9. CASE Ending(o)
    <2>1. \/ /\ srv[o] = "cancelled" /\ up = <<>>
             /\ down = <<Msg("cancel", o), Msg("ack_finish", o)>>
          \/ up = <<>> /\ down = <<Msg("ack_finish", o)>>
      BY <1>1, <1>9 DEF Ending
    <2>2. \/ /\ srv[o] = "cancelled" /\ up = <<>>
             /\ Head(down) = Msg("cancel", o) /\ Tail(down) = <<Msg("ack_finish", o)>>
          \/ up = <<>> /\ Head(down) = Msg("ack_finish", o) /\ Tail(down) = <<>>
      <3>1. CASE down = <<Msg("cancel", o), Msg("ack_finish", o)>>
        <4>1. Head(down) = Msg("cancel", o) /\ Tail(down) = <<Msg("ack_finish", o)>>
          BY <3>1
        <4>2. Msg("cancel", o) # Msg("ack_finish", o)
          BY <1>2
        <4> QED  BY <2>1, <3>1, <4>1, <4>2
      <3>2. CASE up = <<>> /\ down = <<Msg("ack_finish", o)>>
        BY <3>2
      <3> QED  BY <2>1, <3>1, <3>2
    <2> QED  BY <1>1, <1>2, <1>9, <2>2
  <1>10. CASE Over(o)
    BY <1>1, <1>10 DEF Over
  <1> QED  BY <1>3, <1>4, <1>5, <1>6, <1>7, <1>8, <1>9, <1>10 DEF Story

LEMMA StoryTreat ==
  ASSUME OrderAssumption, TypeOK, NEW o \in Orders, Story(o), Treat, orderly'
  PROVE  Story(o)' /\ \A p \in Orders \ {o} : Past(p) => Past(p)'
  <1>0. o # None /\ table \in [Orders -> RowStates]
    BY DEF OrderAssumption, TypeOK
  <1>n. saving = "no"
    BY DEF Treat, TreatBrief, TreatDetail, TreatLost, TreatCancel, TreatAckGrab, TreatAckFinish,
           TreatAckCancel, Arrives
  <1>1. CASE TreatBrief
    <2>1. /\ Subject = o /\ Offered(o) /\ shown = None /\ tap = None /\ down' = <<>>
      BY <1>1, Arrived DEF TreatBrief
    <2>i. InDispatch' = InDispatch /\ ~order_state
      BY <1>n, <1>1, <2>1 DEF TreatBrief, flag, InDispatch, Offered
    <2>2. UNCHANGED <<type, table, tap, job, srv>> /\ brief' = o
          /\ shown' \in {o, None}
          /\ \/ up' = up /\ (shown' = o => type[o] # "appoint")
             \/ up' = Append(up, Msg("grab", o)) /\ shown' = o /\ type[o] = "appoint"
      BY <1>0, <1>1, <2>1, <2>i DEF TreatBrief, Displays
    <2>3. CASE up' = up /\ (shown' = o => type[o] # "appoint")
      <3>1. Offered(o)'
        BY <1>0, <2>1, <2>2, <2>3, <2>i DEF Offered
      <3> QED  BY <2>2, <3>1 DEF Story, Past, UnderWay
    <2>4. CASE up' = Append(up, Msg("grab", o)) /\ shown' = o /\ type[o] = "appoint"
      <3>1. up' = <<Msg("grab", o)>>
        BY <2>1, <2>4, One, Two, Three DEF Offered
      <3>2. Grabbing(o)'
        BY <2>1, <2>2, <2>4, <2>i, <3>1 DEF Offered, Grabbing, Off, Msg
      <3> QED  BY <2>2, <3>2 DEF Story, Past, UnderWay
    <2> QED  BY <2>2, <2>3, <2>4
  <1>2. CASE TreatDetail
    <2>1. /\ Subject = o /\ Awarded(o) /\ status = "crab_ack"
          /\ \/ srv[o] = "awarded" /\ down' = <<>>
             \/ srv[o] = "cancelled" /\ down' = <<Msg("cancel", o)>>
      BY <1>2, Arrived DEF TreatDetail
    <2>2. /\ detail' = o /\ job' = o /\ table' = [table EXCEPT ![o] = "crab_ack"]
          /\ saving' = (IF type[o] = "reserved" THEN "no" ELSE "order")
          /\ UNCHANGED <<type, order_state, shown, tap, srv, up>>
      BY <1>2, <2>1 DEF TreatDetail
    <2>i. InDispatch' <=> type[o] # "reserved"
      BY <1>n, <2>1, <2>2 DEF InDispatch, Awarded
    <2>3. table'[o] # "none" /\ \A p \in Orders \ {o} : table'[p] = table[p]
      BY <1>0, <2>2
    <2>4. Working(o)'
      BY <2>1, <2>2, <2>3, <2>i DEF Awarded, Working, Off, OnRecord, Msg
    <2> QED  BY <2>2, <2>3, <2>4 DEF Story, Past, UnderWay
  <1>3. CASE TreatLost
    <2>1. Lost(o) /\ down' = <<>>
      BY <1>3, Arrived DEF TreatLost
    <2>2. UNCHANGED <<type, detail, flag, table, shown, tap, job, srv, up>>
      BY <1>3 DEF TreatLost, info, screen
    <2>3. Lost(o)'
      BY <2>1, <2>2 DEF Lost, Off, InDispatch, flag
    <2> QED  BY <2>2, <2>3 DEF Story, Past, UnderWay
  <1>4. ASSUME NEW state \in RowStates \ {"none"}, RowUpdated(state), OnRecord(o)
        PROVE  /\ table'[o] = state /\ \A p \in Orders \ {o} : table'[p] = table[p]
    BY <1>0, <1>4 DEF RowUpdated, OnRecord
  <1>5. CASE TreatCancel
    <2>1. /\ srv[o] = "cancelled" /\ OnRecord(o) /\ Off(o)
          /\ \/ Working(o) /\ down' = <<>>
             \/ Ending(o) /\ up = <<>> /\ down' = <<Msg("ack_finish", o)>>
      BY <1>5, Arrived DEF TreatCancel, Working, Ending
    <2>2. /\ job' = None /\ ~InDispatch' /\ UNCHANGED <<type, detail, shown, tap, srv, up>>
      BY <1>5 DEF TreatCancel, info, InDispatch
    <2>3. table'[o] = "server_cancel" /\ \A p \in Orders \ {o} : table'[p] = table[p]
      BY <1>4, <1>5, <2>1 DEF TreatCancel, RowStates
    <2>4. Off(o)' /\ OnRecord(o)'
      BY <2>1, <2>2, <2>3 DEF Off, OnRecord
    <2>5. CASE Working(o) /\ down' = <<>>
      <3>1. CASE up = <<>>
        <4>1. Over(o)'
          BY <2>1, <2>2, <2>4, <2>5, <3>1 DEF Over
        <4> QED  BY <2>2, <2>3, <4>1 DEF Story, Past, UnderWay
      <3>2. CASE up = <<Msg("finish", o)>>
        <4>1. Ending(o)'
          BY <2>1, <2>2, <2>4, <2>5, <3>2 DEF Ending, Msg
        <4> QED  BY <2>2, <2>3, <4>1 DEF Story, Past, UnderWay
      <3> QED  BY <2>5, <3>1, <3>2 DEF Working
    <2>6. CASE Ending(o) /\ up = <<>> /\ down' = <<Msg("ack_finish", o)>>
      <3>1. Ending(o)'
        BY <2>1, <2>2, <2>4, <2>6 DEF Ending, Msg
      <3> QED  BY <2>2, <2>3, <3>1 DEF Story, Past, UnderWay
    <2> QED  BY <2>1, <2>5, <2>6
  <1>6. CASE TreatAckGrab
    <2>1. \/ Grabbed(o) /\ down' = <<>>
          \/ Lost(o) /\ down' = <<Msg("lost", o)>>
          \/ Awarded(o) /\ srv[o] = "awarded" /\ down' = <<Msg("detail", o)>>
          \/ /\ Awarded(o) /\ srv[o] = "cancelled"
             /\ down' = <<Msg("detail", o), Msg("cancel", o)>>
      BY <1>6, Arrived DEF TreatAckGrab
    <2>2. /\ status' = "crab_ack"
          /\ UNCHANGED <<type, detail, table, shown, tap, job, srv, up>> /\ InDispatch' = InDispatch
      BY <1>6 DEF TreatAckGrab, info, screen, flag, InDispatch
    <2>3. Grabbed(o)' \/ Lost(o)' \/ Awarded(o)'
      BY <2>1, <2>2 DEF Grabbed, Lost, Awarded, Off, Msg
    <2> QED  BY <2>2, <2>3 DEF Story, Past, UnderWay
  <1>7. CASE TreatAckFinish
    <2>1. Ending(o) /\ up = <<>> /\ down' = <<>> /\ OnRecord(o)
      BY <1>7, Arrived DEF TreatAckFinish, Ending
    <2>2. /\ ~InDispatch' /\ UNCHANGED <<type, shown, tap, job, srv, up>>
      BY <1>7 DEF TreatAckFinish, screen, InDispatch
    <2>3. table'[o] = "complete_ack" /\ \A p \in Orders \ {o} : table'[p] = table[p]
      BY <1>4, <1>7, <2>1 DEF TreatAckFinish, RowStates
    <2>4. Over(o)'
      BY <2>1, <2>2, <2>3 DEF Ending, Over, Off
    <2> QED  BY <2>2, <2>3, <2>4 DEF Story, Past, UnderWay
  <1>8. CASE TreatAckCancel
    BY <1>8, Arrived DEF TreatAckCancel
  <1> QED  BY <1>1, <1>2, <1>3, <1>5, <1>6, <1>7, <1>8 DEF Treat

LEMMA StoryUi ==
  ASSUME OrderAssumption, TypeOK, NEW o \in Orders, Story(o), Ui \/ Vacancy, orderly'
  PROVE  Story(o)' /\ \A p \in Orders \ {o} : Past(p) => Past(p)'
  <1>0. o # None
    BY DEF OrderAssumption
  <1>1. UNCHANGED <<type, srv, table, detail, brief, down>> /\ InDispatch' = InDispatch
    BY DEF Ui, DriverTap, UiGrab, UiFinish, UiCancel, Vacancy, info, screen, flag, InDispatch
  <1>2. \A p \in Orders \ {o} : Past(p) => Past(p)'
    BY <1>1 DEF Past, UnderWay
  <1>3. CASE Vacancy
    <2>1. UNCHANGED <<status, shown, tap, job, up>>
      BY <1>3 DEF Vacancy, screen
    <2> QED
      BY <1>1, <1>2, <2>1
      DEF Story, Offered, Grabbing, Grabbed, Lost, Awarded, Working, Ending, Over, Off, OnRecord,
          Msg
  <1>4. CASE DriverTap
    <2>1. UNCHANGED <<status, job, up>> /\ shown # None /\ tap = None /\ shown' = None
          /\ tap' \in {shown, None} /\ (type[shown] = "appoint" => tap' = None)
      BY <1>4 DEF DriverTap
    <2>2. CASE Offered(o)
      <3>1. shown = o /\ type[o] # "appoint"
        BY <2>1, <2>2 DEF Offered
      <3>2. Offered(o)'
        BY <1>1, <2>1, <2>2, <3>1 DEF Offered, Msg
      <3> QED  BY <1>2, <3>2 DEF Story
    <2>3. CASE Off(o)
      <3>1. shown = o /\ type[o] = "appoint" /\ tap' = None /\ Off(o)'
        BY <2>1, <2>3 DEF Off
      <3>2. Story(o)'
        BY <1>0, <1>1, <2>1, <3>1
        DEF Story, Offered, Grabbing, Grabbed, Lost, Awarded, Working, Ending, Over, OnRecord, Msg
      <3> QED  BY <1>2, <3>2
    <2> QED
      BY <2>2, <2>3 DEF Story, Grabbing, Grabbed, Lost, Awarded, Working, Ending, Over
  <1>5. CASE UiGrab
    <2>1. Offered(o) /\ tap = o /\ brief = o /\ down = <<>> /\ up = <<>> /\ shown = None
      BY <1>5 DEF UiGrab, Story, Offered, Grabbing, Grabbed, Lost, Awarded, Working, Ending,
                  Over, Off
    <2>2. up' = <<Msg("grab", o)>> /\ tap' = None /\ UNCHANGED <<shown, job>>
      BY <1>5, <2>1, One, Two, Three DEF UiGrab
    <2>3. Grabbing(o)'
      BY <1>1, <2>1, <2>2 DEF Offered, Grabbing, Off, Msg
    <2> QED  BY <1>2, <2>3 DEF Story
  <1>6. CASE UiFinish
    <2>1. Working(o) /\ job = o /\ up = <<>>
      BY <1>6 DEF UiFinish, Story, Offered, Grabbing, Grabbed, Lost, Awarded, Working, Ending, Over
    <2>2. up' = <<Msg("finish", o)>> /\ job' = None /\ UNCHANGED <<shown, tap>>
      BY <1>6, <2>1, One, Two, Three DEF UiFinish
    <2>3. Working(o)'
      BY <1>1, <2>1, <2>2 DEF Working, Off, OnRecord, Msg
    <2> QED  BY <1>2, <2>3 DEF Story
  <1>7. CASE UiCancel
    BY <1>7 DEF UiCancel
  <1> QED  BY <1>3, <1>4, <1>5, <1>6, <1>7 DEF Ui

LEMMA StoryServer ==
  ASSUME OrderAssumption, TypeOK, NEW o \in Orders, Story(o),
         \A p \in Orders \ {o} : Past(p), Server, orderly'
  PROVE  StoryInv'
  <1>0. o # None /\ srv \in [Orders -> {"new", "offered", "grabbed", "awarded", "finished",
                                       "cancelled", "declined", "gone"}]
    BY DEF OrderAssumption, TypeOK
  <1>1. /\ UNCHANGED <<type, status, brief, detail, table, shown, tap, job>>
        /\ InDispatch' = InDispatch
    BY DEF Server, ServerRead, Offer, Withdraw, Award, ServerCancel, Terminal, info, screen, flag,
           InDispatch
  \* What the server says of the one order goes on with its story.
  <1>2. ASSUME NEW stage, NEW msgs, ServerSays(o, stage, msgs)
        PROVE  /\ srv'[o] = stage /\ down' = down \o msgs
               /\ \A p \in Orders \ {o} : Past(p)'
    <2>1. srv'[o] = stage /\ down' = down \o msgs
          /\ \A p \in Orders \ {o} : srv'[p] = srv[p]
      BY <1>0, <1>2 DEF ServerSays
    <2> QED  BY <1>1, <2>1 DEF Past, UnderWay
  <1>3. ASSUME Story(o)', \A p \in Orders \ {o} : Past(p)' PROVE StoryInv'
    BY <1>3 DEF StoryInv
  <1>4. ASSUME NEW q \in Orders, Offer(q) PROVE StoryInv'
    <2>1. /\ srv[q] = "new" /\ ServerSays(q, "offered", <<Msg("brief", q)>>)
          /\ up = <<>> /\ down = <<>> /\ shown = None /\ tap = None /\ up' = up
          /\ \A p \in Orders : ~UnderWay(p)
      BY <1>4 DEF Offer, Settled
    <2>2. q # o
      BY <2>1 DEF Story, Offered, Grabbing, Grabbed, Lost, Awarded, Working, Ending, Over
    <2>3. job = None /\ ~InDispatch
      BY <2>1, One, Two, Three DEF Story, Offered, Grabbing, Grabbed, Lost, Awarded, Working, Ending, Over,
                          UnderWay
    <2>4. srv'[q] = "offered" /\ down' = <<Msg("brief", q)>>
          /\ \A p \in Orders \ {q} : srv'[p] = srv[p]
      BY <1>0, <2>1, One, Two, Three DEF ServerSays
    <2>5. Offered(q)'
      BY <1>1, <2>1, <2>3, <2>4 DEF Offered, Msg
    <2>6. srv[o] = "finished" => table[o] = "complete_ack"
      BY <2>1, One, Two, Three DEF Story, Offered, Grabbing, Grabbed, Lost, Awarded, Working, Ending, Over
    <2>7. \A p \in Orders \ {q} : Past(p)'
      BY <1>1, <2>1, <2>4, <2>6 DEF Past, UnderWay
    <2> QED  BY <2>5, <2>7 DEF Story, StoryInv
  <1>5. ASSUME NEW p \in Orders, Withdraw(p) PROVE StoryInv'
    <2>1. p = o /\ srv[o] = "offered" /\ ServerSays(o, "gone", <<>>) /\ up' = up
      BY <1>5 DEF Withdraw, Past, UnderWay
    <2>2. down' = down /\ srv'[o] = "gone"
      <3>1. down \in Seq(DownMsg) /\ down' = down \o <<>>
        BY <1>2, <2>1 DEF TypeOK
      <3> QED  BY <1>2, <2>1, <3>1, ConcatEmptySeq
    <2>3. Offered(o)' \/ Grabbing(o)'
      BY <1>1, <2>1, <2>2 DEF Story, Offered, Grabbing, Grabbed, Lost, Awarded, Working, Ending,
                              Over, Off, Msg
    <2> QED  BY <1>2, <1>3, <2>1, <2>3 DEF Story
  <1>6. ASSUME NEW p \in Orders, Award(p) PROVE StoryInv'
    <2>1. p = o /\ srv[o] = "grabbed" /\ up' = up
          /\ \/ ServerSays(o, "awarded", <<Msg("detail", o)>>)
             \/ ServerSays(o, "gone", <<Msg("lost", o)>>)
      BY <1>6 DEF Award, Past, UnderWay
    <2>2. Grabbed(o)
      BY <2>1 DEF Story, Offered, Grabbing, Lost, Awarded, Working, Ending, Over
    <2>3. CASE ServerSays(o, "awarded", <<Msg("detail", o)>>)
      <3>1. \/ down = <<Msg("ack_grab", o)>> /\ down' = <<Msg("ack_grab", o), Msg("detail", o)>>
            \/ status = "crab_ack" /\ down' = <<Msg("detail", o)>>
        <4>1. /\ down' = down \o <<Msg("detail", o)>>
              /\ \/ down = <<Msg("ack_grab", o)>>
                 \/ down = <<>> /\ status = "crab_ack"
          BY <1>2, <2>2, <2>3 DEF Grabbed
        <4>2. CASE down = <<Msg("ack_grab", o)>>
          BY <4>1, <4>2, Two, Three
        <4>3. CASE down = <<>> /\ status = "crab_ack"
          BY <4>1, <4>3, One, Two
        <4> QED  BY <4>1, <4>2, <4>3
      <3>2. Awarded(o)'
        BY <1>1, <1>2, <2>1, <2>2, <2>3, <3>1 DEF Grabbed, Awarded, Off, Msg
      <3> QED  BY <1>2, <1>3, <2>3, <3>2 DEF Story
    <2>4. CASE ServerSays(o, "gone", <<Msg("lost", o)>>)
      <3>1. \/ down' = <<Msg("ack_grab", o), Msg("lost", o)>>
            \/ down' = <<Msg("lost", o)>>
        <4>1. /\ down' = down \o <<Msg("lost", o)>>
              /\ down = <<Msg("ack_grab", o)>> \/ down = <<>>
          BY <1>2, <2>2, <2>4 DEF Grabbed
        <4>2. CASE down = <<Msg("ack_grab", o)>>
          BY <4>1, <4>2, Two
        <4>3. CASE down = <<>>
          BY <4>1, <4>3, One
        <4> QED  BY <4>1, <4>2, <4>3
      <3>2. Lost(o)'
        BY <1>1, <1>2, <2>1, <2>2, <2>4, <3>1 DEF Grabbed, Lost, Off, Msg
      <3> QED  BY <1>2, <1>3, <2>4, <3>2 DEF Story
    <2> QED  BY <2>1, <2>3, <2>4
  <1>7. ASSUME NEW p \in Orders, ServerCancel(p) PROVE StoryInv'
    <2>1. p = o /\ srv[o] = "awarded" /\ up' = up
          /\ ServerSays(o, "cancelled", <<Msg("cancel", o)>>)
      BY <1>7 DEF ServerCancel, Past, UnderWay
    <2>2. Awarded(o) \/ Working(o)
      BY <2>1 DEF Story, Offered, Grabbing, Grabbed, Lost, Ending, Over
    <2>3. CASE Awarded(o)
      <3>1. \/ down' = <<Msg("ack_grab", o), Msg("detail", o), Msg("cancel", o)>>
            \/ status = "crab_ack" /\ down' = <<Msg("detail", o), Msg("cancel", o)>>
        <4>1. /\ down' = down \o <<Msg("cancel", o)>>
              /\ \/ down = <<Msg("ack_grab", o), Msg("detail", o)>>
                 \/ down = <<Msg("detail", o)>> /\ status = "crab_ack"
          BY <1>2, <2>1, <2>3 DEF Awarded
        <4>2. CASE down = <<Msg("ack_grab", o), Msg("detail", o)>>
          <5>1. <<Msg("ack_grab", o), Msg("detail", o)>> \o <<Msg("cancel", o)>>
                  = <<Msg("ack_grab", o), Msg("detail", o), Msg("cancel", o)>>
            BY Three
          <5> QED  BY Zenon, <4>1, <4>2, <5>1
        <4>3. CASE down = <<Msg("detail", o)>> /\ status = "crab_ack"
          BY <4>1, <4>3, One, Two
        <4> QED  BY <4>1, <4>2, <4>3
      <3>2. Awarded(o)'
        BY <1>1, <1>2, <2>1, <2>3, <3>1 DEF Awarded, Off, Msg
      <3> QED  BY <1>2, <1>3, <2>1, <3>2 DEF Story
    <2>4. CASE Working(o)
      <3>1. down' = <<Msg("cancel", o)>>
        BY <1>2, <2>1, <2>4, One, Two, Three DEF Working
      <3>2. Working(o)'
        BY <1>1, <1>2, <2>1, <2>4, <3>1 DEF Working, Off, OnRecord, Msg
      <3> QED  BY <1>2, <1>3, <2>1, <3>2 DEF Story
    <2> QED  BY <2>2, <2>3, <2>4
  <1>8. CASE ServerRead
    <2>1. up # <<>> /\ up' = Tail(up)
      BY <1>8 DEF ServerRead
    <2>2. \A k, p : Msg(k, p).kind = k /\ Msg(k, p).order = p
      BY DEF Msg
    <2>3. CASE Grabbing(o)
      <3>1. Head(up).kind = "grab" /\ Head(up).order = o /\ up' = <<>>
        BY <2>1, <2>2, <2>3, One, Two, Three DEF Grabbing
      <3>2. \/ ServerSays(o, "grabbed", <<Msg("ack_grab", o)>>)
            \/ ServerSays(o, "gone", <<Msg("ack_grab", o), Msg("lost", o)>>)
        BY <1>8, <2>3, <3>1 DEF ServerRead, Grabbing
      <3>3. CASE ServerSays(o, "grabbed", <<Msg("ack_grab", o)>>)
        <4>1. down' = <<Msg("ack_grab", o)>>
          BY <1>2, <2>3, <3>3, One, Two, Three DEF Grabbing
        <4>2. Grabbed(o)'
          BY <1>1, <1>2, <2>3, <3>1, <3>3, <4>1 DEF Grabbing, Grabbed, Off, Msg
        <4> QED  BY <1>2, <1>3, <3>3, <4>2 DEF Story
      <3>4. CASE ServerSays(o, "gone", <<Msg("ack_grab", o), Msg("lost", o)>>)
        <4>1. down' = <<Msg("ack_grab", o), Msg("lost", o)>>
          BY <1>2, <2>3, <3>4, One, Two, Three DEF Grabbing
        <4>2. Lost(o)'
          BY <1>1, <1>2, <2>3, <3>1, <3>4, <4>1 DEF Grabbing, Lost, Off, Msg
        <4> QED  BY <1>2, <1>3, <3>4, <4>2 DEF Story
      <3> QED  BY <3>2, <3>3, <3>4
    <2>4. CASE Working(o)
      <3>1. /\ Head(up).kind = "finish" /\ Head(up).order = o /\ up' = <<>> /\ job = None
        <4>1. up = <<Msg("finish", o)>> /\ job = None
          BY <2>1, <2>4 DEF Working
        <4>2. Head(up) = Msg("finish", o) /\ Tail(up) = <<>>
          BY <4>1
        <4> QED  BY <2>1, <2>2, <4>1, <4>2
      <3>2. ServerSays(o, IF srv[o] = "awarded" THEN "finished" ELSE srv[o],
                       <<Msg("ack_finish", o)>>)
        BY <1>8, <3>1 DEF ServerRead
      <3>3. \/ srv'[o] = "finished" /\ down' = <<Msg("ack_finish", o)>>
            \/ srv'[o] = "cancelled" /\ down' = <<Msg("cancel", o), Msg("ack_finish", o)>>
        <4>1. /\ down' = down \o <<Msg("ack_finish", o)>>
              /\ \/ srv[o] = "awarded" /\ srv'[o] = "finished" /\ down = <<>>
                 \/ srv[o] = "cancelled" /\ srv'[o] = "cancelled" /\ down = <<Msg("cancel", o)>>
          BY <1>2, <2>4, <3>2 DEF Working
        <4>2. CASE srv[o] = "awarded" /\ srv'[o] = "finished" /\ down = <<>>
          BY <4>1, <4>2, One
        <4>3. /\ srv[o] = "cancelled" /\ srv'[o] = "cancelled"
              /\ down = <<Msg("cancel", o)>>
          => down' = <<Msg("cancel", o), Msg("ack_finish", o)>>
          BY <4>1, Two
        <4> QED  BY <4>1, <4>2, <4>3
      <3>4. Ending(o)'
        BY <1>1, <2>4, <3>1, <3>3 DEF Working, Ending, Off, OnRecord, Msg
      <3> QED  BY <1>2, <1>3, <3>2, <3>4 DEF Story
    <2>5. CASE Ending(o)
      <3>1. /\ up = <<Msg("finish", o)>> /\ srv[o] = "cancelled" /\ down = <<>> /\ ~InDispatch
        BY <2>1, <2>5 DEF Ending
      <3>2. Head(up).kind = "finish" /\ Head(up).order = o /\ up' = <<>>
        BY <2>1, <2>2, <3>1, One, Two, Three
      <3>3. ServerSays(o, srv[o], <<Msg("ack_finish", o)>>)
        BY <1>8, <3>1, <3>2 DEF ServerRead
      <3>4. srv'[o] = "cancelled" /\ down' = <<Msg("ack_finish", o)>>
        BY <1>2, <3>1, <3>3, One, Two, Three
      <3>5. Ending(o)'
        BY <1>1, <2>5, <3>1, <3>2, <3>4 DEF Ending, Off, OnRecord, Msg
      <3> QED  BY <1>2, <1>3, <3>3, <3>5 DEF Story
    <2> QED
      BY <2>1, <2>3, <2>4, <2>5 DEF Story, Offered, Grabbed, Lost, Awarded, Over
  <1> QED  BY <1>4, <1>5, <1>6, <1>7, <1>8 DEF Server

LEMMA StoryStep ==
  ASSUME OrderAssumption, TypeOK, StoryInv, [Next]_vars
  PROVE  StoryInv'
  <1> SUFFICES ASSUME orderly' PROVE StoryInv'
    BY DEF StoryInv
  <1>1. CASE UNCHANGED vars \/ Save
    <2>1. /\ UNCHANGED <<type, status, brief, detail, table, shown, tap, job, srv, up, down, orderly>>
          /\ InDispatch' = InDispatch
      <3>1. CASE UNCHANGED vars
        BY <3>1 DEF vars, info, screen, history, InDispatch
      <3>2. CASE Save
        BY <3>2 DEF Save, info, screen, InDispatch
      <3> QED  BY <1>1, <3>1, <3>2
    <2> QED
      BY <2>1 DEF StoryInv, NoOrder, Past, UnderWay, Story, Offered, Grabbing, Grabbed, Lost,
                  Awarded, Working, Ending, Over, Off, OnRecord, Msg
  <1>2. CASE Next /\ ~Save
    <2>1. orderly
      BY <1>2 DEF Next, Treat, TreatBrief, TreatDetail, TreatLost, TreatCancel, TreatAckGrab,
                  TreatAckFinish, TreatAckCancel, Ui, DriverTap, UiGrab, UiFinish, UiCancel,
                  Vacancy, Server, ServerRead, Offer, Withdraw, Award, ServerCancel, Disconnect,
                  Restart, history
    <2>2. ~Disconnect /\ ~Restart
      BY DEF Disconnect, Restart
    <2>3. CASE NoOrder
      <3>1. CASE Vacancy
        BY <2>3, <3>1 DEF Vacancy, screen, NoOrder, StoryInv, Past, UnderWay, flag, InDispatch
      <3>2. ASSUME NEW q \in Orders, Offer(q) PROVE StoryInv'
        <4>1. /\ srv' = [srv EXCEPT ![q] = "offered"] /\ down' = down \o <<Msg("brief", q)>>
              /\ UNCHANGED <<type, table, shown, tap, job, up>> /\ InDispatch' = InDispatch
          BY <3>2 DEF Offer, ServerSays, Terminal, screen, flag, InDispatch
        <4>2. down' = <<Msg("brief", q)>> /\ srv'[q] = "offered"
              /\ \A p \in Orders \ {q} : srv'[p] = srv[p]
          BY <2>3, <4>1, One, Two, Three DEF NoOrder, TypeOK
        <4>3. Offered(q)'
          BY <2>3, <4>1, <4>2 DEF NoOrder, Offered, Msg
        <4>4. \A p \in Orders \ {q} : Past(p)'
          BY <2>3, <4>1, <4>2 DEF NoOrder, Past, UnderWay
        <4> QED  BY <4>3, <4>4 DEF Story, StoryInv
      <3> QED
        BY <1>2, <2>2, <2>3, <3>1, <3>2
        DEF Next, NoOrder, Treat, TreatBrief, TreatDetail, TreatLost, TreatCancel, TreatAckGrab,
            TreatAckFinish, TreatAckCancel, Arrives, Ui, DriverTap, UiGrab, UiFinish, UiCancel,
            Server, ServerRead, Withdraw, Award, ServerCancel, Past, UnderWay
    <2>4. CASE \E o \in Orders : Story(o) /\ \A p \in Orders \ {o} : Past(p)
      <3>1. PICK o \in Orders : Story(o) /\ \A p \in Orders \ {o} : Past(p)
        BY <2>4
      <3>2. CASE Treat
        BY <3>1, <3>2, StoryTreat DEF StoryInv
      <3>3. CASE Ui \/ Vacancy
        BY <3>1, <3>3, StoryUi DEF StoryInv
      <3>4. CASE Server
        BY <3>1, <3>4, StoryServer
      <3> QED  BY <1>2, <2>2, <3>2, <3>3, <3>4 DEF Next
    <2> QED  BY <2>1, <2>3, <2>4 DEF StoryInv
  <1> QED  BY <1>1, <1>2

LEMMA StoryHolds == Spec => []StoryInv
<1>1. Init => StoryInv
  BY DEF Init, StoryInv, NoOrder, Past, UnderWay, InDispatch
<1>2. OrderAssumption /\ TypeOK /\ StoryInv /\ [Next]_vars => StoryInv'
  BY StoryStep
<1> QED  BY <1>1, <1>2, OrderAssumption, DispatchTypeCorrect, PTL DEF Spec

\* As long as nothing is out of order, with nothing under way and no flag still to be saved,
\* terminal and server agree whether the taxi is in dispatch (AgreesWithServer).
THEOREM ServerAgrees == Spec => []AgreesWithServer
<1>1. OrderAssumption /\ TypeOK /\ StoryInv => AgreesWithServer
  <2> SUFFICES ASSUME OrderAssumption, TypeOK, StoryInv, up = <<>>, down = <<>>, saving = "no",
                      orderly
               PROVE  order_state <=> \E o \in Orders : srv[o] = "awarded" /\ type[o] # "reserved"
    BY DEF AgreesWithServer, Settled
  <2>1. CASE NoOrder
    BY <2>1 DEF NoOrder, Past, UnderWay, InDispatch
  <2>2. CASE \E o \in Orders : Story(o) /\ \A p \in Orders \ {o} : Past(p)
    <3>1. PICK o \in Orders : Story(o) /\ \A p \in Orders \ {o} : Past(p)
      BY <2>2
    <3>2. InDispatch <=> srv[o] = "awarded" /\ type[o] # "reserved"
      BY <3>1, One, Two, Three DEF Story, Offered, Grabbing, Grabbed, Lost, Awarded, Working, Ending, Over
    <3>3. order_state <=> srv[o] = "awarded" /\ type[o] # "reserved"
      BY <3>2 DEF InDispatch
    <3> QED  BY <3>1, <3>3 DEF Past, UnderWay
  <2> QED  BY <2>1, <2>2 DEF StoryInv
<1> QED  BY <1>1, OrderAssumption, StoryHolds, DispatchTypeCorrect, PTL

\* Until then every order that was finished is on record as finished, although the end
\* of an order is recorded in the row of the details last received (FinishedOnRecord).
THEOREM FinishRecorded == Spec => []FinishedOnRecord
<1>1. StoryInv => FinishedOnRecord
  <2> SUFFICES ASSUME StoryInv, up = <<>>, down = <<>>, orderly, NEW q \in Orders,
                      srv[q] = "finished"
               PROVE  table[q] = "complete_ack"
    BY DEF FinishedOnRecord, Settled
  <2>1. CASE NoOrder
    BY <2>1 DEF NoOrder, Past
  <2>2. CASE \E o \in Orders : Story(o) /\ \A p \in Orders \ {o} : Past(p)
    <3>1. PICK o \in Orders : Story(o) /\ \A p \in Orders \ {o} : Past(p)
      BY <2>2
    <3>2. srv[o] = "finished" => table[o] = "complete_ack"
      BY <3>1, One, Two, Three DEF Story, Offered, Grabbing, Grabbed, Lost, Awarded, Working, Ending, Over
    <3> QED  BY <3>1, <3>2 DEF Past
  <2> QED  BY <2>1, <2>2 DEF StoryInv
<1> QED  BY <1>1, StoryHolds, PTL

================================================================================
