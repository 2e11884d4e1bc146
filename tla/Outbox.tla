------------------------------- MODULE Outbox -------------------------------
(***************************************************************************)
(* What the record tables of the terminal promise: a message that has been *)
(* saved stays outstanding until the server has received it, and only then *)
(* may the terminal settle it (state = 1 in report_table and               *)
(* operation_table).  Nothing saved is ever forgotten.  The promise to     *)
(* settle received messages only ends when a sequence number has come to   *)
(* name two messages at once.                                              *)
(***************************************************************************)
CONSTANT Messages

VARIABLES outstanding,  \* saved, no acknowledgement recorded (state = 0)
          settled,      \* saved, acknowledgement recorded (state = 1)
          received,     \* accepted by the server
          clash         \* a number has named two messages at once

outboxVars == <<outstanding, settled, received, clash>>

OutboxInit == outstanding = {} /\ settled = {} /\ received = {} /\ clash = FALSE

Save(m) ==
  /\ m \notin outstanding \union settled
  /\ outstanding' = outstanding \union {m}
  /\ UNCHANGED <<settled, received, clash>>

Receive(m) ==
  /\ received' = received \union {m}
  /\ UNCHANGED <<outstanding, settled, clash>>

\* One acknowledgement may settle several rows, every one of them received.
Settle(S) ==
  /\ S \subseteq outstanding
  /\ clash \/ S \subseteq received
  /\ outstanding' = outstanding \ S
  /\ settled' = settled \union S
  /\ UNCHANGED <<received, clash>>

Clash == clash' = TRUE /\ UNCHANGED <<outstanding, settled, received>>

OutboxNext ==
  \/ \E m \in Messages : Save(m) \/ Receive(m)
  \/ \E S \in SUBSET outstanding : Settle(S)
  \/ Clash

OutboxSpec == OutboxInit /\ [][OutboxNext]_outboxVars
=============================================================================
