------------------------------ MODULE EventQueue ------------------------------
(***************************************************************************)
(* The event queue: src/libs/src/fifo/fifo.c under fleety_event_push and   *)
(* fleety_event_treat of src/src/middleware/event/fleety_event.c.  Any     *)
(* thread pushes; the socket thread, woken by a byte in a pipe, treats     *)
(* events until it finds the count at zero.                                *)
(*                                                                         *)
(* All events have the default priority, so one of the two fifos is used.  *)
(* There is no lock: copying an element, moving an index and changing the  *)
(* count are separate, and changing what two threads may change is a load  *)
(* and a store.  Only the socket thread moves ptr_out.                     *)
(***************************************************************************)
EXTENDS Integers, Sequences, FiniteSets, SequencesExt

CONSTANTS
  Producers,  \* threads that push events
  Events,     \* the events they push
  NoEvent,    \* what a slot holds before it is written
  Slots       \* MAX_EVENT_SIZE

ASSUME QueueAssumption ==
  /\ NoEvent \notin Events /\ Slots \in Nat \ {0}

VARIABLES
  buff, ptr_in, ptr_out, count,  \* fifo_t, its indices in elements
  pipe,     \* bytes in the pipe
  push,     \* per producer: step of fleety_event_push, its event, what it loaded
  treat,    \* socket thread: step of fleety_event_treat, its event, loaded count
  pushed,   \* history: events in the order they were copied in
  treated,  \* history: events in the order they were treated
  full,     \* history: an event was pushed when Slots were waiting
  overlap   \* history: a call on the fifo began while another was under way

vars == <<buff, ptr_in, ptr_out, count, pipe, push, treat, pushed, treated, full, overlap>>
fifo == <<buff, ptr_in, ptr_out, count>>

PushSteps  == {"idle", "in", "index", "move", "load", "store", "wake"}
TreatSteps == {"idle", "check", "out", "load", "store", "treat"}

TypeOK ==
  /\ buff \in [0..Slots-1 -> Events \union {NoEvent}]
  /\ ptr_in \in 0..Slots-1 /\ ptr_out \in 0..Slots-1
  /\ count \in Int /\ pipe \in Nat
  /\ push \in [Producers -> [pc : PushSteps, ev : Events \union {NoEvent}, n : Int]]
  /\ \A p \in Producers : push[p].pc # "idle" => push[p].ev \in Events
  /\ treat \in [pc : TreatSteps, ev : Events \union {NoEvent}, n : Int]
  /\ pushed \in Seq(Events) /\ treated \in Seq(Events \union {NoEvent})
  /\ full \in BOOLEAN /\ overlap \in BOOLEAN

Init ==
  /\ buff = [i \in 0..Slots-1 |-> NoEvent] /\ ptr_in = 0 /\ ptr_out = 0 /\ count = 0
  /\ pipe = 0
  /\ push = [p \in Producers |-> [pc |-> "idle", ev |-> NoEvent, n |-> 0]]
  /\ treat = [pc |-> "idle", ev |-> NoEvent, n |-> 0]
  /\ pushed = <<>> /\ treated = <<>> /\ full = FALSE /\ overlap = FALSE

InFifo(p) == push[p].pc \in {"in", "index", "move", "load", "store"}
OutFifo   == treat.pc \in {"out", "load", "store"}
Occupied  == OutFifo \/ \E p \in Producers : InFifo(p)

-----------------------------------------------------------------------------
(* fleety_event_push: fifo_in, then a byte into the pipe.                    *)

Begun == {push[p].ev : p \in Producers}

PushBegin(p, e) ==
  /\ push[p].pc = "idle" /\ overlap' = (overlap \/ Occupied)
  /\ e \notin Begun /\ \A i \in DOMAIN pushed : pushed[i] # e
  /\ push' = [push EXCEPT ![p].pc = "in", ![p].ev = e]
  /\ UNCHANGED <<fifo, pipe, treat, pushed, treated, full>>

\* Copied in and not yet copied out.
Waiting == Len(pushed) - Len(treated) - (IF treat.pc \in {"load", "store", "treat"} THEN 1 ELSE 0)

\* memcpy to the slot; a full fifo is not noticed.
PushIn(p) ==
  /\ push[p].pc = "in"
  /\ buff' = [buff EXCEPT ![ptr_in] = push[p].ev]
  /\ pushed' = Append(pushed, push[p].ev)
  /\ full' = (full \/ Waiting >= Slots)
  /\ push' = [push EXCEPT ![p].pc = "index"]
  /\ UNCHANGED <<ptr_in, ptr_out, count, pipe, treat, treated, overlap>>

\* ptr_in moves on.
PushIndex(p) ==
  /\ push[p].pc = "index"
  /\ push' = [push EXCEPT ![p].pc = "move", ![p].n = ptr_in]
  /\ UNCHANGED <<fifo, pipe, treat, pushed, treated, full, overlap>>

\* Mutant: the index runs one slot past the end of the buffer.
PushMovePastEnd(p) ==
  /\ push[p].pc = "move"
  /\ ptr_in' = (push[p].n + 1) % (Slots + 1)
  /\ push' = [push EXCEPT ![p].pc = "load"]
  /\ UNCHANGED <<buff, ptr_out, count, pipe, treat, pushed, treated, full, overlap>>

PushMove(p) ==
  /\ push[p].pc = "move"
  /\ ptr_in' = (push[p].n + 1) % Slots
  /\ push' = [push EXCEPT ![p].pc = "load"]
  /\ UNCHANGED <<buff, ptr_out, count, pipe, treat, pushed, treated, full, overlap>>

\* count++
PushLoad(p) ==
  /\ push[p].pc = "load"
  /\ push' = [push EXCEPT ![p].pc = "store", ![p].n = count]
  /\ UNCHANGED <<fifo, pipe, treat, pushed, treated, full, overlap>>

PushStore(p) ==
  /\ push[p].pc = "store"
  /\ count' = push[p].n + 1
  /\ push' = [push EXCEPT ![p].pc = "wake"]
  /\ UNCHANGED <<buff, ptr_in, ptr_out, pipe, treat, pushed, treated, full, overlap>>

\* fleety_pipe_send
Wake(p) ==
  /\ push[p].pc = "wake"
  /\ pipe' = pipe + 1
  /\ push' = [push EXCEPT ![p] = [pc |-> "idle", ev |-> NoEvent, n |-> 0]]
  /\ UNCHANGED <<fifo, treat, pushed, treated, full, overlap>>

-----------------------------------------------------------------------------
(* pipe_read_cb and fleety_event_treat, in the socket thread.                *)

\* One read takes every byte there is (up to 1024).
PipeRead ==
  /\ treat.pc = "idle" /\ pipe > 0
  /\ pipe' = 0
  /\ treat' = [treat EXCEPT !.pc = "check"]
  /\ UNCHANGED <<fifo, push, pushed, treated, full, overlap>>

\* Mutant: the count is not looked at before an element is taken.
CheckAlwaysTakes ==
  /\ treat.pc = "check"
  /\ treat' = [treat EXCEPT !.pc = "out"] /\ overlap' = (overlap \/ Occupied)
  /\ UNCHANGED <<fifo, pipe, push, pushed, treated, full>>

\* fifo_status: the loop ends at FIFO_EMPTY, that is at count = 0.
Check ==
  /\ treat.pc = "check"
  /\ \/ count = 0 /\ treat' = [treat EXCEPT !.pc = "idle"] /\ overlap' = overlap
     \/ count # 0 /\ treat' = [treat EXCEPT !.pc = "out"] /\ overlap' = (overlap \/ Occupied)
  /\ UNCHANGED <<fifo, pipe, push, pushed, treated, full>>

\* Mutant: the newest element is taken first.
TakeNewest ==
  /\ treat.pc = "out"
  /\ treat' = [treat EXCEPT !.pc = "load", !.ev = buff[(ptr_in + Slots - 1) % Slots]]
  /\ ptr_out' = (ptr_out + 1) % Slots
  /\ UNCHANGED <<buff, ptr_in, count, pipe, push, pushed, treated, full, overlap>>

\* fifo_out
TakeOut ==
  /\ treat.pc = "out"
  /\ treat' = [treat EXCEPT !.pc = "load", !.ev = buff[ptr_out]]
  /\ ptr_out' = (ptr_out + 1) % Slots
  /\ UNCHANGED <<buff, ptr_in, count, pipe, push, pushed, treated, full, overlap>>

\* count--
TakeLoad ==
  /\ treat.pc = "load"
  /\ treat' = [treat EXCEPT !.pc = "store", !.n = count]
  /\ UNCHANGED <<fifo, pipe, push, pushed, treated, full, overlap>>

TakeStore ==
  /\ treat.pc = "store"
  /\ count' = treat.n - 1
  /\ treat' = [treat EXCEPT !.pc = "treat"]
  /\ UNCHANGED <<buff, ptr_in, ptr_out, pipe, push, pushed, treated, full, overlap>>

\* Mutant: one event is treated for each read of the pipe.
TreatOnce ==
  /\ treat.pc = "treat"
  /\ treated' = Append(treated, treat.ev)
  /\ treat' = [pc |-> "idle", ev |-> NoEvent, n |-> 0]
  /\ UNCHANGED <<fifo, pipe, push, pushed, full, overlap>>

\* The event's handler runs, and the loop goes on.
Treat ==
  /\ treat.pc = "treat"
  /\ treated' = Append(treated, treat.ev)
  /\ treat' = [pc |-> "check", ev |-> NoEvent, n |-> 0]
  /\ UNCHANGED <<fifo, pipe, push, pushed, full, overlap>>

PushStep(p) == PushIn(p) \/ PushIndex(p) \/ PushMove(p) \/ PushLoad(p) \/ PushStore(p) \/ Wake(p)
SocketStep  == PipeRead \/ Check \/ TakeOut \/ TakeLoad \/ TakeStore \/ Treat

Next == (\E p \in Producers : (\E e \in Events : PushBegin(p, e)) \/ PushStep(p))
        \/ SocketStep

\* A thread that has begun a call finishes it, and libevent calls pipe_read_cb
\* while there is something to read.  Nobody has to push.
Fairness == WF_vars(SocketStep) /\ \A p \in Producers : WF_vars(PushStep(p))

Spec == Init /\ [][Next]_vars /\ Fairness

-----------------------------------------------------------------------------
(* Properties.                                                               *)

\* The count is what ends the loop of fleety_event_treat, at zero exactly: were
\* it ever negative, the socket thread would treat stale slots without end.
CountNotNegative == count >= 0

\* Until the fifo overflows or two calls on it meet, events are treated in the order
\* in which they were copied in, each once.
TreatedInOrder == ~full /\ ~overlap => IsPrefix(treated, pushed)

\* Unless the fifo overflows or two calls on it meet, every event pushed is treated.
EventuallyTreated ==
  \A e \in Events :
    (\E i \in DOMAIN pushed : pushed[i] = e)
      ~> (full \/ overlap \/ \E i \in DOMAIN treated : treated[i] = e)
=============================================================================
