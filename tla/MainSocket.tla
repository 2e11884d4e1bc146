------------------------------ MODULE MainSocket ------------------------------
(***************************************************************************)
(* The connection to one server, as src/src/middleware/socket/             *)
(* fleety_socket.c manages it with libevent: the ten-second timer, the     *)
(* connection and data callbacks, and a sender on another thread, which    *)
(* asks whether it is connected and then writes, without a lock.           *)
(*                                                                         *)
(* The timer gives a silent connection up by forgetting its bufferevent,   *)
(* it does not free it: a forgotten bufferevent still reports events, and  *)
(* they change the entry that a newer connection uses by then.  To clear   *)
(* the entry takes several steps, which the sender may come between; while *)
(* they last the socket thread does nothing else.                          *)
(***************************************************************************)
EXTENDS Integers, FiniteSets

CONSTANTS
  Bevs,       \* bufferevents: bound on the ones that exist at a time
  NULL,       \* the null pointer
  Threshold,  \* threhold of a connected socket (10 in the code)
  MaxSilence  \* bound: connections given up by the timer

ASSUME SocketAssumption ==
  NULL \notin Bevs /\ Threshold \in Nat \ {0} /\ MaxSilence \in Nat

VARIABLES
  bev,       \* socket_mngr_list[index].bev
  state,     \* socket_mngr_list[index].state
  timeout,   \* socket_mngr_list[index].timeout
  threhold,  \* socket_mngr_list[index].threhold
  phase,     \* what libevent knows of each bufferevent
  silences,  \* history: connections given up by the timer
  clearing,  \* how far the socket thread has come in clearing the entry
  send       \* the sender: not between check and write, there alone since the check,
             \* or there at some time while the entry is cleared

entryVars == <<bev, state, timeout, threhold, phase, silences, clearing>>
vars == <<entryVars, send>>

TypeOK ==
  /\ bev \in Bevs \union {NULL}
  /\ state \in {0, 1}
  /\ timeout \in Nat
  /\ threhold \in {0, Threshold}
  /\ phase \in [Bevs -> {"none", "connecting", "connected"}]
  /\ silences \in 0..MaxSilence
  /\ clearing \in {"no", "freed", "forgotten", "silent"}
  /\ send \in {"none", "alone", "met"}

\* fleety_socket_loop_func makes the first attempt before the loop starts.
Init ==
  /\ bev = NULL /\ state = 0 /\ timeout = 0 /\ threhold = 0
  /\ \E b \in Bevs : phase = [c \in Bevs |-> IF c = b THEN "connecting" ELSE "none"]
  /\ silences = 0 /\ clearing = "no" /\ send = "none"

-----------------------------------------------------------------------------
(* fleety_socket_send on another thread.                                     *)

SendCheck ==
  /\ send = "none" /\ state = 1
  /\ send' = IF clearing = "no" THEN "alone" ELSE "met"
  /\ UNCHANGED entryVars

\* bev is read and the message written to it.
SendWrite ==
  /\ send # "none" /\ send' = "none"
  /\ UNCHANGED entryVars

MeetsSender == send' = IF send = "alone" THEN "met" ELSE send

-----------------------------------------------------------------------------
(* The timer.                                                                *)

Expired == timeout + 1 >= threhold

\* socket_timeout_cb: count the silence, give up, reconnect.
NewAttempt ==
  \E b \in Bevs : phase[b] = "none" /\ phase' = [phase EXCEPT ![b] = "connecting"]

\* The entry of a silent connection is cleared: first bev ...
GiveUp ==
  /\ clearing = "no" /\ clearing' = "silent" /\ MeetsSender
  /\ Expired /\ state = 1 /\ silences < MaxSilence
  /\ \E b \in Bevs : phase[b] = "none"
  /\ timeout' = timeout + 1
  /\ bev' = NULL
  /\ silences' = silences + 1
  /\ UNCHANGED <<state, threhold, phase>>

\* Mutant: the state stays.
GaveUpKeepsState ==
  /\ clearing = "silent" /\ clearing' = "no"
  /\ state' = 1
  /\ NewAttempt
  /\ UNCHANGED <<bev, timeout, threhold, silences, send>>

\* ... then state; and the next attempt is made.
GaveUp ==
  /\ clearing = "silent" /\ clearing' = "no"
  /\ state' = 0
  /\ NewAttempt
  /\ UNCHANGED <<bev, timeout, threhold, silences, send>>

\* Mutant: no attempt is made once the silence has expired.
RetryGivesUp ==
  /\ clearing = "no" /\ state = 0
  /\ timeout' = IF timeout < Threshold THEN timeout + 1 ELSE timeout
  /\ bev' = (IF Expired THEN NULL ELSE bev)
  /\ (IF Expired THEN UNCHANGED phase ELSE NewAttempt)
  /\ UNCHANGED <<state, threhold, silences, clearing, send>>

\* While disconnected every tick makes one more attempt.  The silence goes on
\* being counted; past Threshold its value makes no difference.
Retry ==
  /\ clearing = "no" /\ state = 0
  /\ timeout' = IF timeout < Threshold THEN timeout + 1 ELSE timeout
  /\ bev' = (IF Expired THEN NULL ELSE bev)
  /\ NewAttempt
  /\ UNCHANGED <<state, threhold, silences, clearing, send>>

Quiet ==
  /\ clearing = "no" /\ ~Expired /\ state = 1
  /\ timeout' = timeout + 1
  /\ UNCHANGED <<bev, state, threhold, phase, silences, clearing, send>>

Tick == GiveUp \/ Retry \/ Quiet

-----------------------------------------------------------------------------
(* The callbacks.                                                            *)

\* main_server_event_cb with BEV_EVENT_CONNECTED: bev is set before state.
Connected(b) ==
  /\ clearing = "no"
  /\ phase[b] = "connecting" /\ phase' = [phase EXCEPT ![b] = "connected"]
  /\ bev' = b /\ timeout' = 0 /\ threhold' = Threshold /\ state' = 1
  /\ UNCHANGED <<silences, clearing, send>>

\* main_server_event_cb with any other event, EOF, an error, a refused attempt:
\* bufferevent_free ...
Ended(b) ==
  /\ clearing = "no" /\ clearing' = "freed" /\ MeetsSender
  /\ phase[b] # "none" /\ phase' = [phase EXCEPT ![b] = "none"]
  /\ UNCHANGED <<bev, state, timeout, threhold, silences>>

\* ... then bev ...
EndedForgets ==
  /\ clearing = "freed" /\ clearing' = "forgotten"
  /\ bev' = NULL
  /\ UNCHANGED <<state, timeout, threhold, phase, silences, send>>

\* Mutant: the state is left to the timer.
EndedKeepsState ==
  /\ clearing = "forgotten" /\ clearing' = "no"
  /\ state' = state
  /\ UNCHANGED <<bev, timeout, threhold, phase, silences, send>>

\* ... then state: of the entry, whichever bufferevent has ended.
EndedClears ==
  /\ clearing = "forgotten" /\ clearing' = "no"
  /\ state' = 0
  /\ UNCHANGED <<bev, timeout, threhold, phase, silences, send>>

\* main_server_read_cb: data on any bufferevent ends the silence of the entry.
Data(b) ==
  /\ clearing = "no"
  /\ phase[b] = "connected" /\ timeout' = 0
  /\ UNCHANGED <<bev, state, threhold, phase, silences, clearing, send>>

Clear  == GaveUp \/ EndedForgets \/ EndedClears
Sender == SendCheck \/ SendWrite

Next == Tick \/ Clear \/ Sender \/ \E b \in Bevs : Connected(b) \/ Ended(b) \/ Data(b)

\* The timer fires and a callback returns; an attempt is answered one way or the other and, made again
\* and again, is accepted at some time.  Nothing is assumed of established
\* connections: they may stay silent, or stay up, for ever.
Fairness ==
  /\ WF_vars(Tick) /\ WF_vars(Clear)
  /\ \A b \in Bevs : WF_vars(phase[b] = "connecting" /\ (Connected(b) \/ Ended(b)))
  /\ SF_vars(\E b \in Bevs : Connected(b))

Spec == Init /\ [][Next]_vars /\ Fairness

-----------------------------------------------------------------------------
(* Properties.                                                               *)

\* What a sender finds is usable: from the check of state to the write
\* (fleety_socket_send) bev points to a bufferevent that is connected and was not freed,
\* whichever forgotten bufferevents came up or ended before or come up meanwhile; unless
\* the entry was being cleared then.
SendTargetAlive == send = "alone" => bev \in Bevs /\ phase[bev] = "connected"

\* The timeout protection, on the socket thread: a connection is in use only while data
\* came within the last Threshold ticks, and the entry is NULL while there is none.
InUseIsRecent ==
  clearing = "no" => /\ state = 1 => timeout < threhold
                     /\ state = 0 => bev = NULL

\* The reconnection mechanism: a lost connection is replaced.
Reconnects == (state = 0) ~> (state = 1)
=============================================================================
