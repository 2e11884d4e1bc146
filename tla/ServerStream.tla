------------------------------ MODULE ServerStream ------------------------------
(***************************************************************************)
(* What the server sends over the connections of MainSocket: the bytes of  *)
(* framed messages arrive in pieces of any size, main_server_read_cb       *)
(* copies the first Window bytes of what has arrived, and                  *)
(* gb905_protocol_ayalyze (src/src/module/gb905/gb905_common.c) takes the  *)
(* messages out of the copy, one in each turn of its loop.  What it has    *)
(* used is drained.                                                        *)
(*                                                                         *)
(* A message is the sequence of its bytes between the magic characters,    *)
(* without the check byte.  The terminal and the server frame alike.       *)
(***************************************************************************)
EXTENDS MainSocket, Sequences, SequencesExt, FiniteSetsExt

CONSTANTS
  Messages,   \* the messages the server may send
  Short,      \* what stands for a frame too short to hold a message
  HeaderLen,  \* sizeof(gb905_header_t)
  Window,     \* the size of the copy (1024 in the code)
  MaxSent     \* bound: messages sent on the connections there are

MAGIC_CHAR  == 126
ESCAPE_CHAR == 125

ASSUME StreamAssumption ==
  /\ HeaderLen \in Nat \ {0} /\ Window \in Nat \ {0} /\ MaxSent \in Nat
  /\ \A m \in Messages : m \in Seq(0..255) /\ Len(m) >= HeaderLen

VARIABLES
  stream,  \* per bufferevent: bytes to come, bytes arrived and not drained, messages
           \* sent and treated; history: more has arrived at a time than was copied
  loop     \* of the socket thread in gb905_protocol_ayalyze: the bufferevent, how much of
           \* the copy has been used (len - msg_len) and the rest of it (msg_buf, msg_len)

streamVars == <<vars, stream, loop>>

NoStream == [wire |-> <<>>, input |-> <<>>, sent |-> <<>>, got |-> <<>>, burst |-> FALSE]
Idle     == [bev |-> NULL, used |-> 0, rest |-> <<>>]

StreamTypeOK ==
  /\ TypeOK
  /\ stream \in [Bevs -> [wire : Seq(0..255), input : Seq(0..255), sent : Seq(Messages),
                          got : Seq(Messages \union {Short}), burst : BOOLEAN]]
  /\ \A b \in Bevs : phase[b] # "connected" => stream[b] = NoStream
  /\ loop \in [bev : Bevs \union {NULL}, used : Nat, rest : Seq(0..255)]
  /\ loop # Idle =>
       /\ loop.bev \in Bevs /\ phase[loop.bev] = "connected"
       /\ LET input == stream[loop.bev].input
              end   == loop.used + Len(loop.rest)
          IN  end <= Window /\ end <= Len(input) /\ loop.rest = SubSeq(input, loop.used + 1, end)

StreamInit == Init /\ stream = [b \in Bevs |-> NoStream] /\ loop = Idle

-----------------------------------------------------------------------------
(* Framing.                                                                  *)

\* xor8_computer: a bit of the result is set if an odd number of bytes has it set.
Odd(s, bit) == Cardinality({i \in DOMAIN s : (s[i] \div bit) % 2 = 1}) % 2

Check(s) == Odd(s, 1) + 2 * Odd(s, 2) + 4 * Odd(s, 4) + 8 * Odd(s, 8)
            + 16 * Odd(s, 16) + 32 * Odd(s, 32) + 64 * Odd(s, 64) + 128 * Odd(s, 128)

\* gb905_escape
Escape(s) ==
  FlattenSeq([i \in DOMAIN s |->
    IF s[i] = ESCAPE_CHAR THEN <<ESCAPE_CHAR, 1>>
    ELSE IF s[i] = MAGIC_CHAR THEN <<ESCAPE_CHAR, 2>> ELSE <<s[i]>>])

\* gb905_send_data
Frame(m) == <<MAGIC_CHAR>> \o Escape(Append(m, Check(m))) \o <<MAGIC_CHAR>>

\* gb905_unescape, which fails at an escape that is not followed by 1 or 2.
BadEscape(s) ==
  \E i \in DOMAIN s : s[i] = ESCAPE_CHAR /\ (i = Len(s) \/ s[i+1] \notin {1, 2})

\* Mutant: the two escapes are taken for each other.
UnescapeSwapped(s) ==
  IF BadEscape(s) THEN <<>>
  ELSE FlattenSeq([i \in DOMAIN s |->
         IF s[i] = ESCAPE_CHAR THEN <<IF s[i+1] = 2 THEN ESCAPE_CHAR ELSE MAGIC_CHAR>>
         ELSE IF i > 1 /\ s[i-1] = ESCAPE_CHAR THEN <<>> ELSE <<s[i]>>])

Unescape(s) ==
  IF BadEscape(s) THEN <<>>
  ELSE FlattenSeq([i \in DOMAIN s |->
         IF s[i] = ESCAPE_CHAR THEN <<IF s[i+1] = 1 THEN ESCAPE_CHAR ELSE MAGIC_CHAR>>
         ELSE IF i > 1 /\ s[i-1] = ESCAPE_CHAR THEN <<>> ELSE <<s[i]>>])

\* gb905_find_magic_char: the place of the first one, 0 if there is none.
FindMagic(s) == SelectInSeq(s, LAMBDA c : c = MAGIC_CHAR)

\* gb905_get_a_full_msg: how many bytes have been used, and a message if there is one.
GetAFullMsg(s) ==
  LET head == FindMagic(s)
      tail == FindMagic(SubSeq(s, head + 1, Len(s)))
  IN  IF head # 0 /\ Len(s) - (head - 1) >= HeaderLen + 3 /\ tail # 0
      THEN [used |-> head + tail, raw |-> SubSeq(s, head, head + tail)]
      ELSE [used |-> IF head = 0 THEN 0 ELSE head - 1, raw |-> <<>>]

\* The check of one frame.  gb905_parse_header never makes its caller refuse a message.
\* For less than three bytes the code looks for the check byte outside the buffer.
Verified(raw) ==
  LET now == Unescape(raw)
      n   == Len(now)
  IN  IF n < 3 THEN <<Short>>
      ELSE IF now[n-1] = Check(SubSeq(now, 2, n-2)) THEN <<SubSeq(now, 2, n-2)>> ELSE <<>>

-----------------------------------------------------------------------------
(* The connections with their bytes.                                         *)

\* The server sends a message; forgotten connections are as good to it as the one in use.
ServerSends(b, m) ==
  /\ phase[b] = "connected"
  /\ MapThenSumSet(LAMBDA c : Len(stream[c].sent), Bevs) < MaxSent
  /\ stream' = [stream EXCEPT ![b].wire = @ \o Frame(m), ![b].sent = Append(@, m)]
  /\ UNCHANGED <<vars, loop>>

\* main_server_read_cb copies, after n more bytes have arrived.
ReadCb(b) ==
  /\ loop = Idle /\ Data(b)
  /\ \E n \in 1..Len(stream[b].wire) :
       LET input == stream[b].input \o SubSeq(stream[b].wire, 1, n)
           len   == IF Len(input) < Window THEN Len(input) ELSE Window
       IN  /\ stream' = [stream EXCEPT ![b].wire  = SubSeq(@, n + 1, Len(@)),
                                       ![b].input = input,
                                       ![b].burst = @ \/ Len(input) > Window]
           /\ loop' = [bev |-> b, used |-> 0, rest |-> SubSeq(input, 1, len)]

\* One turn of the loop: what it has found and used, and the rest.
Found    == GetAFullMsg(loop.rest)
Treated  == IF Found.raw = <<>> THEN <<>> ELSE Verified(Found.raw)
NowUsed  == loop.used + Found.used
NowLeft  == SubSeq(loop.rest, Found.used + 1, Len(loop.rest))
LastTurn == Found.raw = <<>> \/ NowLeft = <<>>

Turn ==
  /\ loop # Idle /\ ~LastTurn
  /\ stream' = [stream EXCEPT ![loop.bev].got = @ \o Treated]
  /\ loop' = [loop EXCEPT !.used = NowUsed, !.rest = NowLeft]
  /\ UNCHANGED vars

\* Mutant: what was copied is drained, used or not.
FinishDrainsAll ==
  /\ loop # Idle /\ LastTurn
  /\ stream' = [stream EXCEPT ![loop.bev].got   = @ \o Treated,
                              ![loop.bev].input = SubSeq(@, loop.used + Len(loop.rest) + 1, Len(@))]
  /\ loop' = Idle
  /\ UNCHANGED vars

\* The last turn: the loop ends and main_server_read_cb drains what has been used.
Finish ==
  /\ loop # Idle /\ LastTurn
  /\ stream' = [stream EXCEPT ![loop.bev].got   = @ \o Treated,
                              ![loop.bev].input = SubSeq(@, NowUsed + 1, Len(@))]
  /\ loop' = Idle
  /\ UNCHANGED vars

\* Mutant: bytes of the old connection are left for the next one.
EndsKeepsInput(b) ==
  /\ loop = Idle /\ Ended(b)
  /\ stream' = [stream EXCEPT ![b] = [NoStream EXCEPT !.input = stream[b].input]]
  /\ UNCHANGED loop

\* bufferevent_free takes the buffers with it.
Ends(b) ==
  /\ loop = Idle /\ Ended(b)
  /\ stream' = [stream EXCEPT ![b] = NoStream]
  /\ UNCHANGED loop

Opens(b) == loop = Idle /\ Connected(b) /\ UNCHANGED <<stream, loop>>
Ticks    == loop = Idle /\ (Tick \/ Clear) /\ UNCHANGED <<stream, loop>>
Sends    == Sender /\ UNCHANGED <<stream, loop>>

\* The timer and the callbacks are run by one thread, one after the other; the sender is
\* on another.
StreamNext ==
  \/ Ticks \/ Sends \/ Turn \/ Finish
  \/ \E b \in Bevs : \/ Opens(b) \/ Ends(b) \/ ReadCb(b)
                     \/ \E m \in Messages : ServerSends(b, m)

\* The fairness of MainSocket: the timer can fire again only when the loop is through.
\* Nothing is assumed of the server.
StreamSpec == StreamInit /\ [][StreamNext]_streamVars /\ Fairness

-----------------------------------------------------------------------------
(* Properties.                                                               *)

\* What is treated on a connection is what the server has sent on it, byte for byte and
\* in its order, nothing twice and nothing in between, however the bytes are cut and
\* whatever has to be escaped; and no frame is too short to hold a check byte.
TreatedAsSent == \A b \in Bevs : IsPrefix(stream[b].got, stream[b].sent)

\* When all bytes have arrived and the callback is through all messages have been
\* treated, unless more had arrived at a time than is copied: the rest of it waits for the
\* next bytes to come.
Heard == \A b \in Bevs :
  stream[b].wire = <<>> /\ ~stream[b].burst /\ loop.bev # b => stream[b].got = stream[b].sent
=============================================================================
