------------------------------ MODULE StatusFile ------------------------------
(***************************************************************************)
(* The state of the terminal kept across power cycles: taxi_status of      *)
(* src/src/middleware/info/status.c and device_info of device.c beside it, *)
(* each saved to a main and a backup file with a checksum, and read back   *)
(* when the terminal starts.                                               *)
(*                                                                         *)
(* A setter changes one flag in memory and saves, on whichever thread      *)
(* calls it; nothing is locked.  fopen(path,"wb") empties the file, fwrite *)
(* copies the structure into the stream's buffer and fflush writes it, so  *)
(* each is a step of its own.  The power may be cut between any two.       *)
(***************************************************************************)
EXTENDS Integers

CONSTANTS
  Threads,       \* threads that call setters
  Boot,          \* the main thread, which also runs the init function
  Flags,         \* flags that share a 32-bit word of the structure
  NoCrc,         \* a checksum that matches nothing
  Short,         \* content of a file shorter than the structure
  SharedBuffer,  \* TRUE: device.c, which reads both files into one variable
  MaxCuts        \* bound: power cuts

Words  == [Flags -> BOOLEAN]
Images == [word : Words, crc : Words \union {NoCrc}]

ASSUME StatusAssumption ==
  /\ Boot \in Threads /\ NoCrc \notin Words /\ Short \notin Images
  /\ SharedBuffer \in BOOLEAN /\ MaxCuts \in Nat

VARIABLES
  mem,        \* the structure in memory: its flags and its crc
  main, bak,  \* the two files
  pc, reg,    \* per thread: step of the setter, the loaded word
  buf,        \* per thread: buffer of the open stream
  rewrite,    \* files the init function still has to write back
  cuts,       \* power cuts so far
  saved,      \* history: a save was completed, or both files were good at boot
  overlap     \* history: the setter under way, or the last one, met another

vars  == <<mem, main, bak, pc, reg, buf, rewrite, cuts, saved, overlap>>
files == <<main, bak>>

Steps == {"idle", "store", "crc", "openMain", "copyMain", "flushMain",
          "openBak", "copyBak", "flushBak"}

TypeOK ==
  /\ mem \in Images
  /\ main \in Images \union {Short} /\ bak \in Images \union {Short}
  /\ pc \in [Threads -> Steps] /\ reg \in [Threads -> Words]
  /\ buf \in [Threads -> Images]
  /\ rewrite \in {"none", "both", "main", "bak"}
  /\ cuts \in 0..MaxCuts /\ saved \in BOOLEAN /\ overlap \in BOOLEAN

\* All bits zero; the checksum of zeros is not zero (it starts at 0xffff).
Zero == [word |-> [f \in Flags |-> FALSE], crc |-> NoCrc]

\* The first start: neither file is there, zeros are written back.
Init ==
  /\ mem = Zero /\ main = Short /\ bak = Short
  /\ pc = [t \in Threads |-> IF t = Boot THEN "openMain" ELSE "idle"]
  /\ reg = [t \in Threads |-> Zero.word] /\ buf = [t \in Threads |-> Zero]
  /\ rewrite = "both" /\ cuts = 0 /\ saved = FALSE /\ overlap = FALSE

Quiet == \A t \in Threads : pc[t] = "idle"

-----------------------------------------------------------------------------
(* A setter and fleety_taxi_status_save (set_device_info).                   *)

Go(t, step) == pc' = [pc EXCEPT ![t] = step]

\* taxi_status.sw.flag.f = v: load the word, then store it with the flag changed.
Load(t) ==
  /\ pc[t] = "idle" /\ rewrite = "none"
  /\ \E f \in Flags, v \in BOOLEAN : reg' = [reg EXCEPT ![t] = [mem.word EXCEPT ![f] = v]]
  /\ overlap' = ~Quiet
  /\ Go(t, "store")
  /\ UNCHANGED <<mem, files, buf, rewrite, cuts, saved>>

Store(t) ==
  /\ pc[t] = "store" /\ mem' = [mem EXCEPT !.word = reg[t]] /\ Go(t, "crc")
  /\ UNCHANGED <<files, reg, buf, rewrite, cuts, saved, overlap>>

\* Mutant: the checksum is left as it was.
CrcForgotten(t) ==
  /\ pc[t] = "crc" /\ Go(t, "openMain")
  /\ UNCHANGED <<mem, files, reg, buf, rewrite, cuts, saved, overlap>>

Crc(t) ==
  /\ pc[t] = "crc" /\ mem' = [mem EXCEPT !.crc = mem.word] /\ Go(t, "openMain")
  /\ UNCHANGED <<files, reg, buf, rewrite, cuts, saved, overlap>>

\* buf2file on the main file: fopen, fwrite, fflush.
OpenMain(t) ==
  /\ pc[t] = "openMain" /\ main' = Short /\ Go(t, "copyMain")
  /\ UNCHANGED <<mem, bak, reg, buf, rewrite, cuts, saved, overlap>>

CopyMain(t) ==
  /\ pc[t] = "copyMain" /\ buf' = [buf EXCEPT ![t] = mem] /\ Go(t, "flushMain")
  /\ UNCHANGED <<mem, files, reg, rewrite, cuts, saved, overlap>>

\* The init function may have the main file only to write back.
FlushMain(t) ==
  /\ pc[t] = "flushMain" /\ main' = buf[t]
  /\ Go(t, IF rewrite = "main" THEN "idle" ELSE "openBak")
  /\ rewrite' = IF rewrite = "main" THEN "none" ELSE rewrite
  /\ UNCHANGED <<mem, bak, reg, buf, cuts, saved, overlap>>

\* buf2file on the backup file.
OpenBak(t) ==
  /\ pc[t] = "openBak" /\ bak' = Short /\ Go(t, "copyBak")
  /\ UNCHANGED <<mem, main, reg, buf, rewrite, cuts, saved, overlap>>

CopyBak(t) ==
  /\ pc[t] = "copyBak" /\ buf' = [buf EXCEPT ![t] = mem] /\ Go(t, "flushBak")
  /\ UNCHANGED <<mem, files, reg, rewrite, cuts, saved, overlap>>

FlushBak(t) ==
  /\ pc[t] = "flushBak" /\ bak' = buf[t] /\ Go(t, "idle")
  /\ saved' = (saved \/ rewrite = "none") /\ rewrite' = "none"
  /\ UNCHANGED <<mem, main, reg, buf, cuts, overlap>>

-----------------------------------------------------------------------------
(* fleety_taxi_status_init and init_device_info, after a power cut.          *)

Good(file) == file # Short /\ file.crc = file.word

\* bit 0x01 of state: the main file is good; bit 0x02: the backup file is.
State(m, b) == (IF Good(m) THEN 1 ELSE 0) + (IF Good(b) THEN 2 ELSE 0)

\* A local variable nothing was read into.
Uninitialized == [word : Words, crc : {NoCrc}]

\* What a local variable may hold after file2buf and the check of the checksum:
\* a short file leaves it as it was (before), a bad one zeroes it.
Reading(file, before) ==
  IF file = Short THEN before ELSE IF Good(file) THEN {file} ELSE {Zero}

\* info and info_buckup when state is computed.  device.c reads the backup file
\* into info as well and never writes info_buckup.
Info(m, b) == IF SharedBuffer THEN Reading(b, Reading(m, Uninitialized))
                              ELSE Reading(m, Uninitialized)
InfoBackup(b) == IF SharedBuffer THEN Uninitialized ELSE Reading(b, Uninitialized)

\* The structure as the switch on state restores it from the two files.
Recovered(m, b) ==
  CASE State(m, b) = 0      -> {Zero}
    [] State(m, b) = 1      -> InfoBackup(b)
    [] State(m, b) \in 2..3 -> Info(m, b)

\* The files the switch writes back.
Rewrite(m, b) ==
  CASE State(m, b) = 0 -> "both"
    [] State(m, b) = 1 -> "main"
    [] State(m, b) = 2 -> "bak"
    [] State(m, b) = 3 -> "none"

\* The power is cut, at any point, and comes back; no other thread runs yet.
PowerCut ==
  /\ cuts < MaxCuts /\ cuts' = cuts + 1
  /\ \E image \in Recovered(main, bak) : mem' = image
  /\ rewrite' = Rewrite(main, bak)
  /\ pc' = [t \in Threads |->
              IF t # Boot \/ rewrite' = "none" THEN "idle"
              ELSE IF rewrite' = "bak" THEN "openBak" ELSE "openMain"]
  /\ saved' = (State(main, bak) = 3) /\ overlap' = FALSE
  /\ UNCHANGED <<files, reg, buf>>

Step(t) == \/ Load(t) \/ Store(t) \/ Crc(t)
           \/ OpenMain(t) \/ CopyMain(t) \/ FlushMain(t)
           \/ OpenBak(t) \/ CopyBak(t) \/ FlushBak(t)

Next == PowerCut \/ \E t \in Threads : Step(t)

Spec == Init /\ [][Next]_vars

-----------------------------------------------------------------------------
(* Properties.                                                               *)

\* Once a save was completed that met no other, and while none is in progress, a
\* power cut loses nothing: what init restores is what memory holds.
SavedSurvives == Quiet /\ saved /\ ~overlap => Recovered(main, bak) = {mem}

\* "case 1: // the backup file is correct": if a power cut in this state left a
\* good file, init restores the content of a good file.
RecoversFromGoodFile ==
  Good(main) \/ Good(bak) =>
    \A image \in Recovered(main, bak) : \E file \in {main, bak} : Good(file) /\ image = file
=============================================================================
