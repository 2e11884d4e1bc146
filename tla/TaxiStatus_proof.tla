--------------------------- MODULE TaxiStatus_proof ---------------------------
(* Proofs about what the terminal keeps of its own state: a completed save    *)
(* survives a power cut (StatusFile); what the flags of the ignition that are *)
(* saved there say is true (AccSleep).                                        *)
EXTENDS AccSleep, StatusFile, SequenceTheorems, TLAPS

Files == Images \union {Short}

LEMMA ZeroType == Zero \in Images /\ Zero.word \in Words
  BY StatusAssumption DEF Zero, Images, Words

\* Whatever the files hold, init restores a structure.
LEMMA RecoveredType ==
  ASSUME NEW m \in Files, NEW b \in Files
  PROVE  /\ Recovered(m, b) \subseteq Images
         /\ Rewrite(m, b) \in {"none", "both", "main", "bak"}
         /\ State(m, b) \in 0..3
         /\ State(m, b) = 3 <=> Rewrite(m, b) = "none"
  <1>1. Uninitialized \subseteq Images
    BY DEF Uninitialized, Images
  <1>2. ASSUME NEW f \in Files, NEW S \in SUBSET Images
        PROVE  Reading(f, S) \subseteq Images
    BY <1>2, ZeroType DEF Reading, Files
  <1>3. Info(m, b) \subseteq Images /\ InfoBackup(b) \subseteq Images
    <2>1. Reading(m, Uninitialized) \subseteq Images
      BY <1>1, <1>2
    <2>2. Reading(b, Uninitialized) \subseteq Images
      BY <1>1, <1>2
    <2>3. Reading(b, Reading(m, Uninitialized)) \subseteq Images
      BY <1>2, <2>1
    <2> QED  BY <1>1, <2>1, <2>2, <2>3 DEF Info, InfoBackup
  <1>4. State(m, b) \in 0..3
    BY DEF State
  <1>5. State(m, b) = 0 \/ State(m, b) = 1 \/ State(m, b) = 2 \/ State(m, b) = 3
    BY <1>4
  <1>6. Recovered(m, b) \subseteq Images
    BY <1>3, <1>5, ZeroType DEF Recovered
  <1> QED  BY <1>4, <1>5, <1>6 DEF Rewrite

\* With both files good init restores the one it reads last into info.
LEMMA BothGood ==
  ASSUME NEW m \in Files, NEW b \in Files, State(m, b) = 3
  PROVE  Recovered(m, b) = {IF SharedBuffer THEN b ELSE m}
  <1>1. Good(m) /\ Good(b)
    BY DEF State
  <1>2. m # Short /\ b # Short
    BY <1>1 DEF Good
  <1>3. Recovered(m, b) = Info(m, b)
    BY DEF Recovered
  <1>4. \A S : Reading(m, S) = {m} /\ Reading(b, S) = {b}
    BY <1>1, <1>2 DEF Reading
  <1> QED  BY <1>3, <1>4 DEF Info

-----------------------------------------------------------------------------
(* Type correctness, for any interleaving of setters.                        *)

LEMMA InitType ==
  ASSUME Init
  PROVE  TypeOK
  <1>1. mem \in Images /\ main \in Images \union {Short} /\ bak \in Images \union {Short}
    BY ZeroType DEF Init
  <1>2. pc \in [Threads -> Steps]
    BY DEF Init, Steps
  <1>3. reg \in [Threads -> Words] /\ buf \in [Threads -> Images]
    BY ZeroType DEF Init
  <1>4. saved \in BOOLEAN
    BY DEF Init
  <1>5. cuts \in 0..MaxCuts
    BY StatusAssumption DEF Init
  <1>6. rewrite \in {"none", "both", "main", "bak"} /\ overlap \in BOOLEAN
    BY DEF Init
  <1> QED  BY <1>1, <1>2, <1>3, <1>4, <1>5, <1>6 DEF TypeOK

LEMMA TypeStep ==
  ASSUME TypeOK, [Next]_vars
  PROVE  TypeOK'
  <1> USE StatusAssumption DEF TypeOK, Steps
  <1>1. CASE UNCHANGED vars
    BY <1>1 DEF vars, files
  <1>2. CASE PowerCut
    <2>1. main \in Files /\ bak \in Files
      BY DEF Files
    <2>2. mem' \in Images /\ rewrite' \in {"none", "both", "main", "bak"}
      BY <1>2, <2>1, RecoveredType DEF PowerCut
    <2>3. saved' \in BOOLEAN /\ overlap' \in BOOLEAN
      BY <1>2 DEF PowerCut
    <2>4. cuts' \in 0..MaxCuts
      BY <1>2 DEF PowerCut
    <2> QED  BY <1>2, <2>2, <2>3, <2>4 DEF PowerCut, files
  <1>3. ASSUME NEW t \in Threads, Step(t)
        PROVE  TypeOK'
    <2>0. mem.word \in Words /\ mem.crc \in Words \union {NoCrc}
      BY DEF Images
    <2>1. CASE Load(t)
      <3>1. PICK f \in Flags, v \in BOOLEAN :
              reg' = [reg EXCEPT ![t] = [mem.word EXCEPT ![f] = v]]
        BY <2>1 DEF Load
      <3>2. [mem.word EXCEPT ![f] = v] \in Words
        BY <2>0 DEF Words
      <3>3. reg' \in [Threads -> Words] /\ overlap' \in BOOLEAN
        BY <2>1, <3>1, <3>2 DEF Load
      <3> QED  BY <2>1, <3>3 DEF Load, Go, files
    <2>2. CASE Store(t)
      <3>1. mem' \in Images
        BY <2>0, <2>2 DEF Store, Images
      <3> QED  BY <2>2, <3>1 DEF Store, Go, files
    <2>3. CASE Crc(t)
      <3>1. mem' \in Images
        BY <2>0, <2>3 DEF Crc, Images
      <3> QED  BY <2>3, <3>1 DEF Crc, Go, files
    <2>4. CASE OpenMain(t)
      BY <2>4 DEF OpenMain, Go
    <2>5. CASE CopyMain(t)
      BY <2>5 DEF CopyMain, Go, files
    <2>6. CASE FlushMain(t)
      BY <2>6 DEF FlushMain, Go
    <2>7. CASE OpenBak(t)
      BY <2>7 DEF OpenBak, Go
    <2>8. CASE CopyBak(t)
      BY <2>8 DEF CopyBak, Go, files
    <2>9. CASE FlushBak(t)
      BY <2>9 DEF FlushBak, Go
    <2> QED  BY <1>3, <2>1, <2>2, <2>3, <2>4, <2>5, <2>6, <2>7, <2>8, <2>9 DEF Step
  <1> QED  BY <1>1, <1>2, <1>3 DEF Next

\* The structure, the files and every thread's step keep their types, for any
\* number of threads and flags, both recoveries, and with racing setters.
THEOREM StatusTypeCorrect == Spec => []TypeOK
<1>1. Init => TypeOK
  BY InitType
<1>2. TypeOK /\ [Next]_vars => TypeOK'
  BY TypeStep
<1> QED  BY <1>1, <1>2, PTL DEF Spec

-----------------------------------------------------------------------------
(* The invariant behind SavedSurvives.                                       *)

\* One thread at a time is inside a setter or the init function.
OneBusy == \A t, u \in Threads : pc[t] # "idle" /\ pc[u] # "idle" => t = u

\* While init writes files back, nothing counts as saved and only it runs.
Rewriting == rewrite # "none" => ~saved /\ pc[Boot] # "idle"

Saving  == {"openMain", "copyMain", "flushMain", "openBak", "copyBak", "flushBak"}

\* What the thread inside a save has achieved so far.
Progress ==
  rewrite = "none" =>
    \A t \in Threads :
      /\ pc[t] \in Saving => mem.crc = mem.word
      /\ pc[t] \in {"flushMain", "flushBak"} => buf[t] = mem
      /\ pc[t] \in {"openBak", "copyBak", "flushBak"} => main = mem

\* A save that meets no other goes step by step; one that does promises nothing.
Alone   == OneBusy /\ Rewriting /\ Progress
SaveInv == TypeOK /\ (~overlap => Alone) /\ SavedSurvives

LEMMA PowerCutKeeps ==
  ASSUME SaveInv, TypeOK', PowerCut
  PROVE  SaveInv'
  <1> USE DEF SaveInv, Alone
  <1>1. main \in Files /\ bak \in Files /\ pc \in [Threads -> Steps]
    BY DEF TypeOK, Files
  <1>2. saved' <=> rewrite' = "none"
    BY <1>1, RecoveredType DEF PowerCut
  <1>3. /\ pc' = [t \in Threads |->
                   IF t # Boot \/ rewrite' = "none" THEN "idle"
                   ELSE IF rewrite' = "bak" THEN "openBak" ELSE "openMain"]
        /\ main' = main /\ bak' = bak
    BY DEF PowerCut, files
  <1>4. OneBusy'
    BY <1>3 DEF OneBusy
  <1>5. Rewriting'
    BY <1>2, <1>3, StatusAssumption DEF Rewriting
  <1>6. Progress'
    <2> SUFFICES ASSUME rewrite' = "none", NEW t \in Threads
                 PROVE  pc'[t] = "idle"
      BY DEF Progress, Saving
    <2> QED  BY <1>3
  <1>7. SavedSurvives'
    <2> SUFFICES ASSUME saved'
                 PROVE  Recovered(main', bak') = {mem'}
      BY DEF SavedSurvives
    <2>1. State(main, bak) = 3
      BY DEF PowerCut
    <2>2. PICK image \in Recovered(main, bak) : mem' = image
      BY DEF PowerCut
    <2> QED  BY <1>1, <1>3, <2>1, <2>2, BothGood
  <1> QED  BY <1>4, <1>5, <1>6, <1>7

\* When the last flush of a save is done both files are good and current.
LEMMA SaveDone ==
  ASSUME SaveInv, TypeOK', NEW t \in Threads, FlushBak(t), rewrite = "none",
         ~overlap
  PROVE  Recovered(main', bak') = {mem'}
  <1> USE DEF SaveInv, Alone
  <1>1. /\ main' = mem /\ bak' = mem /\ mem' = mem /\ mem.crc = mem.word
    BY DEF FlushBak, Progress, Saving
  <1>2. mem \in Images /\ mem # Short
    BY StatusAssumption DEF TypeOK
  <1>3. mem \in Files /\ Good(mem)
    BY <1>1, <1>2 DEF Files, Good
  <1>4. State(mem, mem) = 3
    BY <1>3 DEF State
  <1>5. Recovered(mem, mem) = {mem}
    BY <1>3, <1>4, BothGood
  <1> QED  BY <1>1, <1>5

\* What overlaps keeps TypeOK and is done with at the next setter that runs alone.
LEMMA OverlapKeeps ==
  ASSUME SaveInv, TypeOK', NEW t \in Threads, Step(t), ~Load(t), overlap
  PROVE  SaveInv'
  <1>1. overlap' = overlap
    BY DEF Step, Store, Crc, OpenMain, CopyMain, FlushMain, OpenBak, CopyBak, FlushBak
  <1> QED  BY <1>1 DEF SaveInv, SavedSurvives

LEMMA LoadKeeps ==
  ASSUME SaveInv, TypeOK', NEW t \in Threads, Load(t)
  PROVE  SaveInv'
  <1> USE DEF SaveInv, Alone
  <1>0. pc \in [Threads -> Steps]
    BY DEF TypeOK
  <1>1. /\ rewrite = "none" /\ rewrite' = "none" /\ pc' = [pc EXCEPT ![t] = "store"]
        /\ overlap' = ~Quiet
    BY DEF Load, Go
  <1>2. CASE Quiet
    <2>1. OneBusy'
      BY <1>0, <1>1, <1>2 DEF OneBusy, Quiet
    <2>2. \A u \in Threads : pc'[u] \in {"idle", "store"}
      BY <1>0, <1>1, <1>2 DEF Quiet
    <2>3. Progress' /\ Rewriting'
      BY <1>1, <2>2 DEF Progress, Rewriting, Saving
    <2>4. ~Quiet'
      BY <1>0, <1>1 DEF Quiet
    <2> QED  BY <2>1, <2>3, <2>4 DEF SavedSurvives
  <1>3. CASE ~Quiet
    BY <1>1, <1>3 DEF SavedSurvives
  <1> QED  BY <1>2, <1>3

LEMMA StepKeeps ==
  ASSUME SaveInv, TypeOK', NEW t \in Threads, Step(t), ~Load(t), ~overlap
  PROVE  SaveInv'
  <1> USE DEF SaveInv, Alone, Saving
  <1>0. pc \in [Threads -> Steps] /\ Boot \in Threads /\ mem \in Images
        /\ buf \in [Threads -> Images] /\ rewrite \in {"none", "both", "main", "bak"}
    BY StatusAssumption DEF TypeOK
  <1>1. ASSUME pc[t] # "idle", NEW s \in Steps, s # "idle", pc' = [pc EXCEPT ![t] = s]
        PROVE  /\ OneBusy' /\ SavedSurvives' /\ pc'[t] = s
               /\ \A u \in Threads \ {t} : pc'[u] = "idle"
    <2>1. \A u \in Threads \ {t} : pc[u] = "idle"
      BY <1>1 DEF OneBusy
    <2>2. pc'[t] = s /\ \A u \in Threads \ {t} : pc'[u] = "idle"
      BY <1>0, <1>1, <2>1
    <2>3. OneBusy' /\ ~Quiet'
      BY <1>1, <2>2 DEF OneBusy, Quiet
    <2> QED  BY <2>2, <2>3 DEF SavedSurvives
  <1>2. ASSUME pc[t] # "idle", rewrite' = rewrite, saved' = saved, pc'[t] # "idle",
               \A u \in Threads \ {t} : pc'[u] = "idle"
        PROVE  Rewriting'
    <2>1. rewrite # "none" => t = Boot
      BY <1>0, <1>2 DEF OneBusy, Rewriting
    <2> QED  BY <1>2, <2>1 DEF Rewriting
  <1>3. CASE Store(t)
    <2>1. pc[t] = "store" /\ pc' = [pc EXCEPT ![t] = "crc"] /\ rewrite' = rewrite /\ saved' = saved
      BY <1>3 DEF Store, Go
    <2>2. OneBusy' /\ SavedSurvives' /\ pc'[t] = "crc" /\ \A u \in Threads \ {t} : pc'[u] = "idle"
      BY <1>1, <2>1 DEF Steps
    <2>3. Progress'
      BY <2>2 DEF Progress
    <2> QED  BY <1>2, <2>1, <2>2, <2>3
  <1>4. CASE Crc(t)
    <2>1. pc[t] = "crc" /\ pc' = [pc EXCEPT ![t] = "openMain"] /\ rewrite' = rewrite /\ saved' = saved
      BY <1>4 DEF Crc, Go
    <2>2. OneBusy' /\ SavedSurvives' /\ pc'[t] = "openMain" /\ \A u \in Threads \ {t} : pc'[u] = "idle"
      BY <1>1, <2>1 DEF Steps
    <2>3. mem'.crc = mem'.word
      BY <1>0, <1>4 DEF Crc, Images
    <2>4. Progress'
      BY <2>2, <2>3 DEF Progress
    <2> QED  BY <1>2, <2>1, <2>2, <2>4
  <1>5. CASE OpenMain(t)
    <2>1. pc[t] = "openMain" /\ pc' = [pc EXCEPT ![t] = "copyMain"] /\ rewrite' = rewrite /\ saved' = saved
      BY <1>5 DEF OpenMain, Go
    <2>2. OneBusy' /\ SavedSurvives' /\ pc'[t] = "copyMain" /\ \A u \in Threads \ {t} : pc'[u] = "idle"
      BY <1>1, <2>1 DEF Steps
    <2>3. Progress'
      BY <1>5, <2>1, <2>2 DEF OpenMain, Progress
    <2> QED  BY <1>2, <2>1, <2>2, <2>3
  <1>6. CASE CopyMain(t)
    <2>1. pc[t] = "copyMain" /\ pc' = [pc EXCEPT ![t] = "flushMain"] /\ rewrite' = rewrite /\ saved' = saved
      BY <1>6 DEF CopyMain, Go
    <2>2. OneBusy' /\ SavedSurvives' /\ pc'[t] = "flushMain" /\ \A u \in Threads \ {t} : pc'[u] = "idle"
      BY <1>1, <2>1 DEF Steps
    <2>3. Progress'
      BY <1>0, <1>6, <2>1, <2>2 DEF CopyMain, Progress
    <2> QED  BY <1>2, <2>1, <2>2, <2>3
  <1>7. CASE FlushMain(t)
    <2>0. pc[t] = "flushMain" /\ saved' = saved
      BY <1>7 DEF FlushMain
    <2>1. CASE rewrite = "main"
      <3>1. t = Boot
        BY <1>0, <2>0, <2>1 DEF OneBusy, Rewriting
      <3>2. pc' = [pc EXCEPT ![t] = "idle"] /\ rewrite' = "none"
        BY <1>7, <2>1 DEF FlushMain, Go
      <3>3. \A u \in Threads : pc'[u] = "idle"
        BY <1>0, <2>0, <3>2 DEF OneBusy
      <3>4. ~saved'
        BY <2>0, <2>1 DEF Rewriting
      <3> QED  BY <3>2, <3>3, <3>4 DEF OneBusy, Rewriting, Progress, SavedSurvives
    <2>2. CASE rewrite # "main"
      <3>1. pc' = [pc EXCEPT ![t] = "openBak"] /\ rewrite' = rewrite
        BY <1>7, <2>2 DEF FlushMain, Go
      <3>2. OneBusy' /\ SavedSurvives' /\ pc'[t] = "openBak" /\ \A u \in Threads \ {t} : pc'[u] = "idle"
        BY <1>1, <2>0, <3>1 DEF Steps
      <3>3. Progress'
        BY <1>7, <2>0, <3>1, <3>2 DEF FlushMain, Progress
      <3> QED  BY <1>2, <2>0, <3>1, <3>2, <3>3
    <2> QED  BY <2>1, <2>2
  <1>8. CASE OpenBak(t)
    <2>1. pc[t] = "openBak" /\ pc' = [pc EXCEPT ![t] = "copyBak"] /\ rewrite' = rewrite /\ saved' = saved
      BY <1>8 DEF OpenBak, Go
    <2>2. OneBusy' /\ SavedSurvives' /\ pc'[t] = "copyBak" /\ \A u \in Threads \ {t} : pc'[u] = "idle"
      BY <1>1, <2>1 DEF Steps
    <2>3. Progress'
      BY <1>8, <2>1, <2>2 DEF OpenBak, Progress
    <2> QED  BY <1>2, <2>1, <2>2, <2>3
  <1>9. CASE CopyBak(t)
    <2>1. pc[t] = "copyBak" /\ pc' = [pc EXCEPT ![t] = "flushBak"] /\ rewrite' = rewrite /\ saved' = saved
      BY <1>9 DEF CopyBak, Go
    <2>2. OneBusy' /\ SavedSurvives' /\ pc'[t] = "flushBak" /\ \A u \in Threads \ {t} : pc'[u] = "idle"
      BY <1>1, <2>1 DEF Steps
    <2>3. Progress'
      BY <1>0, <1>9, <2>1, <2>2 DEF CopyBak, files, Progress
    <2> QED  BY <1>2, <2>1, <2>2, <2>3
  <1>10. CASE FlushBak(t)
    <2>1. pc[t] = "flushBak" /\ pc' = [pc EXCEPT ![t] = "idle"] /\ rewrite' = "none"
      BY <1>10 DEF FlushBak, Go
    <2>2. \A u \in Threads : pc'[u] = "idle"
      BY <1>0, <2>1 DEF OneBusy
    <2>3. rewrite # "none" => ~saved'
      BY <1>10 DEF FlushBak, Rewriting
    <2>4. SavedSurvives'
      BY <1>10, <2>3, SaveDone DEF SavedSurvives
    <2> QED  BY <2>1, <2>2, <2>4 DEF OneBusy, Rewriting, Progress
  <1> QED
    BY <1>3, <1>4, <1>5, <1>6, <1>7, <1>8, <1>9, <1>10 DEF Step

LEMMA SaveInvStep ==
  ASSUME SaveInv, [Next]_vars
  PROVE  SaveInv'
  <1>1. TypeOK'
    BY TypeStep DEF SaveInv
  <1>2. CASE UNCHANGED vars
    BY <1>1, <1>2 DEF SaveInv, Alone, vars, OneBusy, Rewriting, Progress, SavedSurvives, Quiet
  <1>3. CASE PowerCut
    BY <1>1, <1>3, PowerCutKeeps
  <1>4. ASSUME NEW t \in Threads, Step(t)
        PROVE  SaveInv'
    BY <1>1, <1>4, LoadKeeps, OverlapKeeps, StepKeeps
  <1> QED  BY <1>2, <1>3, <1>4 DEF Next

\* A completed save that met no other setter survives power cuts: at rest, what init
\* would restore from the files is what memory holds.
THEOREM SaveSafe == Spec => []SavedSurvives
<1>1. Init => SaveInv
  <2> SUFFICES ASSUME Init PROVE SaveInv
    OBVIOUS
  <2>1. TypeOK
    BY InitType
  <2>2. /\ \A t \in Threads : pc[t] = IF t = Boot THEN "openMain" ELSE "idle"
        /\ rewrite = "both" /\ ~saved /\ Boot \in Threads
    BY StatusAssumption DEF Init
  <2>3. OneBusy /\ Rewriting
    BY <2>2 DEF OneBusy, Rewriting
  <2>4. Progress /\ SavedSurvives
    BY <2>2 DEF Progress, SavedSurvives
  <2> QED  BY <2>1, <2>3, <2>4 DEF SaveInv, Alone
<1>2. SaveInv /\ [Next]_vars => SaveInv'
  BY SaveInvStep
<1>3. SaveInv => SavedSurvives
  BY DEF SaveInv
<1> QED  BY <1>1, <1>2, <1>3, PTL DEF Spec

-----------------------------------------------------------------------------
(* Ignition: type correctness of AccSleep.                                    *)

SleeperStates == [pc : {"none", "started", "waiting", "timeout", "loaded", "gone"}, word : Word]

\* A thread is started for an event that was fetched: the one being treated counts.
Counted == started + Len(queue) + (IF treat.pc = "off" THEN 1 ELSE 0) <= events

LEMMA AccStates ==
  /\ Clear \in Word /\ GoneSleeper \in SleeperStates /\ NoSleeper \in SleeperStates
  /\ \A w \in Word : /\ [w EXCEPT !.sleep = TRUE] \in Word /\ [w EXCEPT !.sleep = FALSE] \in Word
                     /\ \A on \in BOOLEAN : [w EXCEPT !.acc_monitor = on] \in Word
  BY DEF Clear, Word, GoneSleeper, NoSleeper, SleeperStates

LEMMA AccInitType ==
  ASSUME AccInit
  PROVE  AccTypeOK /\ Counted
  <1>1. treat \in [pc : {"idle", "off", "on", "signalled", "loaded", "cleared"},
                   alarm : BOOLEAN, word : Word]
        /\ uart \in [pc : {"idle", "loaded"}, on : BOOLEAN, word : Word]
    BY AccStates DEF AccInit, IdleTreat, IdleUart
  <1>2. sleeper \in [Sleepers -> SleeperStates]
    BY AccStates DEF AccInit
  <1>3. off \in BOOLEAN /\ astray \in BOOLEAN /\ stale \in BOOLEAN
        /\ told \in BOOLEAN /\ early \in BOOLEAN /\ acc \in BOOLEAN /\ alarm \in BOOLEAN
    BY DEF AccInit
  <1>4. sw \in Word /\ queue \in Seq(BOOLEAN)
    BY AccStates DEF AccInit
  <1>5. /\ reports \in [before : 0..MaxReports, since : 0..MaxReports]
        /\ reports.before + reports.since <= MaxReports
    BY AccAssumption DEF AccInit
  <1>6. started = 0 /\ Len(queue) = 0 /\ events = 0 /\ commands = 0 /\ boots = 0
    BY DEF AccInit
  <1>7. events \in 0..MaxEvents /\ commands \in 0..MaxCommands /\ boots \in 0..MaxBoots
    BY <1>6, AccAssumption
  <1>8. treat.pc = "idle"
    BY DEF AccInit, IdleTreat
  <1>9. started \in 0..events /\ started + Len(queue) <= events /\ Counted
    BY <1>6, <1>8 DEF Counted
  <1> QED  BY <1>1, <1>2, <1>3, <1>4, <1>5, <1>7, <1>9 DEF AccTypeOK, SleeperStates

\* The UART thread and the reports.
LEMMA AccTypeOthers ==
  ASSUME AccTypeOK, Counted,
         \/ \E on \in BOOLEAN : Gpio(on) \/ Monitor(on)
         \/ MonitorStore \/ BuildReport \/ ReportAck
  PROVE  AccTypeOK' /\ Counted'
  <1> USE AccAssumption DEF AccTypeOK, Counted, status, threads, faults, answer, bounds
  <1>1. ASSUME NEW on \in BOOLEAN, Gpio(on)
        PROVE  AccTypeOK' /\ Counted'
    <2>1. queue' \in Seq(BOOLEAN) /\ Len(queue') = Len(queue) + 1
      BY <1>1 DEF Gpio
    <2>2. events' = events + 1 /\ events' \in 0..MaxEvents
      BY <1>1 DEF Gpio
    <2> QED  BY <1>1, <2>1, <2>2 DEF Gpio
  <1>2. ASSUME NEW on \in BOOLEAN, Monitor(on)
        PROVE  AccTypeOK' /\ Counted'
    <2>1. uart' \in [pc : {"idle", "loaded"}, on : BOOLEAN, word : Word]
      BY <1>2 DEF Monitor
    <2>2. commands' \in 0..MaxCommands
      BY <1>2 DEF Monitor
    <2> QED  BY <1>2, <2>1, <2>2 DEF Monitor
  <1>3. CASE MonitorStore
    <2>1. sw' \in Word
      BY <1>3, AccStates DEF MonitorStore
    <2>2. uart' \in [pc : {"idle", "loaded"}, on : BOOLEAN, word : Word]
      BY <1>3, AccStates DEF MonitorStore, IdleUart
    <2>3. stale' \in BOOLEAN
      BY <1>3 DEF MonitorStore
    <2> QED  BY <1>3, <2>1, <2>2, <2>3 DEF MonitorStore
  <1>4. CASE BuildReport
    <2>1. /\ reports' \in [before : 0..MaxReports, since : 0..MaxReports]
          /\ reports'.before + reports'.since <= MaxReports
      <3>1. /\ reports.before \in Nat /\ reports.since \in Nat
            /\ reports.before + reports.since < MaxReports
        BY <1>4 DEF BuildReport
      <3>2. \/ reports' = [reports EXCEPT !.since = @ + 1]
            \/ reports' = [reports EXCEPT !.before = @ + 1]
        BY <1>4 DEF BuildReport
      <3>3. \/ reports'.before = reports.before /\ reports'.since = reports.since + 1
            \/ reports'.before = reports.before + 1 /\ reports'.since = reports.since
        BY <3>2
      <3>4. reports' = [before |-> reports'.before, since |-> reports'.since]
        BY <3>2
      <3>5. reports'.before \in 0..MaxReports /\ reports'.since \in 0..MaxReports
        BY <3>1, <3>3
      <3>6. reports' \in [before : 0..MaxReports, since : 0..MaxReports]
        <4> DEFINE b == reports'.before
                   s == reports'.since
        <4>1. b \in 0..MaxReports /\ s \in 0..MaxReports /\ reports' = [before |-> b, since |-> s]
          BY <3>4, <3>5
        <4> HIDE DEF b, s
        <4> QED  BY <4>1
      <3> QED  BY <3>1, <3>3, <3>6
    <2> QED  BY <1>4, <2>1 DEF BuildReport
  <1>5. CASE ReportAck
    <2>1. PICK f \in {"before", "since"} :
            /\ reports[f] > 0 /\ reports' = [reports EXCEPT ![f] = @ - 1]
            /\ told' = (told \/ f = "since")
      BY <1>5 DEF ReportAck
    <2>2. told' \in BOOLEAN
      BY <2>1
    <2>3. /\ reports' \in [before : 0..MaxReports, since : 0..MaxReports]
          /\ reports'.before + reports'.since <= MaxReports
      <3>1. CASE f = "before"
        BY <2>1, <3>1
      <3>2. CASE f = "since"
        BY <2>1, <3>2
      <3> QED  BY <3>1, <3>2
    <2>4. alarm' \in BOOLEAN
      BY <1>5 DEF ReportAck
    <2> QED  BY <1>5, <2>2, <2>3, <2>4 DEF ReportAck
  <1> QED  BY <1>1, <1>2, <1>3, <1>4, <1>5

\* The waiting threads.
LEMMA AccTypeSleeper ==
  ASSUME AccTypeOK, Counted, NEW i \in Sleepers, Sleeper(i)
  PROVE  AccTypeOK' /\ Counted'
  <1> USE DEF AccTypeOK, Counted, status, threads, faults, answer, bounds
  <1>1. sleeper \in [Sleepers -> SleeperStates]
    BY DEF SleeperStates
  <1>2. ASSUME NEW from, NEW to \in {"waiting", "timeout"}, Move(i, from, to)
        PROVE  sleeper' \in [Sleepers -> SleeperStates]
    BY <1>1, <1>2 DEF Move, SleeperStates
  <1>3. CASE Wait(i) \/ TimeOut(i)
    <2>1. sleeper' \in [Sleepers -> SleeperStates]
      BY <1>2, <1>3 DEF Wait, TimeOut
    <2> QED  BY <1>3, <2>1 DEF Wait, TimeOut, SleeperStates
  <1>4. CASE SleepLoad(i)
    <2>1. sleeper' \in [Sleepers -> SleeperStates]
      BY <1>1, <1>4 DEF SleepLoad, SleeperStates
    <2> QED  BY <1>4, <2>1 DEF SleepLoad, SleeperStates
  <1>5. CASE SleepStore(i)
    <2>1. sleeper' \in [Sleepers -> SleeperStates]
      BY <1>1, <1>5, AccStates DEF SleepStore
    <2>2. sw' \in Word
      BY <1>1, <1>5, AccStates DEF SleepStore, SleeperStates
    <2>3. stale' \in BOOLEAN
      BY <1>5 DEF SleepStore
    <2> QED  BY <1>5, <2>1, <2>2, <2>3 DEF SleepStore, SleeperStates
  <1> QED  BY <1>3, <1>4, <1>5 DEF Sleeper

\* The socket thread.
LEMMA AccTypeTreat ==
  ASSUME AccTypeOK, Counted, SocketThread
  PROVE  AccTypeOK' /\ Counted'
  <1> USE AccAssumption DEF AccTypeOK, Counted, status, threads, faults, answer, bounds
  <1> DEFINE Treats == [pc : {"idle", "off", "on", "signalled", "loaded", "cleared"},
                        alarm : BOOLEAN, word : Word]
  <1>1. sleeper \in [Sleepers -> SleeperStates]
    BY DEF SleeperStates
  <1>2. IdleTreat \in Treats /\ IdleTreat.pc = "idle"
    BY AccStates DEF IdleTreat
  <1>3. CASE AccTreat
    <2>1. /\ Head(queue) \in BOOLEAN /\ queue' \in Seq(BOOLEAN)
          /\ Len(queue') = Len(queue) - 1 /\ Len(queue) \in Nat
      <3>1. queue # <<>> /\ queue \in Seq(BOOLEAN) /\ queue' = Tail(queue)
        BY <1>3 DEF AccTreat
      <3> HIDE DEF AccTypeOK, Counted
      <3> QED  BY <3>1, HeadTailProperties, LenProperties
    <2>2. /\ treat' \in Treats /\ treat'.pc \in {"on", "off"}
      BY <1>2, <1>3 DEF AccTreat, IdleTreat
    <2>3. acc' \in BOOLEAN /\ off' \in BOOLEAN
      BY <1>3, <2>1 DEF AccTreat
    <2>4. treat.pc = "idle"
      BY <1>3 DEF AccTreat
    <2>5. started' + Len(queue') <= events' /\ Counted' /\ started' \in 0..events'
      <3>1. started' = started /\ events' = events
        BY <1>3 DEF AccTreat
      <3>2. started \in Nat /\ events \in Nat /\ started + Len(queue) <= events
        OBVIOUS
      <3> QED  BY <2>1, <2>4, <3>1, <3>2
    <2> QED  BY <1>3, <2>1, <2>2, <2>3, <2>5 DEF AccTreat
  <1>4. CASE StartSleeper
    <2>1. sleeper' \in [Sleepers -> SleeperStates]
      BY <1>1, <1>4 DEF StartSleeper, SleeperStates
    <2>2. treat.pc = "off" /\ treat' = IdleTreat /\ started' = started + 1 /\ off' \in BOOLEAN
      BY <1>4 DEF StartSleeper
    <2>3. started' \in 0..events /\ started' + Len(queue) <= events
      BY <2>2
    <2> QED  BY <1>2, <1>4, <2>1, <2>2, <2>3 DEF StartSleeper, SleeperStates
  <1>5. CASE SignalSleeper
    <2>1. PICK woken \in SUBSET Waiting :
            sleeper' = [i \in Sleepers |-> IF i \in woken THEN GoneSleeper ELSE sleeper[i]]
      BY <1>5 DEF SignalSleeper
    <2>2. sleeper' \in [Sleepers -> SleeperStates]
      BY <1>1, <2>1, AccStates
    <2>3. treat' \in Treats /\ treat'.pc = "signalled" /\ astray' \in BOOLEAN
      BY <1>5 DEF SignalSleeper
    <2> QED  BY <1>5, <2>2, <2>3 DEF SignalSleeper, SleeperStates
  <1>6. CASE ClearLoad
    <2>1. treat' \in Treats /\ treat'.pc = "loaded"
      BY <1>6 DEF ClearLoad
    <2> QED  BY <1>6, <2>1 DEF ClearLoad
  <1>7. CASE ClearStore
    <2>1. treat' \in Treats /\ treat'.pc = "cleared" /\ sw' \in Word
      BY <1>7, AccStates DEF ClearStore
    <2>2. astray' \in BOOLEAN /\ stale' \in BOOLEAN
      BY <1>7 DEF ClearStore
    <2> QED  BY <1>7, <2>1, <2>2 DEF ClearStore
  <1>8. CASE CheckMonitor
    <2>1. alarm' \in BOOLEAN /\ told' \in BOOLEAN
      BY <1>8 DEF CheckMonitor
    <2>2. early' \in BOOLEAN
      <3>1. CASE Illegal
        <4>1. early' = (reports.before + reports.since > 0)
          BY <1>8, <3>1 DEF CheckMonitor
        <4> QED  BY <4>1
      <3>2. CASE ~Illegal
        BY <1>8, <3>2 DEF CheckMonitor
      <3> QED  BY <3>1, <3>2
    <2>3. /\ reports' \in [before : 0..MaxReports, since : 0..MaxReports]
          /\ reports'.before + reports'.since <= MaxReports
      BY <1>8 DEF CheckMonitor
    <2>4. treat' = IdleTreat
      BY <1>8 DEF CheckMonitor
    <2> QED  BY <1>2, <1>8, <2>1, <2>2, <2>3, <2>4 DEF CheckMonitor
  <1> QED  BY <1>3, <1>4, <1>5, <1>6, <1>7, <1>8 DEF SocketThread

LEMMA AccTypeStep ==
  ASSUME AccTypeOK, Counted, [AccNext]_accVars
  PROVE  AccTypeOK' /\ Counted'
  <1>1. CASE UNCHANGED accVars
    BY <1>1 DEF accVars, AccTypeOK, Counted, status, threads, faults, answer, bounds
  <1>2. CASE Restart
    <2> USE <1>2 DEF Restart, AccTypeOK, status, threads, faults, answer, bounds
    <2>1. sleeper' \in [Sleepers -> SleeperStates]
      BY AccStates DEF SleeperStates
    <2>2. treat' \in [pc : {"idle", "off", "on", "signalled", "loaded", "cleared"},
                      alarm : BOOLEAN, word : Word]
          /\ uart' \in [pc : {"idle", "loaded"}, on : BOOLEAN, word : Word]
          /\ treat'.pc = "idle"
      BY AccStates DEF IdleTreat, IdleUart
    <2>3. queue' \in Seq(BOOLEAN) /\ Len(queue') = 0 /\ Len(queue) \in Nat
      OBVIOUS
    <2>4. off' \in BOOLEAN /\ astray' \in BOOLEAN /\ stale' \in BOOLEAN
      OBVIOUS
    <2>5. boots' \in 0..MaxBoots
      BY AccAssumption
    <2>6. started' + Len(queue') <= events' /\ Counted'
      BY <2>2, <2>3 DEF Counted
    <2> QED  BY <2>1, <2>2, <2>3, <2>4, <2>5, <2>6 DEF SleeperStates
  <1> QED  BY <1>1, <1>2, AccTypeOthers, AccTypeSleeper, AccTypeTreat DEF AccNext

\* The flags, the word of the setters, the threads and the reports keep their types,
\* for any number of ignition events: no thread is started that no event stands for.
THEOREM AccTypeCorrect == AccSpec => []AccTypeOK
  <1>1. AccInit => AccTypeOK /\ Counted
    BY AccInitType
  <1>2. AccTypeOK /\ Counted /\ [AccNext]_accVars => (AccTypeOK /\ Counted)'
    BY AccTypeStep
  <1> QED  BY <1>1, <1>2, PTL DEF AccSpec

-----------------------------------------------------------------------------
(* The invariant behind SleepMeansOff.                                        *)

\* The event being treated is the one acc was set from.
Serving ==
  /\ treat.pc \in {"on", "signalled", "loaded", "cleared"} => acc
  /\ treat.pc = "off" => ~acc

\* From the signal of ACC on to the next ACC off no thread is left that could set the
\* flag, unless the signal went astray.
Woken == acc /\ treat.pc # "on" /\ ~astray => Alive = {}

AwakeInv == AccTypeOK /\ Counted /\ Serving /\ Woken /\ SleepMeansOff

\* A thread that lives after the signal was not reached by it, or was not alone.
LEMMA SignalReaches ==
  ASSUME AwakeInv, SignalSleeper, ~astray'
  PROVE  Alive' = {}
  <1>1. PICK woken \in SUBSET Waiting :
          /\ Waiting = {started} => woken = Waiting
          /\ sleeper' = [i \in Sleepers |-> IF i \in woken THEN GoneSleeper ELSE sleeper[i]]
    BY DEF SignalSleeper
  <1>2. Alive \subseteq Waiting \cap {started}
    BY Zenon DEF SignalSleeper
  <1>3. Waiting \subseteq Alive
    BY DEF Waiting, Alive
  <1>4. Alive = {} \/ (Waiting = {started} /\ Alive = {started})
    BY <1>2, <1>3
  <1>5. Alive \subseteq woken
    BY <1>1, <1>4
  <1>6. \A i \in Sleepers : i \in woken \/ sleeper[i].pc \in {"none", "gone"}
    BY <1>5 DEF Alive
  <1>7. GoneSleeper.pc = "gone"
    BY DEF GoneSleeper
  <1>8. \A i \in Sleepers : sleeper'[i].pc \in {"none", "gone"}
    BY <1>1, <1>6, <1>7
  <1> QED  BY <1>8 DEF Alive

\* A step that leaves the threads, the ignition and the word alone, and neither
\* forgets that a signal went astray nor that a word was stale.
LEMMA AwakeUndisturbed ==
  ASSUME AwakeInv, AccTypeOK', Counted', UNCHANGED <<sleeper, acc, sw, astray, stale>>,
         treat' = treat \/ (treat.pc = "cleared" /\ treat'.pc = "idle")
  PROVE  AwakeInv'
  <1>1. Alive' = Alive
    BY DEF Alive
  <1>2. CASE treat' = treat
    BY <1>1, <1>2 DEF AwakeInv, Serving, Woken, SleepMeansOff
  <1>3. CASE treat.pc = "cleared" /\ treat'.pc = "idle"
    BY <1>1, <1>3 DEF AwakeInv, Serving, Woken, SleepMeansOff
  <1> QED  BY <1>2, <1>3

LEMMA AwakeStep ==
  ASSUME AwakeInv, [AccNext]_accVars
  PROVE  AwakeInv'
  <1>0. AccTypeOK' /\ Counted'
    BY AccTypeStep DEF AwakeInv
  <1> USE DEF status, threads, faults, answer, bounds
  <1>1. CASE UNCHANGED accVars
    BY <1>0, <1>1, AwakeUndisturbed DEF accVars
  <1>2. CASE ReportAck \/ BuildReport
    BY <1>0, <1>2, AwakeUndisturbed DEF ReportAck, BuildReport
  <1>3. ASSUME NEW on \in BOOLEAN, Gpio(on) \/ Monitor(on)
        PROVE  AwakeInv'
    BY <1>0, <1>3, AwakeUndisturbed DEF Gpio, Monitor
  <1>4. CASE CheckMonitor
    BY <1>0, <1>4, AwakeUndisturbed DEF CheckMonitor, IdleTreat
  <1>5. CASE MonitorStore
    <2>1. UNCHANGED <<sleeper, acc, treat, astray>> /\ Alive' = Alive
      BY <1>5 DEF MonitorStore, Alive
    <2>2. Serving' /\ Woken'
      BY <2>1 DEF AwakeInv, Serving, Woken
    <2>3. ASSUME ~stale'
          PROVE  ~stale /\ sw'.sleep = sw.sleep
      <3>1. ~stale /\ uart.word.sleep = sw.sleep
        BY <1>5, <2>3, Zenon DEF MonitorStore
      <3>2. uart.word \in Word /\ sw' = [uart.word EXCEPT !.acc_monitor = uart.on]
        BY <1>5 DEF MonitorStore, AwakeInv, AccTypeOK
      <3>3. sw'.sleep = uart.word.sleep
        BY <3>2 DEF Word
      <3> QED  BY <3>1, <3>3
    <2>4. SleepMeansOff'
      BY <2>1, <2>3 DEF AwakeInv, SleepMeansOff
    <2> QED  BY <1>0, <2>2, <2>4 DEF AwakeInv
  <1>6. ASSUME NEW i \in Sleepers, Sleeper(i)
        PROVE  AwakeInv'
    <2>1. i \in Alive /\ UNCHANGED <<acc, treat, astray>>
      BY <1>6 DEF Sleeper, Wait, TimeOut, SleepLoad, SleepStore, Move, Alive
    <2>2. ~(acc /\ treat.pc # "on" /\ ~astray)
      BY <2>1 DEF AwakeInv, Woken
    <2>3. Serving' /\ Woken' /\ SleepMeansOff'
      BY <2>1, <2>2 DEF AwakeInv, Serving, Woken, SleepMeansOff
    <2> QED  BY <1>0, <2>3 DEF AwakeInv
  <1>7. CASE AccTreat
    <2>1. /\ acc' = Head(queue) /\ sleeper' = sleeper /\ treat.pc = "idle"
          /\ treat'.pc = IF Head(queue) THEN "on" ELSE "off"
      BY <1>7 DEF AccTreat, IdleTreat
    <2>2. Head(queue) \in BOOLEAN
      <3>1. queue # <<>> /\ queue \in Seq(BOOLEAN)
        BY <1>7 DEF AccTreat, AwakeInv, AccTypeOK
      <3> QED  BY <3>1, HeadTailProperties
    <2>3. Serving' /\ Woken' /\ SleepMeansOff'
      <3>1. CASE Head(queue)
        <4>1. acc' /\ treat'.pc = "on"
          BY <2>1, <3>1
        <4> QED  BY <4>1 DEF Serving, Woken, SleepMeansOff
      <3>2. CASE ~Head(queue)
        <4>1. ~acc' /\ treat'.pc = "off"
          BY <2>1, <3>2
        <4> QED  BY <4>1 DEF Serving, Woken, SleepMeansOff
      <3> QED  BY <2>2, <3>1, <3>2
    <2> QED  BY <1>0, <2>3 DEF AwakeInv
  <1>8. CASE StartSleeper
    <2>1. treat.pc = "off" /\ acc' = acc /\ treat'.pc = "idle"
      BY <1>8 DEF StartSleeper, IdleTreat
    <2>2. ~acc'
      BY <2>1 DEF AwakeInv, Serving
    <2>3. Serving' /\ Woken' /\ SleepMeansOff'
      BY <2>1, <2>2 DEF Serving, Woken, SleepMeansOff
    <2> QED  BY <1>0, <2>3 DEF AwakeInv
  <1>9. CASE SignalSleeper
    <2>1. treat.pc = "on" /\ acc' = acc /\ treat'.pc = "signalled"
      BY <1>9 DEF SignalSleeper, AwakeInv, AccTypeOK
    <2>2. acc'
      BY <2>1 DEF AwakeInv, Serving
    <2>3. Serving' /\ Woken' /\ SleepMeansOff'
      BY <1>9, <2>1, <2>2, SignalReaches DEF Serving, Woken, SleepMeansOff
    <2> QED  BY <1>0, <2>3 DEF AwakeInv
  <1>10. CASE ClearLoad
    <2>1. /\ treat.pc = "signalled" /\ treat'.pc = "loaded" /\ Alive' = Alive
          /\ acc' = acc /\ astray' = astray
      BY <1>10 DEF ClearLoad, AwakeInv, AccTypeOK, Alive
    <2>2. Serving' /\ Woken' /\ SleepMeansOff'
      BY <2>1 DEF AwakeInv, Serving, Woken, SleepMeansOff
    <2> QED  BY <1>0, <2>2 DEF AwakeInv
  <1>11. CASE ClearStore
    <2>1. /\ treat.pc = "loaded" /\ treat'.pc = "cleared" /\ Alive' = Alive
          /\ acc' = acc
      BY <1>11 DEF ClearStore, AwakeInv, AccTypeOK, Alive
    <2>2. ~astray' => ~astray \/ Alive = {}
      BY <1>11, Zenon DEF ClearStore
    <2>3. sw'.sleep = FALSE
      <3>1. treat.word \in Word /\ sw' = [treat.word EXCEPT !.sleep = FALSE]
        BY <1>11 DEF ClearStore, AwakeInv, AccTypeOK
      <3> QED  BY <3>1 DEF Word
    <2>4. Serving' /\ Woken'
      BY <2>1, <2>2 DEF AwakeInv, Serving, Woken
    <2> QED  BY <1>0, <2>3, <2>4 DEF AwakeInv, SleepMeansOff
  <1>12. CASE Restart
    <2>1. treat'.pc = "idle" /\ acc' = acc /\ sw' = sw
      BY <1>12 DEF Restart, IdleTreat
    <2>2. ~astray' => ~(acc /\ sw.sleep)
      BY <1>12, Zenon DEF Restart
    <2>3. Alive' = {}
      <3>1. sleeper' = [i \in Sleepers |-> IF i \in Alive THEN GoneSleeper ELSE sleeper[i]]
        BY <1>12 DEF Restart
      <3>2. GoneSleeper.pc = "gone"
        BY DEF GoneSleeper
      <3>3. \A i \in Sleepers : sleeper'[i].pc \in {"none", "gone"}
        BY <3>1, <3>2 DEF Alive
      <3> QED  BY <3>3 DEF Alive
    <2>4. Serving' /\ Woken' /\ SleepMeansOff'
      BY <2>1, <2>2, <2>3 DEF Serving, Woken, SleepMeansOff
    <2> QED  BY <1>0, <2>4 DEF AwakeInv
  <1> QED
    BY <1>1, <1>2, <1>3, <1>4, <1>5, <1>6, <1>7, <1>8, <1>9, <1>10, <1>11, <1>12
    DEF AccNext, SocketThread

\* A terminal that drives is not asleep, for any number of ignition events, of threads
\* left waiting on locks made anew under them, of commands that store an old word and
\* of restarts, unless one of these went astray (SleepMeansOff).
THEOREM AwakeWhileOn == AccSpec => []SleepMeansOff
  <1>1. AccInit => AwakeInv
    <2> SUFFICES ASSUME AccInit PROVE AwakeInv
      OBVIOUS
    <2>1. treat.pc = "idle" /\ ~acc
      BY Zenon DEF AccInit, IdleTreat
    <2> QED  BY <2>1, AccInitType DEF AwakeInv, Serving, Woken, SleepMeansOff
  <1>2. AwakeInv /\ [AccNext]_accVars => AwakeInv'
    BY AwakeStep
  <1>3. AwakeInv => SleepMeansOff
    BY DEF AwakeInv
  <1> QED  BY <1>1, <1>2, <1>3, PTL DEF AccSpec

-----------------------------------------------------------------------------
(* The alarm of an illegal ignition.                                          *)

\* While the alarm is up, a report built before it is outstanding only if one was when
\* it was raised, or the server knows already.
Known == alarm => told \/ early \/ reports.before = 0

LEMMA KnownStep ==
  ASSUME Known, AccTypeOK, [AccNext]_accVars
  PROVE  Known' /\ (alarm /\ ~alarm' => told' \/ early)
  <1> USE DEF Known, status, threads, faults, answer, bounds
  <1>1. CASE UNCHANGED <<alarm, reports, told, early>>
    BY <1>1
  <1>2. CASE CheckMonitor
    <2>1. CASE Illegal
      <3>1. alarm' /\ reports'.before = reports.before + reports.since
        BY <1>2, <2>1 DEF CheckMonitor
      <3>2. early' = (reports.before + reports.since > 0)
        BY <1>2, <2>1 DEF CheckMonitor
      <3>3. reports.before + reports.since \in Nat
        BY DEF AccTypeOK
      <3>4. reports.before + reports.since = 0 \/ reports.before + reports.since > 0
        BY <3>3
      <3>5. early' \/ reports'.before = 0
        BY <3>1, <3>2, <3>4, Zenon
      <3> QED  BY <3>1, <3>5
    <2>2. CASE ~Illegal
      <3>1. (alarm' <=> alarm) /\ (told' <=> told) /\ reports' = reports
        BY <1>2, <2>2 DEF CheckMonitor
      <3>2. early' = early
        BY <1>2, <2>2 DEF CheckMonitor
      <3> QED  BY <3>1, <3>2
    <2> QED  BY <2>1, <2>2
  <1>3. CASE BuildReport
    <2>1. UNCHANGED <<alarm, told, early>>
      BY <1>3 DEF BuildReport
    <2>2. alarm => reports'.before = reports.before
      <3>1. alarm => reports' = [reports EXCEPT !.since = @ + 1]
        BY <1>3 DEF BuildReport
      <3> QED  BY <3>1 DEF AccTypeOK
    <2> QED  BY <2>1, <2>2
  <1>4. CASE ReportAck
    <2>1. PICK f \in {"before", "since"} :
            reports[f] > 0 /\ (told' <=> (told \/ f = "since"))
      BY <1>4 DEF ReportAck
    <2>2. ~alarm'
      BY <1>4 DEF ReportAck
    <2>3. CASE f = "since"
      BY <2>1, <2>2, <2>3
    <2>4. CASE f = "before"
      <3>1. reports.before # 0
        BY <2>1, <2>4 DEF AccTypeOK
      <3>2. alarm => told \/ early
        BY <3>1
      <3> QED  BY <2>1, <2>2, <3>2
    <2> QED  BY <2>3, <2>4
  <1>5. CASE ~(CheckMonitor \/ BuildReport \/ ReportAck)
    <2>1. UNCHANGED <<alarm, reports, told, early>>
      BY <1>5 DEF AccNext, accVars, SocketThread, AccTreat, StartSleeper, SignalSleeper,
                  ClearLoad, ClearStore, MonitorStore, Restart, Gpio, Monitor, Sleeper,
                  Wait, TimeOut, SleepLoad, SleepStore
    <2> QED  BY <2>1
  <1> QED  BY <1>2, <1>3, <1>4, <1>5

\* The alarm of an illegal ignition is not taken down before the server has a report
\* that carries it, for any number of reports outstanding and of restarts, unless one
\* was outstanding when it was raised (AlarmKept).
THEOREM AlarmReachesServer == AccSpec => AlarmKept
  <1>1. AccInit => Known
    BY Zenon DEF AccInit, Known
  <1>2. Known /\ AccTypeOK /\ [AccNext]_accVars => Known'
    BY KnownStep
  <1>3. Known /\ AccTypeOK /\ [AccNext]_accVars =>
          [alarm /\ ~alarm' => told' \/ early]_accVars
    BY KnownStep
  <1> QED  BY <1>1, <1>2, <1>3, AccTypeCorrect, PTL DEF AccSpec, AlarmKept
=============================================================================
