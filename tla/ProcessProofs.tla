----------------------------- MODULE ProcessProofs -----------------------------
(***************************************************************************)
(* The two parts whose processes or threads share state and take turns as  *)
(* they like: the trading control and the scheduler.                       *)
(*                                                                         *)
(* Trading control, for any number of operators: a pause beside which      *)
(* nothing was resumed is read by every process until a resume begins, it  *)
(* lets through at most the entry that was checked before, and only who    *)
(* was asked to, or a pause disturbed by such a process, ever switches     *)
(* trading on.  The argument: while a pause counts, whoever is writing is  *)
(* a pause that counts (Calm), and such a pause has emptied the temporary  *)
(* file after the last resume (CleanTmp), so what a RUNNING writer left    *)
(* behind before is never moved into place.                                *)
(*                                                                         *)
(* Scheduler, for any jobs, intervals and worker threads: while it runs    *)
(* the thread that stop() will join is alive, there is another one only if *)
(* stop() gave it up, and the registry agrees with the engine.  The        *)
(* argument: whoever stops has cleared the flag before it joins, and       *)
(* start() comes only after it has returned (Served); between two calls of *)
(* the client the two tables differ in nothing (Agreed).                   *)
(***************************************************************************)
EXTENDS TradingControl, Scheduler, TLAPS

(* A process writes while it has something to write. *)
Shape ==
    /\ path \in Texts \cup {"ABSENT"}
    /\ tmp \in Texts \cup {"ABSENT"}
    /\ proc \in [Processes -> [at : {"idle", "open", "write", "replace", "enter"},
                               want : States \cup {"NONE"},
                               file : {"NONE", "tmp", "path", "lost"}]]
    /\ \A p \in Processes : proc[p].want = "NONE" <=> proc[p].at \in {"idle", "enter"}
    /\ \A p \in Processes : proc[p].at = "write" => proc[p].file # "NONE"
    /\ alone \subseteq {p \in Processes : proc[p].want = "PAUSED"}
    /\ confirmed \in BOOLEAN

(* Every process that writes is a pause that counts. *)
Calm == confirmed \/ alone # {} => ~Disturbed

CleanTmp ==
    \A p \in alone : proc[p].at \in {"write", "replace"} => tmp # "RUNNING"

IInv == Shape /\ Calm /\ CleanTmp /\ PauseIsRead

(* A writer whose file has a name finds a file of that name. *)
FilesExist ==
    \A p \in Processes : /\ proc[p].file = "tmp" => tmp # "ABSENT"
                         /\ proc[p].file = "path" => path # "ABSENT"

(* The entry under way is the last one. *)
EntryInv ==
    /\ late \in {0, 1}
    /\ confirmed /\ late = 1 => proc[Runtime].at # "enter"

-----------------------------------------------------------------------------
(* Nothing is paused and nothing is written when the program starts. *)
LEMMA InitInv == Init => IInv /\ EntryInv /\ FilesExist
<1> SUFFICES ASSUME Init PROVE IInv /\ EntryInv /\ FilesExist
  OBVIOUS
<1>1. Shape
  BY DEF Init, Shape, Idle, Texts, States
<1>2. Calm /\ CleanTmp /\ PauseIsRead /\ EntryInv
  BY DEF Init, Calm, CleanTmp, PauseIsRead, EntryInv
<1>3. FilesExist
  BY DEF Init, FilesExist, Idle
<1> QED BY <1>1, <1>2, <1>3 DEF IInv

(* Whoever begins to write RUNNING ends every pause that counts. *)
LEMMA BeginsToRunInv ==
    ASSUME IInv, NEW p \in Processes, proc[p] = Idle, BeginsToRun(p)
    PROVE  IInv'
<1>1. Shape'
  BY DEF IInv, Shape, BeginsToRun, Begins, Texts, States
<1>2. Calm' /\ CleanTmp' /\ PauseIsRead'
  BY DEF BeginsToRun, Calm, CleanTmp, PauseIsRead
<1> QED BY <1>1, <1>2 DEF IInv

LEMMA PauseInv ==
    ASSUME IInv, NEW p \in Processes, Pause(p)
    PROVE  IInv'
<1>1. CASE State = "PAUSED"
  <2>1. /\ UNCHANGED <<path, tmp, proc>>
        /\ alone' = alone \ {p}
        /\ confirmed' = (confirmed \/ ~Disturbed)
        /\ p \notin alone
    BY <1>1 DEF IInv, Shape, Pause, Confirm, Idle
  <2>2. alone' = alone
    BY <2>1
  <2>3. Shape'
    BY <2>1, <2>2 DEF IInv, Shape
  <2>4. Calm'
    BY <2>1, <2>2 DEF IInv, Calm, Disturbed
  <2>5. CleanTmp' /\ PauseIsRead'
    BY <1>1, <2>1, <2>2 DEF IInv, CleanTmp, PauseIsRead, State, States
  <2> QED BY <2>3, <2>4, <2>5 DEF IInv
<1>2. CASE State # "PAUSED"
  <2>1. Shape'
    BY <1>2 DEF IInv, Shape, Pause, Begins, Idle, States, Texts
  <2>2. Calm'
    BY <1>2 DEF IInv, Shape, Calm, Pause, Begins, Idle, Disturbed, PauseIsRead
  <2>3. CleanTmp'
    BY <1>2 DEF IInv, Shape, CleanTmp, Pause, Begins, Idle
  <2>4. PauseIsRead'
    BY <1>2 DEF IInv, PauseIsRead, Pause, State
  <2> QED BY <2>1, <2>2, <2>3, <2>4 DEF IInv
<1> QED BY <1>1, <1>2

LEMMA OpenInv ==
    ASSUME IInv, NEW p \in Processes, Open(p)
    PROVE  IInv'
BY DEF IInv, Shape, Calm, CleanTmp, PauseIsRead, Open, Disturbed, history, State, States, Texts

(* A process writes what it wants, which is PAUSED while a pause counts. *)
LEMMA WriteInv ==
    ASSUME IInv, NEW p \in Processes, Write(p)
    PROVE  IInv'
<1>1. /\ path' \in {path, proc[p].want, "UNREADABLE"}
      /\ tmp' \in {tmp, proc[p].want, "UNREADABLE"}
      /\ proc' = [proc EXCEPT ![p].at = "replace"]
      /\ proc[p].at = "write"
      /\ UNCHANGED <<alone, confirmed, late>>
  <2>1. proc[p].file \in {"tmp", "path", "lost"}
    BY DEF IInv, Shape, Write
  <2>2. CASE proc[p].file = "tmp"
    BY <2>2 DEF Write, Written, Goes, history
  <2>3. CASE proc[p].file = "path"
    BY <2>3 DEF Write, Written, Goes, history
  <2>4. CASE proc[p].file = "lost"
    BY <2>4 DEF Write, Written, Goes, history
  <2> QED BY <2>1, <2>2, <2>3, <2>4
<1>2. proc[p].want \in States
  BY <1>1 DEF IInv, Shape
<1>3. confirmed \/ alone # {} => proc[p].want = "PAUSED" /\ p \in alone
  BY <1>2 DEF IInv, Calm, Disturbed, States
<1>4. Shape'
  BY <1>1, <1>2 DEF IInv, Shape, States, Texts
<1>5. Calm'
  BY <1>1 DEF IInv, Shape, Calm, Disturbed
<1>6. CleanTmp'
  BY <1>1, <1>3 DEF IInv, Shape, CleanTmp
<1>7. PauseIsRead'
  BY <1>1, <1>3 DEF IInv, PauseIsRead, State, States
<1> QED BY <1>4, <1>5, <1>6, <1>7 DEF IInv

(* A pause that counts moves a file that does not say RUNNING. *)
LEMMA ReplaceInv ==
    ASSUME IInv, NEW p \in Processes, Replace(p)
    PROVE  IInv'
<1>1. CASE tmp = "ABSENT"
  BY <1>1 DEF IInv, Shape, Calm, CleanTmp, PauseIsRead, Replace, Rests, Idle, Disturbed, State, States
<1>2. CASE tmp # "ABSENT"
  <2>1. /\ path' = tmp
        /\ tmp' = "ABSENT"
        /\ \A q \in Processes :
              IF q = p THEN proc'[q] = Idle
              ELSE proc'[q].at = proc[q].at /\ proc'[q].want = proc[q].want
        /\ alone' = alone \ {p}
        /\ confirmed' = (confirmed \/ p \in alone)
    <3>1. proc[p].want = "RUNNING" => alone' = alone /\ p \notin alone
      BY <1>2 DEF IInv, Shape, Replace, history
    <3>2. proc[p].want = "PAUSED" \/ proc[p].want = "RUNNING"
      BY DEF IInv, Shape, Replace, States
    <3>3. CASE proc[p].want = "RUNNING"
      BY <1>2, <3>1, <3>3 DEF IInv, Shape, Replace, history
    <3>4. CASE proc[p].want = "PAUSED"
      BY <1>2, <3>4 DEF IInv, Shape, Replace, Confirm
    <3> QED BY <3>2, <3>3, <3>4
  <2>2. confirmed' \/ alone' # {} => p \in alone
    BY <2>1 DEF IInv, Shape, Calm, Disturbed, Replace, States
  <2>3. Shape'
    <3>1. proc' \in [Processes -> [at : {"idle", "open", "write", "replace", "enter"},
                                   want : States \cup {"NONE"},
                                   file : {"NONE", "tmp", "path", "lost"}]]
      BY <1>2 DEF IInv, Shape, Replace, Moved, Idle
    <3>2. \A q \in Processes : proc'[q].at = "write" => proc'[q].file # "NONE"
      BY <1>2 DEF IInv, Shape, Replace, Moved, Idle
    <3> QED BY <2>1, <3>1, <3>2 DEF IInv, Shape, Idle, Texts
  <2>4. Calm'
    BY <2>1 DEF IInv, Shape, Calm, Disturbed, Idle
  <2>5. CleanTmp'
    BY <2>1 DEF CleanTmp
  <2>6. PauseIsRead'
    BY <2>1, <2>2 DEF IInv, CleanTmp, PauseIsRead, Replace, State, States
  <2> QED BY <2>3, <2>4, <2>5, <2>6 DEF IInv
<1> QED BY <1>1, <1>2

LEMMA CrashInv ==
    ASSUME IInv, NEW p \in Processes, Crash(p)
    PROVE  IInv'
BY DEF IInv, Shape, Calm, CleanTmp, PauseIsRead, Crash, Rests, Idle, Disturbed, State, States

(* Checking and entering touch no file and no pause. *)
LEMMA RuntimeInv ==
    ASSUME IInv, Check \/ Enter
    PROVE  IInv'
<1>1. Runtime \in Processes
  BY DEF Processes
<1>2. CASE Check
  BY <1>1, <1>2 DEF IInv, Shape, Calm, CleanTmp, PauseIsRead, Check, Goes, Idle, Disturbed, history, State, States
<1>3. CASE Enter
  BY <1>1, <1>3 DEF IInv, Shape, Calm, CleanTmp, PauseIsRead, Enter, Rests, Idle, Disturbed, State, States
<1> QED BY <1>2, <1>3

LEMMA NextInv == IInv /\ [Next]_vars => IInv'
<1> SUFFICES ASSUME IInv, [Next]_vars PROVE IInv'
  OBVIOUS
<1>1. CASE UNCHANGED vars
  BY <1>1 DEF IInv, Shape, Calm, CleanTmp, PauseIsRead, Disturbed, State, vars
<1>2. ASSUME NEW p \in Processes, Resume(p) \/ Initialize(p)
      PROVE  IInv'
  BY <1>2, BeginsToRunInv DEF Resume, Initialize
<1> QED
  BY <1>1, <1>2, PauseInv, OpenInv, WriteInv, ReplaceInv, CrashInv, RuntimeInv DEF Next

-----------------------------------------------------------------------------
(* No check passes while a pause counts, so nobody follows who is counted. *)
LEMMA EntryStep == IInv /\ EntryInv /\ [Next]_vars => EntryInv'
<1> SUFFICES ASSUME IInv, EntryInv, [Next]_vars PROVE EntryInv'
  OBVIOUS
<1>1. Runtime \in Processes
  BY DEF Processes
<1>2. CASE UNCHANGED vars
  BY <1>2 DEF EntryInv, vars
<1>3. ASSUME NEW p \in Processes, Pause(p)
      PROVE  EntryInv'
  <2>1. proc'[Runtime].at = "enter" => proc[Runtime].at = "enter"
    BY <1>1, <1>3 DEF IInv, Shape, Pause, Begins
  <2>2. \/ late' = 0
        \/ UNCHANGED <<confirmed, late>>
    BY <1>3 DEF Pause, Confirm
  <2> QED BY <2>1, <2>2 DEF EntryInv
<1>4. ASSUME NEW p \in Processes, Resume(p) \/ Initialize(p)
      PROVE  EntryInv'
  BY <1>4 DEF EntryInv, Resume, Initialize, BeginsToRun
<1>5. ASSUME NEW p \in Processes, Open(p) \/ Write(p) \/ Crash(p)
      PROVE  EntryInv'
  <2>1. proc'[Runtime].at = "enter" => proc[Runtime].at = "enter"
    <3>1. \E at \in {"write", "replace"} : \/ proc'[p].at = at
                                            \/ proc'[p] = Idle
      BY <1>5 DEF IInv, Shape, Open, Write, Crash, Goes, Rests
    <3>2. Runtime # p => proc'[Runtime] = proc[Runtime]
      BY <1>1, <1>5 DEF IInv, Shape, Open, Write, Crash, Goes, Rests
    <3> QED BY <3>1, <3>2 DEF Idle
  <2>2. UNCHANGED <<confirmed, late>>
    BY <1>5 DEF Open, Write, Crash, history
  <2> QED BY <2>1, <2>2 DEF EntryInv
<1>6. ASSUME NEW p \in Processes, Replace(p)
      PROVE  EntryInv'
  <2>1. proc'[Runtime].at = "enter" => proc[Runtime].at = "enter"
    BY <1>1, <1>6 DEF IInv, Shape, Replace, Rests, Idle, Moved
  <2>2. \/ late' = 0
        \/ UNCHANGED <<confirmed, late>>
    BY <1>6 DEF Replace, Confirm, history
  <2> QED BY <2>1, <2>2 DEF EntryInv
<1>7. CASE Check
  <2>1. ~confirmed /\ UNCHANGED <<confirmed, late>>
    BY <1>7 DEF IInv, PauseIsRead, Check, history
  <2> QED BY <2>1 DEF EntryInv
<1>8. CASE Enter
  <2>1. proc'[Runtime].at = "idle"
    BY <1>1, <1>8 DEF IInv, Shape, Enter, Rests, Idle
  <2>2. late' \in {0, 1}
    BY <1>8 DEF EntryInv, Enter, Counted
  <2> QED BY <2>1, <2>2 DEF EntryInv
<1> QED BY <1>2, <1>3, <1>4, <1>5, <1>6, <1>7, <1>8 DEF Next

(* Files come with their writers and are only ever moved. *)
LEMMA FilesStep == IInv /\ FilesExist /\ [Next]_vars => FilesExist'
<1> SUFFICES ASSUME IInv, FilesExist, [Next]_vars PROVE FilesExist'
  OBVIOUS
<1>1. ASSUME NEW p \in Processes,
             Pause(p) \/ Resume(p) \/ Initialize(p) \/ Crash(p)
      PROVE  FilesExist'
  <2>1. UNCHANGED <<path, tmp>>
    BY <1>1 DEF Pause, Resume, Initialize, BeginsToRun, Crash
  <2>2. \A q \in Processes : proc'[q].file \in {proc[q].file, "NONE"}
    BY <1>1 DEF IInv, Shape, Pause, Resume, Initialize, BeginsToRun, Begins, Crash, Rests, Idle
  <2> QED BY <2>1, <2>2 DEF FilesExist
<1>2. ASSUME NEW p \in Processes, Open(p)
      PROVE  FilesExist'
  BY <1>2 DEF IInv, Shape, FilesExist, Open
<1>3. ASSUME NEW p \in Processes, Write(p)
      PROVE  FilesExist'
  <2>1. proc[p].want \in States /\ proc[p].file \in {"tmp", "path", "lost"}
    BY <1>3 DEF IInv, Shape, Write
  <2>2. \A q \in Processes : proc'[q].file = proc[q].file
    BY <1>3 DEF IInv, Shape, Write, Goes
  <2>3. CASE proc[p].file = "tmp"
    BY <1>3, <2>1, <2>2, <2>3 DEF FilesExist, Write, Written, States
  <2>4. CASE proc[p].file = "path"
    BY <1>3, <2>1, <2>2, <2>4 DEF FilesExist, Write, Written, States
  <2>5. CASE proc[p].file = "lost"
    BY <1>3, <2>2, <2>5 DEF FilesExist, Write
  <2> QED BY <2>1, <2>3, <2>4, <2>5
<1>4. ASSUME NEW p \in Processes, Replace(p)
      PROVE  FilesExist'
  <2>1. CASE tmp = "ABSENT"
    <3>1. UNCHANGED <<path, tmp>>
      BY <1>4, <2>1 DEF Replace
    <3>2. \A q \in Processes : proc'[q].file \in {proc[q].file, "NONE"}
      BY <1>4, <2>1 DEF IInv, Shape, Replace, Rests, Idle
    <3> QED BY <3>1, <3>2 DEF FilesExist
  <2>2. CASE tmp # "ABSENT"
    <3>1. path' # "ABSENT"
      BY <1>4, <2>2 DEF Replace
    <3>2. \A q \in Processes : proc'[q].file # "tmp"
      BY <1>4, <2>2 DEF IInv, Shape, Replace, Moved, Idle
    <3> QED BY <3>1, <3>2 DEF FilesExist
  <2> QED BY <2>1, <2>2
<1>5. CASE Check \/ Enter
  <2>1. UNCHANGED <<path, tmp>>
    BY <1>5 DEF Check, Enter
  <2>2. \A q \in Processes : proc'[q].file \in {proc[q].file, "NONE"}
    BY <1>5 DEF IInv, Shape, Check, Enter, Goes, Rests, Idle
  <2> QED BY <2>1, <2>2 DEF FilesExist
<1>6. CASE UNCHANGED vars
  BY <1>6 DEF FilesExist, vars
<1> QED BY <1>1, <1>2, <1>3, <1>4, <1>5, <1>6 DEF Next

(* Whoever switches trading on writes RUNNING, or moves what was written   *)
(* for RUNNING without having counted as a pause of its own.               *)
LEMMA RunsStep ==
    IInv /\ [Next]_vars => (State = "PAUSED" /\ State' = "RUNNING" => Disturbed)
<1> SUFFICES ASSUME IInv, [Next]_vars, State = "PAUSED", State' = "RUNNING", ~Disturbed
             PROVE  FALSE
  OBVIOUS
<1>1. path # "RUNNING" /\ path' = "RUNNING"
  BY DEF State, States
<1>2. ASSUME NEW p \in Processes, proc[p].want \in States
      PROVE  proc[p].want = "PAUSED" /\ p \in alone
  BY <1>2 DEF Disturbed, States
<1>3. ASSUME NEW p \in Processes, Write(p)
      PROVE  FALSE
  <2>1. proc[p].want \in States
    BY <1>3 DEF IInv, Shape, Write
  <2>2. proc[p].file \in {"tmp", "path", "lost"}
    BY <1>3 DEF IInv, Shape, Write
  <2>3. path' \in {path, "PAUSED", "UNREADABLE"}
    <3>1. proc[p].file = "path" => path' \in Written(path, proc[p].want)
      BY <1>3 DEF Write
    <3>2. proc[p].file # "path" => path' = path
      BY <1>3, <2>2 DEF Write
    <3> QED BY <1>2, <2>1, <3>1, <3>2 DEF Written
  <2> QED BY <1>1, <2>3
<1>4. ASSUME NEW p \in Processes, Replace(p)
      PROVE  FALSE
  <2>1. p \in alone
    BY <1>2, <1>4 DEF IInv, Shape, Replace, States
  <2>2. path' \in {path, tmp} /\ tmp # "RUNNING"
    BY <1>4, <2>1 DEF IInv, CleanTmp, Replace
  <2> QED BY <1>1, <2>2
<1>5. ASSUME NEW p \in Processes,
             Pause(p) \/ Resume(p) \/ Initialize(p) \/ Open(p) \/ Crash(p)
      PROVE  path' = path
  BY <1>5 DEF Pause, Resume, Initialize, BeginsToRun, Open, Crash
<1>6. Check \/ Enter \/ UNCHANGED vars => path' = path
  BY DEF Check, Enter, vars
<1> QED BY <1>1, <1>3, <1>4, <1>5, <1>6 DEF Next

-----------------------------------------------------------------------------
(* The shape of the state, whoever shares the files. *)
THEOREM ControlTypeCorrect == Spec => []TypeOK
<1>1. IInv /\ EntryInv /\ FilesExist => TypeOK
  <2> SUFFICES ASSUME IInv, EntryInv, FilesExist PROVE TypeOK
    OBVIOUS
  <2>1. late \in 0 .. MaxEntries
    BY ControlAssumption DEF EntryInv
  <2> QED BY <2>1 DEF IInv, Shape, FilesExist, TypeOK
<1> QED BY InitInv, NextInv, EntryStep, FilesStep, <1>1, PTL DEF Spec

(* PAUSED is what is read after a pause that counts, for any number of     *)
(* processes that share the files (TradingControlStore._write).            *)
THEOREM PauseIsReadHolds == Spec => []PauseIsRead
<1>1. IInv => PauseIsRead
  BY DEF IInv
<1> QED BY InitInv, NextInv, <1>1, PTL DEF Spec

(* After such a pause at most one entry is created, the one that had       *)
(* passed the check of submit_signal already.                              *)
THEOREM AtMostOneLateEntryHolds == Spec => []AtMostOneLateEntry
<1>1. EntryInv => AtMostOneLateEntry
  BY DEF EntryInv, AtMostOneLateEntry
<1> QED BY InitInv, NextInv, EntryStep, <1>1, PTL DEF Spec

(* No torn write, crash or leftover switches trading on by itself.         *)
THEOREM RunsOnlyOnRequestHolds == Spec => RunsOnlyOnRequest
<1>1. IInv /\ [Next]_vars => [State = "PAUSED" /\ State' = "RUNNING" => Disturbed]_vars
  BY RunsStep
<1> QED BY InitInv, NextInv, <1>1, PTL DEF Spec, RunsOnlyOnRequest
-----------------------------------------------------------------------------
(* The scheduler.                                                          *)

Places == {"off", "check", "collect", "call"}

IsWorker(r) ==
    /\ r = [at |-> r.at, due |-> r.due, calling |-> r.calling] /\ r.at \in Places
    /\ r.calling # NoJob => r.at = "call"

(* Stopping or joining, the client has cleared the flag; otherwise a       *)
(* scheduler that does not run remembers no thread that is alive.          *)
Waiting == client.op \in {"stopping", "joining"}

Served ==
    /\ worker = [w \in Workers |-> worker[w]] /\ \A w \in Workers : IsWorker(worker[w])
    /\ thread \in Workers \cup {NoWorker} /\ NoWorker \notin Workers
    /\ running \in BOOLEAN /\ abandoned \subseteq Workers
    /\ running => thread \in Workers /\ worker[thread].at # "off"
    /\ Waiting => ~running
    /\ client.op = "joining" => thread \in Workers
    /\ ~running /\ ~Waiting => thread = NoWorker \/ worker[thread].at = "off"
    /\ SingleWorker

LEMMA InitServed == SchedulerInit /\ SchedulerAssumption => Served
<1> SUFFICES ASSUME SchedulerInit, SchedulerAssumption PROVE Served
  OBVIOUS
<1>1. \A w \in Workers : worker[w] = Off
  BY DEF SchedulerInit
<1>2. IsWorker(Off) /\ Off.at = "off"
  BY DEF Off, IsWorker, Places
<1>3. client.op = "idle" /\ ~Waiting
  BY DEF SchedulerInit, NoCall, Waiting
<1> QED BY <1>1, <1>2, <1>3 DEF SchedulerInit, SchedulerAssumption, SingleWorker, Alive, Served

(* A step of one worker that goes on, which nobody else notices.           *)
LEMMA WorkerGoesOn ==
    ASSUME Served, NEW w \in Workers, NEW r, IsWorker(r), r.at # "off",
           worker[w].at # "off", worker' = [worker EXCEPT ![w] = r],
           UNCHANGED <<running, thread, client, abandoned>>
    PROVE  Served'
BY DEF Served, Waiting, SingleWorker, Alive

LEMMA NextServed == Served /\ [SchedulerNext]_schedulerVars => Served'
<1> SUFFICES ASSUME Served, [SchedulerNext]_schedulerVars PROVE Served'
  OBVIOUS
<1> USE DEF Alive, NoCall
<1>1. CASE UNCHANGED <<running, thread, worker, client, abandoned>>
  BY <1>1 DEF Served, Waiting, SingleWorker
<1>2. ASSUME client.op \notin {"stopping", "joining"}, client'.op \notin {"stopping", "joining"},
             UNCHANGED <<running, thread, worker, abandoned>>
      PROVE  Served'
  BY <1>2 DEF Served, Waiting, SingleWorker
<1>3. CASE \/ \E j \in Jobs, enabled \in BOOLEAN : RegistryAdd(j, enabled)
           \/ \E j \in Jobs : RegistryRemove(j)
           \/ EngineAdd \/ EngineRemove
  BY <1>2, <1>3 DEF RegistryAdd, RegistryRemove, EngineAdd, EngineRemove
<1>4. ASSUME NEW w \in Workers, Start(w)
      PROVE  Served'
  <2>1. /\ client.op = "idle" /\ ~running /\ worker[w].at = "off"
        /\ running' = TRUE /\ thread' = w /\ worker' = [worker EXCEPT ![w].at = "check"]
        /\ UNCHANGED <<client, abandoned>>
    BY <1>4 DEF Start, Launch
  <2>2. worker' = [v \in Workers |-> worker'[v]] /\ IsWorker(worker'[w]) /\ worker'[w].at = "check"
    BY <2>1 DEF Served, IsWorker, Places
  <2>3. \A v \in Workers \ {w} : worker'[v] = worker[v]
    BY <2>1 DEF Served
  <2>4. SingleWorker'
    BY <2>1, <2>3 DEF Served, SingleWorker, Waiting
  <2> QED BY <2>1, <2>2, <2>3, <2>4 DEF Served, Waiting
<1>5. CASE Stop
  BY <1>5 DEF Stop, Served, Waiting, SingleWorker
<1>6. CASE FindEnded
  BY <1>6 DEF FindEnded, Served, Waiting, SingleWorker
<1>7. CASE Join
  BY <1>7 DEF Join, Served, Waiting, SingleWorker
<1>8. CASE JoinReturns
  <2>1. /\ client.op = "joining" /\ client'.op = "idle" /\ thread' = NoWorker
        /\ worker[thread].at # "off" => worker[thread].at = "call"
        /\ abandoned' = abandoned \cup {w \in {thread} : worker[w].at = "call"}
        /\ UNCHANGED <<running, worker>>
    BY <1>8 DEF JoinReturns
  <2>2. thread \in Workers /\ ~running
    BY <2>1 DEF Served, Waiting
  <2>3. abandoned' \subseteq Workers /\ SingleWorker'
    BY <2>1, <2>2 DEF Served, SingleWorker
  <2> QED BY <2>1, <2>2, <2>3 DEF Served, Waiting
<1>9. ASSUME NEW w \in Workers, CheckFlag(w)
      PROVE  Served'
  <2>1. CASE running
    <3> DEFINE r == [worker[w] EXCEPT !.at = "collect"]
    <3>1. worker' = [worker EXCEPT ![w] = r] /\ UNCHANGED <<running, thread, client, abandoned>>
      BY <1>9, <2>1 DEF CheckFlag
    <3>2. IsWorker(r) /\ r.at # "off" /\ worker[w].at # "off"
      BY <1>9 DEF CheckFlag, Served, IsWorker, Places
    <3> HIDE DEF r
    <3> QED BY <3>1, <3>2, WorkerGoesOn
  <2>2. CASE ~running
    <3>1. /\ worker' = [worker EXCEPT ![w] = Off] /\ abandoned' = abandoned \ {w}
          /\ UNCHANGED <<running, thread, client>>
      BY <1>9, <2>2 DEF CheckFlag
    <3>2. IsWorker(Off) /\ Off.at = "off"
      BY DEF Off, IsWorker, Places
    <3>3. worker' = [v \in Workers |-> worker'[v]] /\ IsWorker(worker'[w]) /\ worker'[w].at = "off"
      BY <3>1, <3>2 DEF Served
    <3>4. \A v \in Workers \ {w} : worker'[v] = worker[v]
      BY <3>1 DEF Served
    <3>5. SingleWorker'
      BY <3>1, <3>3, <3>4 DEF Served, SingleWorker
    <3> QED BY <2>2, <3>1, <3>3, <3>4, <3>5 DEF Served, Waiting
  <2> QED BY <2>1, <2>2
<1>10. ASSUME NEW w \in Workers, Collect(w)
       PROVE  Served'
  <2> DEFINE due == {j \in DOMAIN jobs : Due(j)}
             r == [at |-> IF due = {} THEN "check" ELSE "call", due |-> due, calling |-> NoJob]
  <2>1. worker' = [worker EXCEPT ![w] = r] /\ UNCHANGED <<running, thread, client, abandoned>>
    BY <1>10 DEF Collect
  <2>2. IsWorker(r) /\ r.at # "off" /\ worker[w].at # "off"
    BY <1>10 DEF Collect, IsWorker, Places
  <2> HIDE DEF r
  <2> QED BY <2>1, <2>2, WorkerGoesOn
<1>12. ASSUME NEW w \in Workers, NEW j \in Jobs, BeginCall(w, j)
       PROVE  Served'
  <2> DEFINE r == [at |-> "call", due |-> worker[w].due \ {j}, calling |-> j]
  <2>1. worker' = [worker EXCEPT ![w] = r] /\ UNCHANGED <<running, thread, client, abandoned>>
    BY <1>12 DEF BeginCall
  <2>2. IsWorker(r) /\ r.at # "off" /\ worker[w].at # "off"
    BY <1>12 DEF BeginCall, Served, IsWorker, Places
  <2> HIDE DEF r
  <2> QED BY <2>1, <2>2, WorkerGoesOn
<1>13. ASSUME NEW w \in Workers, EndCall(w)
       PROVE  Served'
  <2> DEFINE r == [worker[w] EXCEPT !.calling = NoJob]
  <2>1. worker' = [worker EXCEPT ![w] = r] /\ UNCHANGED <<running, thread, client, abandoned>>
    BY <1>13 DEF EndCall
  <2>2. IsWorker(r) /\ r.at # "off" /\ worker[w].at # "off"
    BY <1>13 DEF EndCall, Served, IsWorker, Places
  <2> HIDE DEF r
  <2> QED BY <2>1, <2>2, WorkerGoesOn
<1>14. ASSUME NEW w \in Workers, SleepAndWake(w)
       PROVE  Served'
  <2> DEFINE r == [worker[w] EXCEPT !.at = "check"]
  <2>1. worker' = [worker EXCEPT ![w] = r] /\ UNCHANGED <<running, thread, client, abandoned>>
    BY <1>14 DEF SleepAndWake
  <2>2. IsWorker(r) /\ r.at # "off" /\ worker[w].at # "off"
    BY <1>14 DEF SleepAndWake, Served, IsWorker, Places
  <2> HIDE DEF r
  <2> QED BY <2>1, <2>2, WorkerGoesOn
<1>15. CASE Tick
  BY <1>1, <1>15 DEF Tick
<1>16. CASE UNCHANGED schedulerVars
  BY <1>1, <1>16 DEF schedulerVars
<1> QED BY <1>3, <1>4, <1>5, <1>6, <1>7, <1>8, <1>9, <1>10, <1>12, <1>13, <1>14, <1>15, <1>16
        DEF SchedulerNext, ClientStep, WorkerStep

(* A running scheduler is served by a live thread, and the next stop()     *)
(* will wait for that one: stop() forgets the thread that it has joined,   *)
(* and start() comes only after it has returned.  There is no other worker *)
(* but for those that stop() gave up in a round of callbacks.              *)
THEOREM RunningServedHolds ==
    ASSUME SchedulerAssumption
    PROVE  SchedulerSpec => []RunningServed
<1>1. Served => RunningServed
  BY DEF Served, RunningServed, Alive
<1> QED BY <1>1, InitServed, NextServed, PTL DEF SchedulerSpec

(* What the client does to a job, and what the registry and the engine     *)
(* have of it.                                                             *)
Entry(j) == [enabled |-> jobs[j].enabled, left |-> jobs[j].left]

Agreed ==
    /\ NoJob \notin Jobs
    /\ client = [op |-> client.op, job |-> client.job]
    /\ client.op \notin {"adding", "removing"} => client.job = NoJob
    /\ client.op = "adding" => client.job \in DOMAIN registry
    /\ client.op = "removing" => client.job \notin DOMAIN registry
    /\ DOMAIN registry \subseteq Jobs /\ DOMAIN jobs \subseteq Jobs
    /\ \A j \in DOMAIN jobs : jobs[j] = Entry(j)
    /\ RegistriesAgree

LEMMA InitAgreed == SchedulerInit /\ SchedulerAssumption => Agreed
BY DEF SchedulerInit, NoCall, SchedulerAssumption, RegistriesAgree, Agreed

(* A step of the engine's clock, or of its loop: the jobs stay what they   *)
(* are but for the time of their next run.                                 *)
LEMMA ClockKeepsAgreed ==
    ASSUME Agreed, UNCHANGED <<registry, client>>, DOMAIN jobs' = DOMAIN jobs,
           \A j \in DOMAIN jobs : jobs'[j].enabled = jobs[j].enabled /\ jobs'[j] = Entry(j)'
    PROVE  Agreed'
BY DEF Agreed, RegistriesAgree

LEMMA NextAgreed == Agreed /\ [SchedulerNext]_schedulerVars => Agreed'
<1> SUFFICES ASSUME Agreed, [SchedulerNext]_schedulerVars PROVE Agreed'
  OBVIOUS
<1> USE DEF NoCall
<1>1. CASE UNCHANGED <<registry, jobs, client>>
  BY <1>1, ClockKeepsAgreed DEF Agreed, Entry
<1>2. ASSUME NEW j \in Jobs, NEW enabled \in BOOLEAN, RegistryAdd(j, enabled)
      PROVE  Agreed'
  <2>1. /\ registry' = Put(registry, j, enabled) /\ client.job = NoJob /\ UNCHANGED jobs
        /\ client' = [op |-> "adding", job |-> j]
    BY <1>2 DEF RegistryAdd
  <2>2. /\ DOMAIN registry' = DOMAIN registry \cup {j}
        /\ \A k \in DOMAIN registry \ {j} : registry'[k] = registry[k]
    BY <2>1 DEF Put
  <2>3. RegistriesAgree'
    BY <2>1, <2>2 DEF Agreed, RegistriesAgree
  <2> QED BY <2>1, <2>2, <2>3 DEF Agreed, Entry
<1>3. CASE EngineAdd
  <2> DEFINE new == [enabled |-> registry[client.job], left |-> Period(client.job)]
  <2>1. /\ jobs' = Put(jobs, client.job, new) /\ client.op = "adding" /\ UNCHANGED registry
        /\ client' = [op |-> "idle", job |-> NoJob]
    BY <1>3 DEF EngineAdd
  <2>2. /\ DOMAIN jobs' = DOMAIN jobs \cup {client.job} /\ jobs'[client.job] = new
        /\ \A k \in DOMAIN jobs \ {client.job} : jobs'[k] = jobs[k]
    BY <2>1 DEF Put
  <2>3. new.enabled = registry[client.job] /\ new = [enabled |-> new.enabled, left |-> new.left]
    OBVIOUS
  <2> HIDE DEF new
  <2>4. RegistriesAgree'
    BY <2>1, <2>2, <2>3 DEF Agreed, RegistriesAgree
  <2> QED BY <2>1, <2>2, <2>3, <2>4 DEF Agreed, Entry
<1>4. ASSUME NEW j \in Jobs, RegistryRemove(j)
      PROVE  Agreed'
  <2>1. /\ registry' = Drop(registry, j) /\ client.job = NoJob /\ UNCHANGED jobs
        /\ client' = [op |-> "removing", job |-> j]
    BY <1>4 DEF RegistryRemove
  <2>2. /\ DOMAIN registry' = DOMAIN registry \ {j}
        /\ \A k \in DOMAIN registry \ {j} : registry'[k] = registry[k]
    BY <2>1 DEF Drop
  <2>3. RegistriesAgree'
    BY <2>1, <2>2 DEF Agreed, RegistriesAgree
  <2> QED BY <2>1, <2>2, <2>3 DEF Agreed, Entry
<1>5. CASE EngineRemove
  <2>1. /\ jobs' = Drop(jobs, client.job) /\ client.op = "removing" /\ UNCHANGED registry
        /\ client' = [op |-> "idle", job |-> NoJob]
    BY <1>5 DEF EngineRemove
  <2>2. /\ DOMAIN jobs' = DOMAIN jobs \ {client.job}
        /\ \A k \in DOMAIN jobs \ {client.job} : jobs'[k] = jobs[k]
    BY <2>1 DEF Drop
  <2>3. RegistriesAgree'
    BY <2>1, <2>2 DEF Agreed, RegistriesAgree
  <2> QED BY <2>1, <2>2, <2>3 DEF Agreed, Entry
<1>6. ASSUME client.op \notin {"adding", "removing"}, client'.op \notin {"adding", "removing"},
             client'.job = client.job, client' = [op |-> client'.op, job |-> client'.job],
             UNCHANGED <<registry, jobs>>
      PROVE  Agreed'
  BY <1>6 DEF Agreed, Entry, RegistriesAgree
<1>7. CASE Stop \/ FindEnded \/ Join \/ JoinReturns
  BY <1>6, <1>7 DEF Agreed, Stop, FindEnded, Join, JoinReturns
<1>8. ASSUME NEW w \in Workers, Collect(w)
      PROVE  Agreed'
  <2>1. /\ jobs' = [j \in DOMAIN jobs |-> IF Due(j) THEN [jobs[j] EXCEPT !.left = Period(j)]
                                          ELSE jobs[j]]
        /\ UNCHANGED <<registry, client>>
    BY <1>8 DEF Collect
  <2>2. \A j \in DOMAIN jobs : jobs'[j].enabled = jobs[j].enabled /\ jobs'[j] = Entry(j)'
    BY <2>1 DEF Agreed, Entry
  <2> QED BY <2>1, <2>2, ClockKeepsAgreed
<1>9. CASE Tick
  <2>1. /\ jobs' = [j \in DOMAIN jobs |->
                      [jobs[j] EXCEPT !.left = IF jobs[j].left > 0 THEN jobs[j].left - 1 ELSE 0]]
        /\ UNCHANGED <<registry, client>>
    BY <1>9 DEF Tick
  <2>2. \A j \in DOMAIN jobs : jobs'[j].enabled = jobs[j].enabled /\ jobs'[j] = Entry(j)'
    BY <2>1 DEF Agreed, Entry
  <2> QED BY <2>1, <2>2, ClockKeepsAgreed
<1>10. CASE \E w \in Workers : \/ Start(w) \/ CheckFlag(w) \/ EndCall(w)
                               \/ SleepAndWake(w) \/ \E j \in Jobs : BeginCall(w, j)
  BY <1>1, <1>10 DEF Start, CheckFlag, EndCall, SleepAndWake, BeginCall
<1>11. CASE UNCHANGED schedulerVars
  BY <1>1, <1>11 DEF schedulerVars
<1> QED BY <1>2, <1>3, <1>4, <1>5, <1>7, <1>8, <1>9, <1>10, <1>11
        DEF SchedulerNext, ClientStep, WorkerStep

(* Registry and engine tell the same of every job but the one that the     *)
(* client is just registering or removing.                                 *)
THEOREM RegistriesAgreeHolds ==
    ASSUME SchedulerAssumption
    PROVE  SchedulerSpec => []RegistriesAgree
<1>1. Agreed => RegistriesAgree
  BY DEF Agreed
<1> QED BY <1>1, InitAgreed, NextAgreed, PTL DEF SchedulerSpec
=============================================================================
