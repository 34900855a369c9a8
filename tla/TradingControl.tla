---------------------------- MODULE TradingControl ----------------------------
(***************************************************************************)
(* integration/trading_control.py: the pause switch that the paper runtime *)
(* shares with the operator's commands and the GUI.  Each process has a    *)
(* TradingControlStore of its own over the same files, so its lock orders  *)
(* nothing between processes: an action is one access to the file system.  *)
(*                                                                         *)
(* A file that is open for writing stays the file it was when its name is  *)
(* moved, so a writer knows the name its file has by now.  A process can   *)
(* stop at any point and leave the temporary file behind.  The event log   *)
(* is left out: nothing reads it.                                          *)
(***************************************************************************)
EXTENDS Integers

CONSTANTS Operators,  \* processes that pause and resume
          Runtime,    \* the process that submits entries
          MaxEntries  \* bound on the entries counted by the history variable

ASSUME ControlAssumption ==
    /\ Runtime \notin Operators
    /\ MaxEntries \in Nat \ {0}

Processes == Operators \cup {Runtime}

VARIABLES path,      \* trading_control.json
          tmp,       \* trading_control.json.tmp
          proc,      \* what each process is doing
          alone,     \* history: the pauses under way beside which nothing resumed
          confirmed, \* history: such a pause returned and nothing resumed since
          late       \* history: entries created since then

history == <<alone, confirmed, late>>
vars == <<path, tmp, proc, alone, confirmed, late>>

States == {"RUNNING", "PAUSED"}

(* UNREADABLE: just opened, or the texts of two writers mixed. *)
Texts == States \cup {"UNREADABLE"}

Idle == [at |-> "idle", want |-> "NONE", file |-> "NONE"]

Init ==
    /\ path = "ABSENT"
    /\ tmp = "ABSENT"
    /\ proc = [p \in Processes |-> Idle]
    /\ alone = {}
    /\ confirmed = FALSE
    /\ late = 0

(* Mutant: what cannot be read does not stop trading. *)
StateOrRunning == IF path \in States THEN path ELSE "RUNNING"

(* TradingControlStore.state: a missing or unreadable file reads as PAUSED.*)
State == IF path \in States THEN path ELSE "PAUSED"

Goes(p, at) == proc' = [proc EXCEPT ![p].at = at]

Rests(p) == proc' = [proc EXCEPT ![p] = Idle]

Begins(p, want) == proc' = [proc EXCEPT ![p] = [at |-> "open", want |-> want, file |-> "NONE"]]

(* A resume is under way, or a pause that may move what a resume left in   *)
(* the temporary file.                                                     *)
Disturbed ==
    \E p \in Processes : \/ proc[p].want = "RUNNING"
                         \/ proc[p].want = "PAUSED" /\ p \notin alone

(* A pause returns; it counts from now on if it was alone. *)
Confirm(p, wasAlone) ==
    /\ alone' = alone \ {p}
    /\ confirmed' = (confirmed \/ wasAlone)
    /\ late' = 0

(* _transition: the write begins if the state that is read is another one. *)
Pause(p) ==
    /\ proc[p] = Idle
    /\ IF State = "PAUSED"
       THEN Confirm(p, ~Disturbed) /\ UNCHANGED proc
       ELSE /\ Begins(p, "PAUSED")
            /\ alone' = IF Disturbed THEN alone ELSE alone \cup {p}
            /\ UNCHANGED <<confirmed, late>>
    /\ UNCHANGED <<path, tmp>>

BeginsToRun(p) ==
    /\ Begins(p, "RUNNING")
    /\ alone' = {}
    /\ confirmed' = FALSE
    /\ UNCHANGED <<path, tmp, late>>

Resume(p) ==
    /\ proc[p] = Idle
    /\ State = "PAUSED"
    /\ BeginsToRun(p)

(* A supervisor or a GUI starts: RUNNING is written if there is no file,   *)
(* even if a pause was confirmed before, for which no file is needed.      *)
Initialize(p) ==
    /\ proc[p] = Idle
    /\ path = "ABSENT"
    /\ BeginsToRun(p)

(* Mutant: an old temporary file is taken as it is. *)
OpenLeftover(p) ==
    /\ proc[p].at = "open"
    /\ tmp' = IF tmp = "ABSENT" THEN "UNREADABLE" ELSE tmp
    /\ proc' = [proc EXCEPT ![p].at = IF tmp = "ABSENT" THEN "write" ELSE "replace",
                            ![p].file = "tmp"]
    /\ UNCHANGED <<path, history>>

(* _write: tmp.write_text opens and empties the file, ... *)
Open(p) ==
    /\ proc[p].at = "open"
    /\ tmp' = "UNREADABLE"
    /\ proc' = [proc EXCEPT ![p].at = "write", ![p].file = "tmp"]
    /\ UNCHANGED <<path, history>>

(* ... and writes to it by whatever name it has.  Over the longer text of  *)
(* another process a tail of it may stay behind: the state and the time    *)
(* (whose fraction is left out when it is zero) vary in length.            *)
Written(old, want) == IF old = "UNREADABLE" THEN {want} ELSE {want, "UNREADABLE"}

Write(p) ==
    /\ proc[p].at = "write"
    /\ CASE proc[p].file = "tmp"  -> tmp' \in Written(tmp, proc[p].want) /\ UNCHANGED path
         [] proc[p].file = "path" -> path' \in Written(path, proc[p].want) /\ UNCHANGED tmp
         [] proc[p].file = "lost" -> UNCHANGED <<path, tmp>>
    /\ Goes(p, "replace")
    /\ UNCHANGED history

(* The name an open file has after a move. *)
Moved(file) == CASE file = "tmp"  -> "path"
                 [] file = "path" -> "lost"
                 [] OTHER         -> file

(* os.replace; it raises if another process has moved the file already.    *)
Replace(p) ==
    /\ proc[p].at = "replace"
    /\ \/ /\ tmp = "ABSENT"
          /\ Rests(p)
          /\ alone' = alone \ {p}
          /\ UNCHANGED <<path, tmp, confirmed, late>>
       \/ /\ tmp # "ABSENT"
          /\ path' = tmp
          /\ tmp' = "ABSENT"
          /\ proc' = [q \in Processes |->
                        IF q = p THEN Idle ELSE [proc[q] EXCEPT !.file = Moved(proc[q].file)]]
          /\ IF proc[p].want = "PAUSED" THEN Confirm(p, p \in alone)
             ELSE UNCHANGED history

(* The process stops, or the access fails; what it was writing stays.      *)
Crash(p) ==
    /\ proc[p] # Idle
    /\ Rests(p)
    /\ alone' = alone \ {p}
    /\ UNCHANGED <<path, tmp, confirmed, late>>

(* submit_signal: require_entry_allowed, and only then the entry. *)
Check ==
    /\ proc[Runtime] = Idle
    /\ State = "RUNNING"
    /\ Goes(Runtime, "enter")
    /\ UNCHANGED <<path, tmp, history>>

Counted == late' = IF confirmed /\ late < MaxEntries THEN late + 1 ELSE late

(* Mutant: one check lets any number of entries through. *)
EnterAgain ==
    /\ proc[Runtime].at = "enter"
    /\ Counted
    /\ UNCHANGED <<path, tmp, proc, alone, confirmed>>

Enter ==
    /\ proc[Runtime].at = "enter"
    /\ Rests(Runtime)
    /\ Counted
    /\ UNCHANGED <<path, tmp, alone, confirmed>>

Next ==
    \/ \E p \in Processes :
          \/ Pause(p)
          \/ Resume(p)
          \/ Initialize(p)
          \/ Open(p)
          \/ Write(p)
          \/ Replace(p)
          \/ Crash(p)
    \/ Check
    \/ Enter

Spec == Init /\ [][Next]_vars
-----------------------------------------------------------------------------
(* The shape of the state; a pause that counts as alone is under way, and  *)
(* a writer of the file called tmp has a file called tmp.                  *)
TypeOK ==
    /\ path \in Texts \cup {"ABSENT"}
    /\ tmp \in Texts \cup {"ABSENT"}
    /\ proc \in [Processes -> [at : {"idle", "open", "write", "replace", "enter"},
                               want : States \cup {"NONE"},
                               file : {"NONE", "tmp", "path", "lost"}]]
    /\ \A p \in Processes : /\ proc[p].file = "tmp" => tmp # "ABSENT"
                            /\ proc[p].file = "path" => path # "ABSENT"
    /\ alone \subseteq {p \in Processes : proc[p].want = "PAUSED"}
    /\ confirmed \in BOOLEAN
    /\ late \in 0 .. MaxEntries

(* "PAUSED blocks new entry submission": once a pause has returned beside  *)
(* which nothing was resumed, and until a resume or a first start begins,  *)
(* at most the one entry that had passed the check already is created,     *)
(* although check and creation are two steps.                              *)
AtMostOneLateEntry == late <= 1

(* Such a pause is what every process reads, also beside other pauses on   *)
(* the same temporary file and after crashes in the middle of a write.     *)
PauseIsRead == confirmed => State = "PAUSED"

(* "PAUSED as the read-failure default": whatever is torn or left behind,  *)
(* trading is switched on only while a process writes RUNNING, or by a     *)
(* pause that moved what such a process had written to the same file.      *)
RunsOnlyOnRequest ==
    [][State = "PAUSED" /\ State' = "RUNNING" => Disturbed]_vars
=============================================================================
