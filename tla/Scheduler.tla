------------------------------ MODULE Scheduler ------------------------------
(***************************************************************************)
(* scheduler/: SchedulerService over JobRegistry and SchedulerEngine, one  *)
(* client thread that uses the facade, and the worker threads of           *)
(* SchedulerEngine._run_loop.  An action is what a thread does between two *)
(* points where another thread can run: a block under the lock, the join,  *)
(* a callback.                                                             *)
(*                                                                         *)
(* Time is counted in seconds; left is how long until next_run.  A worker  *)
(* calls what it has collected in any order (the code: in that of          *)
(* registration), and a callback takes as long as it likes.  A thread that *)
(* has ended makes room for a new one, so the number of starts is          *)
(* unbounded; at most Cardinality(Workers) threads are alive at a time.    *)
(***************************************************************************)
EXTENDS Integers, FiniteSets

CONSTANTS Jobs,       \* job ids
          Interval,   \* interval_seconds of each job
          Workers,    \* names for the worker threads
          NoWorker,   \* _thread is None
          NoJob

ASSUME SchedulerAssumption ==
    /\ Interval \in [Jobs -> Nat]
    /\ IsFiniteSet(Workers)
    /\ NoWorker \notin Workers
    /\ NoJob \notin Jobs

VARIABLES registry,  \* JobRegistry._jobs: the ids, with their enabled flag
          jobs,      \* SchedulerEngine._jobs
          running,   \* SchedulerEngine._running
          thread,    \* SchedulerEngine._thread
          worker,    \* where each worker thread is, and what it has collected
          client,    \* what the client thread is doing
          abandoned  \* history: the workers that stop() gave up in a round

schedulerVars == <<registry, jobs, running, thread, worker, client, abandoned>>

Off == [at |-> "off", due |-> {}, calling |-> NoJob]

NoCall == [op |-> "idle", job |-> NoJob]

SchedulerInit ==
    /\ registry = [j \in {} |-> FALSE]
    /\ jobs = [j \in {} |-> FALSE]
    /\ running = FALSE
    /\ thread = NoWorker
    /\ worker = [w \in Workers |-> Off]
    /\ client = NoCall
    /\ abandoned = {}

Alive(w) == worker[w].at # "off"

Put(f, key, value) == [k \in DOMAIN f \cup {key} |-> IF k = key THEN value ELSE f[k]]

Drop(f, key) == [k \in DOMAIN f \ {key} |-> f[k]]

(* max(1, interval_seconds) *)
Period(j) == IF Interval[j] < 1 THEN 1 ELSE Interval[j]

(* register_job of the facade: first the registry, then the engine. *)
RegistryAdd(j, enabled) ==
    /\ client = NoCall
    /\ registry' = Put(registry, j, enabled)
    /\ client' = [op |-> "adding", job |-> j]
    /\ UNCHANGED <<jobs, running, thread, worker, abandoned>>

(* What the engine had of the job before is replaced.                      *)
EngineAdd ==
    /\ client.op = "adding"
    /\ jobs' = Put(jobs, client.job,
                    [enabled |-> registry[client.job], left |-> Period(client.job)])
    /\ client' = NoCall
    /\ UNCHANGED <<registry, running, thread, worker, abandoned>>

(* remove_job of the facade; removing what is not there changes nothing. *)
RegistryRemove(j) ==
    /\ client = NoCall
    /\ j \in DOMAIN registry
    /\ registry' = Drop(registry, j)
    /\ client' = [op |-> "removing", job |-> j]
    /\ UNCHANGED <<jobs, running, thread, worker, abandoned>>

EngineRemove ==
    /\ client.op = "removing"
    /\ jobs' = Drop(jobs, client.job)
    /\ client' = NoCall
    /\ UNCHANGED <<registry, running, thread, worker, abandoned>>

(* Mutant: a thread that is still remembered is not replaced. *)
LaunchUnlessKnown(w) ==
    IF thread = NoWorker
    THEN thread' = w /\ worker' = [worker EXCEPT ![w].at = "check"]
    ELSE UNCHANGED <<thread, worker>>

Launch(w) == thread' = w /\ worker' = [worker EXCEPT ![w].at = "check"]

Start(w) ==
    /\ client = NoCall
    /\ ~running
    /\ ~Alive(w)
    /\ running' = TRUE
    /\ Launch(w)
    /\ UNCHANGED <<registry, jobs, client, abandoned>>

Stop ==
    /\ client = NoCall
    /\ running
    /\ running' = FALSE
    /\ client' = [NoCall EXCEPT !.op = "stopping"]
    /\ UNCHANGED <<registry, jobs, thread, worker, abandoned>>

(* The thread has ended before stop() looks at it, and stays remembered. *)
FindEnded ==
    /\ client.op = "stopping"
    /\ thread = NoWorker \/ ~Alive(thread)
    /\ client' = NoCall
    /\ UNCHANGED <<registry, jobs, running, thread, worker, abandoned>>

Join ==
    /\ client.op = "stopping"
    /\ thread # NoWorker /\ Alive(thread)
    /\ client' = [client EXCEPT !.op = "joining"]
    /\ UNCHANGED <<registry, jobs, running, thread, worker, abandoned>>

(* join(timeout=3.0) returns when the thread has ended, or after three     *)
(* seconds, which only a round with callbacks can take: the timeout may    *)
(* come in a callback or in the sleep after them.  stop() does the same.   *)
JoinReturns ==
    /\ client.op = "joining"
    /\ Alive(thread) => worker[thread].at = "call"
    /\ thread' = NoWorker
    /\ abandoned' = abandoned \cup {w \in {thread} : worker[w].at = "call"}
    /\ client' = NoCall
    /\ UNCHANGED <<registry, jobs, running, worker>>

Due(j) == jobs[j].enabled /\ jobs[j].left = 0

(* Mutant: the loop does not look at the flag. *)
CheckNothing(w) ==
    /\ worker[w].at = "check"
    /\ worker' = [worker EXCEPT ![w].at = "collect"]
    /\ UNCHANGED <<registry, jobs, running, thread, client, abandoned>>

(* The head of the loop. *)
CheckFlag(w) ==
    /\ worker[w].at = "check"
    /\ worker' = [worker EXCEPT ![w] = IF running THEN [@ EXCEPT !.at = "collect"] ELSE Off]
    /\ abandoned' = IF running THEN abandoned ELSE abandoned \ {w}
    /\ UNCHANGED <<registry, jobs, running, thread, client>>

(* A round without callbacks is over with its sleep.                       *)
Collect(w) ==
    LET due == {j \in DOMAIN jobs : Due(j)}
    IN  /\ worker[w].at = "collect"
        /\ worker' = [worker EXCEPT ![w] = [at      |-> IF due = {} THEN "check" ELSE "call",
                                           due     |-> due,
                                           calling |-> NoJob]]
        /\ jobs' = [j \in DOMAIN jobs |->
                       IF j \in due THEN [jobs[j] EXCEPT !.left = Period(j)] ELSE jobs[j]]
        /\ UNCHANGED <<registry, running, thread, client, abandoned>>

(* The callbacks run outside the lock, one after the other. *)
BeginCall(w, j) ==
    /\ worker[w].at = "call"
    /\ worker[w].calling = NoJob
    /\ j \in worker[w].due
    /\ worker' = [worker EXCEPT ![w] = [at |-> "call", due |-> worker[w].due \ {j}, calling |-> j]]
    /\ UNCHANGED <<registry, jobs, running, thread, client, abandoned>>

(* Mutant: a callback that raises ends the round. *)
EndRound(w) ==
    /\ worker[w].calling # NoJob
    /\ worker' = [worker EXCEPT ![w].calling = NoJob, ![w].due = {}]
    /\ UNCHANGED <<registry, jobs, running, thread, client, abandoned>>

(* The callback returns, or raises and the error is logged. *)
EndCall(w) ==
    /\ worker[w].calling # NoJob
    /\ worker' = [worker EXCEPT ![w] = [@ EXCEPT !.calling = NoJob]]
    /\ UNCHANGED <<registry, jobs, running, thread, client, abandoned>>

(* All callbacks have run; one second of sleep, and the next round.        *)
SleepAndWake(w) ==
    /\ worker[w].at = "call"
    /\ worker[w].due = {} /\ worker[w].calling = NoJob
    /\ worker' = [worker EXCEPT ![w] = [@ EXCEPT !.at = "check"]]
    /\ UNCHANGED <<registry, jobs, running, thread, client, abandoned>>

(* A second passes; what is overdue stays due. *)
Tick ==
    /\ \E j \in DOMAIN jobs : jobs[j].left > 0
    /\ jobs' = [j \in DOMAIN jobs |->
                   [jobs[j] EXCEPT !.left = IF jobs[j].left > 0 THEN jobs[j].left - 1 ELSE 0]]
    /\ UNCHANGED <<registry, running, thread, worker, client, abandoned>>

ClientStep ==
    \/ \E j \in Jobs, enabled \in BOOLEAN : RegistryAdd(j, enabled)
    \/ \E j \in Jobs : RegistryRemove(j)
    \/ EngineAdd
    \/ EngineRemove
    \/ \E w \in Workers : Start(w)
    \/ Stop
    \/ FindEnded
    \/ Join
    \/ JoinReturns

WorkerStep(w) ==
    \/ CheckFlag(w)
    \/ Collect(w)
    \/ \E j \in Jobs : BeginCall(w, j)
    \/ EndCall(w)
    \/ SleepAndWake(w)

SchedulerNext == ClientStep \/ (\E w \in Workers : WorkerStep(w)) \/ Tick

(* Threads are scheduled, callbacks return and time passes; the client may *)
(* stop using the scheduler whenever it likes.                             *)
SchedulerSpec ==
    /\ SchedulerInit /\ [][SchedulerNext]_schedulerVars
    /\ WF_schedulerVars(Tick)
    /\ \A w \in Workers : WF_schedulerVars(WorkerStep(w))
-----------------------------------------------------------------------------
(* "A single background worker thread": there is no other beside it unless *)
(* one was in a round of callbacks that outlasted stop()'s three seconds.  *)
SingleWorker == \A w \in Workers : Alive(w) => w = thread \/ w \in abandoned

(* A scheduler that says it is running has a live worker thread, which is  *)
(* the one that the next stop() will wait for, although stop() may leave   *)
(* an ended thread in _thread, and no worker is beside it that stop() did  *)
(* not give up (start, stop, _run_loop).                                   *)
RunningServed ==
    /\ running => \E w \in Workers : thread = w /\ Alive(w)
    /\ SingleWorker

(* The registry, which answers the client, and the engine, which calls the *)
(* jobs, differ at most in the job that the client is just registering or  *)
(* removing (register_job and remove_job of the facade).                   *)
RegistriesAgree ==
    \A j \in Jobs \ {client.job} :
        /\ j \in DOMAIN registry <=> j \in DOMAIN jobs
        /\ j \in DOMAIN jobs => registry[j] = jobs[j].enabled

Listed(j) == j \in DOMAIN registry /\ registry[j] /\ client.job # j

Called(j) == \E w \in Workers : worker[w].calling = j

(* A job that the registry lists as enabled is called again and again      *)
(* while the scheduler runs, whatever the other jobs do, until the client  *)
(* registers it anew, removes it or stops the scheduler.                   *)
JobsKeepRunning ==
    \A j \in Jobs : running /\ Listed(j) ~> Called(j) \/ ~running \/ ~Listed(j)

(* stop() ends the worker threads, those as well that it did not wait for, *)
(* unless the scheduler is started again before they look.                 *)
StopEndsWorkers == ~running ~> running \/ \A w \in Workers : ~Alive(w)
=============================================================================
