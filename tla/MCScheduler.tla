----------------------------- MODULE MCScheduler -----------------------------
(* Two jobs, one of which asks for an interval of zero seconds, and room for *)
(* two worker threads.                                                      *)
EXTENDS Scheduler

CONSTANTS j1, j2, w1, w2

MCJobs == {j1, j2}
MCWorkers == {w1, w2}
MCInterval == [j \in MCJobs |-> IF j = j1 THEN 0 ELSE 2]
=============================================================================
