--------------------------- MODULE CapitalRestart ----------------------------
(***************************************************************************)
(* A paper runner that is started again with the same output directory:    *)
(* the bridge loads the journal of the runs before it over the empty       *)
(* ledger and the empty order lifecycle of the new process.  An order of   *)
(* an earlier process is LOST: its identity is never used again.           *)
(***************************************************************************)
EXTENDS CapitalRecovery

CONSTANT MaxRestarts  \* bound on the number of restarts

VARIABLES crashed,   \* the handler of a market event raised
          restarts   \* number of restarts so far

restartVars == <<policy, journal, ledger, orders, entering, crashed, restarts>>

InitRestarts == Init /\ crashed = FALSE /\ restarts = 0

(* reconcile_terminal_orders looks up every bound order in D4, which knows *)
(* the orders of this process only and raises LifecycleError for others.   *)
AllBoundKnown ==
    \A s \in Symbols : policy.orderOf[s] # 0 => orders[policy.orderOf[s]].state # "LOST"

(* Every market event is reconciled before the signal cycle can run.       *)
Serve ==
    /\ ~crashed
    /\ AllBoundKnown
    /\ Next
    /\ UNCHANGED <<crashed, restarts>>

EventCrashes ==
    /\ ~crashed
    /\ entering = NoSymbol
    /\ ~AllBoundKnown
    /\ crashed' = TRUE
    /\ UNCHANGED <<vars, restarts>>

(* The process stops anywhere and the runner is started again.             *)
Restart ==
    /\ restarts < MaxRestarts
    /\ Recovered(EmptyLedger) # Raised
    /\ policy' = Recovered(EmptyLedger)
    /\ ledger' = EmptyLedger
    /\ orders' = [n \in DOMAIN orders |-> [orders[n] EXCEPT !.state = "LOST"]]
    /\ entering' = NoSymbol
    /\ crashed' = FALSE
    /\ restarts' = restarts + 1
    /\ UNCHANGED journal

RestartSpec == InitRestarts /\ [][Serve \/ EventCrashes \/ Restart]_restartVars

(* A runner that starts on an existing journal serves market events: what  *)
(* it finds bound does not make the handler raise.                         *)
RestartServes == ~crashed
=============================================================================
