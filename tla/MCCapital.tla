------------------------------ MODULE MCCapital ------------------------------
(***************************************************************************)
(* Three symbols, at most two of them at a time, 60 units of capital that  *)
(* compound at 30 percent: 18 to begin with, 15 after a loss of 10.  An    *)
(* exchange minimum of 30 lets two allocations use the capital up exactly. *)
(***************************************************************************)
EXTENDS CapitalRecovery

CONSTANTS btc, eth, sol

MCSymbols == {btc, eth, sol}
MCMinimums == {0, 30}
MCResults == {-10, 0, 10}

Symmetry == Permutations(MCSymbols)
=============================================================================
