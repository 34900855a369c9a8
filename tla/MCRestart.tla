------------------------------ MODULE MCRestart ------------------------------
(***************************************************************************)
(* A runner with one symbol that is started a second time on its journal.  *)
(***************************************************************************)
EXTENDS CapitalRestart

CONSTANT btc

MCSymbols == {btc}
MCMinimums == {0}
MCResults == {0}
=============================================================================
