--------------------------- MODULE MCTradingControl ---------------------------
(* The runtime and two operators, who may crash in the middle of a write.   *)
EXTENDS TradingControl, TLC

CONSTANTS cli, gui

MCOperators == {cli, gui}

Symmetry == Permutations(MCOperators)
=============================================================================
