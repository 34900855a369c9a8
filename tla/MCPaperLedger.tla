---------------------------- MODULE MCPaperLedger ----------------------------
(***************************************************************************)
(* PaperLedger on two symbols, with a fee with a minimum and a slippage    *)
(* that are whole units at these prices: 10 -> 11 or 9, 20 -> 22 or 18.    *)
(***************************************************************************)
EXTENDS PaperLedger, TLC

CONSTANTS btc, eth

MCSymbols == {btc, eth}
MCPrices == {10, 20}
MCQuantities == {1, 2}
MCAmounts == {7, 30}

Symmetry == Permutations(MCSymbols)
=============================================================================
