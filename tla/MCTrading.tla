------------------------------ MODULE MCTrading ------------------------------
(***************************************************************************)
(* PaperRuntime with two intents on one symbol: a BUY that meets another   *)
(* BUY's position, two SELLs that want the same position, a SELL of more   *)
(* than is held and a BUY that the cash does not cover.                    *)
(***************************************************************************)
EXTENDS PaperRuntime, TLC

CONSTANTS btc, trend, scalp, e1, e2

MCSymbols == {btc}
MCIntents == {trend, scalp}
MCSymbolOf == [i \in MCIntents |-> btc]
MCEventIds == {e1, e2}

MCOffer(side, qty) ==
    [side |-> side, decision |-> "TRADE", price |-> 10, qty |-> qty, context |-> 1]

MCOffers == {MCOffer("BUY", 2), MCOffer("BUY", 3), MCOffer("SELL", 1), MCOffer("SELL", 2)}
MCTimes == {0, 2}
MCMarkets == {10}

Symmetry == Permutations(MCEventIds) \cup Permutations(MCIntents)
=============================================================================
