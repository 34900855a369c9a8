----------------------------- MODULE MCRepricing -----------------------------
(***************************************************************************)
(* PaperRuntime with one intent whose signal moves, waits, turns around or *)
(* changes its context: every branch of the revalidation.  20 -> 21 is     *)
(* below the minimum change, 20 -> 24 is a drift of 20 percent and 24 ->   *)
(* 20 brings it to 36, and a market at 30 is too far from 20.              *)
(***************************************************************************)
EXTENDS PaperRuntime, TLC

CONSTANTS btc, entry, e1, e2

MCSymbols == {btc}
MCIntents == {entry}
MCSymbolOf == [i \in MCIntents |-> btc]
MCEventIds == {e1, e2}

MCOffer(side, decision, price, context) ==
    [side |-> side, decision |-> decision, price |-> price, qty |-> 1, context |-> context]

MCOffers ==
    {MCOffer("BUY", "TRADE", p, 1) : p \in {20, 21, 24}}
    \cup {MCOffer("BUY", "TRADE", 20, 2), MCOffer("BUY", "WAIT", 20, 1),
          MCOffer("SELL", "TRADE", 20, 1)}
MCTimes == 0 .. 2
MCMarkets == {20, 30}

Symmetry == Permutations(MCEventIds)
=============================================================================
