------------------------------ MODULE LedgerOps ------------------------------
(***************************************************************************)
(* The arithmetic of the D6 paper account: what one accepted FILL does to  *)
(* the state that PaperLedger.replay() reconstructs.  The ledger itself is *)
(* the tuple of its events and every guard of its record_* methods reads   *)
(* the replayed state only, so the replayed state stands for the tuple.    *)
(*                                                                         *)
(* Money is counted in whole units.  A position carries cost, which is     *)
(* quantity * average_price of the code; a partial sale takes its share of *)
(* it, rounded to the unit as the code's floats round it to an ulp.        *)
(* Rates are in percent.                                                   *)
(***************************************************************************)
EXTENDS Integers, FiniteSetsExt

CONSTANTS Symbols,         \* traded symbols
          StartingEquity,  \* PaperLedger.starting_equity
          FeeRate,         \* FeeModel.rate, percent
          FeeMinimum,      \* FeeModel.minimum
          SlippageRate     \* SlippageModel.rate, percent

ASSUME LedgerAssumption ==
    /\ IsFiniteSet(Symbols)
    /\ StartingEquity \in Nat \ {0}
    /\ FeeRate \in Nat
    /\ FeeMinimum \in Nat
    /\ SlippageRate \in 0 .. 100

(* The money a rate takes of an amount. *)
PercentOf(rate, amount) == (rate * amount) \div 100

Slip(ref) == PercentOf(SlippageRate, ref)

(* Mutant: slippage in the trader's favour when selling.                   *)
FavourableSale(side, ref) == ref + Slip(ref)

ExecutionPrice(side, ref) == IF side = "BUY" THEN ref + Slip(ref) ELSE ref - Slip(ref)

Fee(notional) ==
    LET byRate == PercentOf(FeeRate, notional)
        floor  == IF notional = 0 THEN 0 ELSE FeeMinimum
    IN  IF byRate >= floor THEN byRate ELSE floor

Notional(side, q, ref) == ExecutionPrice(side, ref) * q

(* The account an empty ledger replays to. *)
EmptyAccount ==
    [cash |-> StartingEquity, reserved |-> 0, realized |-> 0, fees |-> 0,
     slippage |-> 0, invested |-> 0,
     qty  |-> [s \in Symbols |-> 0],
     cost |-> [s \in Symbols |-> 0],
     mark |-> [s \in Symbols |-> 0]]

(* VirtualWallet.__post_init__: a wallet outside these bounds is refused,  *)
(* so a ledger whose events lead there can no longer be replayed.          *)
WalletOK(a) == 0 <= a.reserved /\ a.reserved <= a.cash

Available(a) == a.cash - a.reserved

(* Mutants: the fee is not part of the price of a BUY; more is sold than   *)
(* is held.                                                                *)
BuyWithoutFee(a, q, ref) == Notional("BUY", q, ref) <= Available(a)
SellWhatIsNotHeld(a, s, q) == a.qty[s] > 0

(* record_fill's own guards.                                               *)
BuyAllowed(a, q, ref) ==
    LET n == Notional("BUY", q, ref) IN n + Fee(n) <= Available(a)

SellAllowed(a, s, q) == q <= a.qty[s]

(* The part of a position's cost that leaves with q of its units.          *)
CostShare(a, s, q) == IF q = a.qty[s] THEN a.cost[s] ELSE (a.cost[s] * q) \div a.qty[s]

RealizedBySale(a, s, q, ref) == Notional("SELL", q, ref) - CostShare(a, s, q)

(* What replay() does with a FILL of symbol s: d is what the fill moves in  *)
(* each amount of the account, price the execution price it leaves behind. *)
ApplyFill(a, s, d, price) ==
    [a EXCEPT !.cash     = @ + d.cash,
              !.fees     = @ + d.fee,
              !.slippage = @ + d.slippage,
              !.realized = @ + d.realized,
              !.invested = @ + d.cost,
              !.qty      = [a.qty EXCEPT ![s] = @ + d.qty],
              !.cost     = [a.cost EXCEPT ![s] = @ + d.cost],
              !.mark     = [a.mark EXCEPT ![s] = price]]

(* Mutant: the fee is booked twice, in the realized result as well.        *)
SellFeeInResult(a, s, q, ref) ==
    LET n == Notional("SELL", q, ref)
    IN  [cash |-> n - Fee(n), fee |-> Fee(n), slippage |-> Slip(ref) * q,
         realized |-> RealizedBySale(a, s, q, ref) - Fee(n),
         cost |-> -CostShare(a, s, q), qty |-> -q]

(* The FILL events record_fill appends.                                    *)
BuyDelta(q, ref) ==
    LET n == Notional("BUY", q, ref)
    IN  [cash |-> -(n + Fee(n)), fee |-> Fee(n), slippage |-> Slip(ref) * q,
         realized |-> 0, cost |-> n, qty |-> q]

SellDelta(a, s, q, ref) ==
    LET n == Notional("SELL", q, ref)
    IN  [cash |-> n - Fee(n), fee |-> Fee(n), slippage |-> Slip(ref) * q,
         realized |-> RealizedBySale(a, s, q, ref),
         cost |-> -CostShare(a, s, q), qty |-> -q]

AfterBuy(a, s, q, ref) ==
    ApplyFill(a, s, BuyDelta(q, ref), ExecutionPrice("BUY", ref))

AfterSell(a, s, q, ref) ==
    ApplyFill(a, s, SellDelta(a, s, q, ref), ExecutionPrice("SELL", ref))

(* PaperAccountState.open_position_value and .unrealized_pnl: the marks of *)
(* the open positions, and what they differ from their cost by.            *)
OpenPositionValue(a) == SumFunction([s \in Symbols |-> a.qty[s] * a.mark[s]])
UnrealizedPnl(a) == SumFunction([s \in Symbols |-> a.qty[s] * a.mark[s] - a.cost[s]])

AccountingAdjustments(a) == a.fees - a.realized - UnrealizedPnl(a)

(* PaperLedgerAccountingView.committed_capital *)
CommittedCapital(a) == SumFunction(a.cost)
=============================================================================
