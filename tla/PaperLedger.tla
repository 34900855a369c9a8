----------------------------- MODULE PaperLedger -----------------------------
(***************************************************************************)
(* models/paper_capital.py: the append-only D6 ledger.  One action per     *)
(* record_* method; account is what replay() returns for the events so far *)
(* and recorded is how many there are.  A method that raises leaves the    *)
(* ledger as it was, so its guard is the negation of its error paths.      *)
(***************************************************************************)
EXTENDS LedgerOps

CONSTANTS Prices,      \* reference prices that are tried
          Quantities,  \* order, fill and exit quantities that are tried
          Amounts,     \* amounts of cash reserved and released
          MaxEvents    \* bound on the length of the ledger

ASSUME InputAssumption ==
    /\ Prices \subseteq Nat \ {0}
    /\ Quantities \subseteq Nat \ {0}
    /\ Amounts \subseteq Nat \ {0}
    /\ MaxEvents \in Nat

VARIABLES account,   \* PaperAccountState: replay() of the events
          recorded,  \* len(events)
          traded     \* history: net cash moved by the fills at reference prices

vars == <<account, recorded, traded>>

Init ==
    /\ account = EmptyAccount
    /\ recorded = 0
    /\ traded = 0

Extend(n) ==
    /\ recorded + n <= MaxEvents
    /\ recorded' = recorded + n

(* ORDER events do not change the replayed state. *)
RecordOrder(s, q, ref) ==
    /\ Extend(1)
    /\ UNCHANGED <<account, traded>>

ReserveCash(amount) ==
    /\ WalletOK(account)
    /\ amount <= Available(account)
    /\ Extend(1)
    /\ account' = [account EXCEPT !.reserved = @ + amount]
    /\ UNCHANGED traded

ReleaseCash(amount) ==
    /\ WalletOK(account)
    /\ amount <= account.reserved
    /\ Extend(1)
    /\ account' = [account EXCEPT !.reserved = @ - amount]
    /\ UNCHANGED traded

(* FILL, FEE and SLIPPAGE. *)
FillBuy(s, q, ref) ==
    /\ WalletOK(account)
    /\ BuyAllowed(account, q, ref)
    /\ Extend(3)
    /\ account' = AfterBuy(account, s, q, ref)
    /\ traded' = traded - ref * q

(* FILL, FEE, SLIPPAGE and, when something was realized, PNL. *)
FillSell(s, q, ref) ==
    /\ WalletOK(account)
    /\ SellAllowed(account, s, q)
    /\ Extend(IF RealizedBySale(account, s, q, ref) = 0 THEN 3 ELSE 4)
    /\ account' = AfterSell(account, s, q, ref)
    /\ traded' = traded + ref * q

(* EXIT is recorded but replay() does not interpret it. *)
RecordExit(s, q, ref) ==
    /\ WalletOK(account)
    /\ q <= account.qty[s]
    /\ Extend(1)
    /\ UNCHANGED <<account, traded>>

Mark(s, price) ==
    /\ Extend(1)
    /\ account' = [account EXCEPT !.mark[s] = price]
    /\ UNCHANGED traded

Snapshot ==
    /\ WalletOK(account)
    /\ Extend(1)
    /\ UNCHANGED <<account, traded>>

(* A fill is a purchase or a sale: the third LedgerSide, HOLD, that        *)
(* record_fill would take as well, is passed by no caller.                 *)
Next ==
    \/ \E s \in Symbols, q \in Quantities, ref \in Prices :
          \/ RecordOrder(s, q, ref)
          \/ FillBuy(s, q, ref)
          \/ FillSell(s, q, ref)
          \/ RecordExit(s, q, ref)
    \/ \E amount \in Amounts : ReserveCash(amount) \/ ReleaseCash(amount)
    \/ \E s \in Symbols, price \in Prices : Mark(s, price)
    \/ Snapshot

Spec == Init /\ [][Next]_vars
-----------------------------------------------------------------------------
Account ==
    [cash : Int, reserved : Int, realized : Int, fees : Int, slippage : Int,
     invested : Int, qty : [Symbols -> Int], cost : [Symbols -> Int],
     mark : [Symbols -> Int]]

(* The shape of the replayed state. *)
TypeOK ==
    /\ account \in Account
    /\ recorded \in 0 .. MaxEvents
    /\ traded \in Int

(* The fee of a sale never exceeds what the sale brings in.  FeeModel does *)
(* not ask for it: a minimum fee above a small sale breaks it.             *)
FeesCovered ==
    \A q \in Quantities, ref \in Prices :
        Fee(Notional("SELL", q, ref)) <= Notional("SELL", q, ref)

(* VirtualWallet: after any accepted sequence of records the ledger can    *)
(* still be replayed, cash and reserved cash stay non-negative and the     *)
(* reservations stay covered by cash.                                      *)
WalletReplayable == WalletOK(account)

(* Contract, "Accounting Identity": starting_equity = cash + open position *)
(* market value + (fees - realized - unrealized), at every prefix of the   *)
(* ledger and whatever the marks are.                                      *)
AccountingIdentity ==
    StartingEquity = account.cash + OpenPositionValue(account) + AccountingAdjustments(account)

(* The same balance without the marks: money is in cash, in the cost of    *)
(* the open positions, or gone as fees and realized results.               *)
CostIdentity ==
    StartingEquity = account.cash + account.invested + account.fees - account.realized

(* No balance is created or destroyed outside the fills and the configured *)
(* costs: cash differs from a frictionless account that traded at the      *)
(* reference prices by exactly the cumulative fees and slippage.           *)
CostsExplainCash ==
    account.cash = StartingEquity + traded - account.fees - account.slippage

(* Positions are never short, a flat one carries no cost, and the capital  *)
(* that the capital view calls committed is the cost that is still open.   *)
PositionsSound ==
    /\ \A s \in Symbols : account.qty[s] >= 0 /\ account.cost[s] >= 0
    /\ \A s \in Symbols : account.qty[s] = 0 => account.cost[s] = 0
    /\ account.invested = CommittedCapital(account)
=============================================================================
