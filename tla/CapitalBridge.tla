---------------------------- MODULE CapitalBridge ----------------------------
(***************************************************************************)
(* integration/paper_capital_runner_bridge.py as the paper runner drives   *)
(* it: a candidate is sized and reserved, submitted and bound to its D4    *)
(* order, and the fill, the end or the exit of the order settles the       *)
(* reservation.  Every change of the policy is journalled.                 *)
(*                                                                         *)
(* The runner handles one market event or candidate at a time without      *)
(* awaiting, so an action is what happens between two journal writes;      *)
(* entering is the candidate that is reserved but not yet bound.  D4 and   *)
(* D6 are reduced to the orders and the ledger that the bridge sees.       *)
(***************************************************************************)
EXTENDS CapitalPolicy, Sequences

CONSTANTS Minimums,     \* exchange minimum notionals that are tried
          Results,      \* profits and losses a position can be exited with
          MaxJournal,   \* bound on the journal at which no more is allocated
          NoSymbol

ASSUME BridgeAssumption ==
    /\ Minimums \subseteq Nat
    /\ Results \subseteq Int
    /\ MaxJournal \in Nat
    /\ NoSymbol \notin Symbols

VARIABLES policy,    \* what the bridge and its CapitalManager remember
          journal,   \* capital_allocations.jsonl
          ledger,    \* realized result and cost of the open positions
          orders,    \* D4: sequence of [symbol, notional, state]
          entering   \* the symbol being entered, or NoSymbol

vars == <<policy, journal, ledger, orders, entering>>

Init ==
    /\ policy = NoPolicy
    /\ journal = << >>
    /\ ledger = EmptyLedger
    /\ orders = << >>
    /\ entering = NoSymbol

Record(type, s, minimum, amount, n) ==
    [type |-> type, symbol |-> s, minimum |-> minimum, amount |-> amount, order |-> n]

Journalled(type, s, minimum, amount, n) ==
    journal' = Append(journal, Record(type, s, minimum, amount, n))

(* Mutant: the release does not reach the bridge. *)
ReleaseUnnoticed(s) == UNCHANGED <<policy, journal>>

Release(s) ==
    /\ policy' = Released(policy, s)
    /\ Journalled("RELEASE", s, 0, 0, 0)

(* What is bound to order n is released, and nothing if there is nothing.  *)
ReleaseForOrder(n) ==
    \E s \in Symbols : policy.orderOf[s] = n /\ Release(s)

(* Mutant: the view of the account is older than the reservations. *)
SpendableBefore == AvailableCapital(ledger, 0)

Spendable == AvailableCapital(ledger, PolicyReserved(policy))

(* Mutant: the reservation of an order that is still pending is released.  *)
NotEnded(n) == UNCHANGED orders

Order(s, amount, state) == [symbol |-> s, notional |-> amount, state |-> state]

Submitted(s) == orders' = Append(orders, Order(s, policy.pending[s], "PENDING"))

Ended(n) == orders' = [orders EXCEPT ![n].state = "CANCELLED"]

(* allocation_for; a rejected candidate changes nothing, since the active  *)
(* positions are those of the ledger already.                              *)
Reserve(s, minimum) ==
    LET p      == Synced(policy, ledger)
        amount == FinalNotional(ledger, minimum)
    IN  /\ Accepts(p, s, amount, Spendable)
        /\ policy' = Reserved(p, s, amount)
        /\ Journalled("RESERVE", s, minimum, amount, 0)

(* _run_signal_cycle wants to enter s, which has no position, and          *)
(* _allocation_snapshot sizes the entry for what the exchange demands.     *)
Allocate(s, minimum) ==
    /\ entering = NoSymbol
    /\ Len(journal) < MaxJournal
    /\ ledger.cost[s] = 0
    /\ Reserve(s, minimum)
    /\ entering' = s
    /\ UNCHANGED <<ledger, orders>>

(* submit_signal accepted the entry: bind_order. *)
SubmitAndBind ==
    LET s == entering
        n == Len(orders) + 1
    IN  /\ s # NoSymbol
        /\ policy.state[s] \in {"RESERVED", "BOUND"}
        /\ policy.orderOf[s] = 0
        /\ Submitted(s)
        /\ policy' = Bound(policy, s, n)
        /\ Journalled("BIND", s, 0, 0, n)
        /\ entering' = NoSymbol
        /\ UNCHANGED ledger

(* submit_signal raised, because new entries are paused for instance.      *)
RejectEntry ==
    /\ entering # NoSymbol
    /\ Release(entering)
    /\ entering' = NoSymbol
    /\ UNCHANGED <<ledger, orders>>

(* A market event fills order n; on_fill. *)
FillOrder(n) ==
    LET s == orders[n].symbol
    IN  /\ entering = NoSymbol
        /\ orders[n].state = "PENDING"
        /\ policy.orderOf[s] = n
        /\ FillAccepted(policy, s)
        /\ orders' = [orders EXCEPT ![n].state = "FILLED"]
        /\ ledger' = [ledger EXCEPT !.cost[s] = @ + orders[n].notional]
        /\ policy' = Synced(Filled(policy, s), ledger')
        /\ Journalled("FILL", s, 0, 0, n)
        /\ UNCHANGED entering

(* A market event ends order n; reconcile_terminal_orders. *)
EndOrder(n) ==
    LET s == orders[n].symbol
    IN  /\ entering = NoSymbol
        /\ orders[n].state = "PENDING"
        /\ policy.orderOf[s] = n
        /\ Ended(n)
        /\ ReleaseForOrder(n)
        /\ UNCHANGED <<ledger, entering>>

(* The position of s is sold; on_exit_symbol. *)
ExitSymbol(s, result) ==
    /\ entering = NoSymbol
    /\ ledger.cost[s] > 0
    /\ ledger.cost[s] + result >= 0
    /\ policy.orderOf[s] # 0
    /\ ExitAccepted(policy, s)
    /\ ledger' = [realized |-> ledger.realized + result,
                  cost     |-> [ledger.cost EXCEPT ![s] = 0]]
    /\ policy' = Synced(Exited(policy, s), ledger')
    /\ Journalled("EXIT", s, 0, 0, 0)
    /\ UNCHANGED <<orders, entering>>

Next ==
    \/ \E s \in Symbols, minimum \in Minimums : Allocate(s, minimum)
    \/ SubmitAndBind
    \/ RejectEntry
    \/ \E n \in DOMAIN orders : FillOrder(n) \/ EndOrder(n)
    \/ \E s \in Symbols, result \in Results : ExitSymbol(s, result)

Spec == Init /\ [][Next]_vars
-----------------------------------------------------------------------------
PendingOf(s) == {n \in DOMAIN orders : orders[n].symbol = s /\ orders[n].state = "PENDING"}

(* Contract, "Reservations": a pending order reserves its notional exactly *)
(* once.  No order is without a reservation and, except for the candidate  *)
(* being entered, no reservation is without a pending order.               *)
EveryOrderReserved ==
    \A s \in Symbols \ {entering} :
        IF policy.pending[s] = 0 THEN PendingOf(s) = {}
        ELSE /\ PendingOf(s) = {policy.orderOf[s]}
             /\ orders[policy.orderOf[s]].notional = policy.pending[s]

(* The bridge, its manager and the ledger agree: what the bridge holds     *)
(* pending the manager holds reserved, and what the manager holds          *)
(* committed is the cost of a position in the ledger, after profits and    *)
(* losses and however often a symbol is entered again.                     *)
BooksAgree ==
    /\ policy.pending = policy.reserved
    /\ policy.committed = ledger.cost
    /\ policy.active = HeldIn(ledger)
    /\ \A s \in Symbols :
          /\ policy.state[s] = "FILLED" <=> ledger.cost[s] > 0
          /\ policy.state[s] \in {"RESERVED", "BOUND"} <=> policy.pending[s] > 0

(* Reservations and commitments never exceed the trading capital, so       *)
(* available_capital never raises while a run is audited and every order   *)
(* that was sized can be paid when it fills.                               *)
CapitalCovered == AvailableCapital(ledger, PolicyReserved(policy)) >= 0

(* Contract, "Portfolio allocation": max_concurrent_positions caps the     *)
(* symbols that are pending or active at the same time.                    *)
ConcurrencyCapped ==
    MaxPositions # 0 =>
        Cardinality(HeldIn(ledger) \cup {s \in Symbols : policy.pending[s] > 0}) <= MaxPositions

(* Contract, "Reservations" and "Safety boundary": reserved money either   *)
(* comes back whole when its order ends or is rejected, or becomes the     *)
(* cost of the position its order opened; it never changes otherwise.      *)
ReservationsSettle ==
    [][\A s \in Symbols :
          policy.pending[s] > 0 /\ policy'.pending[s] # policy.pending[s] =>
              /\ policy'.pending[s] = 0
              /\ \/ /\ policy'.state[s] = "RELEASED"
                    /\ ledger' = ledger
                    /\ PendingOf(s)' = {}
                 \/ /\ policy'.state[s] = "FILLED"
                    /\ ledger'.cost[s] = policy.pending[s]
                    /\ orders'[policy.orderOf[s]].state = "FILLED"]_vars
=============================================================================
