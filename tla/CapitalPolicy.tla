---------------------------- MODULE CapitalPolicy ----------------------------
(***************************************************************************)
(* models/capital_management.py: the sizing rules of CapitalManager and    *)
(* what its callbacks do to the policy state that the manager and the      *)
(* runner's bridge keep between them.                                      *)
(*                                                                         *)
(* The runner allocates for the intent ENTRY only, so an allocation is     *)
(* known by its symbol.  Amounts are whole units; an accepted notional is  *)
(* positive, so 0 stands for an absent dictionary entry.  The ledger is    *)
(* reduced to what PaperLedgerAccountingView reads of it, and the runner's *)
(* ledger charges neither fees nor slippage and reserves no cash itself.   *)
(***************************************************************************)
EXTENDS Integers, FiniteSetsExt

CONSTANTS Symbols,
          StartingCapital,  \* AllocationConfig.starting_capital
          Compounding,      \* mode is COMPOUNDING, else FIXED_ALLOCATION
          FixedAllocation,  \* fixed_allocation, or starting_capital * allocation_rate
          AllocationRate,   \* allocation_rate in percent
          MaxPositions      \* max_concurrent_positions; 0 when not configured

(* AllocationConfig.__post_init__ *)
ValidConfig ==
    /\ {StartingCapital, FixedAllocation} \subseteq Nat \ {0}
    /\ Compounding \in BOOLEAN
    /\ AllocationRate \in 1 .. 100
    /\ MaxPositions \in Nat

ASSUME PolicyConfigAssumption == IsFiniteSet(Symbols) /\ ValidConfig

TotalOf(f) == SumFunctionOnSet(f, Symbols)

NoAmount == [s \in Symbols |-> 0]

EmptyLedger == [realized |-> 0, cost |-> NoAmount]

HeldIn(ledger) == {s \in Symbols : ledger.cost[s] > 0}

TradingCapital(ledger) ==
    LET capital == StartingCapital + ledger.realized IN IF capital > 0 THEN capital ELSE 0

(* available_capital raises when this is negative. *)
AvailableCapital(ledger, policyReserved) ==
    TradingCapital(ledger) - policyReserved - TotalOf(ledger.cost)

DesiredAllocation(ledger) ==
    IF Compounding THEN (AllocationRate * TradingCapital(ledger)) \div 100 ELSE FixedAllocation

FinalNotional(ledger, minimum) ==
    LET desired == DesiredAllocation(ledger) IN IF minimum > desired THEN minimum ELSE desired

(* Policy state: state, pending and orderOf are the bridge's dictionaries, *)
(* reserved, committed and active the manager's.                           *)
NoPolicy ==
    [state |-> [s \in Symbols |-> "NONE"], pending |-> NoAmount, orderOf |-> NoAmount,
     reserved |-> NoAmount, committed |-> NoAmount, active |-> {}]

PolicyReserved(p) == TotalOf(p.pending)

(* Mutant: reservations do not count as concurrent positions. *)
HeldSymbolsOnly(p) == p.active

ConcurrentSymbols(p) == p.active \cup {s \in Symbols : p.reserved[s] > 0}

(* calculate: an allocation of amount for s passes every rejection rule.   *)
Accepts(p, s, amount, available) ==
    /\ s \notin p.active
    /\ p.reserved[s] = 0
    /\ p.committed[s] = 0
    /\ MaxPositions # 0 => Cardinality(ConcurrentSymbols(p)) < MaxPositions
    /\ 0 < amount /\ amount <= available

Synced(p, ledger) == [p EXCEPT !.active = HeldIn(ledger)]

Reserved(p, s, amount) ==
    [p EXCEPT !.state[s] = "RESERVED", !.pending[s] = amount, !.reserved[s] = amount]

Bound(p, s, n) == [p EXCEPT !.state[s] = "BOUND", !.orderOf[s] = n]

Released(p, s) ==
    [p EXCEPT !.state[s] = "RELEASED", !.pending[s] = 0, !.orderOf[s] = 0, !.reserved[s] = 0]

(* on_fill: the manager refuses an allocation it holds no reservation for. *)
FillAccepted(p, s) == p.reserved[s] > 0

Filled(p, s) ==
    [p EXCEPT !.state[s] = "FILLED", !.pending[s] = 0, !.reserved[s] = 0,
              !.committed[s] = p.reserved[s], !.active = @ \cup {s}]

(* on_exit: the manager refuses a symbol for which nothing is committed.   *)
ExitAccepted(p, s) == p.committed[s] > 0

(* Mutant: the commitment survives the exit. *)
ExitedButCommitted(p, s) ==
    [p EXCEPT !.state[s] = "EXITED", !.pending[s] = 0, !.orderOf[s] = 0,
              !.active = @ \ {s}]

Exited(p, s) ==
    [p EXCEPT !.state[s] = "EXITED", !.pending[s] = 0, !.orderOf[s] = 0,
              !.committed[s] = 0, !.active = @ \ {s}]
=============================================================================
