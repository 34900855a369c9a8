--------------------------- MODULE CapitalRecovery ---------------------------
(***************************************************************************)
(* Recovery of the bridge from its journal: _load_journal folds            *)
(* _apply_journal_event over the file, starting from an empty bridge over  *)
(* the ledger it is given.  The runner recovers at the end of a run, with  *)
(* the final ledger, and asks that nothing has changed.                    *)
(***************************************************************************)
EXTENDS CapitalBridge, SequencesExt

CONSTANT Raised  \* recovery stopped with an exception

PolicyState == {"NONE", "RESERVED", "BOUND", "FILLED", "RELEASED", "EXITED"}

(* What a bridge and its manager may remember.                             *)
PolicyRecord ==
    [state : [Symbols -> PolicyState], pending : [Symbols -> Nat],
     orderOf : [Symbols -> Nat], reserved : [Symbols -> Nat],
     committed : [Symbols -> Nat], active : SUBSET Symbols]

ASSUME RaisedAssumption == Raised \notin PolicyRecord

(* RESERVE is sized again, by the manager of the bridge being built: its   *)
(* view of the ledger was taken before anything was pending.               *)
ApplyReserve(p, r, led) ==
    LET amount == FinalNotional(led, r.minimum)
    IN  IF p.state[r.symbol] \in {"RELEASED", "FILLED", "EXITED"} THEN p
        ELSE IF Accepts(p, r.symbol, amount, AvailableCapital(led, 0)) /\ amount = r.amount
             THEN Reserved(p, r.symbol, amount)
             ELSE Raised

ApplyBind(p, r) ==
    CASE p.pending[r.symbol] = 0 /\ p.state[r.symbol] \notin {"RESERVED", "FILLED"} -> p
      [] p.state[r.symbol] = "FILLED" -> [p EXCEPT !.orderOf[r.symbol] = r.order]
      [] OTHER -> Bound(p, r.symbol, r.order)

ApplyFill(p, r) ==
    CASE p.state[r.symbol] = "FILLED" -> p
      [] ~FillAccepted(p, r.symbol) -> Raised
      [] OTHER -> [Filled(p, r.symbol) EXCEPT !.orderOf[r.symbol] = r.order]

(* Mutant: the manager keeps the reservation that is released. *)
ApplyReleaseToBridge(p, r) ==
    IF p.state[r.symbol] \in {"RELEASED", "EXITED", "FILLED"} THEN p
    ELSE [Released(p, r.symbol) EXCEPT !.reserved = p.reserved]

ApplyRelease(p, r) ==
    IF p.state[r.symbol] \in {"RELEASED", "EXITED", "FILLED"} THEN p ELSE Released(p, r.symbol)

ApplyExit(p, r) ==
    CASE p.state[r.symbol] = "EXITED" -> p
      [] ~ExitAccepted(p, r.symbol) -> Raised
      [] OTHER -> Exited(p, r.symbol)

ApplyRecord(p, r, led) ==
    CASE p = Raised -> Raised
      [] r.type = "RESERVE" -> ApplyReserve(p, r, led)
      [] r.type = "BIND" -> ApplyBind(p, r)
      [] r.type = "FILL" -> ApplyFill(p, r)
      [] r.type = "RELEASE" -> ApplyRelease(p, r)
      [] r.type = "EXIT" -> ApplyExit(p, r)

Loaded(led) == FoldLeft(LAMBDA p, r : ApplyRecord(p, r, led), NoPolicy, journal)

(* recover() *)
Recovered(led) == IF Loaded(led) = Raised THEN Raised ELSE Synced(Loaded(led), led)

(* audit_state, with the manager's view refreshed. *)
AuditState(p) ==
    [reserved  |-> PolicyReserved(p),
     committed |-> TotalOf(ledger.cost),
     available |-> AvailableCapital(ledger, PolicyReserved(p)),
     trading   |-> TradingCapital(ledger)]

(* verify_recovery, on the capital: canonical, recovered, and recovered    *)
(* again.  (Its part on the runtime compares orders, positions, account.)  *)
CapitalReplayEqual(live, recovered, repeated) ==
    /\ Raised \notin {recovered, repeated}
    /\ AuditState(live) = AuditState(recovered)
    /\ AuditState(recovered) = AuditState(repeated)

(* _finalize; recovering leaves the journal as it is.                      *)
Finalized == CapitalReplayEqual(policy, Recovered(ledger), Recovered(ledger))
-----------------------------------------------------------------------------
Reserves == {k \in DOMAIN journal : journal[k].type = "RESERVE"}

EnteredOnce(s) == Cardinality({k \in Reserves : journal[k].symbol = s}) <= 1

(* The final ledger would size and accept again what was allocated.        *)
StillAccepted(k) ==
    /\ FinalNotional(ledger, journal[k].minimum) = journal[k].amount
    /\ journal[k].amount <= AvailableCapital(ledger, 0)

(* As long as no symbol was entered twice and the money that is left would *)
(* still pay for every past allocation, the journal alone restores the     *)
(* policy, with its order bindings, at any point of the run.               *)
RecoveryExact ==
    (/\ \A s \in Symbols : EnteredOnce(s)
     /\ \A k \in Reserves : StillAccepted(k)) => Recovered(ledger) = policy

(* "capital_replay_equal" of the verification at the end of a run, which   *)
(* raises if it is not: recovery succeeds and reports the capital that the *)
(* live bridge reports.                                                    *)
RecoveryVerified == entering = NoSymbol => Finalized
=============================================================================
