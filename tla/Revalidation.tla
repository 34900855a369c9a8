----------------------------- MODULE Revalidation -----------------------------
(***************************************************************************)
(* The rules of D3 and D5 that decide what becomes of a pending order when *)
(* a signal or a market price arrives: material_change_reasons of          *)
(* models/signal_snapshot.py and revalidate_pending_order of               *)
(* tools/pending_order_revalidation.py.                                    *)
(*                                                                         *)
(* A signal is [side, decision, price, qty, context, at].  Percentages are *)
(* compared by cross multiplication; only the accumulated drift is rounded *)
(* down to a whole percent.  The code distinguishes CANCEL from NO_TRADE   *)
(* by the reason it records; both withdraw the order.                      *)
(***************************************************************************)
EXTENDS Integers

CONSTANTS MaxReprices,  \* RevalidationPolicy.max_repricing_count
          MaxDrift,     \* max_cumulative_entry_drift_pct
          MinChange,    \* minimum_entry_change_pct
          MaxDistance,  \* max_market_distance_pct
          Window,       \* signal_validity_window
          SignalLife,   \* valid_until - generated_at of a SignalSnapshot
          NoContext,    \* a snapshot without market_context_fingerprint
          NoSignal      \* no snapshot is remembered for the intent

(* RevalidationPolicy.__post_init__ *)
ValidPolicy ==
    /\ MaxReprices \in Nat
    /\ {MaxDrift, MinChange, MaxDistance} \subseteq Nat
    /\ Window \in Nat \ {0}

(* MaterialChangePolicy refuses a threshold of zero, a SignalSnapshot a    *)
(* life that ends when it begins.                                          *)
ValidThreshold == MinChange > 0

ValidLife == SignalLife \in Nat \ {0}

ASSUME PolicyAssumption == ValidPolicy /\ ValidThreshold /\ ValidLife

Distance(p, q) == IF p >= q THEN p - q ELSE q - p

(* The entry price changed by minimum_entry_change_pct or more. *)
Moved(new, old) == 100 * Distance(new, old) >= MinChange * old

TooFar(entry, market) == 100 * Distance(entry, market) > MaxDistance * market

Expired(signal, now) == now >= signal.at + SignalLife

(* bool(material_change_reasons(previous, signal)) *)
Material(previous, signal) ==
    /\ previous # NoSignal
    /\ \/ Moved(signal.price, previous.price)
       \/ previous.side # signal.side
       \/ previous.decision # signal.decision
       \/ /\ NoContext \notin {previous.context, signal.context}
          /\ previous.context # signal.context
       \/ Expired(previous, signal.at)

(* The order may not survive: its signal or its window expired, the signal *)
(* waits or turned, or (for a BUY) the symbol is already held.             *)
Invalid(order, signal, now, held) ==
    \/ Expired(signal, now)
    \/ now >= order.expires
    \/ signal.decision = "WAIT"
    \/ signal.side # order.side
    \/ held /\ order.side = "BUY"

NextDrift(order, signal) ==
    order.drift + (100 * Distance(signal.price, order.price)) \div order.price

(* Mutant: an order far from the market is kept. *)
KeepsFar(order, previous, signal, market, now, held) ==
    /\ ~Invalid(order, signal, now, held)
    /\ ~Material(previous, signal)
    /\ ~Moved(signal.price, order.price)

(* RevalidationAction.KEEP *)
Keeps(order, previous, signal, market, now, held) ==
    /\ ~Invalid(order, signal, now, held)
    /\ ~TooFar(signal.price, market)
    /\ ~Material(previous, signal)
    /\ ~Moved(signal.price, order.price)

(* Mutant: the cumulative drift of an entry is not limited. *)
RepricesAnywhere(order, signal, market, now, held) ==
    /\ ~Invalid(order, signal, now, held)
    /\ ~TooFar(signal.price, market)
    /\ Moved(signal.price, order.price)
    /\ order.reprices < MaxReprices

(* RevalidationAction.REPLACE *)
Reprices(order, signal, market, now, held) ==
    /\ ~Invalid(order, signal, now, held)
    /\ ~TooFar(signal.price, market)
    /\ Moved(signal.price, order.price)
    /\ order.reprices < MaxReprices
    /\ NextDrift(order, signal) <= MaxDrift

(* RevalidationAction.CANCEL and NO_TRADE *)
Withdraws(order, previous, signal, market, now, held) ==
    /\ ~Keeps(order, previous, signal, market, now, held)
    /\ ~Reprices(order, signal, market, now, held)

(* build_pending_order, and the replacement that keeps the intent *)
PendingOrder(intent, signal) ==
    [intent |-> intent, side |-> signal.side, price |-> signal.price,
     qty |-> signal.qty, expires |-> signal.at + Window, reprices |-> 0, drift |-> 0]

(* PendingOrder.__post_init__ refuses any other.                           *)
WellFormed(order) ==
    /\ order.side \in {"BUY", "SELL"}
    /\ order.price > 0 /\ order.qty > 0
    /\ order.reprices >= 0 /\ order.drift >= 0

Replacement(order, signal) ==
    [PendingOrder(order.intent, signal) EXCEPT
        !.reprices = order.reprices + 1, !.drift = NextDrift(order, signal)]

(* try_fill and _d4_fill_eligible: the price touches the entry in time.    *)
Touched(order, market) ==
    IF order.side = "BUY" THEN market <= order.price ELSE market >= order.price

Fillable(order, market, now) == now < order.expires /\ Touched(order, market)
=============================================================================
