---------------------------- MODULE OrderPosition ----------------------------
(***************************************************************************)
(* The aggregates of D4, models/order_position_lifecycle.py: an order and  *)
(* a position each are what applying their events makes of them, and an    *)
(* event is only appended to the history if it may be applied.             *)
(*                                                                         *)
(* Orders are numbered in the order of their creation.  Of the positions   *)
(* of a symbol only the active one is kept, as its quantity, 0 for none:   *)
(* its states OPEN and REDUCE allow the same events, and the runtime calls *)
(* neither hold nor reverse.                                               *)
(***************************************************************************)
EXTENDS Integers, Sequences

OrderState == {"PENDING", "FILLED", "CANCELLED", "REPLACED", "EXPIRED", "FAILED"}

(* Only a pending order moves, and it moves once. *)
OrderTransitions ==
    [s \in OrderState |-> IF s = "PENDING" THEN OrderState \ {"PENDING"} ELSE {}]

OrderOf(symbol, side, qty, price, state) ==
    [symbol |-> symbol, side |-> side, qty |-> qty, price |-> price, state |-> state]

(* create, and the terminal events: fill, cancel, replace. *)
Creation(order) == [type |-> "CREATED", order |-> order]

Ending(n, state) == [type |-> state, number |-> n]

OrderAccepts(orders, e) ==
    IF e.type = "CREATED" THEN e.order.qty > 0 /\ e.order.price > 0
    ELSE e.type \in OrderTransitions[orders[e.number].state]

OrderApply(orders, e) ==
    IF e.type = "CREATED" THEN Append(orders, [e.order EXCEPT !.state = "PENDING"])
    ELSE [orders EXCEPT ![e.number].state = e.type]

(* fill: exactly the quantity of the order. *)
FillFits(orders, n, qty) == OrderAccepts(orders, Ending(n, "FILLED")) /\ qty = orders[n].qty
-----------------------------------------------------------------------------
Opening(qty) == [type |-> "OPENED", qty |-> qty]

(* A sale of the whole position closes it. *)
Sale(held, qty) == [type |-> IF qty = held THEN "CLOSED" ELSE "REDUCE", qty |-> qty]

PositionAccepts(held, e) ==
    CASE e.type = "OPENED" -> held = 0
      [] e.type = "REDUCE" -> 0 < e.qty /\ e.qty < held
      [] e.type = "CLOSED" -> held > 0

PositionApply(held, e) ==
    CASE e.type = "OPENED" -> e.qty
      [] e.type = "REDUCE" -> held - e.qty
      [] e.type = "CLOSED" -> 0
=============================================================================
