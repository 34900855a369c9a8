------------------------------ MODULE OrderDesk ------------------------------
(***************************************************************************)
(* What the paper runtime promises, whatever the rules of revalidation and *)
(* the arithmetic of the ledger: every intent has at most one working      *)
(* order, an order is executed at most once and wholly, a symbol is either *)
(* flat or held long by the one order that opened it, a sale never exceeds *)
(* what is held, and once the desk has halted nothing is placed, amended   *)
(* or executed again.                                                      *)
(***************************************************************************)
EXTENDS Integers

CONSTANTS Symbols, Intents,
          SymbolOf,  \* the symbol of an intent
          Terms,     \* what an order can ask for: [side, price, qty]
          NoOrder    \* an intent without a working order

VARIABLES working,  \* intent -> terms of its working order, or NoOrder
          holding,  \* symbol -> quantity held
          halted

vars == <<working, holding, halted>>

Init ==
    /\ working = [i \in Intents |-> NoOrder]
    /\ holding = [s \in Symbols |-> 0]
    /\ halted = FALSE

Place(i, t) ==
    /\ ~halted
    /\ working[i] = NoOrder
    /\ t.side = "SELL" <=> holding[SymbolOf[i]] > 0
    /\ working' = [working EXCEPT ![i] = t]
    /\ UNCHANGED <<holding, halted>>

Amend(i, t) ==
    /\ ~halted
    /\ working[i] # NoOrder
    /\ t.side = working[i].side
    /\ working' = [working EXCEPT ![i] = t]
    /\ UNCHANGED <<holding, halted>>

Pull(i) ==
    /\ ~halted
    /\ working[i] # NoOrder
    /\ working' = [working EXCEPT ![i] = NoOrder]
    /\ UNCHANGED <<holding, halted>>

Execute(i) ==
    LET s == SymbolOf[i]
        t == working[i]
    IN  /\ ~halted
        /\ t # NoOrder
        /\ \/ t.side = "BUY" /\ holding[s] = 0 /\ holding' = [holding EXCEPT ![s] = t.qty]
           \/ t.side = "SELL" /\ t.qty <= holding[s] /\ holding' = [holding EXCEPT ![s] = @ - t.qty]
        /\ working' = [working EXCEPT ![i] = NoOrder]
        /\ UNCHANGED halted

(* An execution that could not be booked: the order is spent. *)
Halt(i) ==
    /\ ~halted
    /\ working[i] # NoOrder
    /\ working' = [working EXCEPT ![i] = NoOrder]
    /\ \A s \in Symbols \ {SymbolOf[i]} : holding'[s] = holding[s]
    /\ halted' = TRUE

Liquidate(s) ==
    /\ holding[s] > 0
    /\ holding' = [holding EXCEPT ![s] = 0]
    /\ UNCHANGED <<working, halted>>

Next ==
    \/ \E i \in Intents :
          \/ \E t \in Terms : Place(i, t) \/ Amend(i, t)
          \/ Pull(i)
          \/ Execute(i)
          \/ Halt(i)
    \/ \E s \in Symbols : Liquidate(s)

Spec == Init /\ [][Next]_vars
=============================================================================
