----------------------------- MODULE PaperRuntime -----------------------------
(***************************************************************************)
(* The paper trading runtime: PaperRealtimeLifecycle, which composes the   *)
(* pending-order book (D5), the order and position lifecycles (D4) and the *)
(* ledger (D6), under PaperRuntimeSupervisor, which fails closed.          *)
(*                                                                         *)
(* Orders are numbered in the order in which they are created, which is    *)
(* the iteration order of the pending dict; the numbers stand for the      *)
(* uuids.  on_market_event is one action per pending order it visits,      *)
(* since an exception can leave the loop between any two calls.            *)
(***************************************************************************)
EXTENDS LedgerOps, Revalidation, OrderPosition

CONSTANTS Intents,    \* SignalIdentity keys: symbol, strategy and intent
          SymbolOf,   \* the symbol of an intent
          Offers,     \* what signals say: [side, decision, price, qty, context]
          Times,      \* instants at which signals and events are stamped
          Markets,    \* market prices that are tried
          EventIds,   \* identities of market events
          MaxOrders   \* bound on the number of orders ever created

ASSUME RuntimeAssumption ==
    /\ SymbolOf \in [Intents -> Symbols]
    /\ Offers \subseteq [side : {"BUY", "SELL", "NONE"}, decision : {"TRADE", "WAIT"},
                         price : Nat \ {0}, qty : Nat \ {0}, context : Nat]
    /\ Times \subseteq Nat
    /\ Markets \subseteq Nat \ {0}
    /\ MaxOrders \in Nat

VARIABLES orders,      \* D4: sequence of [symbol, side, qty, price, state]
          book,        \* D5: number of a pending order -> its PendingOrder
          position,    \* D4: quantity of the active position of a symbol, or 0
          account,     \* D6: the replayed ledger
          lastSignal,  \* the snapshot last accepted for an intent
          seen,        \* identities of the market events taken in
          failed,      \* the supervisor failed closed
          loop         \* the market event being handled, and the orders to visit

runtime == <<orders, book, position, account, lastSignal>>
vars == <<orders, book, position, account, lastSignal, seen, failed, loop>>

Idle == [on |-> FALSE]

(* build_next_snapshot: what a signal says, and when. *)
Snapshot(o, t) ==
    [side |-> o.side, decision |-> o.decision, price |-> o.price,
     qty |-> o.qty, context |-> o.context, at |-> t]

Signals == {Snapshot(o, t) : o \in Offers, t \in Times}

(* None is not a SignalSnapshot. *)
ASSUME NoSignalAssumption == NoSignal \notin Signals

Init ==
    /\ orders = << >>
    /\ book = << >>
    /\ position = [s \in Symbols |-> 0]
    /\ account = EmptyAccount
    /\ lastSignal = [i \in Intents |-> NoSignal]
    /\ seen = {}
    /\ failed = FALSE
    /\ loop = Idle
-----------------------------------------------------------------------------
Held(s) == position[s] > 0

PendingOf(i) == {n \in DOMAIN book : book[n].intent = i}

(* Mutant: the order stays in the book. *)
Retaining(n) == book

Without(n) == Restrict(book, DOMAIN book \ {n})

With(b, n, p) == [m \in DOMAIN b \cup {n} |-> IF m = n THEN p ELSE b[m]]

(* Mutant: the first snapshot of an intent is never replaced. *)
RememberFirst(i, signal) ==
    lastSignal' = [lastSignal EXCEPT ![i] = IF @ = NoSignal THEN signal ELSE @]

Remember(i, signal) == lastSignal' = [lastSignal EXCEPT ![i] = signal]

(* Mutant: a sale closes the whole position. *)
Closed(s, q) == [position EXCEPT ![s] = 0]

Reduced(s, q) == [position EXCEPT ![s] = PositionApply(@, Sale(@, q))]

Opened(s, q) == [position EXCEPT ![s] = PositionApply(@, Opening(q))]

(* OrderLifecycle.create for an order of the book: it gets the next number. *)
Created(p) == OrderOf(SymbolOf[p.intent], p.side, p.qty, p.price, "PENDING")

(* Mutant: D4 is not told. *)
Unfinished(n, state) == orders

Finished(n, state) == OrderApply(orders, Ending(n, state))

(* _terminal: an order ends once. *)
MayEnd(n, state) == OrderAccepts(orders, Ending(n, state))

Ready == ~failed /\ ~loop.on

(* Mutant: a BUY is accepted for a symbol that is held. *)
AdmissibleAnyway(i, signal) ==
    /\ signal.side \in {"BUY", "SELL"}
    /\ signal.side = "SELL" => Held(SymbolOf[i])

(* submit_signal: a BUY opens, a SELL closes an existing long position.    *)
Admissible(i, signal) ==
    /\ signal.side \in {"BUY", "SELL"}
    /\ signal.side = "SELL" <=> Held(SymbolOf[i])

SubmitSignal(i, signal) ==
    /\ Ready
    /\ Len(orders) < MaxOrders
    /\ Admissible(i, signal)
    /\ PendingOf(i) = {}
    /\ LET p == PendingOrder(i, signal)
           n == Len(orders) + 1
       IN  /\ WellFormed(p)
           /\ orders' = OrderApply(orders, Creation(Created(p)))
           /\ book' = With(book, n, p)
    /\ Remember(i, signal)
    /\ UNCHANGED <<position, account, seen, failed, loop>>

(* The three outcomes of PaperRealtimeLifecycle.revalidate on order n.     *)
Keep(n, signal, market, now) ==
    LET i == book[n].intent
    IN  /\ Keeps(book[n], lastSignal[i], signal, market, now, Held(SymbolOf[i]))
        /\ Remember(i, signal)

Withdraw(n, signal, market, now) ==
    LET i == book[n].intent
    IN  /\ Withdraws(book[n], lastSignal[i], signal, market, now, Held(SymbolOf[i]))
        /\ MayEnd(n, "CANCELLED")
        /\ book' = Without(n)
        /\ orders' = Finished(n, "CANCELLED")
        /\ Remember(i, signal)

Reprice(n, signal, market, now) ==
    LET i == book[n].intent
        r == Replacement(book[n], signal)
        m == Len(orders) + 1
    IN  /\ Len(orders) < MaxOrders
        /\ Reprices(book[n], signal, market, now, Held(SymbolOf[i]))
        /\ WellFormed(r) /\ MayEnd(n, "REPLACED")
        /\ book' = With(Without(n), m, r)
        /\ orders' = OrderApply(Finished(n, "REPLACED"), Creation(Created(r)))
        /\ Remember(i, signal)

(* A new signal for an intent with a pending order. *)
Revalidate(i, signal, market, now) ==
    /\ Ready
    /\ \E n \in PendingOf(i) :
          \/ Keep(n, signal, market, now) /\ UNCHANGED <<orders, book>>
          \/ Withdraw(n, signal, market, now)
          \/ Reprice(n, signal, market, now)
    /\ UNCHANGED <<position, account, seen, failed, loop>>
-----------------------------------------------------------------------------
(* on_market_event takes in an event once; the pending orders of its       *)
(* symbol are visited in the order in which they were created.             *)
BeginEvent(e, s, market, now) ==
    /\ Ready
    /\ e \notin seen
    /\ seen' = seen \cup {e}
    /\ loop' = [on |-> TRUE, symbol |-> s, market |-> market, now |-> now,
                todo |-> {n \in DOMAIN book : SymbolOf[book[n].intent] = s}]
    /\ UNCHANGED <<runtime, failed>>

EndEvent ==
    /\ loop.on
    /\ loop.todo = {}
    /\ loop' = Idle
    /\ UNCHANGED <<runtime, seen, failed>>

Visits(n) ==
    /\ loop.on
    /\ n \in loop.todo
    /\ \A m \in loop.todo : n <= m

Visited(n) ==
    /\ loop' = [loop EXCEPT !.todo = @ \ {n}]
    /\ UNCHANGED <<seen, failed>>

Remembered(n) == lastSignal[book[n].intent]

(* _revalidate_before_fill, with the signal remembered for the intent. *)
VisitAndKeep(n) ==
    /\ Visits(n)
    /\ Keep(n, Remembered(n), loop.market, loop.now)
    /\ ~Fillable(book[n], loop.market, loop.now)
    /\ Visited(n)
    /\ UNCHANGED <<orders, book, position, account>>

VisitAndRevalidate(n) ==
    /\ Visits(n)
    /\ \/ Withdraw(n, Remembered(n), loop.market, loop.now)
       \/ Reprice(n, Remembered(n), loop.market, loop.now)
    /\ Visited(n)
    /\ UNCHANGED <<position, account>>

(* The order leaves the book and is FILLED before anything else happens.   *)
Match(n) ==
    /\ Visits(n)
    /\ Keep(n, Remembered(n), loop.market, loop.now)
    /\ Fillable(book[n], loop.market, loop.now)
    /\ FillFits(orders, n, book[n].qty)
    /\ book' = Without(n)
    /\ orders' = Finished(n, "FILLED")

BuyRecordable(p) == WalletOK(account) /\ BuyAllowed(account, p.qty, p.price)

SellRecordable(p, s) == WalletOK(account) /\ SellAllowed(account, s, p.qty)

FillBuy(n) ==
    LET p == book[n]
        s == loop.symbol
    IN  /\ Match(n)
        /\ p.side = "BUY"
        /\ PositionAccepts(position[s], Opening(p.qty))
        /\ BuyRecordable(p)
        /\ position' = Opened(s, p.qty)
        /\ account' = AfterBuy(account, s, p.qty, p.price)
        /\ Visited(n)

FillSell(n) ==
    LET p == book[n]
        s == loop.symbol
    IN  /\ Match(n)
        /\ p.side = "SELL"
        /\ p.qty <= position[s]
        /\ PositionAccepts(position[s], Sale(position[s], p.qty))
        /\ SellRecordable(p, s)
        /\ position' = Reduced(s, p.qty)
        /\ account' = AfterSell(account, s, p.qty, p.price)
        /\ Visited(n)

FailClosed ==
    /\ failed' = TRUE
    /\ loop' = Idle
    /\ UNCHANGED <<account, seen>>

(* The position or the ledger refuses what D4 already recorded as a fill:  *)
(* the exception leaves the loop, the orders not yet visited stay pending. *)
FillBuyFails(n) ==
    LET p == book[n]
        s == loop.symbol
    IN  /\ Match(n)
        /\ p.side = "BUY"
        /\ \/ Held(s) /\ UNCHANGED position
           \/ /\ ~Held(s) /\ ~BuyRecordable(p)
              /\ position' = Opened(s, p.qty)
        /\ FailClosed

FillSellFails(n) ==
    LET p == book[n]
        s == loop.symbol
    IN  /\ Match(n)
        /\ p.side = "SELL"
        /\ \/ p.qty > position[s] /\ UNCHANGED position
           \/ /\ p.qty <= position[s] /\ ~SellRecordable(p, s)
              /\ position' = Reduced(s, p.qty)
        /\ FailClosed

(* exit_position: an order that is created and filled in one call.  It is  *)
(* a method of the runtime and does not ask the supervisor.                *)
ExitPosition(s, price) ==
    /\ ~loop.on
    /\ Len(orders) < MaxOrders
    /\ Held(s)
    /\ LET exit == Creation(OrderOf(s, "SELL", position[s], price, "PENDING"))
       IN  /\ OrderAccepts(orders, exit)
           /\ orders' = OrderApply(OrderApply(orders, exit), Ending(Len(orders) + 1, "FILLED"))
    /\ position' = Reduced(s, position[s])
    /\ account' = IF SellRecordable([qty |-> position[s]], s)
                  THEN AfterSell(account, s, position[s], price)
                  ELSE account
    /\ UNCHANGED <<book, lastSignal, seen, failed, loop>>

Next ==
    \/ \E i \in Intents, signal \in Signals :
          \/ SubmitSignal(i, signal)
          \/ \E market \in Markets, now \in Times : Revalidate(i, signal, market, now)
    \/ \E e \in EventIds, s \in Symbols, market \in Markets, now \in Times :
          BeginEvent(e, s, market, now)
    \/ EndEvent
    \/ \E n \in 1 .. MaxOrders :
          \/ VisitAndKeep(n)
          \/ VisitAndRevalidate(n)
          \/ FillBuy(n)
          \/ FillSell(n)
          \/ FillBuyFails(n)
          \/ FillSellFails(n)
    \/ \E s \in Symbols, price \in Markets : ExitPosition(s, price)

Spec == Init /\ [][Next]_vars
-----------------------------------------------------------------------------
OrderRecord ==
    [symbol : Symbols, side : {"BUY", "SELL"}, qty : Nat \ {0}, price : Nat \ {0},
     state : OrderState]

BookRecord ==
    [intent : Intents, side : {"BUY", "SELL"}, price : Nat \ {0}, qty : Nat \ {0},
     expires : Nat, reprices : 0 .. MaxReprices, drift : 0 .. MaxDrift]

(* The shape of the state, which also bounds how often and how far the     *)
(* entry of a pending order was moved (RevalidationPolicy).                *)
TypeOK ==
    /\ orders \in Seq(OrderRecord)
    /\ Len(orders) <= MaxOrders
    /\ DOMAIN book \subseteq DOMAIN orders
    /\ \A n \in DOMAIN book : book[n] \in BookRecord
    /\ position \in [Symbols -> Nat]
    /\ lastSignal \in [Intents -> Signals \cup {NoSignal}]
    /\ seen \subseteq EventIds
    /\ failed \in BOOLEAN
    /\ loop.on => loop.symbol \in Symbols /\ loop.todo \subseteq DOMAIN book

(* Spec 10: for a symbol and strategy intent a stale order and its         *)
(* replacement never coexist.                                              *)
SingleIntent ==
    \A m, n \in DOMAIN book : book[m].intent = book[n].intent => m = n

(* D5's book and D4's order records describe the same pending orders, with *)
(* the same terms, through every submission, replacement, fill and failure.*)
BookMatchesOrders ==
    /\ DOMAIN book = {n \in DOMAIN orders : orders[n].state = "PENDING"}
    /\ \A n \in DOMAIN book : orders[n] = Created(book[n])

(* What a pending order asks for is what the last accepted signal of its   *)
(* intent asks for, up to a change too small to matter: without it the     *)
(* revalidation before a fill would compare against the wrong snapshot.    *)
BookFollowsSignal ==
    \A n \in DOMAIN book :
        LET signal == lastSignal[book[n].intent]
        IN  /\ signal # NoSignal
            /\ signal.side = book[n].side
            /\ ~Moved(signal.price, book[n].price)

SignedQty(n) == IF orders[n].side = "BUY" THEN orders[n].qty ELSE -orders[n].qty

FilledOf(s) == {n \in DOMAIN orders : orders[n].state = "FILLED" /\ orders[n].symbol = s}

(* Spec 13.2 and 13.6: while the runtime is healthy, the position book,    *)
(* the ledger and the sum of the filled orders agree on every holding.     *)
HoldingsAgree ==
    ~failed => \A s \in Symbols :
        /\ account.qty[s] = position[s]
        /\ position[s] = SumFunction([n \in FilledOf(s) |-> SignedQty(n)])

(* Taking in a market event never creates an order and never replaces one: *)
(* only a new signal reprices.  Recovery relies on it, because a number    *)
(* drawn for a replacement during an event would not be in its log.        *)
EventsNeverReprice ==
    [][loop.on => /\ Len(orders') = Len(orders)
                  /\ \A n \in DOMAIN orders :
                        orders'[n].state = "REPLACED" => orders[n].state = "REPLACED"]_vars

(* Spec 7 and 12.3: an order that a market event fills was touched by the  *)
(* price before its window closed, the signal it rests on was alive, not   *)
(* waiting and near the market, and a BUY met no open position.            *)
OnlyLiveOrdersFill ==
    [][\A n \in DOMAIN book :
          loop.on /\ orders'[n].state = "FILLED" =>
              LET p == book[n]
                  signal == lastSignal[p.intent]
              IN  /\ loop.now < p.expires /\ Touched(p, loop.market)
                  /\ ~Expired(signal, loop.now) /\ signal.decision # "WAIT"
                  /\ ~TooFar(signal.price, loop.market)
                  /\ p.side = "BUY" => ~Held(SymbolOf[p.intent])]_vars

(* The runtime implements the desk: the working order of an intent is the  *)
(* one in the book, what is held is what the position book says.           *)
TermsOf(o) == [side |-> o.side, price |-> o.price, qty |-> o.qty]

NoOrder == [side |-> "NONE", price |-> 0, qty |-> 0]

Working ==
    [i \in Intents |-> IF PendingOf(i) = {} THEN NoOrder
                       ELSE TermsOf(book[CHOOSE n \in PendingOf(i) : TRUE])]

Desk == INSTANCE OrderDesk WITH
            working <- Working, holding <- position, halted <- failed,
            Terms <- {TermsOf(o) : o \in Offers}

DeskSpec == Desk!Spec
=============================================================================
