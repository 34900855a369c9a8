-------------------------- MODULE PaperRuntimeProofs ---------------------------
(***************************************************************************)
(* Proofs about PaperRuntime for every set of intents, offers, times and   *)
(* prices and every revalidation policy and cost model that the            *)
(* assumptions of the modules it is built from allow.                      *)
(***************************************************************************)
EXTENDS PaperRuntime, FiniteSums, SequenceTheorems

(* The orders and the book without what surrounds them: the book holds     *)
(* exactly the pending orders, with their terms, one for each intent.      *)
Sound(q, b) ==
    /\ q \in Seq(OrderRecord)
    /\ \A n \in DOMAIN b : b[n] \in BookRecord
    /\ DOMAIN b = {n \in DOMAIN q : q[n].state = "PENDING"}
    /\ \A n \in DOMAIN b : q[n] = Created(b[n])
    /\ \A m, n \in DOMAIN b : b[m].intent = b[n].intent => m = n

(* What an order asks for is what the signal s asks for.                   *)
FollowsSignal(p, s) == s # NoSignal /\ s.side = p.side /\ ~Moved(s.price, p.price)

Follows(b, last) == \A n \in DOMAIN b : FollowsSignal(b[n], last[b[n].intent])

LoopRecord ==
    [on : {TRUE}, symbol : Symbols, market : Markets, now : Times, todo : SUBSET Nat]

(* An event is only handled while the runtime is healthy, and the orders   *)
(* still to be visited are pending orders of the event's symbol.           *)
LoopSound ==
    /\ loop \in LoopRecord \/ loop = Idle
    /\ loop.on =>
          /\ ~failed
          /\ \A n \in loop.todo : n \in DOMAIN book /\ SymbolOf[book[n].intent] = loop.symbol

IInv ==
    /\ Sound(orders, book)
    /\ Len(orders) <= MaxOrders
    /\ Follows(book, lastSignal)
    /\ position \in [Symbols -> Nat]
    /\ lastSignal \in [Intents -> Signals \cup {NoSignal}]
    /\ seen \subseteq EventIds
    /\ failed \in BOOLEAN
    /\ LoopSound
-----------------------------------------------------------------------------
SignalRecord ==
    [side : {"BUY", "SELL", "NONE"}, decision : {"TRADE", "WAIT"}, price : Nat \ {0},
     qty : Nat \ {0}, context : Nat, at : Nat]

LEMMA SignalType ==
    ASSUME NEW signal \in Signals
    PROVE  signal \in SignalRecord
BY RuntimeAssumption DEF Signals, Snapshot, SignalRecord

LEMMA BoundsType ==
    /\ MaxReprices \in Nat /\ MaxDrift \in Nat /\ MinChange \in Nat /\ MinChange > 0
    /\ Window \in Nat /\ SignalLife \in Nat /\ MaxOrders \in Nat
BY PolicyAssumption, RuntimeAssumption DEF ValidPolicy, ValidThreshold, ValidLife

(* A price has not moved from itself.                                      *)
LEMMA NotMovedFromItself ==
    ASSUME NEW price \in Nat \ {0}
    PROVE  ~Moved(price, price)
<1>1. Distance(price, price) = 0
  BY DEF Distance
<1>2. ASSUME NEW c \in Nat, c > 0 PROVE ~(100 * 0 >= c * price)
  <2>1. c * price > 0
    BY <1>2
  <2>2. QED
    BY <2>1
<1>3. QED
  BY <1>1, <1>2, BoundsType DEF Moved

(* An order built from a signal fits the book and follows the signal.      *)
LEMMA PendingOrderFits ==
    ASSUME NEW i \in Intents, NEW signal \in Signals, signal.side \in {"BUY", "SELL"}
    PROVE  LET p == PendingOrder(i, signal)
           IN  /\ p \in BookRecord
               /\ p.intent = i /\ TermsOf(p) = TermsOf(signal)
               /\ FollowsSignal(p, signal)
<1> DEFINE p == PendingOrder(i, signal)
<1>1. signal \in SignalRecord
  BY SignalType
<1>2. /\ p.intent = i /\ p.side = signal.side /\ p.price = signal.price /\ p.qty = signal.qty
  BY DEF PendingOrder
<1>3. p \in BookRecord
  BY <1>1, BoundsType DEF PendingOrder, BookRecord, SignalRecord
<1>4. signal # NoSignal
  BY NoSignalAssumption
<1>5. ~Moved(signal.price, p.price)
  BY <1>1, <1>2, NotMovedFromItself DEF SignalRecord
<1>6. TermsOf(p) = TermsOf(signal)
  BY <1>2 DEF TermsOf
<1>7. QED
  BY <1>2, <1>3, <1>4, <1>5, <1>6 DEF FollowsSignal

(* So does the replacement that the revalidation allows.                   *)
LEMMA ReplacementFits ==
    ASSUME NEW old \in BookRecord, NEW signal \in Signals, NEW market, NEW now, NEW held,
           Reprices(old, signal, market, now, held), WellFormed(Replacement(old, signal))
    PROVE  LET p == Replacement(old, signal)
           IN  /\ p \in BookRecord
               /\ p.intent = old.intent /\ p.side = old.side /\ TermsOf(p) = TermsOf(signal)
               /\ FollowsSignal(p, signal)
<1> DEFINE p == Replacement(old, signal)
           r == old.reprices + 1
           d == NextDrift(old, signal)
           f == PendingOrder(old.intent, signal)
<1>1. signal \in SignalRecord /\ old.intent \in Intents /\ signal.side = old.side
      /\ signal.side \in {"BUY", "SELL"}
  BY SignalType DEF BookRecord, Reprices, Invalid
<1>2. /\ f \in BookRecord /\ f.intent = old.intent /\ TermsOf(f) = TermsOf(signal)
      /\ FollowsSignal(f, signal) /\ f.side = signal.side
  BY <1>1, PendingOrderFits DEF PendingOrder
<1>3. p = [f EXCEPT !.reprices = r, !.drift = d]
  BY DEF Replacement
<1>4. /\ p.intent = f.intent /\ p.side = f.side /\ p.price = f.price /\ p.qty = f.qty
      /\ p.expires = f.expires /\ p.reprices = r /\ p.drift = d
  BY DEF Replacement, PendingOrder
<1>5. r \in 0 .. MaxReprices
  BY BoundsType DEF Reprices, BookRecord
<1>6. d \in Int
  <2>1. /\ old.drift \in Int /\ old.price \in Nat \ {0} /\ signal.price \in Nat
    BY <1>1, BoundsType DEF BookRecord, SignalRecord
  <2>2. Distance(signal.price, old.price) \in Nat
    BY <2>1 DEF Distance
  <2>3. QED
    BY <2>1, <2>2 DEF NextDrift
<1>7. d \in 0 .. MaxDrift
  BY <1>4, <1>6, BoundsType DEF Reprices, WellFormed
<1> HIDE DEF r, d, f
<1>8. p \in BookRecord
  BY <1>2, <1>3, <1>5, <1>7 DEF BookRecord
<1>9. TermsOf(p) = TermsOf(f) /\ FollowsSignal(p, signal)
  BY <1>2, <1>4 DEF TermsOf, FollowsSignal
<1>10. QED
  BY <1>1, <1>2, <1>4, <1>8, <1>9
-----------------------------------------------------------------------------
LEMMA CreatedType ==
    ASSUME NEW p \in BookRecord
    PROVE  /\ Created(p) \in OrderRecord
           /\ Created(p).state = "PENDING" /\ Created(p).symbol = SymbolOf[p.intent]
           /\ Created(p).side = p.side /\ Created(p).qty = p.qty /\ Created(p).price = p.price
BY RuntimeAssumption DEF Created, OrderOf, BookRecord, OrderRecord, OrderState

(* D4 appends the order as it was created.                                 *)
LEMMA CreationAppends ==
    ASSUME NEW q, NEW symbol, NEW side, NEW qty, NEW price
    PROVE  LET o == OrderOf(symbol, side, qty, price, "PENDING")
           IN  OrderApply(q, Creation(o)) = Append(q, o)
BY DEF OrderApply, Creation, OrderOf

Terminal == OrderState \ {"PENDING"}

LEMMA EndingMoves ==
    ASSUME NEW q, NEW n, NEW st \in Terminal
    PROVE  OrderApply(q, Ending(n, st)) = [q EXCEPT ![n].state = st]
<1>1. Ending(n, st).type = st /\ Ending(n, st).number = n /\ st # "CREATED"
  BY DEF Ending, Terminal, OrderState
<1>2. QED
  BY <1>1 DEF OrderApply

LEMMA OrderMoved ==
    ASSUME NEW q \in Seq(OrderRecord), NEW n \in DOMAIN q, NEW st \in OrderState
    PROVE  LET r == [q EXCEPT ![n].state = st]
           IN  /\ r \in Seq(OrderRecord) /\ DOMAIN r = DOMAIN q /\ Len(r) = Len(q)
               /\ r[n].state = st /\ r[n].symbol = q[n].symbol
               /\ r[n].side = q[n].side /\ r[n].qty = q[n].qty
               /\ \A m \in DOMAIN q \ {n} : r[m] = q[m]
<1> DEFINE x == [q[n] EXCEPT !.state = st]
           r == [q EXCEPT ![n] = x]
<1>1. q[n] \in OrderRecord
  OBVIOUS
<1>2. /\ x \in OrderRecord /\ x.symbol = q[n].symbol /\ x.state = st
      /\ x.side = q[n].side /\ x.qty = q[n].qty
  BY <1>1 DEF OrderRecord
<1> HIDE DEF x
<1>3. r \in Seq(OrderRecord) /\ DOMAIN r = DOMAIN q /\ Len(r) = Len(q)
  BY <1>2, ExceptSeq
<1>4. r[n] = x /\ \A m \in DOMAIN q \ {n} : r[m] = q[m]
  OBVIOUS
<1>5. QED
  BY <1>2, <1>3, <1>4 DEF x

LEMMA OrderAppended ==
    ASSUME NEW q \in Seq(OrderRecord), NEW x \in OrderRecord
    PROVE  /\ Append(q, x) \in Seq(OrderRecord) /\ Len(Append(q, x)) = Len(q) + 1
           /\ DOMAIN Append(q, x) = DOMAIN q \cup {Len(q) + 1}
           /\ Append(q, x)[Len(q) + 1] = x
           /\ \A n \in DOMAIN q : Append(q, x)[n] = q[n]
           /\ Len(q) + 1 \notin DOMAIN q /\ Len(q) + 1 \in Nat
OBVIOUS

(* The books r, c are the books q, b with order k added for p.             *)
Adds(q, b, k, p, r, c) ==
    /\ Sound(r, c) /\ k = Len(q) + 1 /\ Len(r) = k /\ k \notin DOMAIN q
    /\ DOMAIN r = DOMAIN q \cup {k} /\ r[k] = Created(p)
    /\ \A n \in DOMAIN q : r[n] = q[n]
    /\ DOMAIN c = DOMAIN b \cup {k} /\ c[k] = p
    /\ \A n \in DOMAIN b : c[n] = b[n]

(* The books r, c are the books q, b after order n ended as st.            *)
Ends(q, b, n, st, r, c) ==
    /\ Sound(r, c) /\ Len(r) = Len(q) /\ DOMAIN r = DOMAIN q
    /\ \A m \in DOMAIN q \ {n} : r[m] = q[m]
    /\ n \in DOMAIN q /\ r[n].state = st /\ r[n].symbol = q[n].symbol
    /\ r[n].side = q[n].side /\ r[n].qty = q[n].qty
    /\ DOMAIN c = DOMAIN b \ {n} /\ \A m \in DOMAIN c : c[m] = b[m]

(* An order of an intent without a pending one enters both books.          *)
LEMMA AddSound ==
    ASSUME NEW q, NEW b, Sound(q, b), NEW p \in BookRecord,
           \A n \in DOMAIN b : b[n].intent # p.intent,
           NEW k, k = Len(q) + 1,
           NEW r, r = OrderApply(q, Creation(Created(p))), NEW c, c = With(b, k, p)
    PROVE  Adds(q, b, k, p, r, c)
<1>1. q \in Seq(OrderRecord)
  BY DEF Sound
<1>2. r = Append(q, Created(p))
  BY CreationAppends DEF Created
<1>3. /\ Created(p) \in OrderRecord /\ Created(p).state = "PENDING"
  BY CreatedType
<1>4. /\ r \in Seq(OrderRecord) /\ Len(r) = Len(q) + 1 /\ DOMAIN r = DOMAIN q \cup {k}
      /\ r[k] = Created(p) /\ \A n \in DOMAIN q : r[n] = q[n]
      /\ k \notin DOMAIN q
  BY <1>1, <1>2, <1>3, OrderAppended
<1>5. DOMAIN b \subseteq DOMAIN q
  BY DEF Sound
<1>6. /\ DOMAIN c = DOMAIN b \cup {k} /\ c[k] = p /\ \A n \in DOMAIN b : c[n] = b[n]
  BY <1>4, <1>5 DEF With
<1>7. DOMAIN c = {n \in DOMAIN r : r[n].state = "PENDING"}
  BY ONLY Sound(q, b), <1>3, <1>4, <1>6 DEF Sound
<1>8. \A n \in DOMAIN c : c[n] \in BookRecord /\ r[n] = Created(c[n])
  BY <1>4, <1>5, <1>6 DEF Sound
<1>9. \A m, n \in DOMAIN c : c[m].intent = c[n].intent => m = n
  BY <1>6 DEF Sound
<1>10. Sound(r, c)
  BY <1>4, <1>7, <1>8, <1>9 DEF Sound
<1>11. QED
  BY <1>4, <1>6, <1>10 DEF Adds

(* An order that ends leaves both books.                                   *)
LEMMA EndSound ==
    ASSUME NEW q, NEW b, Sound(q, b), NEW n \in DOMAIN b, NEW st \in Terminal,
           NEW r, r = OrderApply(q, Ending(n, st)),
           NEW c, c = Restrict(b, DOMAIN b \ {n})
    PROVE  Ends(q, b, n, st, r, c)
<1>1. q \in Seq(OrderRecord) /\ n \in DOMAIN q /\ DOMAIN b \subseteq DOMAIN q
  BY DEF Sound
<1>2. st \in OrderState /\ st # "PENDING"
  BY DEF Terminal
<1>3. r = [q EXCEPT ![n].state = st]
  BY EndingMoves
<1>4. /\ r \in Seq(OrderRecord) /\ DOMAIN r = DOMAIN q /\ Len(r) = Len(q)
      /\ r[n].state = st /\ r[n].symbol = q[n].symbol
      /\ r[n].side = q[n].side /\ r[n].qty = q[n].qty
      /\ \A m \in DOMAIN q \ {n} : r[m] = q[m]
  BY <1>1, <1>2, <1>3, OrderMoved
<1>5. DOMAIN c = DOMAIN b \ {n} /\ \A m \in DOMAIN c : c[m] = b[m]
  BY DEF Restrict
<1>6. Sound(r, c)
  BY ONLY Sound(q, b), n \in DOMAIN b, <1>1, <1>2, <1>4, <1>5 DEF Sound
<1>7. QED
  BY <1>1, <1>4, <1>5, <1>6 DEF Ends
-----------------------------------------------------------------------------
SignalMemory == [Intents -> Signals \cup {NoSignal}]

(* A book whose orders of intent i rest on the new signal, and whose other *)
(* orders are old ones, follows the signals remembered afterwards.         *)
LEMMA FollowsAfter ==
    ASSUME NEW b, NEW last \in SignalMemory, Follows(b, last),
           NEW i \in Intents, NEW signal \in Signals, NEW c,
           \A n \in DOMAIN c : /\ c[n].intent \in Intents
                               /\ \/ c[n].intent = i /\ FollowsSignal(c[n], signal)
                                  \/ c[n].intent # i /\ n \in DOMAIN b /\ c[n] = b[n]
    PROVE  /\ Follows(c, [last EXCEPT ![i] = signal])
           /\ [last EXCEPT ![i] = signal] \in SignalMemory
<1> DEFINE new == [last EXCEPT ![i] = signal]
<1>1. /\ new \in SignalMemory /\ new[i] = signal
      /\ \A j \in Intents \ {i} : new[j] = last[j]
  BY DEF SignalMemory
<1> HIDE DEF new
<1>2. ASSUME NEW n \in DOMAIN c
      PROVE  FollowsSignal(c[n], new[c[n].intent])
  <2>1. CASE c[n].intent = i
    BY <1>1, <2>1
  <2>2. CASE c[n].intent # i
    BY <1>1, <2>2 DEF Follows
  <2>3. QED
    BY <2>1, <2>2
<1>3. Follows(c, new)
  BY <1>2 DEF Follows
<1>4. QED
  BY <1>1, <1>3 DEF new

(* What the book holds of an order.                                        *)
LEMMA InBook ==
    ASSUME IInv, NEW n \in DOMAIN book
    PROVE  /\ n \in DOMAIN orders /\ n \in Nat
           /\ book[n] \in BookRecord /\ book[n].intent \in Intents
           /\ orders[n] = Created(book[n]) /\ orders[n].state = "PENDING"
           /\ SymbolOf[book[n].intent] \in Symbols
           /\ \A m \in DOMAIN book : book[m].intent = book[n].intent => m = n
<1>1. /\ n \in DOMAIN orders /\ orders \in Seq(OrderRecord) /\ book[n] \in BookRecord
      /\ orders[n] = Created(book[n]) /\ orders[n].state = "PENDING"
      /\ \A m \in DOMAIN book : book[m].intent = book[n].intent => m = n
  BY DEF IInv, Sound
<1>2. n \in Nat
  BY <1>1
<1>3. book[n].intent \in Intents
  BY <1>1 DEF BookRecord
<1>4. QED
  BY <1>1, <1>2, <1>3, RuntimeAssumption

LEMMA KeepFollows ==
    ASSUME IInv, NEW n \in DOMAIN book, NEW signal \in Signals, NEW market, NEW now,
           Keep(n, signal, market, now)
    PROVE  Follows(book, lastSignal') /\ lastSignal' \in SignalMemory
<1> DEFINE i == book[n].intent
<1>1. /\ i \in Intents /\ \A m \in DOMAIN book : book[m].intent = i => m = n
  BY InBook
<1>2. FollowsSignal(book[n], signal)
  BY NoSignalAssumption DEF Keep, Keeps, Invalid, FollowsSignal
<1>3. lastSignal' = [lastSignal EXCEPT ![i] = signal]
  BY DEF Keep, Remember
<1>4. \A m \in DOMAIN book : book[m].intent \in Intents
  BY InBook
<1>5. Follows(book, lastSignal) /\ lastSignal \in SignalMemory
  BY DEF IInv, SignalMemory
<1> HIDE DEF i
<1>6. \A m \in DOMAIN book : /\ book[m].intent \in Intents
                             /\ \/ book[m].intent = i /\ FollowsSignal(book[m], signal)
                                \/ book[m].intent # i /\ m \in DOMAIN book /\ book[m] = book[m]
  BY <1>1, <1>2, <1>4
<1>7. QED
  BY <1>1, <1>3, <1>5, <1>6, FollowsAfter

(* What becomes of the books when order n ends.                            *)
OrderEnds(n, state) == Ends(orders, book, n, state, orders', book')

LEMMA LeavesBook ==
    ASSUME IInv, NEW n \in DOMAIN book, NEW state \in Terminal,
           orders' = Finished(n, state), book' = Without(n)
    PROVE  OrderEnds(n, state)
<1>1. Sound(orders, book)
  BY DEF IInv
<1>2. orders' = OrderApply(orders, Ending(n, state)) /\ book' = Restrict(book, DOMAIN book \ {n})
  BY DEF Finished, Without
<1>3. QED
  BY <1>1, <1>2, EndSound DEF OrderEnds

LEMMA WithdrawEnds ==
    ASSUME IInv, NEW n \in DOMAIN book, NEW signal \in Signals, NEW market, NEW now,
           Withdraw(n, signal, market, now)
    PROVE  OrderEnds(n, "CANCELLED") /\ Follows(book', lastSignal') /\ lastSignal' \in SignalMemory
<1> DEFINE i == book[n].intent
<1>1. "CANCELLED" \in Terminal
  BY DEF Terminal, OrderState
<1>2. OrderEnds(n, "CANCELLED")
  BY <1>1, LeavesBook DEF Withdraw
<1>3. lastSignal' = [lastSignal EXCEPT ![i] = signal]
  BY DEF Withdraw, Remember
<1>4. /\ i \in Intents /\ \A m \in DOMAIN book : book[m].intent \in Intents
      /\ \A m \in DOMAIN book : book[m].intent = i => m = n
  BY InBook
<1>5. Follows(book, lastSignal) /\ lastSignal \in SignalMemory
  BY DEF IInv, SignalMemory
<1> HIDE DEF i
<1>6. \A m \in DOMAIN book' : /\ book'[m].intent \in Intents
                              /\ book'[m].intent # i /\ m \in DOMAIN book /\ book'[m] = book[m]
  BY <1>2, <1>4 DEF OrderEnds, Ends
<1>7. Follows(book', [lastSignal EXCEPT ![i] = signal])
      /\ [lastSignal EXCEPT ![i] = signal] \in SignalMemory
  BY <1>4, <1>5, <1>6, FollowsAfter
<1>8. QED
  BY <1>2, <1>3, <1>7

(* A replaced order ends, and its replacement gets the next number.        *)
LEMMA RepriceReplaces ==
    ASSUME IInv, NEW n \in DOMAIN book, NEW signal \in Signals, NEW market, NEW now,
           Reprice(n, signal, market, now)
    PROVE  LET r == Replacement(book[n], signal)
           IN  /\ \E q, b : /\ Ends(orders, book, n, "REPLACED", q, b)
                             /\ Adds(q, b, Len(orders) + 1, r, orders', book')
               /\ Len(orders) < MaxOrders
               /\ r \in BookRecord /\ r.intent = book[n].intent /\ r.side = book[n].side
               /\ TermsOf(r) = TermsOf(signal)
               /\ Follows(book', lastSignal') /\ lastSignal' \in SignalMemory
<1> DEFINE i == book[n].intent
           m == Len(orders) + 1
           r == Replacement(book[n], signal)
           q == OrderApply(orders, Ending(n, "REPLACED"))
           b == Restrict(book, DOMAIN book \ {n})
<1>1. "REPLACED" \in Terminal
  BY DEF Terminal, OrderState
<1>2. Sound(orders, book)
  BY DEF IInv
<1>3. Ends(orders, book, n, "REPLACED", q, b)
  BY ONLY n \in DOMAIN book, <1>1, <1>2, EndSound
<1>4. /\ r \in BookRecord /\ r.intent = i /\ r.side = book[n].side
      /\ TermsOf(r) = TermsOf(signal) /\ FollowsSignal(r, signal)
  BY InBook, ReplacementFits DEF Reprice
<1>5. /\ orders' = OrderApply(q, Creation(Created(r))) /\ book' = With(b, m, r)
      /\ lastSignal' = [lastSignal EXCEPT ![i] = signal] /\ Len(orders) < MaxOrders
  BY DEF Reprice, Remember, Finished, Without
<1>6. /\ i \in Intents /\ \A k \in DOMAIN book : book[k].intent \in Intents
      /\ \A k \in DOMAIN book : book[k].intent = i => k = n
  BY InBook
<1> HIDE DEF i, m, r, q, b
<1>7. m = Len(q) + 1 /\ \A k \in DOMAIN b : b[k].intent # r.intent
  BY <1>3, <1>4, <1>6 DEF m, Ends
<1>8. Sound(q, b) /\ r \in BookRecord
  BY <1>3, <1>4 DEF Ends
<1>9. Adds(q, b, m, r, orders', book')
  BY ONLY <1>5, <1>7, <1>8, AddSound
<1>10. \A k \in DOMAIN book' : /\ book'[k].intent \in Intents
         /\ \/ book'[k].intent = i /\ FollowsSignal(book'[k], signal)
            \/ book'[k].intent # i /\ k \in DOMAIN book /\ book'[k] = book[k]
  BY <1>3, <1>4, <1>6, <1>9 DEF Ends, Adds
<1>11. Follows(book, lastSignal) /\ lastSignal \in SignalMemory
  BY DEF IInv, SignalMemory
<1>12. Follows(book', [lastSignal EXCEPT ![i] = signal])
       /\ [lastSignal EXCEPT ![i] = signal] \in SignalMemory
  BY <1>6, <1>10, <1>11, FollowsAfter
<1>13. QED
  BY <1>3, <1>4, <1>5, <1>9, <1>12 DEF m, r, i
-----------------------------------------------------------------------------
LEMMA PositionOpened ==
    ASSUME NEW q
    PROVE  \A h : PositionApply(h, Opening(q)) = q
BY DEF PositionApply, Opening

LEMMA PositionSold ==
    ASSUME NEW h \in Nat, NEW q \in Nat \ {0}, q <= h
    PROVE  PositionApply(h, Sale(h, q)) = h - q
<1>1. CASE q = h
  <2>1. Sale(h, q).type = "CLOSED"
    BY <1>1 DEF Sale
  <2>2. PositionApply(h, Sale(h, q)) = 0
    BY <2>1 DEF PositionApply
  <2>3. QED
    BY <1>1, <2>2
<1>2. CASE q # h
  <2>1. Sale(h, q).type = "REDUCE" /\ Sale(h, q).qty = q
    BY <1>2 DEF Sale
  <2>2. QED
    BY <2>1 DEF PositionApply
<1>3. QED
  BY <1>1, <1>2

(* A fill moves the position of its symbol by the quantity of the order.   *)
LEMMA PositionMoves ==
    ASSUME position \in [Symbols -> Nat], NEW s \in Symbols, NEW q \in Nat \ {0}
    PROVE  /\ Opened(s, q) = [position EXCEPT ![s] = q]
           /\ Opened(s, q) \in [Symbols -> Nat]
           /\ q <= position[s] => /\ Reduced(s, q) = [position EXCEPT ![s] = position[s] - q]
                                  /\ Reduced(s, q) \in [Symbols -> Nat]
<1>1. Opened(s, q) = [position EXCEPT ![s] = q]
  BY PositionOpened DEF Opened
<1>2. ASSUME q <= position[s]
      PROVE  Reduced(s, q) = [position EXCEPT ![s] = position[s] - q]
  BY <1>2, PositionSold DEF Reduced
<1>3. QED
  BY <1>1, <1>2

(* An order to visit is pending, of the event's symbol, and follows the    *)
(* signal it is revalidated with.                                          *)
LEMMA VisitFacts ==
    ASSUME IInv, NEW n, Visits(n)
    PROVE  /\ loop \in LoopRecord /\ loop.on /\ ~failed
           /\ n \in DOMAIN book /\ SymbolOf[book[n].intent] = loop.symbol
           /\ loop.symbol \in Symbols
           /\ Remembered(n) \in Signals
           /\ Remembered(n).side = book[n].side
           /\ ~Moved(Remembered(n).price, book[n].price)
<1>1. loop.on /\ n \in loop.todo
  BY DEF Visits
<1>2. loop # Idle
  BY <1>1 DEF Idle
<1>3. /\ loop \in LoopRecord /\ ~failed
      /\ n \in DOMAIN book /\ SymbolOf[book[n].intent] = loop.symbol
  BY <1>1, <1>2 DEF IInv, LoopSound
<1>4. loop.symbol \in Symbols
  BY <1>3 DEF LoopRecord
<1>5. FollowsSignal(book[n], Remembered(n))
  BY <1>3 DEF IInv, Follows, Remembered
<1>6. Remembered(n) \in Signals
  BY <1>3, <1>5, InBook DEF IInv, FollowsSignal, Remembered
<1>7. QED
  BY <1>1, <1>3, <1>4, <1>5, <1>6 DEF FollowsSignal

(* So an event replaces no order.                                          *)
LEMMA VisitsNeverReprice ==
    ASSUME IInv, NEW n, Visits(n), NEW market, NEW now
    PROVE  ~Reprice(n, Remembered(n), market, now)
BY VisitFacts DEF Reprice, Reprices

(* The orders that are left to be visited are still pending.               *)
LEMMA VisitedLoop ==
    ASSUME IInv, NEW n, Visits(n), Visited(n),
           DOMAIN book \ {n} \subseteq DOMAIN book',
           \A m \in DOMAIN book \ {n} : book'[m] = book[m]
    PROVE  LoopSound' /\ seen' \subseteq EventIds /\ failed' \in BOOLEAN
<1>1. /\ loop \in LoopRecord /\ ~failed /\ failed' = failed /\ seen' = seen
      /\ loop' = [loop EXCEPT !.todo = @ \ {n}]
  BY VisitFacts DEF Visited
<1>2. /\ loop' \in LoopRecord /\ loop'.todo = loop.todo \ {n} /\ loop'.symbol = loop.symbol
  BY <1>1 DEF LoopRecord
<1>3. \A m \in loop.todo : m \in DOMAIN book /\ SymbolOf[book[m].intent] = loop.symbol
  BY <1>1 DEF IInv, LoopSound, LoopRecord
<1>4. \A m \in loop'.todo : m \in DOMAIN book' /\ SymbolOf[book'[m].intent] = loop'.symbol
  BY <1>2, <1>3
<1>5. LoopSound'
  BY <1>1, <1>2, <1>4 DEF LoopSound
<1>6. QED
  BY <1>1, <1>5 DEF IInv

(* A match takes the order out of the book and records its fill.           *)
LEMMA MatchEnds ==
    ASSUME IInv, NEW n, Match(n)
    PROVE  /\ OrderEnds(n, "FILLED")
           /\ Follows(book', lastSignal') /\ lastSignal' \in SignalMemory
<1>1. Visits(n) /\ n \in DOMAIN book /\ Remembered(n) \in Signals
  BY VisitFacts DEF Match
<1>2. "FILLED" \in Terminal
  BY DEF Terminal, OrderState
<1>3. OrderEnds(n, "FILLED")
  BY <1>1, <1>2, LeavesBook DEF Match
<1>4. Follows(book, lastSignal') /\ lastSignal' \in SignalMemory
  BY <1>1, KeepFollows DEF Match
<1>5. \A m \in DOMAIN book' : m \in DOMAIN book /\ book'[m] = book[m]
  BY <1>3 DEF OrderEnds, Ends
<1>6. Follows(book', lastSignal')
  BY <1>4, <1>5 DEF Follows
<1>7. QED
  BY <1>3, <1>4, <1>6

(* An exit is an order that is created and filled in one call.             *)
Exits(q, b, k, o, r) ==
    /\ Sound(r, b) /\ k = Len(q) + 1 /\ Len(r) = k /\ k \notin DOMAIN q
    /\ DOMAIN r = DOMAIN q \cup {k} /\ \A n \in DOMAIN q : r[n] = q[n]
    /\ r[k].state = "FILLED" /\ r[k].symbol = o.symbol
    /\ r[k].side = o.side /\ r[k].qty = o.qty

LEMMA ExitSound ==
    ASSUME NEW q, NEW b, Sound(q, b), NEW o \in OrderRecord, NEW k, k = Len(q) + 1,
           NEW r, r = OrderApply(Append(q, o), Ending(k, "FILLED"))
    PROVE  Exits(q, b, k, o, r)
<1>1. q \in Seq(OrderRecord)
  BY DEF Sound
<1> DEFINE a == Append(q, o)
<1>2. /\ a \in Seq(OrderRecord) /\ Len(a) = k /\ DOMAIN a = DOMAIN q \cup {k}
      /\ a[k] = o /\ \A n \in DOMAIN q : a[n] = q[n]
      /\ k \notin DOMAIN q
  BY <1>1, OrderAppended
<1>3. "FILLED" \in Terminal /\ "FILLED" \in OrderState
  BY DEF Terminal, OrderState
<1> HIDE DEF a
<1>4. r = [a EXCEPT ![k].state = "FILLED"]
  <2>1. r = OrderApply(a, Ending(k, "FILLED"))
    BY DEF a
  <2>2. QED
    BY ONLY <1>3, <2>1, EndingMoves
<1>5. /\ r \in Seq(OrderRecord) /\ DOMAIN r = DOMAIN a /\ Len(r) = Len(a)
      /\ r[k].state = "FILLED" /\ r[k].symbol = o.symbol
      /\ r[k].side = o.side /\ r[k].qty = o.qty
      /\ \A m \in DOMAIN a \ {k} : r[m] = a[m]
  BY <1>2, <1>3, <1>4, OrderMoved
<1>6. \A n \in DOMAIN q : r[n] = q[n]
  BY <1>2, <1>5
<1>7. DOMAIN r = DOMAIN q \cup {k}
  BY <1>2, <1>5
<1>8. Sound(r, b)
  BY ONLY Sound(q, b), <1>2, <1>5, <1>6, <1>7 DEF Sound
<1>9. QED
  BY <1>2, <1>5, <1>6, <1>7, <1>8 DEF Exits
-----------------------------------------------------------------------------
(* Nothing but a visit has an order to visit.                              *)
LEMMA NoLoopSound ==
    ASSUME IInv, ~loop.on, UNCHANGED loop
    PROVE  LoopSound'
BY DEF IInv, LoopSound

LEMMA SubmitKeepsIInv ==
    ASSUME IInv, NEW i \in Intents, NEW signal \in Signals, SubmitSignal(i, signal)
    PROVE  IInv' /\ Adds(orders, book, Len(orders) + 1, PendingOrder(i, signal), orders', book')
<1> DEFINE p == PendingOrder(i, signal)
           k == Len(orders) + 1
<1>1. Sound(orders, book) /\ signal.side \in {"BUY", "SELL"} /\ Len(orders) < MaxOrders
  BY DEF IInv, SubmitSignal, Admissible
<1>2. p \in BookRecord /\ p.intent = i /\ FollowsSignal(p, signal)
  BY <1>1, PendingOrderFits
<1>3. /\ orders' = OrderApply(orders, Creation(Created(p))) /\ book' = With(book, k, p)
      /\ lastSignal' = [lastSignal EXCEPT ![i] = signal]
      /\ UNCHANGED <<position, seen, failed, loop>> /\ ~loop.on
  BY DEF SubmitSignal, Remember, Ready
<1>4. \A n \in DOMAIN book : book[n].intent # i
  BY DEF SubmitSignal, PendingOf
<1>5. \A n \in DOMAIN book : book[n].intent \in Intents
  BY InBook
<1> HIDE DEF p, k
<1>6. Adds(orders, book, k, p, orders', book')
  <2>1. k = Len(orders) + 1 /\ \A n \in DOMAIN book : book[n].intent # p.intent
    BY <1>2, <1>4 DEF k
  <2> Sound(orders, book) /\ p \in BookRecord
    BY <1>1, <1>2
  <2>2. QED
    BY ONLY <2>1, Sound(orders, book), p \in BookRecord, <1>3, AddSound
<1>7. \A n \in DOMAIN book' : /\ book'[n].intent \in Intents
         /\ \/ book'[n].intent = i /\ FollowsSignal(book'[n], signal)
            \/ book'[n].intent # i /\ n \in DOMAIN book /\ book'[n] = book[n]
  BY <1>2, <1>4, <1>5, <1>6 DEF Adds
<1>8. Follows(book, lastSignal) /\ lastSignal \in SignalMemory
  BY DEF IInv, SignalMemory
<1>9. Follows(book', lastSignal') /\ lastSignal' \in SignalMemory
  <2>1. Follows(book', [lastSignal EXCEPT ![i] = signal])
        /\ [lastSignal EXCEPT ![i] = signal] \in SignalMemory
    BY <1>7, <1>8, FollowsAfter
  <2>2. QED
    BY <1>3, <2>1
<1>10. LoopSound'
  BY <1>3, NoLoopSound
<1>11. Len(orders') <= MaxOrders
  BY <1>1, <1>6, BoundsType, LenProperties DEF Adds, Sound
<1>12. Sound(orders', book')
  BY <1>6 DEF Adds
<1>13. IInv'
  BY <1>3, <1>9, <1>10, <1>11, <1>12 DEF IInv, SignalMemory
<1>14. QED
  BY <1>6, <1>13 DEF k, p

(* An order that ends leaves the bound on the number of orders.            *)
LEMMA EndKeepsBound ==
    ASSUME IInv, NEW n, NEW st, OrderEnds(n, st)
    PROVE  Sound(orders', book') /\ Len(orders') <= MaxOrders
BY DEF IInv, OrderEnds, Ends

LEMMA RepriceKeepsBound ==
    ASSUME IInv, NEW n \in DOMAIN book, NEW signal \in Signals, NEW market, NEW now,
           Reprice(n, signal, market, now)
    PROVE  Sound(orders', book') /\ Len(orders') <= MaxOrders
<1>1. PICK q, b : /\ Ends(orders, book, n, "REPLACED", q, b)
                  /\ Adds(q, b, Len(orders) + 1, Replacement(book[n], signal), orders', book')
  BY RepriceReplaces
<1>2. Len(orders) \in Nat /\ Len(orders) < MaxOrders
  BY RepriceReplaces, LenProperties DEF IInv, Sound
<1>3. QED
  BY <1>1, <1>2, BoundsType DEF Adds

LEMMA RevalidateKeepsIInv ==
    ASSUME IInv, NEW i \in Intents, NEW signal \in Signals, NEW market, NEW now,
           Revalidate(i, signal, market, now)
    PROVE  IInv'
<1>1. ~loop.on /\ UNCHANGED <<position, seen, failed, loop>>
  BY DEF Revalidate, Ready
<1>2. LoopSound'
  BY <1>1, NoLoopSound
<1>3. PICK n \in PendingOf(i) :
          \/ Keep(n, signal, market, now) /\ UNCHANGED <<orders, book>>
          \/ Withdraw(n, signal, market, now)
          \/ Reprice(n, signal, market, now)
  BY DEF Revalidate
<1>4. n \in DOMAIN book
  BY DEF PendingOf
<1>5. /\ Sound(orders', book') /\ Len(orders') <= MaxOrders
      /\ Follows(book', lastSignal') /\ lastSignal' \in SignalMemory
  <2>1. CASE Keep(n, signal, market, now) /\ UNCHANGED <<orders, book>>
    <3>1. Follows(book, lastSignal') /\ lastSignal' \in SignalMemory
      BY <1>4, <2>1, KeepFollows
    <3>2. QED
      BY <2>1, <3>1 DEF IInv
  <2>2. CASE Withdraw(n, signal, market, now)
    BY <1>4, <2>2, WithdrawEnds, EndKeepsBound
  <2>3. CASE Reprice(n, signal, market, now)
    BY <1>4, <2>3, RepriceReplaces, RepriceKeepsBound
  <2>4. QED
    BY <1>3, <2>1, <2>2, <2>3
<1>6. QED
  BY <1>1, <1>2, <1>5 DEF IInv, SignalMemory

LEMMA BeginEventKeepsIInv ==
    ASSUME IInv, NEW e \in EventIds, NEW s \in Symbols, NEW market \in Markets,
           NEW now \in Times, BeginEvent(e, s, market, now)
    PROVE  IInv'
<1>1. UNCHANGED <<orders, book, position, lastSignal, failed>> /\ ~failed /\ seen' = seen \cup {e}
  BY DEF BeginEvent, Ready, runtime
<1>2. /\ loop'.on = TRUE /\ loop'.symbol = s
      /\ loop'.todo = {n \in DOMAIN book : SymbolOf[book[n].intent] = s}
      /\ loop' = [on |-> TRUE, symbol |-> s, market |-> market, now |-> now, todo |-> loop'.todo]
  BY DEF BeginEvent
<1>3. loop'.todo \subseteq Nat
  BY <1>2, InBook
<1>4. loop' \in LoopRecord
  <2> DEFINE todo == {n \in DOMAIN book : SymbolOf[book[n].intent] = s}
  <2>1. todo \in SUBSET Nat
    BY <1>2, <1>3
  <2>2. loop' = [on |-> TRUE, symbol |-> s, market |-> market, now |-> now, todo |-> todo]
    BY DEF BeginEvent
  <2> HIDE DEF todo
  <2>3. QED
    BY <2>1, <2>2 DEF LoopRecord
<1>5. LoopSound'
  BY <1>1, <1>2, <1>4 DEF LoopSound
<1>6. QED
  BY <1>1, <1>5 DEF IInv

LEMMA EndEventKeepsIInv ==
    ASSUME IInv, EndEvent
    PROVE  IInv'
BY DEF IInv, EndEvent, runtime, LoopSound, Idle

LEMMA VisitAndKeepKeepsIInv ==
    ASSUME IInv, NEW n, VisitAndKeep(n)
    PROVE  IInv'
<1>1. Visits(n) /\ Visited(n) /\ UNCHANGED <<orders, book, position>>
  BY DEF VisitAndKeep
<1>2. LoopSound' /\ seen' \subseteq EventIds /\ failed' \in BOOLEAN
  BY <1>1, VisitedLoop
<1>3. n \in DOMAIN book /\ Remembered(n) \in Signals
  BY <1>1, VisitFacts
<1>4. Follows(book, lastSignal') /\ lastSignal' \in SignalMemory
  BY <1>3, KeepFollows DEF VisitAndKeep
<1>5. QED
  BY <1>1, <1>2, <1>4 DEF IInv, SignalMemory

(* A visit that does not fill the order keeps it or withdraws it.          *)
LEMMA VisitAndRevalidateKeepsIInv ==
    ASSUME IInv, NEW n, VisitAndRevalidate(n)
    PROVE  IInv' /\ n \in DOMAIN book /\ OrderEnds(n, "CANCELLED")
<1>1. Visits(n) /\ Visited(n) /\ UNCHANGED position
  BY DEF VisitAndRevalidate
<1>2. n \in DOMAIN book /\ Remembered(n) \in Signals
  BY <1>1, VisitFacts
<1>3. Withdraw(n, Remembered(n), loop.market, loop.now)
  BY <1>1, VisitsNeverReprice DEF VisitAndRevalidate
<1>4. OrderEnds(n, "CANCELLED") /\ Follows(book', lastSignal') /\ lastSignal' \in SignalMemory
  BY <1>2, <1>3, WithdrawEnds
<1>5. LoopSound' /\ seen' \subseteq EventIds /\ failed' \in BOOLEAN
  BY <1>1, <1>4, VisitedLoop DEF OrderEnds, Ends
<1>6. Sound(orders', book') /\ Len(orders') <= MaxOrders
  BY <1>4, EndKeepsBound
<1>7. QED
  BY <1>1, <1>2, <1>4, <1>5, <1>6 DEF IInv, SignalMemory

(* A match whose rest moves the position and goes on, or fails closed.     *)
LEMMA MatchKeepsIInv ==
    ASSUME IInv, NEW n, Match(n), position' \in [Symbols -> Nat],
           Visited(n) \/ FailClosed
    PROVE  IInv'
<1>1. Visits(n)
  BY DEF Match
<1>2. OrderEnds(n, "FILLED") /\ Follows(book', lastSignal') /\ lastSignal' \in SignalMemory
  BY MatchEnds
<1>3. Sound(orders', book') /\ Len(orders') <= MaxOrders
  BY <1>2, EndKeepsBound
<1>4. LoopSound' /\ seen' \subseteq EventIds /\ failed' \in BOOLEAN
  <2>1. CASE Visited(n)
    BY <1>1, <1>2, <2>1, VisitedLoop DEF OrderEnds, Ends
  <2>2. CASE FailClosed
    BY <2>2 DEF FailClosed, IInv, LoopSound, Idle
  <2>3. QED
    BY <2>1, <2>2
<1>5. QED
  BY <1>2, <1>3, <1>4 DEF IInv, SignalMemory

(* What a fill does to the position, and which order it fills.             *)
LEMMA FillFacts ==
    ASSUME IInv, NEW n, Match(n)
    PROVE  /\ n \in DOMAIN book /\ loop.symbol \in Symbols
           /\ SymbolOf[book[n].intent] = loop.symbol
           /\ book[n].qty \in Nat \ {0} /\ book[n].price \in Nat \ {0}
           /\ position \in [Symbols -> Nat]
<1>1. n \in DOMAIN book /\ loop.symbol \in Symbols /\ SymbolOf[book[n].intent] = loop.symbol
  BY VisitFacts DEF Match
<1>2. book[n] \in BookRecord
  BY <1>1, InBook
<1>3. QED
  BY <1>1, <1>2 DEF BookRecord, IInv

LEMMA FillsKeepIInv ==
    ASSUME IInv, NEW n, FillBuy(n) \/ FillSell(n) \/ FillBuyFails(n) \/ FillSellFails(n)
    PROVE  IInv'
<1>1. Match(n) /\ (Visited(n) \/ FailClosed)
  BY DEF FillBuy, FillSell, FillBuyFails, FillSellFails
<1>2. position' \in [Symbols -> Nat]
  BY <1>1, FillFacts, PositionMoves DEF FillBuy, FillSell, FillBuyFails, FillSellFails
<1>3. QED
  BY <1>1, <1>2, MatchKeepsIInv

(* exit_position: the order it fills is new, the position it closes gone.  *)
LEMMA ExitKeepsIInv ==
    ASSUME IInv, NEW s \in Symbols, NEW price \in Markets, ExitPosition(s, price)
    PROVE  LET o == OrderOf(s, "SELL", position[s], price, "PENDING")
           IN  /\ IInv' /\ o \in OrderRecord
               /\ Exits(orders, book, Len(orders) + 1, o, orders')
               /\ position' = [position EXCEPT ![s] = 0]
<1> DEFINE o == OrderOf(s, "SELL", position[s], price, "PENDING")
           k == Len(orders) + 1
<1>1. /\ ~loop.on /\ Len(orders) < MaxOrders /\ UNCHANGED <<book, lastSignal, seen, failed, loop>>
      /\ position[s] > 0
  BY DEF ExitPosition, Held
<1>2. Sound(orders, book) /\ position[s] \in Nat \ {0} /\ price \in Nat \ {0}
  BY <1>1, RuntimeAssumption DEF IInv
<1>3. o \in OrderRecord
  BY <1>2 DEF OrderOf, OrderRecord, OrderState
<1>4. orders' = OrderApply(Append(orders, o), Ending(k, "FILLED"))
  BY CreationAppends DEF ExitPosition
<1>5. position' = [position EXCEPT ![s] = 0]
  <2>1. position' = Reduced(s, position[s])
    BY DEF ExitPosition
  <2>2. position \in [Symbols -> Nat] /\ position[s] <= position[s]
    BY <1>2 DEF IInv
  <2>3. Reduced(s, position[s]) = [position EXCEPT ![s] = position[s] - position[s]]
    BY <1>2, <2>2, PositionMoves
  <2>4. position[s] - position[s] = 0
    BY <2>2
  <2>5. QED
    BY <2>1, <2>3, <2>4
<1> HIDE DEF o
<1>6. Exits(orders, book, k, o, orders')
  BY <1>2, <1>3, <1>4, ExitSound
<1>7. LoopSound'
  BY <1>1, NoLoopSound
<1>8. Sound(orders', book') /\ Len(orders') <= MaxOrders
  BY <1>1, <1>6, BoundsType, LenProperties DEF Exits, Sound, IInv
<1>9. position' \in [Symbols -> Nat]
  BY <1>5 DEF IInv
<1>10. IInv'
  BY <1>1, <1>7, <1>8, <1>9 DEF IInv
<1>11. QED
  BY <1>3, <1>5, <1>6, <1>10 DEF o
-----------------------------------------------------------------------------
LEMMA InitIInv == Init => IInv
<1> SUFFICES ASSUME Init PROVE IInv
  OBVIOUS
<1>1. Sound(orders, book)
  BY DEF Init, Sound
<1>2. Len(orders) <= MaxOrders
  BY BoundsType DEF Init
<1>3. Follows(book, lastSignal)
  BY DEF Init, Follows
<1>4. QED
  BY <1>1, <1>2, <1>3 DEF Init, IInv, LoopSound, Idle

LEMMA StepKeepsIInv == IInv /\ [Next]_vars => IInv'
<1> SUFFICES ASSUME IInv, [Next]_vars PROVE IInv'
  OBVIOUS
<1>1. ASSUME NEW i \in Intents, NEW signal \in Signals, SubmitSignal(i, signal)
      PROVE  IInv'
  BY <1>1, SubmitKeepsIInv
<1>2. ASSUME NEW i \in Intents, NEW signal \in Signals, NEW market \in Markets,
             NEW now \in Times, Revalidate(i, signal, market, now)
      PROVE  IInv'
  BY <1>2, RevalidateKeepsIInv
<1>3. ASSUME NEW e \in EventIds, NEW s \in Symbols, NEW market \in Markets,
             NEW now \in Times, BeginEvent(e, s, market, now)
      PROVE  IInv'
  BY <1>3, BeginEventKeepsIInv
<1>4. CASE EndEvent
  BY <1>4, EndEventKeepsIInv
<1>5. ASSUME NEW n, VisitAndKeep(n)
      PROVE  IInv'
  BY <1>5, VisitAndKeepKeepsIInv
<1>6. ASSUME NEW n, VisitAndRevalidate(n)
      PROVE  IInv'
  BY <1>6, VisitAndRevalidateKeepsIInv
<1>7. ASSUME NEW n, FillBuy(n) \/ FillSell(n) \/ FillBuyFails(n) \/ FillSellFails(n)
      PROVE  IInv'
  BY <1>7, FillsKeepIInv
<1>8. ASSUME NEW s \in Symbols, NEW price \in Markets, ExitPosition(s, price)
      PROVE  IInv'
  BY <1>8, ExitKeepsIInv
<1>9. CASE UNCHANGED vars
  BY <1>9 DEF vars, IInv, LoopSound
<1>10. QED
  BY <1>1, <1>2, <1>3, <1>4, <1>5, <1>6, <1>7, <1>8, <1>9 DEF Next

LEMMA IInvAlways == Spec => []IInv
<1>1. QED
  BY InitIInv, StepKeepsIInv, PTL DEF Spec

(* The state keeps its shape, which bounds how often and how far the entry *)
(* of an order is moved (RevalidationPolicy).                              *)
THEOREM TypeCorrect == Spec => []TypeOK
<1>1. IInv => TypeOK
  <2> SUFFICES ASSUME IInv PROVE TypeOK
    OBVIOUS
  <2>1. loop.on => loop.symbol \in Symbols /\ loop.todo \subseteq DOMAIN book
    <3> SUFFICES ASSUME loop.on PROVE loop.symbol \in Symbols /\ loop.todo \subseteq DOMAIN book
      OBVIOUS
    <3>1. loop \in LoopRecord /\ \A n \in loop.todo : n \in DOMAIN book
      BY DEF IInv, LoopSound, Idle
    <3>2. loop.symbol \in Symbols
      BY <3>1 DEF LoopRecord
    <3>3. QED
      BY <3>1, <3>2
  <2>2. QED
    BY <2>1 DEF IInv, Sound, TypeOK
<1>2. QED
  BY <1>1, IInvAlways, PTL

(* Spec 10: a stale order and its replacement never coexist, whatever      *)
(* signals and events interleave.                                          *)
THEOREM IntentsStaySingle == Spec => []SingleIntent
<1>1. IInv => SingleIntent
  BY DEF IInv, Sound, SingleIntent
<1>2. QED
  BY <1>1, IInvAlways, PTL

(* The book of pending orders (D5) and the order records (D4) describe the *)
(* same orders through every submission, replacement, fill and failure.    *)
THEOREM BooksMatch == Spec => []BookMatchesOrders
<1>1. IInv => BookMatchesOrders
  BY DEF IInv, Sound, BookMatchesOrders
<1>2. QED
  BY <1>1, IInvAlways, PTL

(* The signal a pending order is compared with before its fill is one that *)
(* asks for that order.                                                    *)
THEOREM OrdersFollowSignals == Spec => []BookFollowsSignal
<1>1. IInv => BookFollowsSignal
  BY DEF IInv, Follows, FollowsSignal, BookFollowsSignal
<1>2. QED
  BY <1>1, IInvAlways, PTL
-----------------------------------------------------------------------------
(* A step while an event is handled ends at most one order of the book: it *)
(* is cancelled or matched, and no order is created.                       *)
LEMMA EventSteps ==
    ASSUME IInv, Next, loop.on
    PROVE  \/ orders' = orders
           \/ \E n \in DOMAIN book : \/ OrderEnds(n, "CANCELLED")
                                     \/ OrderEnds(n, "FILLED") /\ Match(n)
<1>1. ASSUME NEW n, VisitAndRevalidate(n)
      PROVE  n \in DOMAIN book /\ OrderEnds(n, "CANCELLED")
  BY <1>1, VisitAndRevalidateKeepsIInv
<1>2. ASSUME NEW n, FillBuy(n) \/ FillSell(n) \/ FillBuyFails(n) \/ FillSellFails(n)
      PROVE  n \in DOMAIN book /\ OrderEnds(n, "FILLED") /\ Match(n)
  BY <1>2, MatchEnds, FillFacts DEF FillBuy, FillSell, FillBuyFails, FillSellFails
<1>3. ASSUME NEW n, VisitAndKeep(n)
      PROVE  orders' = orders
  BY <1>3 DEF VisitAndKeep
<1>4. EndEvent => orders' = orders
  BY DEF EndEvent, runtime
<1>5. QED
  BY <1>1, <1>2, <1>3, <1>4
     DEF Next, SubmitSignal, Revalidate, BeginEvent, ExitPosition, Ready

(* Taking in a market event never creates an order and never replaces one. *)
THEOREM EventsRepriceNothing == Spec => EventsNeverReprice
<1> DEFINE A == loop.on => /\ Len(orders') = Len(orders)
                           /\ \A n \in DOMAIN orders :
                                 orders'[n].state = "REPLACED" => orders[n].state = "REPLACED"
<1>1. IInv /\ [Next]_vars => [A]_vars
  <2> SUFFICES ASSUME IInv, Next, loop.on PROVE A
    BY DEF A
  <2>1. CASE orders' = orders
    BY <2>1
  <2>2. ASSUME NEW n \in DOMAIN book, NEW st \in {"CANCELLED", "FILLED"}, OrderEnds(n, st)
        PROVE  A
    BY <2>2 DEF OrderEnds, Ends
  <2>3. QED
    BY <2>1, <2>2, EventSteps
<1>2. QED
  BY <1>1, IInvAlways, PTL DEF Spec, EventsNeverReprice

(* Spec 7 and 12.3: an order that a market event fills was touched by the  *)
(* price in time, on a live signal near the market, and a BUY met no open  *)
(* position.                                                               *)
THEOREM FillsAreLive == Spec => OnlyLiveOrdersFill
<1> DEFINE Live(n) ==
        LET p == book[n]
            signal == lastSignal[p.intent]
        IN  /\ loop.now < p.expires /\ Touched(p, loop.market)
            /\ ~Expired(signal, loop.now) /\ signal.decision # "WAIT"
            /\ ~TooFar(signal.price, loop.market)
            /\ p.side = "BUY" => ~Held(SymbolOf[p.intent])
           A == \A n \in DOMAIN book : loop.on /\ orders'[n].state = "FILLED" => Live(n)
<1>1. ASSUME NEW n, Match(n)
      PROVE  Live(n)
  BY <1>1 DEF Match, Keep, Keeps, Invalid, Remembered, Fillable
<1> HIDE DEF Live
<1>2. IInv /\ [Next]_vars => [A]_vars
  <2> SUFFICES ASSUME IInv, Next, NEW n \in DOMAIN book, loop.on, orders'[n].state = "FILLED"
               PROVE  Live(n)
    BY DEF A
  <2>1. orders[n].state = "PENDING" /\ n \in DOMAIN orders
    BY InBook
  <2>2. PICK m \in DOMAIN book : \/ OrderEnds(m, "CANCELLED")
                                 \/ OrderEnds(m, "FILLED") /\ Match(m)
    BY <2>1, EventSteps
  <2>3. m = n
    BY <2>1, <2>2 DEF OrderEnds, Ends
  <2>4. QED
    BY <1>1, <2>2, <2>3 DEF OrderEnds, Ends
<1>3. Spec => [][A]_vars
  BY <1>2, IInvAlways, PTL DEF Spec
<1>4. QED
  BY <1>3, PTL DEF Live, OnlyLiveOrdersFill
-----------------------------------------------------------------------------
(* The working orders of a book, one for each intent.                      *)
WorkingIn(b) ==
    [i \in Intents |-> LET p == {n \in DOMAIN b : b[n].intent = i}
                       IN  IF p = {} THEN NoOrder ELSE TermsOf(b[CHOOSE n \in p : TRUE])]

LEMMA WorkingIsIn == Working = WorkingIn(book) /\ Working' = WorkingIn(book')
BY DEF Working, WorkingIn, PendingOf

LEMMA WorkingOf ==
    ASSUME NEW q, NEW b, Sound(q, b)
    PROVE  /\ \A n \in DOMAIN b : /\ b[n].intent \in Intents
                                  /\ WorkingIn(b)[b[n].intent] = TermsOf(b[n])
                                  /\ TermsOf(b[n]) # NoOrder
           /\ \A i \in Intents : (\A n \in DOMAIN b : b[n].intent # i) => WorkingIn(b)[i] = NoOrder
<1>1. ASSUME NEW n \in DOMAIN b
      PROVE  /\ b[n].intent \in Intents
             /\ WorkingIn(b)[b[n].intent] = TermsOf(b[n])
             /\ TermsOf(b[n]) # NoOrder
  <2> DEFINE i == b[n].intent
             P == {m \in DOMAIN b : b[m].intent = i}
  <2>1. b[n] \in BookRecord /\ \A m \in DOMAIN b : b[m].intent = i => m = n
    BY DEF Sound
  <2>2. i \in Intents /\ b[n].side \in {"BUY", "SELL"}
    BY <2>1 DEF BookRecord
  <2>3. P = {n}
    BY <2>1
  <2>4. (CHOOSE m \in P : TRUE) = n /\ P # {}
    BY <2>3
  <2>5. WorkingIn(b)[i] = TermsOf(b[n])
    BY <2>2, <2>4 DEF WorkingIn
  <2>6. TermsOf(b[n]) # NoOrder
    <3>1. TermsOf(b[n]).side = b[n].side /\ NoOrder.side = "NONE"
      BY DEF TermsOf, NoOrder
    <3>2. QED
      BY <2>2, <3>1
  <2>7. QED
    BY <2>2, <2>5, <2>6
<1>2. ASSUME NEW i \in Intents, \A n \in DOMAIN b : b[n].intent # i
      PROVE  WorkingIn(b)[i] = NoOrder
  <2>1. {n \in DOMAIN b : b[n].intent = i} = {}
    BY <1>2
  <2>2. QED
    BY <2>1 DEF WorkingIn
<1>3. QED
  BY <1>1, <1>2

LEMMA WorkingAdded ==
    ASSUME NEW q, NEW b, Sound(q, b), NEW k, NEW p \in BookRecord, NEW r, NEW c,
           Adds(q, b, k, p, r, c)
    PROVE  WorkingIn(c) = [WorkingIn(b) EXCEPT ![p.intent] = TermsOf(p)]
<1> DEFINE W == WorkingIn(b)
           V == WorkingIn(c)
<1>1. Sound(r, c) /\ DOMAIN c = DOMAIN b \cup {k} /\ c[k] = p /\ \A n \in DOMAIN b : c[n] = b[n]
  BY DEF Adds
<1>2. /\ DOMAIN V = Intents /\ DOMAIN W = Intents
      /\ V = [i \in Intents |-> V[i]] /\ W = [i \in Intents |-> W[i]]
  BY DEF WorkingIn
<1>3. V[p.intent] = TermsOf(p) /\ p.intent \in Intents
  BY <1>1, WorkingOf
<1>4. ASSUME NEW i \in Intents, i # p.intent
      PROVE  V[i] = W[i]
  <2>1. CASE \E n \in DOMAIN b : b[n].intent = i
    BY <1>1, <2>1, WorkingOf
  <2>2. CASE \A n \in DOMAIN b : b[n].intent # i
    <3>1. \A n \in DOMAIN c : c[n].intent # i
      BY <1>1, <1>4, <2>2
    <3>2. V[i] = NoOrder /\ W[i] = NoOrder
      BY <1>1, <2>2, <3>1, WorkingOf
    <3>3. QED
      BY <3>2
  <2>3. QED
    BY <2>1, <2>2
<1> HIDE DEF V, W
<1>5. V = [W EXCEPT ![p.intent] = TermsOf(p)]
  BY <1>2, <1>3, <1>4
<1>6. QED
  BY <1>5 DEF V, W

LEMMA WorkingRemoved ==
    ASSUME NEW q, NEW b, Sound(q, b), NEW n \in DOMAIN b, NEW st, NEW r, NEW c,
           Ends(q, b, n, st, r, c)
    PROVE  WorkingIn(c) = [WorkingIn(b) EXCEPT ![b[n].intent] = NoOrder]
<1> DEFINE W == WorkingIn(b)
           V == WorkingIn(c)
           i == b[n].intent
<1>1. Sound(r, c) /\ DOMAIN c = DOMAIN b \ {n} /\ \A m \in DOMAIN c : c[m] = b[m]
  BY DEF Ends
<1>2. /\ DOMAIN V = Intents /\ DOMAIN W = Intents
      /\ V = [j \in Intents |-> V[j]] /\ W = [j \in Intents |-> W[j]]
  BY DEF WorkingIn
<1>3. i \in Intents /\ \A m \in DOMAIN b : b[m].intent = i => m = n
  BY WorkingOf DEF Sound
<1>4. \A m \in DOMAIN c : c[m].intent # i
  BY <1>1, <1>3
<1>5. V[i] = NoOrder
  BY <1>1, <1>3, <1>4, WorkingOf
<1>6. ASSUME NEW j \in Intents, j # i
      PROVE  V[j] = W[j]
  <2>1. CASE \E m \in DOMAIN b : b[m].intent = j
    <3>1. PICK m \in DOMAIN b : b[m].intent = j
      BY <2>1
    <3>2. m \in DOMAIN c /\ c[m] = b[m]
      BY <1>1, <1>6, <3>1
    <3>3. V[j] = TermsOf(b[m]) /\ W[j] = TermsOf(b[m])
      BY <1>1, <3>1, <3>2, WorkingOf
    <3>4. QED
      BY <3>3
  <2>2. CASE \A m \in DOMAIN b : b[m].intent # j
    <3>1. \A m \in DOMAIN c : c[m].intent # j
      BY <1>1, <2>2
    <3>2. V[j] = NoOrder /\ W[j] = NoOrder
      BY <1>1, <2>2, <3>1, WorkingOf
    <3>3. QED
      BY <3>2
  <2>3. QED
    BY <2>1, <2>2
<1> HIDE DEF V, W, i
<1>7. V = [W EXCEPT ![i] = NoOrder]
  BY <1>2, <1>3, <1>5, <1>6
<1>8. QED
  BY <1>7 DEF V, W, i
-----------------------------------------------------------------------------
LEMMA TermsOffered ==
    ASSUME NEW signal \in Signals
    PROVE  TermsOf(signal) \in {TermsOf(o) : o \in Offers}
BY DEF Signals, Snapshot, TermsOf

LEMMA SubmitPlaces ==
    ASSUME IInv, NEW i \in Intents, NEW signal \in Signals, SubmitSignal(i, signal)
    PROVE  Desk!Place(i, TermsOf(signal))
<1> DEFINE p == PendingOrder(i, signal)
<1>1. /\ Adds(orders, book, Len(orders) + 1, p, orders', book') /\ Sound(orders, book)
  BY SubmitKeepsIInv DEF IInv
<1>2. p \in BookRecord /\ p.intent = i /\ TermsOf(p) = TermsOf(signal)
  BY PendingOrderFits DEF SubmitSignal, Admissible
<1> HIDE DEF p
<1>3. Working' = [Working EXCEPT ![i] = TermsOf(signal)]
  <2>1. WorkingIn(book') = [WorkingIn(book) EXCEPT ![p.intent] = TermsOf(p)]
    BY <1>1, <1>2, WorkingAdded
  <2>2. QED
    BY <1>2, <2>1, WorkingIsIn
<1>4. Working[i] = NoOrder
  BY <1>1, WorkingOf, WorkingIsIn DEF SubmitSignal, PendingOf
<1>5. /\ ~failed /\ UNCHANGED <<position, failed>>
      /\ TermsOf(signal).side = "SELL" <=> position[SymbolOf[i]] > 0
  BY DEF SubmitSignal, Ready, Admissible, Held, TermsOf
<1>6. QED
  BY <1>3, <1>4, <1>5 DEF Desk!Place

LEMMA WithdrawPulls ==
    ASSUME IInv, NEW n \in DOMAIN book, OrderEnds(n, "CANCELLED"), ~failed,
           UNCHANGED <<position, failed>>
    PROVE  Desk!Pull(book[n].intent) /\ book[n].intent \in Intents
<1>1. Sound(orders, book) /\ Ends(orders, book, n, "CANCELLED", orders', book')
  BY DEF IInv, OrderEnds
<1>2. Working' = [Working EXCEPT ![book[n].intent] = NoOrder]
  BY <1>1, WorkingRemoved, WorkingIsIn
<1>3. Working[book[n].intent] # NoOrder /\ book[n].intent \in Intents
  BY <1>1, WorkingOf, WorkingIsIn
<1>4. QED
  BY <1>2, <1>3 DEF Desk!Pull

LEMMA RepriceAmends ==
    ASSUME IInv, NEW n \in DOMAIN book, NEW signal \in Signals, NEW market, NEW now,
           Reprice(n, signal, market, now), ~failed, UNCHANGED <<position, failed>>
    PROVE  Desk!Amend(book[n].intent, TermsOf(signal)) /\ book[n].intent \in Intents
<1> DEFINE i == book[n].intent
           r == Replacement(book[n], signal)
<1>1. PICK q, b : /\ Ends(orders, book, n, "REPLACED", q, b)
                  /\ Adds(q, b, Len(orders) + 1, r, orders', book')
  BY RepriceReplaces
<1>2. /\ r \in BookRecord /\ r.intent = i /\ r.side = book[n].side
      /\ TermsOf(r) = TermsOf(signal)
  BY RepriceReplaces
<1>3. Sound(orders, book) /\ Sound(q, b)
  BY <1>1 DEF IInv, Ends
<1>4. /\ Working[i] = TermsOf(book[n]) /\ Working[i] # NoOrder /\ i \in Intents
      /\ DOMAIN Working = Intents
  BY <1>3, WorkingOf, WorkingIsIn DEF Working
<1>5. TermsOf(signal).side = Working[i].side
  <2>1. TermsOf(r).side = r.side /\ TermsOf(book[n]).side = book[n].side
    BY DEF TermsOf
  <2>2. QED
    BY <1>2, <1>4, <2>1
<1> HIDE DEF i, r
<1>6. WorkingIn(b) = [Working EXCEPT ![i] = NoOrder]
  BY <1>1, <1>3, WorkingRemoved, WorkingIsIn DEF i
<1>7. Working' = [WorkingIn(b) EXCEPT ![i] = TermsOf(signal)]
  <2>1. WorkingIn(book') = [WorkingIn(b) EXCEPT ![r.intent] = TermsOf(r)]
    <3> PICK k : Adds(q, b, k, r, orders', book')
      BY <1>1
    <3> Sound(q, b) /\ r \in BookRecord
      BY <1>2, <1>3
    <3>1. QED
      BY WorkingAdded
  <2>2. QED
    BY <1>2, <2>1, WorkingIsIn
<1>8. Working' = [Working EXCEPT ![i] = TermsOf(signal)]
  BY <1>4, <1>6, <1>7
<1>9. QED
  BY <1>4, <1>5, <1>8 DEF Desk!Amend, i

(* A matched order is spent: the desk executes it, or halts.               *)
LEMMA MatchSpends ==
    ASSUME IInv, NEW n, Match(n)
    PROVE  LET i == book[n].intent
           IN  /\ i \in Intents /\ Working[i] = TermsOf(book[n]) /\ Working[i] # NoOrder
               /\ Working' = [Working EXCEPT ![i] = NoOrder]
               /\ ~failed /\ SymbolOf[i] = loop.symbol
<1>1. n \in DOMAIN book /\ SymbolOf[book[n].intent] = loop.symbol /\ ~failed
  BY VisitFacts DEF Match
<1>2. Sound(orders, book) /\ Ends(orders, book, n, "FILLED", orders', book')
  BY MatchEnds DEF IInv, OrderEnds
<1>3. Working' = [Working EXCEPT ![book[n].intent] = NoOrder]
  BY <1>1, <1>2, WorkingRemoved, WorkingIsIn
<1>4. /\ Working[book[n].intent] = TermsOf(book[n]) /\ Working[book[n].intent] # NoOrder
      /\ book[n].intent \in Intents
  BY <1>1, <1>2, WorkingOf, WorkingIsIn
<1>5. QED
  BY <1>1, <1>3, <1>4

LEMMA FillExecutes ==
    ASSUME IInv, NEW n, FillBuy(n) \/ FillSell(n)
    PROVE  Desk!Execute(book[n].intent) /\ book[n].intent \in Intents
<1> DEFINE i == book[n].intent
<1>1. Match(n) /\ failed' = failed
  BY DEF FillBuy, FillSell, Visited
<1>2. /\ i \in Intents /\ Working[i] = TermsOf(book[n]) /\ Working[i] # NoOrder
      /\ Working' = [Working EXCEPT ![i] = NoOrder]
      /\ ~failed /\ SymbolOf[i] = loop.symbol
  BY <1>1, MatchSpends
<1>3. /\ Working[i].side = book[n].side /\ Working[i].qty = book[n].qty
  BY <1>2 DEF TermsOf
<1>4. /\ loop.symbol \in Symbols /\ book[n].qty \in Nat \ {0} /\ position \in [Symbols -> Nat]
  BY <1>1, FillFacts
<1>5. CASE FillBuy(n)
  <2>1. position[loop.symbol] = 0 /\ book[n].side = "BUY"
    BY <1>5 DEF FillBuy, PositionAccepts, Opening
  <2>2. position' = [position EXCEPT ![loop.symbol] = book[n].qty]
    BY <1>4, <1>5, PositionMoves DEF FillBuy
  <2>3. QED
    BY <1>1, <1>2, <1>3, <2>1, <2>2 DEF Desk!Execute
<1>6. CASE FillSell(n)
  <2>1. book[n].qty <= position[loop.symbol] /\ book[n].side = "SELL"
    BY <1>6 DEF FillSell
  <2>2. position' = [position EXCEPT ![loop.symbol] = position[loop.symbol] - book[n].qty]
    BY <1>4, <1>6, <2>1, PositionMoves DEF FillSell
  <2>3. QED
    BY <1>1, <1>2, <1>3, <2>1, <2>2 DEF Desk!Execute
<1>7. QED
  BY <1>2, <1>5, <1>6

LEMMA FailureHalts ==
    ASSUME IInv, NEW n, FillBuyFails(n) \/ FillSellFails(n)
    PROVE  Desk!Halt(book[n].intent) /\ book[n].intent \in Intents
<1> DEFINE i == book[n].intent
           s == loop.symbol
<1>1. Match(n) /\ failed' = TRUE
  BY DEF FillBuyFails, FillSellFails, FailClosed
<1>2. /\ i \in Intents /\ Working[i] # NoOrder
      /\ Working' = [Working EXCEPT ![i] = NoOrder]
      /\ ~failed /\ SymbolOf[i] = s
  BY <1>1, MatchSpends
<1>3. /\ s \in Symbols /\ book[n].qty \in Nat \ {0} /\ position \in [Symbols -> Nat]
  BY <1>1, FillFacts
<1>4. \A x \in Symbols \ {s} : position'[x] = position[x]
  BY <1>3, PositionMoves DEF FillBuyFails, FillSellFails
<1>5. QED
  BY <1>1, <1>2, <1>4 DEF Desk!Halt
-----------------------------------------------------------------------------
LEMMA DeskInit == Init => Desk!Init
<1> SUFFICES ASSUME Init PROVE Desk!Init
  OBVIOUS
<1>1. book = << >>
  BY DEF Init
<1>2. Working = [i \in Intents |-> NoOrder]
  BY <1>1 DEF Working, PendingOf
<1>3. QED
  BY <1>2 DEF Init, Desk!Init

LEMMA DeskStep == IInv /\ [Next]_vars => [Desk!Next]_(Desk!vars)
<1> SUFFICES ASSUME IInv, [Next]_vars PROVE Desk!Next \/ UNCHANGED Desk!vars
  BY DEF Desk!vars
<1>1. ASSUME UNCHANGED <<book, position, failed>>
      PROVE  UNCHANGED Desk!vars
  BY <1>1, WorkingIsIn DEF Desk!vars
<1>2. ASSUME NEW i \in Intents, NEW signal \in Signals, SubmitSignal(i, signal)
      PROVE  Desk!Next
  BY <1>2, SubmitPlaces, TermsOffered DEF Desk!Next
<1>3. ASSUME NEW i \in Intents, NEW signal \in Signals, NEW market \in Markets,
             NEW now \in Times, Revalidate(i, signal, market, now)
      PROVE  Desk!Next \/ UNCHANGED Desk!vars
  <2>1. UNCHANGED <<position, failed>> /\ ~failed
    BY <1>3 DEF Revalidate, Ready
  <2>2. PICK n \in PendingOf(i) :
          \/ Keep(n, signal, market, now) /\ UNCHANGED <<orders, book>>
          \/ Withdraw(n, signal, market, now)
          \/ Reprice(n, signal, market, now)
    BY <1>3 DEF Revalidate
  <2>3. n \in DOMAIN book
    BY DEF PendingOf
  <2>4. CASE Withdraw(n, signal, market, now)
    <3>1. OrderEnds(n, "CANCELLED")
      BY <2>3, <2>4, WithdrawEnds
    <3>2. QED
      BY <2>1, <2>3, <3>1, WithdrawPulls DEF Desk!Next
  <2>5. CASE Reprice(n, signal, market, now)
    BY <2>1, <2>3, <2>5, RepriceAmends, TermsOffered DEF Desk!Next
  <2>6. QED
    BY <1>1, <2>1, <2>2, <2>4, <2>5
<1>4. ASSUME NEW e \in EventIds, NEW s \in Symbols, NEW market \in Markets,
             NEW now \in Times, BeginEvent(e, s, market, now)
      PROVE  UNCHANGED Desk!vars
  BY <1>1, <1>4 DEF BeginEvent, runtime
<1>5. CASE EndEvent
  BY <1>1, <1>5 DEF EndEvent, runtime
<1>6. ASSUME NEW n, VisitAndKeep(n)
      PROVE  UNCHANGED Desk!vars
  BY <1>1, <1>6 DEF VisitAndKeep, Visited
<1>7. ASSUME NEW n, VisitAndRevalidate(n)
      PROVE  Desk!Next
  <2>1. UNCHANGED <<position, failed>> /\ ~failed
    BY <1>7, VisitFacts DEF VisitAndRevalidate, Visited
  <2>2. QED
    BY <1>7, <2>1, VisitAndRevalidateKeepsIInv, WithdrawPulls DEF Desk!Next
<1>8. ASSUME NEW n, FillBuy(n) \/ FillSell(n)
      PROVE  Desk!Next
  BY <1>8, FillExecutes DEF Desk!Next
<1>9. ASSUME NEW n, FillBuyFails(n) \/ FillSellFails(n)
      PROVE  Desk!Next
  BY <1>9, FailureHalts DEF Desk!Next
<1>10. ASSUME NEW s \in Symbols, NEW price \in Markets, ExitPosition(s, price)
       PROVE  Desk!Next
  <2>1. /\ position' = [position EXCEPT ![s] = 0] /\ position[s] > 0
        /\ UNCHANGED <<book, failed>>
    BY <1>10, ExitKeepsIInv DEF ExitPosition, Held
  <2>2. Desk!Liquidate(s)
    BY <2>1, WorkingIsIn DEF Desk!Liquidate
  <2>3. QED
    BY <2>2 DEF Desk!Next
<1>11. CASE UNCHANGED vars
  BY <1>1, <1>11 DEF vars
<1>12. QED
  BY <1>2, <1>3, <1>4, <1>5, <1>6, <1>7, <1>8, <1>9, <1>10, <1>11 DEF Next

(* The runtime implements the desk: at most one working order for an       *)
(* intent, each executed at most once and wholly, no sale of what is not   *)
(* held, and nothing placed, amended or executed after a halt.             *)
THEOREM RuntimeImplementsDesk == Spec => DeskSpec
<1>1. QED
  BY DeskInit, DeskStep, IInvAlways, PTL DEF Spec, DeskSpec, Desk!Spec
-----------------------------------------------------------------------------
(* Every sale brings at least its fee: with FeeModel.minimum 0 and a rate  *)
(* of at most 100 percent, the default, it always does.                    *)
SalesCoverFees ==
    \A q, price \in Nat \ {0} : Fee(Notional("SELL", q, price)) <= Notional("SELL", q, price)

LEMMA PercentType ==
    ASSUME NEW rate \in Nat, NEW amount \in Nat
    PROVE  /\ PercentOf(rate, amount) \in Nat
           /\ rate <= 100 => PercentOf(rate, amount) <= amount
<1>1. ASSUME NEW m \in Nat
      PROVE  m \div 100 \in Nat /\ (m <= 100 * amount => m \div 100 <= amount)
  BY <1>1
<1>2. rate * amount \in Nat /\ (rate <= 100 => rate * amount <= 100 * amount)
  OBVIOUS
<1>3. QED
  BY <1>1, <1>2 DEF PercentOf

(* What an execution costs or brings, and its fee, are whole amounts.      *)
LEMMA ExecutionType ==
    ASSUME NEW q \in Nat, NEW price \in Nat, NEW side \in {"BUY", "SELL"}
    PROVE  Notional(side, q, price) \in Nat /\ Fee(Notional(side, q, price)) \in Nat
<1>1. SlippageRate \in Nat /\ SlippageRate <= 100 /\ FeeRate \in Nat /\ FeeMinimum \in Nat
  BY LedgerAssumption
<1>2. Slip(price) \in Nat /\ Slip(price) <= price
  BY <1>1, PercentType DEF Slip
<1>3. ExecutionPrice(side, price) \in Nat
  BY <1>2 DEF ExecutionPrice
<1>4. Notional(side, q, price) \in Nat
  BY <1>3 DEF Notional
<1>5. QED
  BY <1>1, <1>4, PercentType DEF Fee

LEMMA FreeMinimumCoversFees ==
    ASSUME FeeMinimum = 0, FeeRate <= 100
    PROVE  SalesCoverFees
<1> SUFFICES ASSUME NEW q \in Nat \ {0}, NEW price \in Nat \ {0}
             PROVE  Fee(Notional("SELL", q, price)) <= Notional("SELL", q, price)
  BY DEF SalesCoverFees
<1>1. Notional("SELL", q, price) \in Nat
  BY ExecutionType
<1>2. PercentOf(FeeRate, Notional("SELL", q, price)) <= Notional("SELL", q, price)
  BY <1>1, LedgerAssumption, PercentType
<1>3. QED
  BY <1>1, <1>2 DEF Fee
-----------------------------------------------------------------------------
(* An account that replays: the wallet is within its bounds.               *)
AccountSound(a) ==
    /\ DOMAIN a = {"cash", "reserved", "realized", "fees", "slippage", "invested",
                   "qty", "cost", "mark"}
    /\ a.cash \in Nat
    /\ a.reserved = 0
    /\ a.qty \in [Symbols -> Int]

LEMMA FillApplied ==
    ASSUME NEW a, AccountSound(a), NEW s \in Symbols, NEW d, d.cash \in Int, d.qty \in Int,
           0 <= a.cash + d.cash, NEW price, NEW r, r = ApplyFill(a, s, d, price)
    PROVE  AccountSound(r) /\ r.qty = [a.qty EXCEPT ![s] = a.qty[s] + d.qty]
<1>1. /\ DOMAIN r = DOMAIN a /\ r.cash = a.cash + d.cash /\ r.reserved = a.reserved
      /\ r.qty = [a.qty EXCEPT ![s] = a.qty[s] + d.qty]
  BY DEF AccountSound, ApplyFill
<1>2. r.cash \in Nat /\ r.qty \in [Symbols -> Int]
  BY <1>1 DEF AccountSound
<1>3. QED
  BY <1>1, <1>2 DEF AccountSound

LEMMA BuyApplied ==
    ASSUME NEW a, AccountSound(a), NEW s \in Symbols, NEW q \in Nat \ {0},
           NEW price \in Nat \ {0}, BuyAllowed(a, q, price),
           NEW r, r = AfterBuy(a, s, q, price)
    PROVE  AccountSound(r) /\ r.qty = [a.qty EXCEPT ![s] = a.qty[s] + q]
<1> DEFINE n == Notional("BUY", q, price)
<1>1. n \in Nat /\ Fee(n) \in Nat
  BY ExecutionType
<1>2. a.cash \in Nat /\ n + Fee(n) <= a.cash
  BY <1>1 DEF BuyAllowed, Available, AccountSound
<1>3. BuyDelta(q, price).cash = -(n + Fee(n)) /\ BuyDelta(q, price).qty = q
  BY DEF BuyDelta
<1>4. PICK d : d = BuyDelta(q, price)
  OBVIOUS
<1> HIDE DEF n
<1>5. d.cash \in Int /\ d.qty \in Int /\ 0 <= a.cash + d.cash /\ d.qty = q
  BY <1>1, <1>2, <1>3, <1>4
<1>6. r = ApplyFill(a, s, d, ExecutionPrice("BUY", price))
  BY <1>4 DEF AfterBuy
<1>7. AccountSound(r) /\ r.qty = [a.qty EXCEPT ![s] = a.qty[s] + d.qty]
  BY ONLY AccountSound(a), s \in Symbols, <1>5, <1>6, FillApplied
<1>8. QED
  BY <1>5, <1>7

LEMMA SaleApplied ==
    ASSUME SalesCoverFees, NEW a, AccountSound(a), NEW s \in Symbols, NEW q \in Nat \ {0},
           NEW price \in Nat \ {0}, NEW r, r = AfterSell(a, s, q, price)
    PROVE  AccountSound(r) /\ r.qty = [a.qty EXCEPT ![s] = a.qty[s] - q]
<1> DEFINE n == Notional("SELL", q, price)
<1>1. n \in Nat /\ Fee(n) \in Nat /\ Fee(n) <= n
  BY ExecutionType DEF SalesCoverFees
<1>2. a.cash \in Nat /\ a.qty[s] \in Int
  BY DEF AccountSound
<1>3. SellDelta(a, s, q, price).cash = n - Fee(n) /\ SellDelta(a, s, q, price).qty = -q
  BY DEF SellDelta
<1>4. PICK d : d = SellDelta(a, s, q, price)
  OBVIOUS
<1> HIDE DEF n
<1>5. d.cash \in Int /\ d.qty \in Int /\ 0 <= a.cash + d.cash /\ d.qty = -q
  BY <1>1, <1>2, <1>3, <1>4
<1>6. r = ApplyFill(a, s, d, ExecutionPrice("SELL", price))
  BY <1>4 DEF AfterSell
<1>7. AccountSound(r) /\ r.qty = [a.qty EXCEPT ![s] = a.qty[s] + d.qty]
  BY ONLY AccountSound(a), s \in Symbols, <1>5, <1>6, FillApplied
<1>8. a.qty[s] + d.qty = a.qty[s] - q
  BY <1>2, <1>5
<1>9. QED
  BY <1>7, <1>8
-----------------------------------------------------------------------------
(* What the filled orders of a symbol add up to.                           *)
Signed(q, n) == IF q[n].side = "BUY" THEN q[n].qty ELSE -q[n].qty

Filled(q, s) == {n \in DOMAIN q : q[n].state = "FILLED" /\ q[n].symbol = s}

Net(q, s) == SumFunctionOnSet([n \in Filled(q, s) |-> Signed(q, n)], Filled(q, s))

LEMMA NetIsHolding ==
    ASSUME NEW s
    PROVE  SumFunction([n \in FilledOf(s) |-> SignedQty(n)]) = Net(orders, s)
<1>1. FilledOf(s) = Filled(orders, s)
  BY DEF FilledOf, Filled
<1>2. [n \in FilledOf(s) |-> SignedQty(n)] = [n \in Filled(orders, s) |-> Signed(orders, n)]
  BY <1>1 DEF SignedQty, Signed
<1>3. DOMAIN [n \in Filled(orders, s) |-> Signed(orders, n)] = Filled(orders, s)
  OBVIOUS
<1>4. QED
  BY <1>2, <1>3 DEF Net, SumFunction

LEMMA FilledType ==
    ASSUME NEW q \in Seq(OrderRecord), NEW s
    PROVE  /\ IsFiniteSet(Filled(q, s))
           /\ \A n \in DOMAIN q : Signed(q, n) \in Int
<1>1. DOMAIN q = 1 .. Len(q) /\ Len(q) \in Nat
  OBVIOUS
<1>2. IsFiniteSet(DOMAIN q)
  BY <1>1, FS_Interval
<1>3. IsFiniteSet(Filled(q, s))
  BY <1>2, FS_Subset DEF Filled
<1>4. ASSUME NEW n \in DOMAIN q PROVE Signed(q, n) \in Int
  <2>1. q[n] \in OrderRecord
    OBVIOUS
  <2>2. q[n].qty \in Nat
    BY <2>1 DEF OrderRecord
  <2>3. QED
    BY <2>2 DEF Signed
<1>5. QED
  BY <1>3, <1>4

(* The same orders are filled, or one more is.                             *)
LEMMA NetSame ==
    ASSUME NEW q \in Seq(OrderRecord), NEW r \in Seq(OrderRecord), NEW s,
           Filled(r, s) = Filled(q, s), \A n \in Filled(q, s) : r[n] = q[n]
    PROVE  Net(r, s) = Net(q, s)
<1>1. [n \in Filled(r, s) |-> Signed(r, n)] = [n \in Filled(q, s) |-> Signed(q, n)]
  BY DEF Signed
<1>2. QED
  BY <1>1 DEF Net

LEMMA NetMoves ==
    ASSUME NEW q \in Seq(OrderRecord), NEW r \in Seq(OrderRecord), NEW s,
           NEW x \in DOMAIN r, x \notin Filled(q, s),
           Filled(r, s) = Filled(q, s) \cup {x}, \A n \in Filled(q, s) : r[n] = q[n]
    PROVE  Net(r, s) = Net(q, s) + Signed(r, x) /\ Net(q, s) \in Int
<1> DEFINE F == Filled(q, s)
           G == Filled(r, s)
           f == [n \in F |-> Signed(q, n)]
           g == [n \in G |-> Signed(r, n)]
<1>1. /\ IsFiniteSet(F) /\ \A n \in DOMAIN q : Signed(q, n) \in Int
      /\ IsFiniteSet(G) /\ \A n \in DOMAIN r : Signed(r, n) \in Int
  BY FilledType
<1>2. F \subseteq DOMAIN q /\ G \subseteq DOMAIN r
  BY DEF Filled
<1>3. G \ {x} = F /\ x \in G
  OBVIOUS
<1>4. \A n \in F : Signed(r, n) = Signed(q, n)
  BY DEF Signed
<1>5. Net(q, s) = SumFunctionOnSet(f, F) /\ Net(r, s) = SumFunctionOnSet(g, G)
  BY DEF Net
<1>6. /\ \A n \in F : f[n] \in Int
      /\ \A n \in G : g[n] \in Int
      /\ \A n \in F : g[n] = f[n]
      /\ g[x] = Signed(r, x)
  BY <1>1, <1>2, <1>3, <1>4
<1> HIDE DEF F, G, f, g
<1>7. SumFunctionOnSet(g, G) = g[x] + SumFunctionOnSet(g, F)
  <2>1. SumFunctionOnSet(g, G) = g[x] + SumFunctionOnSet(g, G \ {x})
    BY <1>1, <1>3, <1>6, SumOfOneAndRest
  <2>2. QED
    BY <1>3, <2>1
<1>8. SumFunctionOnSet(g, F) = SumFunctionOnSet(f, F)
  BY <1>1, <1>6, SumOfEquals
<1>9. SumFunctionOnSet(f, F) \in Int
  BY <1>1, <1>6, SumType
<1>10. g[x] \in Int
  BY <1>3, <1>6
<1>11. QED
  BY <1>5, <1>6, <1>7, <1>8, <1>9, <1>10

(* What the steps of the books do to it.                                   *)
LEMMA NetAfterEnd ==
    ASSUME NEW q, NEW b, Sound(q, b), NEW n \in DOMAIN b, NEW st \in Terminal, NEW r, NEW c,
           Ends(q, b, n, st, r, c), NEW s
    PROVE  Net(r, s) = IF st = "FILLED" /\ s = SymbolOf[b[n].intent]
                       THEN Net(q, s) + (IF b[n].side = "BUY" THEN b[n].qty ELSE -b[n].qty)
                       ELSE Net(q, s)
<1>1. q \in Seq(OrderRecord) /\ r \in Seq(OrderRecord)
  BY DEF Sound, Ends
<1>2. /\ DOMAIN r = DOMAIN q /\ \A m \in DOMAIN q \ {n} : r[m] = q[m]
      /\ n \in DOMAIN q /\ r[n].state = st /\ r[n].symbol = q[n].symbol
      /\ r[n].side = q[n].side /\ r[n].qty = q[n].qty
  BY DEF Ends
<1>3. q[n].state = "PENDING" /\ q[n] = Created(b[n]) /\ b[n] \in BookRecord
  BY DEF Sound
<1>4. q[n].symbol = SymbolOf[b[n].intent] /\ q[n].side = b[n].side /\ q[n].qty = b[n].qty
  BY <1>3, CreatedType
<1>5. n \notin Filled(q, s) /\ \A m \in Filled(q, s) : r[m] = q[m]
  BY <1>2, <1>3 DEF Filled
<1>6. CASE st = "FILLED" /\ s = SymbolOf[b[n].intent]
  <2>1. Filled(r, s) = Filled(q, s) \cup {n}
    BY <1>2, <1>4, <1>6 DEF Filled
  <2>2. Net(r, s) = Net(q, s) + Signed(r, n)
    BY <1>1, <1>2, <1>5, <2>1, NetMoves
  <2>3. Signed(r, n) = IF b[n].side = "BUY" THEN b[n].qty ELSE -b[n].qty
    BY <1>2, <1>4 DEF Signed
  <2>4. QED
    BY <1>6, <2>2, <2>3
<1>7. CASE ~(st = "FILLED" /\ s = SymbolOf[b[n].intent])
  <2>1. Filled(r, s) = Filled(q, s)
    BY <1>2, <1>3, <1>4, <1>7 DEF Filled
  <2>2. Net(r, s) = Net(q, s)
    BY <1>1, <1>5, <2>1, NetSame
  <2>3. QED
    BY <1>7, <2>2
<1>8. QED
  BY <1>6, <1>7

LEMMA NetAfterAdd ==
    ASSUME NEW q, NEW b, Sound(q, b), NEW k, NEW p \in BookRecord, NEW r, NEW c,
           Adds(q, b, k, p, r, c), NEW s
    PROVE  Net(r, s) = Net(q, s)
<1>1. q \in Seq(OrderRecord) /\ r \in Seq(OrderRecord)
  BY DEF Sound, Adds
<1>2. /\ DOMAIN r = DOMAIN q \cup {k} /\ \A n \in DOMAIN q : r[n] = q[n]
      /\ r[k] = Created(p) /\ k \notin DOMAIN q
  BY DEF Adds
<1>3. r[k].state = "PENDING"
  BY <1>2, CreatedType
<1>4. Filled(r, s) = Filled(q, s) /\ \A n \in Filled(q, s) : r[n] = q[n]
  BY <1>2, <1>3 DEF Filled
<1>5. QED
  BY <1>1, <1>4, NetSame

LEMMA NetAfterExit ==
    ASSUME NEW q, NEW b, Sound(q, b), NEW k, NEW o \in OrderRecord, o.side = "SELL", NEW r,
           Exits(q, b, k, o, r), NEW s
    PROVE  Net(r, s) = IF s = o.symbol THEN Net(q, s) - o.qty ELSE Net(q, s)
<1>1. q \in Seq(OrderRecord) /\ r \in Seq(OrderRecord)
  BY DEF Sound, Exits
<1>2. /\ DOMAIN r = DOMAIN q \cup {k} /\ \A n \in DOMAIN q : r[n] = q[n]
      /\ k \notin DOMAIN q /\ r[k].state = "FILLED" /\ r[k].symbol = o.symbol
      /\ r[k].side = "SELL" /\ r[k].qty = o.qty
  BY DEF Exits
<1>3. k \notin Filled(q, s) /\ k \in DOMAIN r /\ \A n \in Filled(q, s) : r[n] = q[n]
  BY <1>2 DEF Filled
<1>4. CASE s = o.symbol
  <2>1. Filled(r, s) = Filled(q, s) \cup {k}
    BY <1>2, <1>4 DEF Filled
  <2>2. Net(r, s) = Net(q, s) + Signed(r, k) /\ Net(q, s) \in Int
    BY <1>1, <1>3, <2>1, NetMoves
  <2>3. Signed(r, k) = -o.qty /\ o.qty \in Int
    BY <1>2 DEF Signed, OrderRecord
  <2>4. QED
    BY <1>4, <2>2, <2>3
<1>5. CASE s # o.symbol
  <2>1. Filled(r, s) = Filled(q, s)
    BY <1>2, <1>5 DEF Filled
  <2>2. QED
    BY <1>1, <1>3, <1>5, <2>1, NetSame
<1>6. QED
  BY <1>4, <1>5
-----------------------------------------------------------------------------
(* While the runtime is healthy the ledger, the position book and the      *)
(* filled orders agree, and the ledger can be replayed.                    *)
Agree ==
    /\ AccountSound(account)
    /\ \A s \in Symbols : account.qty[s] = position[s] /\ position[s] = Net(orders, s)

HInv == ~failed => Agree

(* Steps that fill nothing.                                                *)
LEMMA NothingFilled ==
    ASSUME HInv, UNCHANGED <<position, account, failed>>,
           \A s \in Symbols : Net(orders', s) = Net(orders, s)
    PROVE  HInv'
BY DEF HInv, Agree

LEMMA EndFillsNothing ==
    ASSUME IInv, NEW n \in DOMAIN book, OrderEnds(n, "CANCELLED"), NEW s \in Symbols
    PROVE  Net(orders', s) = Net(orders, s)
<1>1. Sound(orders, book) /\ Ends(orders, book, n, "CANCELLED", orders', book')
  BY DEF IInv, OrderEnds
<1>2. "CANCELLED" \in Terminal /\ "CANCELLED" # "FILLED"
  BY DEF Terminal, OrderState
<1>3. QED
  BY <1>1, <1>2, NetAfterEnd

LEMMA RepriceFillsNothing ==
    ASSUME IInv, NEW n \in DOMAIN book, NEW signal \in Signals, NEW market, NEW now,
           Reprice(n, signal, market, now), NEW s \in Symbols
    PROVE  Net(orders', s) = Net(orders, s)
<1> DEFINE p == Replacement(book[n], signal)
<1>1. PICK q, b, k : /\ Ends(orders, book, n, "REPLACED", q, b)
                     /\ Adds(q, b, k, p, orders', book')
  BY RepriceReplaces
<1>2. p \in BookRecord
  BY RepriceReplaces
<1>3. Sound(orders, book) /\ Sound(q, b)
  BY <1>1 DEF IInv, Ends
<1>4. "REPLACED" \in Terminal /\ "REPLACED" # "FILLED"
  BY DEF Terminal, OrderState
<1> HIDE DEF p
<1>5. Net(q, s) = Net(orders, s)
  BY <1>1, <1>3, <1>4, NetAfterEnd
<1>6. Net(orders', s) = Net(q, s)
  BY <1>1, <1>2, <1>3, NetAfterAdd
<1>7. QED
  BY <1>5, <1>6

LEMMA SubmitKeepsHInv ==
    ASSUME IInv, HInv, NEW i \in Intents, NEW signal \in Signals, SubmitSignal(i, signal)
    PROVE  HInv'
<1> DEFINE p == PendingOrder(i, signal)
<1>1. PICK k : Adds(orders, book, k, p, orders', book')
  BY SubmitKeepsIInv
<1>2. Sound(orders, book) /\ p \in BookRecord
  BY PendingOrderFits DEF IInv, SubmitSignal, Admissible
<1>3. UNCHANGED <<position, account, failed>>
  BY DEF SubmitSignal
<1> HIDE DEF p
<1>4. ASSUME NEW s \in Symbols PROVE Net(orders', s) = Net(orders, s)
  BY <1>1, <1>2, NetAfterAdd
<1>5. QED
  BY <1>3, <1>4, NothingFilled

LEMMA RevalidateKeepsHInv ==
    ASSUME IInv, HInv, NEW i \in Intents, NEW signal \in Signals, NEW market, NEW now,
           Revalidate(i, signal, market, now)
    PROVE  HInv'
<1>1. UNCHANGED <<position, account, failed>>
  BY DEF Revalidate
<1>2. PICK n \in PendingOf(i) :
          \/ Keep(n, signal, market, now) /\ UNCHANGED <<orders, book>>
          \/ Withdraw(n, signal, market, now)
          \/ Reprice(n, signal, market, now)
  BY DEF Revalidate
<1>3. n \in DOMAIN book
  BY DEF PendingOf
<1>4. ASSUME NEW s \in Symbols PROVE Net(orders', s) = Net(orders, s)
  BY <1>2, <1>3, WithdrawEnds, EndFillsNothing, RepriceFillsNothing
<1>5. QED
  BY <1>1, <1>4, NothingFilled

(* The filled order moves the sum of its symbol by its signed quantity.    *)
LEMMA MatchMovesNet ==
    ASSUME IInv, NEW n, Match(n), NEW s \in Symbols
    PROVE  Net(orders', s) = IF s = loop.symbol
             THEN Net(orders, s) + (IF book[n].side = "BUY" THEN book[n].qty ELSE -book[n].qty)
             ELSE Net(orders, s)
<1>1. n \in DOMAIN book /\ SymbolOf[book[n].intent] = loop.symbol
  BY FillFacts
<1>2. Sound(orders, book) /\ Ends(orders, book, n, "FILLED", orders', book')
  BY MatchEnds DEF IInv, OrderEnds
<1>3. "FILLED" \in Terminal
  BY DEF Terminal, OrderState
<1>4. QED
  BY <1>1, <1>2, <1>3, NetAfterEnd

LEMMA FillBuyKeepsHInv ==
    ASSUME IInv, HInv, NEW n, FillBuy(n)
    PROVE  HInv'
<1> DEFINE s == loop.symbol
           p == book[n]
<1>1. Match(n) /\ failed' = failed /\ p.side = "BUY" /\ ~failed
  BY MatchSpends DEF FillBuy, Visited
<1>2. /\ s \in Symbols /\ p.qty \in Nat \ {0} /\ p.price \in Nat \ {0}
      /\ position \in [Symbols -> Nat]
  BY <1>1, FillFacts
<1>3. Agree
  BY <1>1 DEF HInv
<1>4. position[s] = 0 /\ position' = [position EXCEPT ![s] = p.qty]
  BY <1>2, PositionMoves DEF FillBuy, PositionAccepts, Opening
<1>5. BuyAllowed(account, p.qty, p.price) /\ account' = AfterBuy(account, s, p.qty, p.price)
  BY DEF FillBuy, BuyRecordable
<1>6. \A x \in Symbols : Net(orders', x) = IF x = s THEN Net(orders, x) + p.qty
                                                     ELSE Net(orders, x)
  BY <1>1, MatchMovesNet
<1> HIDE DEF s, p
<1>7. AccountSound(account') /\ account'.qty = [account.qty EXCEPT ![s] = account.qty[s] + p.qty]
  BY <1>2, <1>3, <1>5, BuyApplied DEF Agree
<1>8. account.qty \in [Symbols -> Int]
  BY <1>3 DEF Agree, AccountSound
<1>9. ASSUME NEW x \in Symbols
      PROVE  account'.qty[x] = position'[x] /\ position'[x] = Net(orders', x)
  BY <1>2, <1>3, <1>4, <1>6, <1>7, <1>8 DEF Agree
<1>10. Agree'
  BY <1>7, <1>9 DEF Agree
<1>11. QED
  BY <1>10 DEF HInv

LEMMA FillSellKeepsHInv ==
    ASSUME SalesCoverFees, IInv, HInv, NEW n, FillSell(n)
    PROVE  HInv'
<1> DEFINE s == loop.symbol
           p == book[n]
<1>1. Match(n) /\ failed' = failed /\ p.side = "SELL" /\ ~failed
  BY MatchSpends DEF FillSell, Visited
<1>2. /\ s \in Symbols /\ p.qty \in Nat \ {0} /\ p.price \in Nat \ {0}
      /\ position \in [Symbols -> Nat]
  BY <1>1, FillFacts
<1>3. Agree
  BY <1>1 DEF HInv
<1>4. position' = [position EXCEPT ![s] = position[s] - p.qty]
  BY <1>2, PositionMoves DEF FillSell
<1>5. account' = AfterSell(account, s, p.qty, p.price)
  BY DEF FillSell
<1>6. \A x \in Symbols : Net(orders', x) = IF x = s THEN Net(orders, x) + (-p.qty)
                                                     ELSE Net(orders, x)
  BY <1>1, MatchMovesNet
<1> HIDE DEF s, p
<1>7. AccountSound(account') /\ account'.qty = [account.qty EXCEPT ![s] = account.qty[s] - p.qty]
  BY <1>2, <1>3, <1>5, SaleApplied DEF Agree
<1>8. account.qty \in [Symbols -> Int]
  BY <1>3 DEF Agree, AccountSound
<1>9. ASSUME NEW x \in Symbols
      PROVE  account'.qty[x] = position'[x] /\ position'[x] = Net(orders', x)
  BY <1>2, <1>3, <1>4, <1>6, <1>7, <1>8 DEF Agree
<1>10. Agree'
  BY <1>7, <1>9 DEF Agree
<1>11. QED
  BY <1>10 DEF HInv

(* exit_position reaches the ledger, because the wallet replays.           *)
LEMMA ExitKeepsHInv ==
    ASSUME SalesCoverFees, IInv, HInv, NEW s \in Symbols, NEW price \in Markets,
           ExitPosition(s, price)
    PROVE  HInv'
<1>1. SUFFICES ASSUME ~failed PROVE HInv'
  BY DEF HInv, ExitPosition
<1> DEFINE h == position[s]
<1>2. Agree
  BY <1>1 DEF HInv
<1>3. h \in Nat \ {0} /\ price \in Nat \ {0} /\ position \in [Symbols -> Nat]
  BY RuntimeAssumption DEF IInv, ExitPosition, Held
<1>4. account.qty \in [Symbols -> Int] /\ account.qty[s] = h
  BY <1>2 DEF Agree, AccountSound
<1>5. SellRecordable([qty |-> h], s)
  BY <1>2, <1>3, <1>4 DEF SellRecordable, WalletOK, SellAllowed, Agree, AccountSound
<1>6. account' = AfterSell(account, s, h, price)
  BY <1>5 DEF ExitPosition
<1>7. position' = [position EXCEPT ![s] = 0]
  BY ExitKeepsIInv
<1>8. \A x \in Symbols : Net(orders', x) = IF x = s THEN Net(orders, x) - h ELSE Net(orders, x)
  <2> DEFINE o == OrderOf(s, "SELL", position[s], price, "PENDING")
  <2>1. PICK k : Exits(orders, book, k, o, orders')
    BY ExitKeepsIInv
  <2>2. o \in OrderRecord /\ Sound(orders, book)
    BY ExitKeepsIInv DEF IInv
  <2>3. o.side = "SELL" /\ o.symbol = s /\ o.qty = h
    BY DEF OrderOf
  <2> HIDE DEF o, h
  <2>4. ASSUME NEW x \in Symbols
        PROVE  Net(orders', x) = IF x = s THEN Net(orders, x) - h ELSE Net(orders, x)
    BY <2>1, <2>2, <2>3, NetAfterExit
  <2>5. QED
    BY <2>4
<1> HIDE DEF h
<1>9. AccountSound(account') /\ account'.qty = [account.qty EXCEPT ![s] = account.qty[s] - h]
  BY <1>2, <1>3, <1>6, SaleApplied DEF Agree
<1>10. ASSUME NEW x \in Symbols
       PROVE  account'.qty[x] = position'[x] /\ position'[x] = Net(orders', x)
  BY <1>2, <1>3, <1>4, <1>7, <1>8, <1>9 DEF Agree, h
<1>11. QED
  BY <1>9, <1>10 DEF Agree, HInv

LEMMA InitHInv == Init => HInv
<1> SUFFICES ASSUME Init PROVE Agree
  BY DEF HInv
<1>1. AccountSound(account)
  BY LedgerAssumption DEF Init, EmptyAccount, AccountSound
<1>2. ASSUME NEW s \in Symbols
      PROVE  account.qty[s] = position[s] /\ position[s] = Net(orders, s)
  <2>1. Filled(orders, s) = {}
    BY DEF Init, Filled
  <2>2. Net(orders, s) = 0
    BY <2>1, SumOfEmpty DEF Net
  <2>3. QED
    BY <2>2 DEF Init, EmptyAccount
<1>3. QED
  BY <1>1, <1>2 DEF Agree

LEMMA StepKeepsHInv ==
    ASSUME SalesCoverFees
    PROVE  IInv /\ HInv /\ [Next]_vars => HInv'
<1> SUFFICES ASSUME IInv, HInv, [Next]_vars PROVE HInv'
  OBVIOUS
<1>1. ASSUME NEW i \in Intents, NEW signal \in Signals, SubmitSignal(i, signal)
      PROVE  HInv'
  BY <1>1, SubmitKeepsHInv
<1>2. ASSUME NEW i \in Intents, NEW signal \in Signals, NEW market \in Markets,
             NEW now \in Times, Revalidate(i, signal, market, now)
      PROVE  HInv'
  BY <1>2, RevalidateKeepsHInv
<1>3. ASSUME UNCHANGED <<orders, position, account, failed>>
      PROVE  HInv'
  BY <1>3 DEF HInv, Agree
<1>4. ASSUME NEW e \in EventIds, NEW s \in Symbols, NEW market \in Markets,
             NEW now \in Times, BeginEvent(e, s, market, now)
      PROVE  HInv'
  BY <1>3, <1>4 DEF BeginEvent, runtime
<1>5. CASE EndEvent
  BY <1>3, <1>5 DEF EndEvent, runtime
<1>6. ASSUME NEW n, VisitAndKeep(n)
      PROVE  HInv'
  BY <1>3, <1>6 DEF VisitAndKeep, Visited
<1>7. ASSUME NEW n, VisitAndRevalidate(n)
      PROVE  HInv'
  <2>1. n \in DOMAIN book /\ OrderEnds(n, "CANCELLED")
    BY <1>7, VisitAndRevalidateKeepsIInv
  <2>2. UNCHANGED <<position, account, failed>>
    BY <1>7 DEF VisitAndRevalidate, Visited
  <2>3. QED
    BY <2>1, <2>2, EndFillsNothing, NothingFilled
<1>8. ASSUME NEW n, FillBuy(n) \/ FillSell(n)
      PROVE  HInv'
  BY <1>8, FillBuyKeepsHInv, FillSellKeepsHInv
<1>9. ASSUME NEW n, FillBuyFails(n) \/ FillSellFails(n)
      PROVE  HInv'
  BY <1>9 DEF FillBuyFails, FillSellFails, FailClosed, HInv
<1>10. ASSUME NEW s \in Symbols, NEW price \in Markets, ExitPosition(s, price)
       PROVE  HInv'
  BY <1>10, ExitKeepsHInv
<1>11. CASE UNCHANGED vars
  BY <1>3, <1>11 DEF vars
<1>12. QED
  BY <1>1, <1>2, <1>4, <1>5, <1>6, <1>7, <1>8, <1>9, <1>10, <1>11 DEF Next

(* Spec 13.2 and 13.6: where every sale brings at least its fee, the       *)
(* position book, the ledger and the sum of the filled orders agree on     *)
(* every holding for as long as the runtime is healthy.                    *)
THEOREM HoldingsStayInAgreement ==
    ASSUME SalesCoverFees
    PROVE  Spec => []HoldingsAgree
<1>1. HInv => HoldingsAgree
  BY NetIsHolding DEF HInv, Agree, HoldingsAgree
<1>2. IInv /\ HInv /\ [Next]_vars => HInv'
  BY StepKeepsHInv
<1>3. QED
  BY <1>1, <1>2, InitHInv, IInvAlways, PTL DEF Spec

(* With a fee that is a rate of at most 100 percent, as the default is.    *)
COROLLARY HoldingsAgreeWithoutMinimum ==
    ASSUME FeeMinimum = 0, FeeRate <= 100
    PROVE  Spec => []HoldingsAgree
<1>1. SalesCoverFees
  BY FreeMinimumCoversFees
<1>2. QED
  BY <1>1, HoldingsStayInAgreement
=============================================================================
