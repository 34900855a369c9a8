-------------------------- MODULE CapitalBridgeProofs --------------------------
(***************************************************************************)
(* Proofs about CapitalBridge for every finite set of symbols, every       *)
(* allocation configuration that CapitalPolicy accepts and every exchange  *)
(* minimum and result of a trade.                                          *)
(***************************************************************************)
EXTENDS CapitalRecovery, FiniteSums, SequenceTheorems

OrderRecord ==
    [symbol : Symbols, notional : Nat, state : {"PENDING", "FILLED", "CANCELLED"}]

LedgerRecord == [realized : Int, cost : [Symbols -> Nat]]

(* The shape of the state.                                                 *)
BridgeType ==
    /\ policy \in PolicyRecord
    /\ orders \in Seq(OrderRecord)
    /\ ledger \in LedgerRecord
    /\ entering \in Symbols \cup {NoSymbol}

(* What holds of one symbol between two journal writes: its place in the   *)
(* policy says what the manager and the ledger hold for it, and its only   *)
(* pending order is the one that is bound to it.                           *)
SymbolInv(s) ==
    /\ policy.pending[s] = policy.reserved[s]
    /\ policy.committed[s] = ledger.cost[s]
    /\ policy.state[s] = "FILLED" <=> ledger.cost[s] > 0
    /\ policy.state[s] \in {"RESERVED", "BOUND"} <=> policy.pending[s] > 0
    /\ policy.state[s] = "RESERVED" <=> s = entering
    /\ policy.orderOf[s] # 0 =>
          /\ policy.orderOf[s] \in DOMAIN orders
          /\ orders[policy.orderOf[s]].symbol = s
          /\ policy.state[s] \in {"BOUND", "FILLED"}
    /\ policy.state[s] = "BOUND" =>
          /\ policy.orderOf[s] # 0
          /\ orders[policy.orderOf[s]].notional = policy.pending[s]
    /\ \A n \in DOMAIN orders :
          orders[n].symbol = s /\ orders[n].state = "PENDING"
              <=> policy.state[s] = "BOUND" /\ n = policy.orderOf[s]

(* Capital that may be negative on the way: the trading capital of the     *)
(* code is cut off at zero.                                                *)
Covered ==
    StartingCapital + ledger.realized >= TotalOf(policy.pending) + TotalOf(ledger.cost)

IInv ==
    /\ BridgeType
    /\ policy.active = HeldIn(ledger)
    /\ \A s \in Symbols : SymbolInv(s)
    /\ ConcurrencyCapped
    /\ Covered
-----------------------------------------------------------------------------
(* What the callbacks of the manager and the bridge do to each field.      *)
LEMMA ReservedFields ==
    ASSUME NEW p \in PolicyRecord, NEW s \in Symbols, NEW amount \in Nat
    PROVE  LET r == Reserved(p, s, amount)
           IN  /\ r \in PolicyRecord
               /\ r.state = [p.state EXCEPT ![s] = "RESERVED"]
               /\ r.pending = [p.pending EXCEPT ![s] = amount]
               /\ r.reserved = [p.reserved EXCEPT ![s] = amount]
               /\ r.orderOf = p.orderOf /\ r.committed = p.committed /\ r.active = p.active
BY DEF Reserved, PolicyRecord, PolicyState

LEMMA BoundFields ==
    ASSUME NEW p \in PolicyRecord, NEW s \in Symbols, NEW n \in Nat
    PROVE  LET r == Bound(p, s, n)
           IN  /\ r \in PolicyRecord
               /\ r.state = [p.state EXCEPT ![s] = "BOUND"]
               /\ r.orderOf = [p.orderOf EXCEPT ![s] = n]
               /\ r.pending = p.pending /\ r.reserved = p.reserved
               /\ r.committed = p.committed /\ r.active = p.active
BY DEF Bound, PolicyRecord, PolicyState

LEMMA ReleasedFields ==
    ASSUME NEW p \in PolicyRecord, NEW s \in Symbols
    PROVE  LET r == Released(p, s)
           IN  /\ r \in PolicyRecord
               /\ r.state = [p.state EXCEPT ![s] = "RELEASED"]
               /\ r.pending = [p.pending EXCEPT ![s] = 0]
               /\ r.orderOf = [p.orderOf EXCEPT ![s] = 0]
               /\ r.reserved = [p.reserved EXCEPT ![s] = 0]
               /\ r.committed = p.committed /\ r.active = p.active
BY DEF Released, PolicyRecord, PolicyState

LEMMA FilledFields ==
    ASSUME NEW p \in PolicyRecord, NEW s \in Symbols
    PROVE  LET r == Filled(p, s)
           IN  /\ r \in PolicyRecord
               /\ r.state = [p.state EXCEPT ![s] = "FILLED"]
               /\ r.pending = [p.pending EXCEPT ![s] = 0]
               /\ r.reserved = [p.reserved EXCEPT ![s] = 0]
               /\ r.committed = [p.committed EXCEPT ![s] = p.reserved[s]]
               /\ r.orderOf = p.orderOf
BY DEF Filled, PolicyRecord, PolicyState

LEMMA ExitedFields ==
    ASSUME NEW p \in PolicyRecord, NEW s \in Symbols
    PROVE  LET r == Exited(p, s)
           IN  /\ r \in PolicyRecord
               /\ r.state = [p.state EXCEPT ![s] = "EXITED"]
               /\ r.pending = [p.pending EXCEPT ![s] = 0]
               /\ r.orderOf = [p.orderOf EXCEPT ![s] = 0]
               /\ r.committed = [p.committed EXCEPT ![s] = 0]
               /\ r.reserved = p.reserved
BY DEF Exited, PolicyRecord, PolicyState

LEMMA SyncedFields ==
    ASSUME NEW p \in PolicyRecord, NEW account
    PROVE  LET r == Synced(p, account)
           IN  /\ r \in PolicyRecord
               /\ r.active = HeldIn(account)
               /\ r.state = p.state /\ r.pending = p.pending /\ r.orderOf = p.orderOf
               /\ r.reserved = p.reserved /\ r.committed = p.committed
BY DEF Synced, HeldIn, PolicyRecord

(* The totals of the policy and of the ledger.                             *)
LEMMA TotalType ==
    ASSUME NEW f \in [Symbols -> Nat]
    PROVE  TotalOf(f) \in Nat
BY SumOfNaturals, PolicyConfigAssumption DEF TotalOf

LEMMA TotalOfChange ==
    ASSUME NEW f \in [Symbols -> Nat], NEW s \in Symbols, NEW v \in Nat
    PROVE  TotalOf([f EXCEPT ![s] = v]) = TotalOf(f) - f[s] + v
<1> DEFINE g == [f EXCEPT ![s] = v]
<1>1. /\ \A x \in Symbols : f[x] \in Int
      /\ \A x \in Symbols : g[x] \in Int
      /\ \A x \in Symbols \ {s} : g[x] = f[x]
      /\ g[s] = v
  OBVIOUS
<1> HIDE DEF g
<1>2. SumFunctionOnSet(g, Symbols) = SumFunctionOnSet(f, Symbols) - f[s] + g[s]
  BY <1>1, SumOfChange, PolicyConfigAssumption
<1>3. QED
  BY <1>1, <1>2 DEF TotalOf, g

(* What an allocation is sized to is an amount.                            *)
LEMMA NotionalType ==
    ASSUME BridgeType, NEW minimum \in Nat
    PROVE  TradingCapital(ledger) \in Nat /\ FinalNotional(ledger, minimum) \in Nat
<1>1. TradingCapital(ledger) \in Nat
  BY PolicyConfigAssumption DEF TradingCapital, BridgeType, LedgerRecord, ValidConfig
<1>2. DesiredAllocation(ledger) \in Nat
  <2>1. AllocationRate \in Nat /\ FixedAllocation \in Nat
    BY PolicyConfigAssumption DEF ValidConfig
  <2>2. AllocationRate * TradingCapital(ledger) \in Nat
    BY <1>1, <2>1
  <2>3. QED
    BY <2>1, <2>2 DEF DesiredAllocation
<1>3. QED
  BY <1>1, <1>2 DEF FinalNotional

(* Nothing about the other symbols changes.                                *)
LEMMA OthersKeep ==
    ASSUME BridgeType, BridgeType', NEW s \in Symbols, SymbolInv(s),
           policy'.pending[s] = policy.pending[s], policy'.reserved[s] = policy.reserved[s],
           policy'.committed[s] = policy.committed[s], policy'.state[s] = policy.state[s],
           policy'.orderOf[s] = policy.orderOf[s], ledger'.cost[s] = ledger.cost[s],
           s = entering' <=> s = entering,
           \A n \in DOMAIN orders :
              orders[n].symbol = s => n \in DOMAIN orders' /\ orders'[n] = orders[n],
           \A n \in DOMAIN orders' :
              orders'[n].symbol = s => n \in DOMAIN orders /\ orders[n].symbol = s
    PROVE  SymbolInv(s)'
<1>1. policy.orderOf[s] # 0 =>
          /\ policy.orderOf[s] \in DOMAIN orders'
          /\ orders'[policy.orderOf[s]] = orders[policy.orderOf[s]]
  BY DEF SymbolInv
<1>2. \A n \in DOMAIN orders' :
          orders'[n].symbol = s /\ orders'[n].state = "PENDING"
              <=> policy.state[s] = "BOUND" /\ n = policy.orderOf[s]
  BY <1>1 DEF SymbolInv
<1>3. QED
  BY <1>1, <1>2 DEF SymbolInv

Busy == HeldIn(ledger) \cup {s \in Symbols : policy.pending[s] > 0}

(* No more symbols are pending or held than before.                        *)
LEMMA CapKept ==
    ASSUME ConcurrencyCapped, Busy' \subseteq Busy
    PROVE  ConcurrencyCapped'
<1>1. IsFiniteSet(Busy)
  <2>1. Busy \in SUBSET Symbols
    BY DEF Busy, HeldIn
  <2>2. QED
    BY <2>1, FS_Subset, PolicyConfigAssumption
<1>2. Cardinality(Busy') <= Cardinality(Busy)
  BY <1>1, FS_Subset
<1>3. Cardinality(Busy) \in Nat /\ Cardinality(Busy') \in Nat
  BY <1>1, FS_Subset, FS_CardinalityType
<1>4. MaxPositions \in Nat
  BY PolicyConfigAssumption DEF ValidConfig
<1>5. QED
  BY <1>2, <1>3, <1>4 DEF ConcurrencyCapped, Busy

LEMMA InitInv == Init => IInv
<1> SUFFICES ASSUME Init
             PROVE  IInv
  OBVIOUS
<1>1. BridgeType
  BY DEF Init, BridgeType, NoPolicy, NoAmount, EmptyLedger, PolicyRecord, PolicyState, LedgerRecord
<1>2. policy.active = {} /\ HeldIn(ledger) = {} /\ Busy = {}
  BY DEF Init, NoPolicy, NoAmount, EmptyLedger, HeldIn, Busy
<1>3. \A s \in Symbols : SymbolInv(s)
  BY BridgeAssumption DEF Init, SymbolInv, NoPolicy, NoAmount, EmptyLedger
<1>4. ConcurrencyCapped
  BY <1>2, FS_EmptySet, PolicyConfigAssumption DEF ConcurrencyCapped, Busy, ValidConfig
<1>5. Covered
  <2>1. TotalOf(policy.pending) = 0 /\ TotalOf(ledger.cost) = 0
    BY SumOfZeroes, PolicyConfigAssumption DEF TotalOf, Init, NoPolicy, NoAmount, EmptyLedger
  <2>2. ledger.realized = 0
    BY DEF Init, EmptyLedger
  <2>3. QED
    BY <2>1, <2>2, PolicyConfigAssumption DEF Covered, ValidConfig
<1>6. QED
  BY <1>1, <1>2, <1>3, <1>4, <1>5 DEF IInv

LEMMA AllocateInv ==
    ASSUME IInv, NEW s \in Symbols, NEW minimum \in Minimums, Allocate(s, minimum)
    PROVE  IInv'
<1> DEFINE p == Synced(policy, ledger)
           amount == FinalNotional(ledger, minimum)
<1>0. BridgeType /\ SymbolInv(s) /\ policy \in PolicyRecord
  BY DEF IInv, BridgeType
<1>1. /\ p \in PolicyRecord /\ p.active = HeldIn(ledger)
      /\ p.state = policy.state /\ p.pending = policy.pending /\ p.orderOf = policy.orderOf
      /\ p.reserved = policy.reserved /\ p.committed = policy.committed
  BY <1>0, SyncedFields
<1>2. amount \in Nat /\ TradingCapital(ledger) \in Nat
  BY <1>0, NotionalType, BridgeAssumption
<1>3. /\ entering = NoSymbol /\ entering' = s /\ ledger' = ledger /\ orders' = orders
      /\ ledger.cost[s] = 0 /\ Accepts(p, s, amount, Spendable) /\ policy' = Reserved(p, s, amount)
  BY DEF Allocate, Reserve
<1> HIDE DEF p, amount
<1>4. /\ policy' \in PolicyRecord
      /\ policy'.state = [policy.state EXCEPT ![s] = "RESERVED"]
      /\ policy'.pending = [policy.pending EXCEPT ![s] = amount]
      /\ policy'.reserved = [policy.reserved EXCEPT ![s] = amount]
      /\ policy'.orderOf = policy.orderOf /\ policy'.committed = policy.committed
      /\ policy'.active = HeldIn(ledger)
  BY <1>1, <1>2, <1>3, ReservedFields
<1>5. BridgeType'
  BY <1>0, <1>3, <1>4 DEF BridgeType
<1>6. policy'.active = HeldIn(ledger)'
  BY <1>3, <1>4 DEF HeldIn
<1>7. policy.reserved[s] = 0 /\ 0 < amount /\ amount <= Spendable
  BY <1>1, <1>3 DEF Accepts
<1>8. policy.pending[s] = 0 /\ policy.state[s] \notin {"RESERVED", "BOUND", "FILLED"}
  BY <1>0, <1>3, <1>7 DEF SymbolInv
<1>9. SymbolInv(s)'
  <2>1. /\ policy'.state[s] = "RESERVED" /\ policy'.pending[s] = amount
        /\ policy'.reserved[s] = amount
    BY <1>0, <1>4 DEF PolicyRecord
  <2>2. policy.orderOf[s] = 0
    BY <1>0, <1>8 DEF SymbolInv
  <2>3. QED
    BY <1>0, <1>2, <1>3, <1>4, <1>7, <1>8, <2>1, <2>2 DEF SymbolInv
<1>10. ASSUME NEW r \in Symbols, r # s
       PROVE  SymbolInv(r)'
  <2>1. r # entering /\ r # entering'
    BY <1>3, <1>10, BridgeAssumption
  <2>2. SymbolInv(r)
    BY DEF IInv
  <2>3. /\ policy'.pending[r] = policy.pending[r] /\ policy'.reserved[r] = policy.reserved[r]
        /\ policy'.committed[r] = policy.committed[r] /\ policy'.state[r] = policy.state[r]
        /\ policy'.orderOf[r] = policy.orderOf[r]
    BY <1>0, <1>4, <1>10 DEF PolicyRecord
  <2>4. QED
    BY <1>0, <1>3, <1>5, <2>1, <2>2, <2>3, OthersKeep
<1>11. ConcurrencyCapped'
  <2>1. Busy' = Busy \cup {s}
    BY <1>0, <1>2, <1>3, <1>4, <1>7 DEF Busy, HeldIn, PolicyRecord
  <2>2. ConcurrentSymbols(p) = Busy
    BY <1>1 DEF ConcurrentSymbols, Busy, IInv, SymbolInv
  <2>3. s \notin Busy
    BY <1>3, <1>8 DEF Busy, HeldIn
  <2>4. IsFiniteSet(Busy)
    <3>1. Busy \in SUBSET Symbols
      BY DEF Busy, HeldIn
    <3>2. QED
      BY <3>1, FS_Subset, PolicyConfigAssumption
  <2>5. Cardinality(Busy') = Cardinality(Busy) + 1 /\ Cardinality(Busy) \in Nat
    BY <2>1, <2>3, <2>4, FS_AddElement, FS_CardinalityType
  <2>6. MaxPositions # 0 => Cardinality(Busy) < MaxPositions
    BY <1>3, <2>2 DEF Accepts
  <2>7. MaxPositions \in Nat
    BY PolicyConfigAssumption DEF ValidConfig
  <2>8. MaxPositions # 0 => Cardinality(Busy') <= MaxPositions
    BY <2>5, <2>6, <2>7
  <2>9. QED
    BY <2>8 DEF ConcurrencyCapped, Busy
<1>12. Covered'
  <2>1. /\ policy.pending \in [Symbols -> Nat] /\ ledger.cost \in [Symbols -> Nat]
        /\ ledger.realized \in Int /\ StartingCapital \in Int
    BY <1>0, PolicyConfigAssumption DEF BridgeType, PolicyRecord, LedgerRecord, ValidConfig
  <2>2. TotalOf(policy.pending) \in Nat /\ TotalOf(ledger.cost) \in Nat
    BY <2>1, TotalType
  <2>3. TotalOf(policy'.pending) = TotalOf(policy.pending) + amount
    BY <1>2, <1>4, <1>8, <2>1, <2>2, TotalOfChange
  <2>4. amount <= TradingCapital(ledger) - TotalOf(policy.pending) - TotalOf(ledger.cost)
    BY <1>7 DEF Spendable, AvailableCapital, PolicyReserved
  <2>5. TradingCapital(ledger) > 0
    BY <1>2, <1>7, <2>2, <2>4
  <2>6. TradingCapital(ledger) = StartingCapital + ledger.realized
    BY <2>1, <2>5 DEF TradingCapital
  <2>7. QED
    BY <1>2, <1>3, <2>1, <2>2, <2>3, <2>4, <2>6 DEF Covered
<1>13. QED
  BY <1>5, <1>6, <1>9, <1>10, <1>11, <1>12 DEF IInv
-----------------------------------------------------------------------------
(* The orders of D4 after one was created and after one was moved.         *)
LEMMA OrderAdded ==
    ASSUME NEW q \in Seq(OrderRecord), NEW x \in OrderRecord
    PROVE  /\ Append(q, x) \in Seq(OrderRecord)
           /\ DOMAIN Append(q, x) = DOMAIN q \cup {Len(q) + 1}
           /\ Append(q, x)[Len(q) + 1] = x
           /\ \A n \in DOMAIN q : Append(q, x)[n] = q[n]
           /\ Len(q) + 1 \notin DOMAIN q /\ Len(q) + 1 \in Nat /\ Len(q) + 1 # 0
OBVIOUS

LEMMA OrderMoved ==
    ASSUME NEW q \in Seq(OrderRecord), NEW n \in DOMAIN q,
           NEW st \in {"PENDING", "FILLED", "CANCELLED"}
    PROVE  LET r == [q EXCEPT ![n].state = st]
           IN  /\ r \in Seq(OrderRecord)
               /\ DOMAIN r = DOMAIN q
               /\ r[n].symbol = q[n].symbol /\ r[n].state = st /\ r[n].notional = q[n].notional
               /\ \A m \in DOMAIN q \ {n} : r[m] = q[m]
<1> DEFINE x == [q[n] EXCEPT !.state = st]
           r == [q EXCEPT ![n] = x]
<1>1. q[n] \in OrderRecord
  OBVIOUS
<1>2. x \in OrderRecord /\ x.symbol = q[n].symbol /\ x.state = st /\ x.notional = q[n].notional
  BY <1>1 DEF OrderRecord
<1> HIDE DEF x
<1>3. r \in Seq(OrderRecord) /\ DOMAIN r = DOMAIN q
  BY <1>2, ExceptSeq
<1>4. r[n] = x /\ \A m \in DOMAIN q \ {n} : r[m] = q[m]
  OBVIOUS
<1>5. QED
  BY <1>2, <1>3, <1>4 DEF x

(* The step changes what concerns symbol s, and no other symbol.           *)
OnlyFor(s) ==
    \A r \in Symbols \ {s} :
        /\ policy'.pending[r] = policy.pending[r] /\ policy'.reserved[r] = policy.reserved[r]
        /\ policy'.committed[r] = policy.committed[r] /\ policy'.state[r] = policy.state[r]
        /\ policy'.orderOf[r] = policy.orderOf[r] /\ ledger'.cost[r] = ledger.cost[r]
        /\ r = entering' <=> r = entering
        /\ \A n \in DOMAIN orders :
              orders[n].symbol = r => n \in DOMAIN orders' /\ orders'[n] = orders[n]
        /\ \A n \in DOMAIN orders' :
              orders'[n].symbol = r => n \in DOMAIN orders /\ orders[n].symbol = r

LEMMA StepOfOneSymbol ==
    ASSUME IInv, BridgeType', NEW s \in Symbols, OnlyFor(s), SymbolInv(s)',
           policy'.active = HeldIn(ledger'), ConcurrencyCapped', Covered'
    PROVE  IInv'
<1>1. ASSUME NEW r \in Symbols, r # s
      PROVE  SymbolInv(r)'
  BY <1>1, OthersKeep DEF IInv, OnlyFor
<1>2. policy'.active = HeldIn(ledger)'
  BY DEF HeldIn
<1>3. QED
  BY <1>1, <1>2 DEF IInv

LEMMA SubmitInv ==
    ASSUME IInv, SubmitAndBind
    PROVE  IInv'
<1>s. SUFFICES ASSUME NEW s \in Symbols, s = entering
              PROVE  IInv'
  BY DEF SubmitAndBind, IInv, BridgeType
<1> DEFINE n == Len(orders) + 1
           x == Order(s, policy.pending[s], "PENDING")
<1>0. BridgeType /\ policy \in PolicyRecord /\ orders \in Seq(OrderRecord)
  BY DEF IInv, BridgeType
<1>1. /\ s # NoSymbol /\ s = entering /\ orders' = Append(orders, x)
      /\ policy' = Bound(policy, s, n) /\ entering' = NoSymbol /\ ledger' = ledger
  BY <1>s DEF SubmitAndBind, Submitted
<1>2. SymbolInv(s)
  BY DEF IInv
<1>3. policy.state[s] = "RESERVED" /\ ledger.cost[s] = 0 /\ policy.pending[s] > 0
  BY <1>0, <1>1, <1>2 DEF SymbolInv, BridgeType, LedgerRecord
<1>4. x \in OrderRecord /\ x.symbol = s /\ x.state = "PENDING" /\ x.notional = policy.pending[s]
  BY <1>0, <1>1 DEF Order, OrderRecord, PolicyRecord
<1> HIDE DEF x
<1>5. /\ orders' \in Seq(OrderRecord) /\ DOMAIN orders' = DOMAIN orders \cup {n}
      /\ orders'[n] = x /\ \A m \in DOMAIN orders : orders'[m] = orders[m]
      /\ n \notin DOMAIN orders /\ n \in Nat /\ n # 0
  BY <1>0, <1>1, <1>4, OrderAdded
<1> HIDE DEF n
<1>6. /\ policy' \in PolicyRecord
      /\ policy'.state = [policy.state EXCEPT ![s] = "BOUND"]
      /\ policy'.orderOf = [policy.orderOf EXCEPT ![s] = n]
      /\ policy'.pending = policy.pending /\ policy'.reserved = policy.reserved
      /\ policy'.committed = policy.committed /\ policy'.active = policy.active
  <2>1. policy' = Bound(policy, s, n)
    BY <1>1
  <2>2. policy \in PolicyRecord /\ n \in Nat
    BY <1>0, <1>5
  <2>3. QED
    BY ONLY <2>1, <2>2, BoundFields, s \in Symbols
<1>7. BridgeType'
  BY <1>0, <1>1, <1>5, <1>6 DEF BridgeType
<1>8. OnlyFor(s)
  <2>1. ASSUME NEW r \in Symbols \ {s}
        PROVE  policy'.state[r] = policy.state[r] /\ policy'.orderOf[r] = policy.orderOf[r]
    BY <1>0, <1>6 DEF PolicyRecord
  <2>2. ASSUME NEW r \in Symbols \ {s}
        PROVE  r # entering /\ r # entering'
    BY <1>1, BridgeAssumption
  <2>3. ASSUME NEW r \in Symbols \ {s}, NEW m \in DOMAIN orders', orders'[m].symbol = r
        PROVE  m \in DOMAIN orders /\ orders[m].symbol = r
    BY <1>4, <1>5, <2>3
  <2>4. QED
    BY <1>1, <1>5, <1>6, <2>1, <2>2, <2>3 DEF OnlyFor
<1>9. SymbolInv(s)'
  <2>1. policy'.state[s] = "BOUND" /\ policy'.orderOf[s] = n
    BY <1>0, <1>1, <1>6 DEF PolicyRecord
  <2>2. s # entering'
    BY <1>1
  <2>3. ASSUME NEW m \in DOMAIN orders'
        PROVE  orders'[m].symbol = s /\ orders'[m].state = "PENDING" <=> m = n
    BY <1>2, <1>3, <1>4, <1>5 DEF SymbolInv
  <2>4. /\ policy'.pending[s] = policy'.reserved[s]
        /\ policy'.committed[s] = ledger'.cost[s]
        /\ ledger'.cost[s] = 0 /\ policy'.pending[s] > 0
    BY <1>1, <1>2, <1>3, <1>6 DEF SymbolInv
  <2>5. n \in DOMAIN orders' /\ orders'[n].symbol = s /\ orders'[n].notional = policy'.pending[s]
    BY <1>4, <1>5, <1>6
  <2>6. QED
    BY <1>5, <2>1, <2>2, <2>3, <2>4, <2>5 DEF SymbolInv
<1>10. policy'.active = HeldIn(ledger')
  BY <1>1, <1>6 DEF IInv
<1>11. ConcurrencyCapped' /\ Covered'
  BY <1>1, <1>6 DEF IInv, ConcurrencyCapped, HeldIn, Covered
<1>12. QED
  BY <1>1, <1>7, <1>8, <1>9, <1>10, <1>11, StepOfOneSymbol

(* Money that is released is no longer counted, and nobody else's is.      *)
LEMMA ReleaseEffect ==
    ASSUME IInv, NEW s \in Symbols, Release(s), ledger' = ledger
    PROVE  /\ policy' \in PolicyRecord
           /\ policy'.state = [policy.state EXCEPT ![s] = "RELEASED"]
           /\ policy'.pending = [policy.pending EXCEPT ![s] = 0]
           /\ policy'.orderOf = [policy.orderOf EXCEPT ![s] = 0]
           /\ policy'.reserved = [policy.reserved EXCEPT ![s] = 0]
           /\ policy'.committed = policy.committed
           /\ policy'.active = HeldIn(ledger')
           /\ ConcurrencyCapped' /\ Covered'
<1>0. BridgeType /\ policy \in PolicyRecord
  BY DEF IInv, BridgeType
<1>1. /\ policy' \in PolicyRecord
      /\ policy'.state = [policy.state EXCEPT ![s] = "RELEASED"]
      /\ policy'.pending = [policy.pending EXCEPT ![s] = 0]
      /\ policy'.orderOf = [policy.orderOf EXCEPT ![s] = 0]
      /\ policy'.reserved = [policy.reserved EXCEPT ![s] = 0]
      /\ policy'.committed = policy.committed /\ policy'.active = policy.active
  <2>1. policy' = Released(policy, s)
    BY DEF Release
  <2>2. QED
    BY ONLY <1>0, <2>1, ReleasedFields, s \in Symbols
<1>2. ConcurrencyCapped'
  <2>1. Busy' \subseteq Busy
    BY <1>0, <1>1 DEF Busy, HeldIn, PolicyRecord
  <2>2. QED
    BY <2>1, CapKept DEF IInv
<1>3. Covered'
  <2>1. /\ policy.pending \in [Symbols -> Nat] /\ ledger.cost \in [Symbols -> Nat]
        /\ ledger.realized \in Int /\ StartingCapital \in Int
    BY <1>0, PolicyConfigAssumption DEF BridgeType, PolicyRecord, LedgerRecord, ValidConfig
  <2>2. TotalOf(policy.pending) \in Nat /\ TotalOf(ledger.cost) \in Nat /\ policy.pending[s] \in Nat
    BY <2>1, TotalType
  <2>3. TotalOf(policy'.pending) = TotalOf(policy.pending) - policy.pending[s]
    <3>1. TotalOf([policy.pending EXCEPT ![s] = 0]) = TotalOf(policy.pending) - policy.pending[s] + 0
      BY <2>1, TotalOfChange
    <3>2. QED
      BY <1>1, <2>2, <3>1
  <2>4. QED
    BY <2>1, <2>2, <2>3 DEF Covered, IInv
<1>4. QED
  BY <1>1, <1>2, <1>3 DEF IInv

LEMMA RejectInv ==
    ASSUME IInv, RejectEntry
    PROVE  IInv'
<1>s. SUFFICES ASSUME NEW s \in Symbols, s = entering
              PROVE  IInv'
  BY DEF RejectEntry, IInv, BridgeType
<1>0. BridgeType /\ policy \in PolicyRecord
  BY DEF IInv, BridgeType
<1>1. /\ s # NoSymbol /\ Release(s) /\ entering' = NoSymbol
      /\ ledger' = ledger /\ orders' = orders
  BY <1>s DEF RejectEntry
<1>2. /\ policy' \in PolicyRecord
      /\ policy'.state = [policy.state EXCEPT ![s] = "RELEASED"]
      /\ policy'.pending = [policy.pending EXCEPT ![s] = 0]
      /\ policy'.orderOf = [policy.orderOf EXCEPT ![s] = 0]
      /\ policy'.reserved = [policy.reserved EXCEPT ![s] = 0]
      /\ policy'.committed = policy.committed
      /\ policy'.active = HeldIn(ledger')
      /\ ConcurrencyCapped' /\ Covered'
  BY <1>1, ReleaseEffect
<1>3. BridgeType'
  BY <1>0, <1>1, <1>2 DEF BridgeType
<1>4. SymbolInv(s)
  BY DEF IInv
<1>5. policy.state[s] = "RESERVED" /\ ledger.cost[s] = 0
  BY <1>0, <1>s, <1>4 DEF SymbolInv, BridgeType, LedgerRecord
<1>6. OnlyFor(s)
  <2>1. ASSUME NEW r \in Symbols \ {s}
        PROVE  /\ policy'.pending[r] = policy.pending[r] /\ policy'.reserved[r] = policy.reserved[r]
               /\ policy'.state[r] = policy.state[r] /\ policy'.orderOf[r] = policy.orderOf[r]
    BY <1>0, <1>2 DEF PolicyRecord
  <2>2. ASSUME NEW r \in Symbols \ {s}
        PROVE  r # entering /\ r # entering'
    BY <1>s, <1>1, BridgeAssumption
  <2>3. QED
    BY <1>1, <1>2, <2>1, <2>2 DEF OnlyFor
<1>7. SymbolInv(s)'
  <2>1. /\ policy'.state[s] = "RELEASED" /\ policy'.pending[s] = 0 /\ policy'.reserved[s] = 0
        /\ policy'.orderOf[s] = 0
    BY <1>0, <1>2 DEF PolicyRecord
  <2>2. s # entering'
    BY <1>1
  <2>3. QED
    BY <1>1, <1>2, <1>4, <1>5, <2>1, <2>2 DEF SymbolInv
<1>8. QED
  BY <1>2, <1>3, <1>6, <1>7, StepOfOneSymbol

LEMMA EndInv ==
    ASSUME IInv, NEW n \in DOMAIN orders, EndOrder(n)
    PROVE  IInv'
<1> DEFINE s == orders[n].symbol
<1>0. BridgeType /\ policy \in PolicyRecord /\ orders \in Seq(OrderRecord)
  BY DEF IInv, BridgeType
<1>s. s \in Symbols /\ n # 0
  <2>1. n \in 1 .. Len(orders) /\ orders[n] \in OrderRecord
    BY <1>0
  <2>2. QED
    BY <2>1 DEF OrderRecord
<1>1. /\ entering = NoSymbol /\ entering' = NoSymbol /\ ledger' = ledger
      /\ orders' = [orders EXCEPT ![n].state = "CANCELLED"]
      /\ orders[n].state = "PENDING" /\ policy.orderOf[s] = n
  BY DEF EndOrder, Ended
<1>t. Release(s)
  <2>1. PICK r \in Symbols : policy.orderOf[r] = n /\ Release(r)
    BY DEF EndOrder, ReleaseForOrder
  <2>2. orders[n].symbol = r
    BY <1>s, <2>1 DEF IInv, SymbolInv
  <2>3. QED
    BY <2>1, <2>2
<1>2. /\ policy' \in PolicyRecord
      /\ policy'.state = [policy.state EXCEPT ![s] = "RELEASED"]
      /\ policy'.pending = [policy.pending EXCEPT ![s] = 0]
      /\ policy'.orderOf = [policy.orderOf EXCEPT ![s] = 0]
      /\ policy'.reserved = [policy.reserved EXCEPT ![s] = 0]
      /\ policy'.committed = policy.committed
      /\ policy'.active = HeldIn(ledger')
      /\ ConcurrencyCapped' /\ Covered'
  BY <1>s, <1>t, <1>1, ReleaseEffect
<1>3. /\ orders' \in Seq(OrderRecord) /\ DOMAIN orders' = DOMAIN orders
      /\ orders'[n].symbol = s /\ orders'[n].state = "CANCELLED"
      /\ \A m \in DOMAIN orders \ {n} : orders'[m] = orders[m]
  BY <1>0, <1>1, OrderMoved
<1>u. PICK t \in Symbols : t = s
  BY <1>s
<1> HIDE DEF s
<1>4. BridgeType'
  BY <1>0, <1>1, <1>2, <1>3 DEF BridgeType
<1>5. SymbolInv(t)
  BY DEF IInv
<1>6. policy.state[t] = "BOUND" /\ ledger.cost[t] = 0
  BY <1>0, <1>1, <1>5, <1>u DEF SymbolInv, BridgeType, LedgerRecord, s
<1>7. OnlyFor(t)
  <2>1. ASSUME NEW r \in Symbols \ {t}
        PROVE  /\ policy'.pending[r] = policy.pending[r] /\ policy'.reserved[r] = policy.reserved[r]
               /\ policy'.state[r] = policy.state[r] /\ policy'.orderOf[r] = policy.orderOf[r]
    BY <1>0, <1>2, <1>u DEF PolicyRecord
  <2>2. ASSUME NEW r \in Symbols \ {t}, NEW m \in DOMAIN orders, orders[m].symbol = r
        PROVE  m \in DOMAIN orders' /\ orders'[m] = orders[m]
    BY <1>3, <1>u, <2>2 DEF s
  <2>3. ASSUME NEW r \in Symbols \ {t}, NEW m \in DOMAIN orders', orders'[m].symbol = r
        PROVE  m \in DOMAIN orders /\ orders[m].symbol = r
    BY <1>3, <1>u, <2>3 DEF s
  <2>4. QED
    BY <1>1, <1>2, <2>1, <2>2, <2>3 DEF OnlyFor
<1>8. SymbolInv(t)'
  <2>1. /\ policy'.state[t] = "RELEASED" /\ policy'.pending[t] = 0 /\ policy'.reserved[t] = 0
        /\ policy'.orderOf[t] = 0
    BY <1>0, <1>2, <1>u DEF PolicyRecord
  <2>2. t # entering'
    BY <1>1, BridgeAssumption
  <2>3. ASSUME NEW m \in DOMAIN orders'
        PROVE  ~(orders'[m].symbol = t /\ orders'[m].state = "PENDING")
    BY <1>1, <1>3, <1>5, <1>u DEF SymbolInv
  <2>4. QED
    BY <1>1, <1>2, <1>5, <1>6, <2>1, <2>2, <2>3 DEF SymbolInv
<1>9. QED
  BY <1>2, <1>4, <1>7, <1>8, StepOfOneSymbol

LEMMA FillInv ==
    ASSUME IInv, NEW n \in DOMAIN orders, FillOrder(n)
    PROVE  IInv'
<1>0. BridgeType /\ policy \in PolicyRecord /\ orders \in Seq(OrderRecord)
  BY DEF IInv, BridgeType
<1>s. PICK s \in Symbols : s = orders[n].symbol
  <2>1. n \in 1 .. Len(orders) /\ orders[n] \in OrderRecord
    BY <1>0
  <2>2. QED
    BY <2>1 DEF OrderRecord
<1>1. /\ entering = NoSymbol /\ entering' = NoSymbol
      /\ orders' = [orders EXCEPT ![n].state = "FILLED"]
      /\ orders[n].state = "PENDING" /\ policy.orderOf[s] = n
      /\ ledger' = [ledger EXCEPT !.cost[s] = @ + orders[n].notional]
      /\ policy' = Synced(Filled(policy, s), ledger')
  BY <1>s DEF FillOrder
<1>2. SymbolInv(s)
  BY DEF IInv
<1>3. /\ policy.state[s] = "BOUND" /\ orders[n].notional = policy.pending[s]
      /\ policy.pending[s] = policy.reserved[s] /\ policy.pending[s] > 0
      /\ policy.pending[s] \in Nat /\ ledger.cost[s] = 0
  <2>1. policy.state[s] = "BOUND"
    BY <1>s, <1>1, <1>2 DEF SymbolInv
  <2>2. policy.pending[s] \in Nat /\ ledger.cost[s] \in Nat
    BY <1>0 DEF BridgeType, PolicyRecord, LedgerRecord
  <2>3. QED
    BY <1>1, <1>2, <2>1, <2>2 DEF SymbolInv
<1>4. /\ ledger' \in LedgerRecord /\ ledger'.realized = ledger.realized
      /\ ledger'.cost = [ledger.cost EXCEPT ![s] = policy.pending[s]]
  <2> DEFINE c == [ledger.cost EXCEPT ![s] = policy.pending[s]]
  <2>1. ledger.cost[s] + orders[n].notional = policy.pending[s]
    BY <1>3
  <2>2. ledger' = [ledger EXCEPT !.cost = c]
    BY <1>1, <2>1
  <2>3. ledger \in LedgerRecord /\ c \in [Symbols -> Nat]
    BY <1>0, <1>3 DEF BridgeType, LedgerRecord
  <2> HIDE DEF c
  <2>4. ledger' \in LedgerRecord /\ ledger'.realized = ledger.realized /\ ledger'.cost = c
    BY <2>2, <2>3 DEF LedgerRecord
  <2>5. QED
    BY <2>4 DEF c
<1>5. /\ policy' \in PolicyRecord
      /\ policy'.state = [policy.state EXCEPT ![s] = "FILLED"]
      /\ policy'.pending = [policy.pending EXCEPT ![s] = 0]
      /\ policy'.reserved = [policy.reserved EXCEPT ![s] = 0]
      /\ policy'.committed = [policy.committed EXCEPT ![s] = policy.reserved[s]]
      /\ policy'.orderOf = policy.orderOf
      /\ policy'.active = HeldIn(ledger')
  <2> DEFINE f == Filled(policy, s)
  <2>1. /\ f \in PolicyRecord
        /\ f.state = [policy.state EXCEPT ![s] = "FILLED"]
        /\ f.pending = [policy.pending EXCEPT ![s] = 0]
        /\ f.reserved = [policy.reserved EXCEPT ![s] = 0]
        /\ f.committed = [policy.committed EXCEPT ![s] = policy.reserved[s]]
        /\ f.orderOf = policy.orderOf
    BY <1>0, FilledFields
  <2> HIDE DEF f
  <2>2. policy' = Synced(f, ledger')
    BY <1>1 DEF f
  <2>3. QED
    BY <2>1, <2>2, SyncedFields
<1>6. /\ orders' \in Seq(OrderRecord) /\ DOMAIN orders' = DOMAIN orders
      /\ orders'[n].symbol = s /\ orders'[n].state = "FILLED"
      /\ \A m \in DOMAIN orders \ {n} : orders'[m] = orders[m]
  BY <1>0, <1>s, <1>1, OrderMoved
<1>7. BridgeType'
  BY <1>0, <1>1, <1>4, <1>5, <1>6 DEF BridgeType
<1>8. OnlyFor(s)
  <2>1. ASSUME NEW r \in Symbols \ {s}
        PROVE  /\ policy'.pending[r] = policy.pending[r] /\ policy'.reserved[r] = policy.reserved[r]
               /\ policy'.state[r] = policy.state[r] /\ policy'.orderOf[r] = policy.orderOf[r]
               /\ policy'.committed[r] = policy.committed[r] /\ ledger'.cost[r] = ledger.cost[r]
    BY <1>0, <1>4, <1>5 DEF BridgeType, PolicyRecord, LedgerRecord
  <2>2. ASSUME NEW r \in Symbols \ {s}, NEW m \in DOMAIN orders, orders[m].symbol = r
        PROVE  m \in DOMAIN orders' /\ orders'[m] = orders[m]
    BY <1>6, <1>s, <2>2
  <2>3. ASSUME NEW r \in Symbols \ {s}, NEW m \in DOMAIN orders', orders'[m].symbol = r
        PROVE  m \in DOMAIN orders /\ orders[m].symbol = r
    BY <1>6, <1>s, <2>3
  <2>4. QED
    BY <1>1, <2>1, <2>2, <2>3 DEF OnlyFor
<1>9. SymbolInv(s)'
  <2>1. /\ policy'.state[s] = "FILLED" /\ policy'.pending[s] = 0 /\ policy'.reserved[s] = 0
        /\ policy'.committed[s] = policy.pending[s] /\ ledger'.cost[s] = policy.pending[s]
        /\ policy'.orderOf[s] = n
    BY <1>0, <1>1, <1>3, <1>4, <1>5 DEF BridgeType, PolicyRecord, LedgerRecord
  <2>2. s # entering'
    BY <1>1, BridgeAssumption
  <2>3. ASSUME NEW m \in DOMAIN orders'
        PROVE  ~(orders'[m].symbol = s /\ orders'[m].state = "PENDING")
    BY <1>1, <1>2, <1>6 DEF SymbolInv
  <2>4. QED
    BY <1>3, <1>6, <2>1, <2>2, <2>3 DEF SymbolInv
<1>10. ConcurrencyCapped'
  <2>1. Busy' \subseteq Busy
    BY <1>0, <1>3, <1>4, <1>5 DEF Busy, HeldIn, BridgeType, PolicyRecord, LedgerRecord
  <2>2. QED
    BY <2>1, CapKept DEF IInv
<1>11. Covered'
  <2>1. /\ policy.pending \in [Symbols -> Nat] /\ ledger.cost \in [Symbols -> Nat]
        /\ ledger.realized \in Int /\ StartingCapital \in Int
    BY <1>0, PolicyConfigAssumption DEF BridgeType, PolicyRecord, LedgerRecord, ValidConfig
  <2>2. TotalOf(policy.pending) \in Nat /\ TotalOf(ledger.cost) \in Nat
    BY <2>1, TotalType
  <2>3. TotalOf([policy.pending EXCEPT ![s] = 0]) = TotalOf(policy.pending) - policy.pending[s] + 0
    BY <2>1, TotalOfChange
  <2>4. TotalOf([ledger.cost EXCEPT ![s] = policy.pending[s]])
          = TotalOf(ledger.cost) - ledger.cost[s] + policy.pending[s]
    BY <1>3, <2>1, TotalOfChange
  <2>5. /\ TotalOf(policy'.pending) = TotalOf(policy.pending) - policy.pending[s]
        /\ TotalOf(ledger'.cost) = TotalOf(ledger.cost) + policy.pending[s]
    BY <1>3, <1>4, <1>5, <2>2, <2>3, <2>4
  <2>6. QED
    BY <1>3, <1>4, <2>1, <2>2, <2>5 DEF Covered, IInv
<1>12. QED
  BY <1>5, <1>7, <1>8, <1>9, <1>10, <1>11, StepOfOneSymbol

LEMMA ExitInv ==
    ASSUME IInv, NEW s \in Symbols, NEW result \in Results, ExitSymbol(s, result)
    PROVE  IInv'
<1>0. BridgeType /\ policy \in PolicyRecord /\ orders \in Seq(OrderRecord) /\ result \in Int
  BY BridgeAssumption DEF IInv, BridgeType
<1>1. /\ entering = NoSymbol /\ entering' = NoSymbol /\ orders' = orders
      /\ ledger.cost[s] > 0 /\ ledger.cost[s] + result >= 0
      /\ ledger' = [realized |-> ledger.realized + result, cost |-> [ledger.cost EXCEPT ![s] = 0]]
      /\ policy' = Synced(Exited(policy, s), ledger')
  BY DEF ExitSymbol
<1>2. SymbolInv(s)
  BY DEF IInv
<1>3. /\ policy.state[s] = "FILLED" /\ policy.pending[s] = 0 /\ policy.reserved[s] = 0
  <2>1. policy.pending[s] \in Nat
    BY <1>0 DEF PolicyRecord
  <2>2. QED
    BY <1>1, <1>2, <2>1 DEF SymbolInv
<1>4. /\ ledger' \in LedgerRecord /\ ledger'.realized = ledger.realized + result
      /\ ledger'.cost = [ledger.cost EXCEPT ![s] = 0]
  BY <1>0, <1>1 DEF BridgeType, LedgerRecord
<1>5. /\ policy' \in PolicyRecord
      /\ policy'.state = [policy.state EXCEPT ![s] = "EXITED"]
      /\ policy'.pending = [policy.pending EXCEPT ![s] = 0]
      /\ policy'.orderOf = [policy.orderOf EXCEPT ![s] = 0]
      /\ policy'.committed = [policy.committed EXCEPT ![s] = 0]
      /\ policy'.reserved = policy.reserved
      /\ policy'.active = HeldIn(ledger')
  <2> DEFINE f == Exited(policy, s)
  <2>1. /\ f \in PolicyRecord
        /\ f.state = [policy.state EXCEPT ![s] = "EXITED"]
        /\ f.pending = [policy.pending EXCEPT ![s] = 0]
        /\ f.orderOf = [policy.orderOf EXCEPT ![s] = 0]
        /\ f.committed = [policy.committed EXCEPT ![s] = 0]
        /\ f.reserved = policy.reserved
    BY <1>0, ExitedFields
  <2> HIDE DEF f
  <2>2. policy' = Synced(f, ledger')
    BY <1>1 DEF f
  <2>3. QED
    BY <2>1, <2>2, SyncedFields
<1>6. BridgeType'
  BY <1>0, <1>1, <1>4, <1>5 DEF BridgeType
<1>7. OnlyFor(s)
  <2>1. ASSUME NEW r \in Symbols \ {s}
        PROVE  /\ policy'.pending[r] = policy.pending[r] /\ policy'.reserved[r] = policy.reserved[r]
               /\ policy'.state[r] = policy.state[r] /\ policy'.orderOf[r] = policy.orderOf[r]
               /\ policy'.committed[r] = policy.committed[r] /\ ledger'.cost[r] = ledger.cost[r]
    BY <1>0, <1>4, <1>5 DEF BridgeType, PolicyRecord, LedgerRecord
  <2>2. QED
    BY <1>1, <2>1 DEF OnlyFor
<1>8. SymbolInv(s)'
  <2>1. /\ policy'.state[s] = "EXITED" /\ policy'.pending[s] = 0 /\ policy'.reserved[s] = 0
        /\ policy'.committed[s] = 0 /\ ledger'.cost[s] = 0 /\ policy'.orderOf[s] = 0
    BY <1>0, <1>3, <1>4, <1>5 DEF BridgeType, PolicyRecord, LedgerRecord
  <2>2. s # entering'
    BY <1>1, BridgeAssumption
  <2>3. QED
    BY <1>1, <1>2, <1>3, <2>1, <2>2 DEF SymbolInv
<1>9. ConcurrencyCapped'
  <2>1. Busy' \subseteq Busy
    BY <1>0, <1>4, <1>5 DEF Busy, HeldIn, BridgeType, PolicyRecord, LedgerRecord
  <2>2. QED
    BY <2>1, CapKept DEF IInv
<1>10. Covered'
  <2>1. /\ policy.pending \in [Symbols -> Nat] /\ ledger.cost \in [Symbols -> Nat]
        /\ ledger.realized \in Int /\ StartingCapital \in Int /\ ledger.cost[s] \in Nat
    BY <1>0, PolicyConfigAssumption DEF BridgeType, PolicyRecord, LedgerRecord, ValidConfig
  <2>2. TotalOf(policy.pending) \in Nat /\ TotalOf(ledger.cost) \in Nat
    BY <2>1, TotalType
  <2>3. TotalOf([ledger.cost EXCEPT ![s] = 0]) = TotalOf(ledger.cost) - ledger.cost[s] + 0
    BY <2>1, TotalOfChange
  <2>4. policy'.pending = policy.pending
    BY <1>3, <1>5, <2>1
  <2>5. TotalOf(ledger'.cost) = TotalOf(ledger.cost) - ledger.cost[s]
    BY <1>4, <2>1, <2>2, <2>3
  <2>6. QED
    BY <1>0, <1>1, <1>4, <2>1, <2>2, <2>4, <2>5 DEF Covered, IInv
<1>11. QED
  BY <1>5, <1>6, <1>7, <1>8, <1>9, <1>10, StepOfOneSymbol

LEMMA NextInv ==
    ASSUME IInv, [Next]_vars
    PROVE  IInv'
<1>1. CASE UNCHANGED vars
  <2>1. \A s \in Symbols : SymbolInv(s)'
    BY <1>1 DEF IInv, SymbolInv, vars
  <2>2. QED
    BY <1>1, <2>1 DEF IInv, BridgeType, ConcurrencyCapped, Covered, HeldIn, vars
<1>2. QED
  BY <1>1, AllocateInv, SubmitInv, RejectInv, FillInv, EndInv, ExitInv DEF Next

LEMMA SpecInv == Spec => []IInv
<1>1. Init => IInv
  BY InitInv
<1>2. IInv /\ [Next]_vars => IInv'
  BY NextInv
<1>3. QED
  BY <1>1, <1>2, PTL DEF Spec

(* Every pending order has reserved exactly its notional, and except for   *)
(* the candidate being entered no reservation is without its order.        *)
THEOREM EveryOrderReservedHolds == Spec => []EveryOrderReserved
<1>1. IInv => EveryOrderReserved
  <2> SUFFICES ASSUME IInv, NEW s \in Symbols \ {entering}
               PROVE  IF policy.pending[s] = 0 THEN PendingOf(s) = {}
                      ELSE /\ PendingOf(s) = {policy.orderOf[s]}
                           /\ orders[policy.orderOf[s]].notional = policy.pending[s]
    BY DEF EveryOrderReserved
  <2>1. SymbolInv(s) /\ policy.pending[s] \in Nat
    BY DEF IInv, BridgeType, PolicyRecord
  <2>2. CASE policy.pending[s] = 0
    BY <2>1, <2>2 DEF SymbolInv, PendingOf
  <2>3. CASE policy.pending[s] # 0
    <3>1. policy.state[s] = "BOUND"
      BY <2>1, <2>3 DEF SymbolInv
    <3>2. QED
      BY <2>1, <2>3, <3>1 DEF SymbolInv, PendingOf
  <2>4. QED
    BY <2>2, <2>3
<1>2. QED
  BY <1>1, SpecInv, PTL

(* What the bridge holds pending the manager holds reserved, what it holds *)
(* committed is the cost of a position, and the states of the allocations  *)
(* say the same, however often a symbol is entered again.                  *)
THEOREM BooksStayInAgreement == Spec => []BooksAgree
<1>1. IInv => BooksAgree
  <2> SUFFICES ASSUME IInv
               PROVE  BooksAgree
    OBVIOUS
  <2>1. policy.pending = policy.reserved /\ policy.committed = ledger.cost
    BY DEF IInv, BridgeType, PolicyRecord, LedgerRecord, SymbolInv
  <2>2. QED
    BY <2>1 DEF IInv, SymbolInv, BooksAgree
<1>2. QED
  BY <1>1, SpecInv, PTL

(* available_capital never raises: reservations and commitments never      *)
(* exceed the trading capital, after any sequence of profits and losses.   *)
THEOREM CapitalStaysCovered == Spec => []CapitalCovered
<1>1. IInv => CapitalCovered
  <2> SUFFICES ASSUME IInv
               PROVE  CapitalCovered
    OBVIOUS
  <2>1. /\ policy.pending \in [Symbols -> Nat] /\ ledger.cost \in [Symbols -> Nat]
        /\ ledger.realized \in Int /\ StartingCapital \in Int
    BY PolicyConfigAssumption DEF IInv, BridgeType, PolicyRecord, LedgerRecord, ValidConfig
  <2>2. TotalOf(policy.pending) \in Nat /\ TotalOf(ledger.cost) \in Nat
    BY <2>1, TotalType
  <2>3. TradingCapital(ledger) >= StartingCapital + ledger.realized /\ TradingCapital(ledger) \in Int
    BY <2>1 DEF TradingCapital
  <2>4. QED
    BY <2>1, <2>2, <2>3 DEF IInv, Covered, CapitalCovered, AvailableCapital, PolicyReserved
<1>2. QED
  BY <1>1, SpecInv, PTL

(* No more symbols are pending or held at a time than were configured.     *)
THEOREM ConcurrencyStaysCapped == Spec => []ConcurrencyCapped
<1>1. IInv => ConcurrencyCapped
  BY DEF IInv
<1>2. QED
  BY <1>1, SpecInv, PTL
-----------------------------------------------------------------------------
Settled(s) ==
    policy.pending[s] > 0 /\ policy'.pending[s] # policy.pending[s] =>
        /\ policy'.pending[s] = 0
        /\ \/ /\ policy'.state[s] = "RELEASED"
              /\ ledger' = ledger
              /\ PendingOf(s)' = {}
           \/ /\ policy'.state[s] = "FILLED"
              /\ ledger'.cost[s] = policy.pending[s]
              /\ orders'[policy.orderOf[s]].state = "FILLED"

LEMMA ReleaseSettles ==
    ASSUME IInv, IInv', NEW r \in Symbols, Release(r), ledger' = ledger, NEW s \in Symbols
    PROVE  Settled(s)
<1>1. /\ policy \in PolicyRecord
      /\ policy'.state = [policy.state EXCEPT ![r] = "RELEASED"]
      /\ policy'.pending = [policy.pending EXCEPT ![r] = 0]
  BY ReleaseEffect DEF IInv, BridgeType
<1>2. CASE s = r
  <2>1. policy'.state[s] = "RELEASED" /\ policy'.pending[s] = 0
    BY <1>1, <1>2 DEF PolicyRecord
  <2>2. SymbolInv(s)'
    BY DEF IInv
  <2>3. PendingOf(s)' = {}
    BY <2>1, <2>2 DEF SymbolInv, PendingOf
  <2>4. QED
    BY <2>1, <2>3 DEF Settled
<1>3. CASE s # r
  BY <1>1, <1>3 DEF Settled, PolicyRecord
<1>4. QED
  BY <1>2, <1>3

LEMMA StepSettles ==
    ASSUME IInv, IInv', [Next]_vars, NEW s \in Symbols
    PROVE  Settled(s)
<1>0. policy \in PolicyRecord /\ BridgeType /\ orders \in Seq(OrderRecord)
  BY DEF IInv, BridgeType
<1>1. ASSUME NEW r \in Symbols, NEW minimum \in Minimums, Allocate(r, minimum)
      PROVE  Settled(s)
  <2> DEFINE p == Synced(policy, ledger)
             amount == FinalNotional(ledger, minimum)
  <2>1. /\ p \in PolicyRecord /\ p.pending = policy.pending /\ p.reserved = policy.reserved
    BY <1>0, SyncedFields
  <2>2. amount \in Nat
    BY <1>0, NotionalType, BridgeAssumption
  <2>3. policy' = Reserved(p, r, amount) /\ p.reserved[r] = 0
    BY <1>1 DEF Allocate, Reserve, Accepts
  <2> HIDE DEF p, amount
  <2>4. policy'.pending = [policy.pending EXCEPT ![r] = amount]
    <3>1. policy'.pending = [p.pending EXCEPT ![r] = amount]
      BY ONLY <2>1, <2>2, <2>3, r \in Symbols, ReservedFields
    <3>2. QED
      BY <2>1, <3>1
  <2>5. policy.pending[r] = 0
    BY <2>1, <2>3 DEF IInv, SymbolInv
  <2>6. QED
    BY <1>0, <2>4, <2>5 DEF Settled, PolicyRecord
<1>2. CASE SubmitAndBind
  <2>1. policy' = Bound(policy, entering, Len(orders) + 1) /\ entering \in Symbols
    BY <1>0, <1>2 DEF SubmitAndBind, BridgeType
  <2>2. Len(orders) + 1 \in Nat
    BY <1>0
  <2>3. policy'.pending = policy.pending
    BY <1>0, <2>1, <2>2, BoundFields
  <2>4. QED
    BY <2>3 DEF Settled
<1>3. CASE RejectEntry
  <2>1. entering \in Symbols /\ Release(entering) /\ ledger' = ledger
    BY <1>0, <1>3 DEF RejectEntry, BridgeType
  <2>2. QED
    BY <2>1, ReleaseSettles
<1>4. ASSUME NEW n \in DOMAIN orders, EndOrder(n)
      PROVE  Settled(s)
  <2>1. PICK r \in Symbols : Release(r)
    BY <1>4 DEF EndOrder, ReleaseForOrder
  <2>2. ledger' = ledger
    BY <1>4 DEF EndOrder
  <2>3. QED
    BY <2>1, <2>2, ReleaseSettles
<1>5. ASSUME NEW n \in DOMAIN orders, FillOrder(n)
      PROVE  Settled(s)
  <2>0. PICK r \in Symbols : r = orders[n].symbol
    <3>1. n \in 1 .. Len(orders) /\ orders[n] \in OrderRecord
      BY <1>0
    <3>2. QED
      BY <3>1 DEF OrderRecord
  <2>1. /\ orders[n].state = "PENDING" /\ policy.orderOf[r] = n
        /\ orders' = [orders EXCEPT ![n].state = "FILLED"]
        /\ ledger' = [ledger EXCEPT !.cost[r] = @ + orders[n].notional]
        /\ policy' = Synced(Filled(policy, r), ledger')
    BY <1>5, <2>0 DEF FillOrder
  <2>2. /\ policy'.state = [policy.state EXCEPT ![r] = "FILLED"]
        /\ policy'.pending = [policy.pending EXCEPT ![r] = 0]
    <3> DEFINE f == Filled(policy, r)
    <3>1. /\ f \in PolicyRecord
          /\ f.state = [policy.state EXCEPT ![r] = "FILLED"]
          /\ f.pending = [policy.pending EXCEPT ![r] = 0]
      BY <1>0, FilledFields
    <3> HIDE DEF f
    <3>2. policy' = Synced(f, ledger')
      BY <2>1 DEF f
    <3>3. QED
      BY <3>1, <3>2, SyncedFields
  <2>3. CASE s # r
    BY <1>0, <2>2, <2>3 DEF Settled, PolicyRecord
  <2>4. CASE s = r
    <3>1. policy'.state[s] = "FILLED" /\ policy'.pending[s] = 0
      BY <1>0, <2>2, <2>4 DEF PolicyRecord
    <3>2. orders'[policy.orderOf[s]].state = "FILLED"
      BY <1>0, <2>1, <2>4, OrderMoved
    <3>3. SymbolInv(s)
      BY DEF IInv
    <3>4. policy.state[s] = "BOUND"
      BY <2>0, <2>1, <2>4, <3>3 DEF SymbolInv
    <3>5. orders[n].notional = policy.pending[s] /\ ledger.cost[s] = 0 /\ policy.pending[s] \in Nat
      BY <1>0, <2>1, <2>4, <3>3, <3>4 DEF SymbolInv, BridgeType, LedgerRecord, PolicyRecord
    <3>6. ledger'.cost[s] = ledger.cost[s] + orders[n].notional
      BY <1>0, <2>1, <2>4 DEF BridgeType, LedgerRecord
    <3>7. QED
      BY <3>1, <3>2, <3>5, <3>6 DEF Settled
  <2>5. QED
    BY <2>3, <2>4
<1>6. ASSUME NEW r \in Symbols, NEW result \in Results, ExitSymbol(r, result)
      PROVE  Settled(s)
  <2> DEFINE f == Exited(policy, r)
  <2>1. f \in PolicyRecord /\ f.pending = [policy.pending EXCEPT ![r] = 0]
    BY <1>0, ExitedFields
  <2>2. policy' = Synced(f, ledger') /\ ledger.cost[r] > 0
    BY <1>6 DEF ExitSymbol
  <2> HIDE DEF f
  <2>3. policy'.pending = [policy.pending EXCEPT ![r] = 0]
    BY <2>1, <2>2, SyncedFields
  <2>4. ~(policy.pending[r] > 0)
    BY <2>2 DEF IInv, SymbolInv
  <2>5. QED
    BY <1>0, <2>3, <2>4 DEF Settled, PolicyRecord
<1>7. CASE UNCHANGED vars
  BY <1>7 DEF Settled, vars
<1>8. QED
  BY <1>1, <1>2, <1>3, <1>4, <1>5, <1>6, <1>7 DEF Next

(* Reserved money comes back whole or becomes the cost of the position its *)
(* order opened; no step changes it otherwise.                             *)
THEOREM ReservationsAlwaysSettle == Spec => ReservationsSettle
<1>1. IInv /\ IInv' /\ [Next]_vars => [\A s \in Symbols : Settled(s)]_vars
  BY StepSettles
<1>2. QED
  BY <1>1, SpecInv, PTL DEF Spec, ReservationsSettle, Settled
-----------------------------------------------------------------------------
(* Recovery.  Whatever ledger it is given: if that ledger would size and   *)
(* accept every past allocation again and no symbol was entered twice, the *)
(* fold of the journal is the policy of the bridge that wrote it.  The     *)
(* journal grows by one record with each step, so this is an invariant of  *)
(* the behaviour, and no induction over the journal is needed.             *)

JournalRecord ==
    [type : {"RESERVE", "BIND", "FILL", "RELEASE", "EXIT"}, symbol : Symbols,
     minimum : Nat, amount : Nat, order : Nat]

(* g is the table of the fold of the journal over the sets of its records. *)
IsLoad(g, led) ==
    /\ g = [S \in SUBSET DOMAIN journal |-> g[S]]
    /\ \A S \in SUBSET DOMAIN journal :
          g[S] = IF S = {} THEN NoPolicy
                 ELSE ApplyRecord(g[S \ {Max(S)}], journal[Max(S)], led)

Repeatable(led) ==
    /\ \A s \in Symbols : EnteredOnce(s)
    /\ \A k \in Reserves :
          /\ FinalNotional(led, journal[k].minimum) = journal[k].amount
          /\ journal[k].amount <= AvailableCapital(led, 0)

Loads ==
    \A led :
        /\ \E g : IsLoad(g, led)
        /\ \A g : IsLoad(g, led) /\ Repeatable(led) => g[DOMAIN journal] = policy

(* A symbol that the journal does not know was never allocated.            *)
Known ==
    /\ journal \in Seq(JournalRecord)
    /\ \A s \in Symbols :
          policy.state[s] # "NONE" => \E k \in Reserves : journal[k].symbol = s

(* The records of a journal that has grown by one.                         *)
LEMMA JournalGrows ==
    ASSUME Known, NEW r \in JournalRecord, journal' = Append(journal, r)
    PROVE  /\ journal' \in Seq(JournalRecord)
           /\ DOMAIN journal = 1 .. Len(journal) /\ Len(journal) \in Nat
           /\ DOMAIN journal' = DOMAIN journal \cup {Len(journal) + 1}
           /\ journal'[Len(journal) + 1] = r
           /\ \A k \in DOMAIN journal : journal'[k] = journal[k]
BY DEF Known

(* The last of a set of records that has the newest one is that one.       *)
LEMMA NewestIsLast ==
    ASSUME NEW n \in Nat, NEW S \in SUBSET ((1 .. n) \cup {n + 1}), n + 1 \in S
    PROVE  Max(S) = n + 1
<1>1. \A x \in S : n + 1 >= x
  OBVIOUS
<1>2. \A x \in S : (\A y \in S : x >= y) => x = n + 1
  BY <1>1
<1>3. QED
  BY <1>1, <1>2 DEF Max

LEMMA LastIsIn ==
    ASSUME NEW n \in Nat, NEW S \in SUBSET (1 .. n), S # {}
    PROVE  Max(S) \in S
<1>1. IsFiniteSet(1 .. n)
  BY FS_Interval
<1>2. IsFiniteSet(S)
  BY <1>1, FS_Subset
<1>3. S \subseteq Int
  OBVIOUS
<1>4. QED
  BY <1>2, <1>3, FiniteSetHasMax

(* A ledger that repeats the longer journal repeats the shorter one.       *)
LEMMA RepeatableBefore ==
    ASSUME Known, NEW r \in JournalRecord, journal' = Append(journal, r), NEW led,
           Repeatable(led)'
    PROVE  Repeatable(led)
<1>1. \A k \in Reserves : k \in Reserves' /\ journal'[k] = journal[k]
  BY JournalGrows DEF Reserves
<1>2. ASSUME NEW s \in Symbols
      PROVE  EnteredOnce(s)
  <2> DEFINE A == {k \in Reserves : journal[k].symbol = s}
             B == {k \in Reserves' : journal'[k].symbol = s}
  <2>1. A \subseteq B
    BY <1>1
  <2>2. IsFiniteSet(B)
    <3>1. DOMAIN journal' = 1 .. Len(journal')
      BY JournalGrows
    <3>2. IsFiniteSet(DOMAIN journal')
      BY <3>1, JournalGrows, FS_Interval
    <3>3. B \subseteq DOMAIN journal'
      BY DEF Reserves
    <3>4. QED
      BY <3>2, <3>3, FS_Subset
  <2>3. Cardinality(B) <= 1
    BY DEF Repeatable, EnteredOnce
  <2> HIDE DEF A, B
  <2>4. Cardinality(A) <= Cardinality(B) /\ Cardinality(A) \in Nat /\ Cardinality(B) \in Nat
    BY <2>1, <2>2, FS_Subset, FS_CardinalityType
  <2>5. Cardinality(A) <= 1
    BY <2>3, <2>4
  <2>6. QED
    BY <2>5 DEF EnteredOnce, A
<1>3. ASSUME NEW k \in Reserves
      PROVE  /\ FinalNotional(led, journal[k].minimum) = journal[k].amount
             /\ journal[k].amount <= AvailableCapital(led, 0)
  BY <1>1 DEF Repeatable
<1>4. QED
  BY <1>2, <1>3 DEF Repeatable

(* The table of the longer journal goes on where that of the shorter one   *)
(* ends.                                                                   *)
LEMMA LoadGoesOn ==
    ASSUME Known, Loads, NEW r \in JournalRecord, journal' = Append(journal, r), NEW led
    PROVE  /\ \E g : IsLoad(g, led)'
           /\ \A g : IsLoad(g, led)' /\ Repeatable(led)' =>
                 g[DOMAIN journal'] = ApplyRecord(policy, r, led)
<1> DEFINE n == Len(journal) + 1
           Old == DOMAIN journal
           New == DOMAIN journal'
<1>1. /\ Old = 1 .. Len(journal) /\ Len(journal) \in Nat
      /\ New = Old \cup {n} /\ n \notin Old
      /\ journal'[n] = r /\ \A k \in Old : journal'[k] = journal[k]
  BY JournalGrows
<1>2. ASSUME NEW S \in SUBSET New, n \in S
      PROVE  Max(S) = n /\ S \ {n} \in SUBSET Old
  BY <1>1, <1>2, NewestIsLast
<1>3. ASSUME NEW S \in SUBSET Old, S # {}
      PROVE  Max(S) \in S /\ journal'[Max(S)] = journal[Max(S)]
  BY <1>1, <1>3, LastIsIn
<1> HIDE DEF n
<1>4. \E g : IsLoad(g, led)'
  <2>1. PICK g : IsLoad(g, led)
    BY DEF Loads
  <2>6. PICK h : h = [S \in SUBSET New |->
                       IF n \in S THEN ApplyRecord(g[S \ {n}], r, led) ELSE g[S]]
    OBVIOUS
  <2>2. ASSUME NEW S \in SUBSET New
        PROVE  h[S] = IF S = {} THEN NoPolicy
                      ELSE ApplyRecord(h[S \ {Max(S)}], journal'[Max(S)], led)
    <3>1. CASE n \in S
      <4>1. Max(S) = n /\ S \ {n} \in SUBSET Old /\ S \ {n} \in SUBSET New /\ n \notin S \ {n}
        BY <1>1, <1>2, <3>1
      <4>2. h[S \ {n}] = g[S \ {n}] /\ h[S] = ApplyRecord(g[S \ {n}], r, led)
        BY <2>6, <3>1, <4>1
      <4>3. QED
        BY <1>1, <3>1, <4>1, <4>2
    <3>2. CASE n \notin S
      <4>1. S \in SUBSET Old
        BY <1>1, <3>2
      <4>2. h[S] = g[S] /\ h[S \ {Max(S)}] = g[S \ {Max(S)}]
        BY <2>6, <3>2, <4>1
      <4>3. g[S] = IF S = {} THEN NoPolicy
                   ELSE ApplyRecord(g[S \ {Max(S)}], journal[Max(S)], led)
        BY <2>1, <4>1 DEF IsLoad
      <4>4. QED
        BY <1>3, <4>1, <4>2, <4>3
    <3>3. QED
      BY <3>1, <3>2
  <2>3. h = [S \in SUBSET New |-> h[S]]
    BY <2>6
  <2>4. IsLoad(h, led)'
    BY <2>2, <2>3 DEF IsLoad
  <2>5. QED
    BY <2>4
<1>5. ASSUME NEW g, IsLoad(g, led)', Repeatable(led)'
      PROVE  g[New] = ApplyRecord(policy, r, led)
  <2> DEFINE h == [S \in SUBSET Old |-> g[S]]
  <2>1. ASSUME NEW S \in SUBSET Old
        PROVE  h[S] = IF S = {} THEN NoPolicy
                      ELSE ApplyRecord(h[S \ {Max(S)}], journal[Max(S)], led)
    <3>1. S \in SUBSET New /\ h[S] = g[S] /\ h[S \ {Max(S)}] = g[S \ {Max(S)}]
      BY <1>1
    <3>2. g[S] = IF S = {} THEN NoPolicy
                 ELSE ApplyRecord(g[S \ {Max(S)}], journal'[Max(S)], led)
      BY <1>5, <3>1 DEF IsLoad
    <3> HIDE DEF h
    <3>3. QED
      BY <1>3, <3>1, <3>2
  <2>2. h = [S \in SUBSET Old |-> h[S]] /\ h[Old] = g[Old]
    OBVIOUS
  <2> HIDE DEF h
  <2>3. IsLoad(h, led)
    BY <2>1, <2>2 DEF IsLoad
  <2>4. h[Old] = policy
    BY <1>5, <2>3, RepeatableBefore DEF Loads
  <2>5. g[New] = ApplyRecord(g[New \ {Max(New)}], journal'[Max(New)], led)
    BY <1>1, <1>5 DEF IsLoad
  <2>6. Max(New) = n /\ New \ {n} = Old
    BY <1>1, <1>2
  <2>7. QED
    BY <1>1, <2>2, <2>4, <2>5, <2>6
<1>6. QED
  BY <1>4, <1>5

(* What a ledger that repeats the journal makes of the new record r is     *)
(* what the step made of the policy.                                       *)
Replays(r) ==
    /\ r \in JournalRecord /\ journal' = Append(journal, r)
    /\ \A led : Repeatable(led)' => ApplyRecord(policy, r, led) = policy'
    /\ \A s \in Symbols : policy'.state[s] # policy.state[s] => s = r.symbol
    /\ policy.state[r.symbol] = "NONE" => r.type = "RESERVE"

LEMMA StepLoads ==
    ASSUME Known, Loads, NEW r, Replays(r)
    PROVE  Known' /\ Loads'
<1>1. r \in JournalRecord /\ journal' = Append(journal, r) /\ r.symbol \in Symbols
  BY DEF Replays, JournalRecord
<1>2. Loads'
  <2>1. ASSUME NEW led
        PROVE  /\ \E g : IsLoad(g, led)'
               /\ \A g : IsLoad(g, led)' /\ Repeatable(led)' => g[DOMAIN journal'] = policy'
    BY <1>1, LoadGoesOn DEF Replays
  <2>2. QED
    BY <2>1 DEF Loads
<1>3. \A k \in Reserves : k \in Reserves' /\ journal'[k] = journal[k]
  BY <1>1, JournalGrows DEF Reserves
<1>4. ASSUME NEW s \in Symbols, policy'.state[s] # "NONE"
      PROVE  \E k \in Reserves' : journal'[k].symbol = s
  <2>1. CASE policy.state[s] # "NONE"
    BY <1>3, <2>1 DEF Known
  <2>2. CASE policy.state[s] = "NONE"
    <3>1. s = r.symbol /\ r.type = "RESERVE"
      BY <1>4, <2>2 DEF Replays
    <3>2. Len(journal) + 1 \in DOMAIN journal' /\ journal'[Len(journal) + 1] = r
      BY <1>1, JournalGrows
    <3>3. QED
      BY <3>1, <3>2 DEF Reserves
  <2>3. QED
    BY <2>1, <2>2
<1>5. QED
  BY <1>1, <1>2, <1>4, JournalGrows DEF Known

LEMMA InitLoads == Init => Known /\ Loads
<1> SUFFICES ASSUME Init
             PROVE  Known /\ Loads
  OBVIOUS
<1>1. journal = << >> /\ policy = NoPolicy /\ DOMAIN journal = {}
  BY DEF Init
<1>2. Known
  BY <1>1 DEF Known, NoPolicy
<1>3. ASSUME NEW led
      PROVE  /\ \E g : IsLoad(g, led)
             /\ \A g : IsLoad(g, led) => g[DOMAIN journal] = policy
  <2> DEFINE h == [S \in {{}} |-> NoPolicy]
  <2>1. SUBSET DOMAIN journal = {{}}
    BY <1>1
  <2>2. h[{}] = NoPolicy /\ h = [S \in {{}} |-> h[S]]
    OBVIOUS
  <2> HIDE DEF h
  <2>3. IsLoad(h, led)
    BY <2>1, <2>2 DEF IsLoad
  <2>4. ASSUME NEW g, IsLoad(g, led)
        PROVE  g[DOMAIN journal] = policy
    BY <1>1, <2>1, <2>4 DEF IsLoad
  <2>5. QED
    BY <2>3, <2>4
<1>4. QED
  BY <1>2, <1>3 DEF Loads

(* A policy is what its fields are. *)
LEMMA SamePolicy ==
    ASSUME NEW p \in PolicyRecord, NEW q \in PolicyRecord,
           p.state = q.state, p.pending = q.pending, p.orderOf = q.orderOf,
           p.reserved = q.reserved, p.committed = q.committed, p.active = q.active
    PROVE  p = q
BY DEF PolicyRecord

(* A policy is no exception. *)
LEMMA NotRaised ==
    ASSUME IInv
    PROVE  policy \in PolicyRecord /\ policy # Raised
BY RaisedAssumption DEF IInv, BridgeType

(* The symbol of a second reservation was not entered before. *)
LEMMA EnteredFirst ==
    ASSUME Known, NEW r \in JournalRecord, r.type = "RESERVE",
           journal' = Append(journal, r), NEW led, Repeatable(led)'
    PROVE  policy.state[r.symbol] = "NONE"
<1> DEFINE n == Len(journal) + 1
           B == {k \in Reserves' : journal'[k].symbol = r.symbol}
<1>1. SUFFICES ASSUME NEW k \in Reserves, journal[k].symbol = r.symbol
               PROVE  FALSE
  BY DEF Known, JournalRecord
<1>2. k \in B /\ n \in B /\ k # n
  BY <1>1, JournalGrows DEF Reserves
<1>3. IsFiniteSet(B)
  <2>1. DOMAIN journal' = 1 .. Len(journal') /\ Len(journal') \in Nat
    BY JournalGrows
  <2>2. IsFiniteSet(DOMAIN journal')
    BY <2>1, FS_Interval
  <2>3. B \subseteq DOMAIN journal'
    BY DEF Reserves
  <2>4. QED
    BY <2>2, <2>3, FS_Subset
<1>4. Cardinality(B) <= 1
  BY DEF Repeatable, EnteredOnce, JournalRecord
<1> HIDE DEF B, n
<1>5. Cardinality({k} \cup {n}) = Cardinality({k}) + 1 /\ Cardinality({k}) = 1
  <2>1. IsFiniteSet({k}) /\ Cardinality({k}) = 1
    BY FS_Singleton
  <2>2. n \notin {k}
    BY <1>2
  <2>3. Cardinality({k} \cup {n}) = Cardinality({k}) + 1
    BY <2>1, <2>2, FS_AddElement
  <2>4. QED
    BY <2>1, <2>3
<1>6. {k} \cup {n} \in SUBSET B
  BY <1>2
<1>7. Cardinality({k} \cup {n}) <= Cardinality(B) /\ Cardinality(B) \in Nat
  BY <1>3, <1>6, FS_Subset, FS_CardinalityType
<1>8. PICK a, b, c : a = Cardinality({k}) /\ b = Cardinality({k} \cup {n}) /\ c = Cardinality(B)
  OBVIOUS
<1>9. a = 1 /\ b = a + 1 /\ b <= c /\ c <= 1 /\ c \in Nat
  BY <1>4, <1>5, <1>7, <1>8
<1>10. QED
  BY ONLY <1>9

LEMMA AllocateReplays ==
    ASSUME IInv, Known, NEW s \in Symbols, NEW minimum \in Minimums, Allocate(s, minimum)
    PROVE  \E r : Replays(r)
<1> DEFINE amount == FinalNotional(ledger, minimum)
           r == Record("RESERVE", s, minimum, amount, 0)
<1>0. BridgeType /\ policy \in PolicyRecord /\ policy # Raised
  BY NotRaised DEF IInv
<1>1. Synced(policy, ledger) = policy
  <2>1. policy.active = HeldIn(ledger)
    BY DEF IInv
  <2>2. QED
    BY <1>0, <2>1 DEF Synced, PolicyRecord
<1>2. /\ Accepts(policy, s, amount, Spendable) /\ policy' = Reserved(policy, s, amount)
      /\ journal' = Append(journal, r)
  BY <1>1 DEF Allocate, Reserve, Journalled
<1>3. amount \in Nat
  BY <1>0, NotionalType, BridgeAssumption
<1> HIDE DEF amount
<1>4. /\ r \in JournalRecord /\ r.type = "RESERVE" /\ r.symbol = s /\ r.minimum = minimum
      /\ r.amount = amount
  BY <1>3, BridgeAssumption DEF Record, JournalRecord
<1> HIDE DEF r
<1>5. ASSUME NEW led, Repeatable(led)'
      PROVE  ApplyRecord(policy, r, led) = policy'
  <2>1. policy.state[s] = "NONE"
    BY <1>2, <1>4, <1>5, EnteredFirst
  <2>2. FinalNotional(led, minimum) = amount /\ amount <= AvailableCapital(led, 0)
    <3>1. Len(journal) + 1 \in DOMAIN journal' /\ journal'[Len(journal) + 1] = r
      BY <1>2, <1>4, JournalGrows
    <3>2. Len(journal) + 1 \in Reserves'
      BY <1>4, <3>1 DEF Reserves
    <3>3. QED
      BY <1>4, <1>5, <3>1, <3>2 DEF Repeatable
  <2>3. Accepts(policy, s, amount, AvailableCapital(led, 0))
    BY <1>2, <2>2 DEF Accepts
  <2>4. ApplyReserve(policy, r, led) = Reserved(policy, s, amount)
    BY <1>4, <2>1, <2>2, <2>3 DEF ApplyReserve
  <2>5. ApplyRecord(policy, r, led) = ApplyReserve(policy, r, led)
    BY <1>0, <1>4 DEF ApplyRecord
  <2>6. QED
    BY <1>2, <2>4, <2>5
<1>6. \A t \in Symbols : policy'.state[t] # policy.state[t] => t = s
  <2>1. policy'.state = [policy.state EXCEPT ![s] = "RESERVED"]
    BY <1>0, <1>2, <1>3, ReservedFields
  <2>2. QED
    BY <1>0, <2>1 DEF PolicyRecord
<1>7. QED
  BY <1>2, <1>4, <1>5, <1>6 DEF Replays

LEMMA SubmitReplays ==
    ASSUME IInv, SubmitAndBind
    PROVE  \E r : Replays(r)
<1>s. SUFFICES ASSUME NEW s \in Symbols, s = entering
               PROVE  \E r : Replays(r)
  BY DEF SubmitAndBind, IInv, BridgeType
<1>n. PICK n \in Nat : n = Len(orders) + 1
  BY DEF IInv, BridgeType
<1> DEFINE r == Record("BIND", s, 0, 0, n)
<1>0. BridgeType /\ policy \in PolicyRecord /\ policy # Raised
  BY NotRaised DEF IInv
<1>1. policy' = Bound(policy, s, n) /\ journal' = Append(journal, r)
  BY <1>s, <1>n DEF SubmitAndBind, Journalled
<1>2. policy.state[s] = "RESERVED" /\ policy.pending[s] > 0 /\ policy.pending[s] \in Nat
  BY <1>s, <1>0 DEF IInv, SymbolInv, PolicyRecord
<1>3. r \in JournalRecord /\ r.type = "BIND" /\ r.symbol = s /\ r.order = n
  BY DEF Record, JournalRecord
<1> HIDE DEF r
<1>4. ASSUME NEW led
      PROVE  ApplyRecord(policy, r, led) = policy'
  <2>1. ApplyBind(policy, r) = Bound(policy, s, n)
    BY <1>2, <1>3 DEF ApplyBind
  <2>2. ApplyRecord(policy, r, led) = ApplyBind(policy, r)
    BY <1>0, <1>3 DEF ApplyRecord
  <2>3. QED
    BY <1>1, <2>1, <2>2
<1>5. \A t \in Symbols : policy'.state[t] # policy.state[t] => t = s
  <2>1. policy'.state = [policy.state EXCEPT ![s] = "BOUND"]
    BY <1>0, <1>1, BoundFields
  <2>2. QED
    BY <1>0, <2>1 DEF PolicyRecord
<1>6. QED
  BY <1>1, <1>2, <1>3, <1>4, <1>5 DEF Replays

LEMMA ReleaseReplays ==
    ASSUME IInv, NEW s \in Symbols, Release(s), policy.state[s] \in {"RESERVED", "BOUND"}
    PROVE  \E r : Replays(r)
<1> DEFINE r == Record("RELEASE", s, 0, 0, 0)
<1>0. policy \in PolicyRecord /\ policy # Raised
  BY NotRaised
<1>1. policy' = Released(policy, s) /\ journal' = Append(journal, r)
  BY DEF Release, Journalled
<1>2. r \in JournalRecord /\ r.type = "RELEASE" /\ r.symbol = s
  BY DEF Record, JournalRecord
<1> HIDE DEF r
<1>3. ASSUME NEW led
      PROVE  ApplyRecord(policy, r, led) = policy'
  <2>1. ApplyRelease(policy, r) = Released(policy, s)
    BY <1>2 DEF ApplyRelease
  <2>2. ApplyRecord(policy, r, led) = ApplyRelease(policy, r)
    BY <1>0, <1>2 DEF ApplyRecord
  <2>3. QED
    BY <1>1, <2>1, <2>2
<1>4. \A t \in Symbols : policy'.state[t] # policy.state[t] => t = s
  <2>1. policy'.state = [policy.state EXCEPT ![s] = "RELEASED"]
    BY <1>0, <1>1, ReleasedFields
  <2>2. QED
    BY <1>0, <2>1 DEF PolicyRecord
<1>5. QED
  BY <1>1, <1>2, <1>3, <1>4 DEF Replays

LEMMA FillReplays ==
    ASSUME IInv, IInv', NEW n \in DOMAIN orders, FillOrder(n)
    PROVE  \E r : Replays(r)
<1>0. BridgeType /\ policy \in PolicyRecord /\ policy # Raised /\ n \in Nat
  BY NotRaised DEF IInv, BridgeType
<1>s. PICK s \in Symbols : s = orders[n].symbol
  <2>1. n \in 1 .. Len(orders) /\ orders[n] \in OrderRecord
    BY <1>0 DEF BridgeType
  <2>2. QED
    BY <2>1 DEF OrderRecord
<1> DEFINE r == Record("FILL", s, 0, 0, n)
           f == Filled(policy, s)
<1>1. /\ policy' = Synced(f, ledger') /\ journal' = Append(journal, r)
      /\ policy.orderOf[s] = n /\ orders[n].state = "PENDING" /\ FillAccepted(policy, s)
      /\ ledger' = [ledger EXCEPT !.cost[s] = @ + orders[n].notional]
  BY <1>s DEF FillOrder, Journalled
<1>v. SymbolInv(s)
  BY DEF IInv
<1>2. policy.state[s] = "BOUND"
  <2>1. orders[n].symbol = s /\ orders[n].state = "PENDING"
    BY <1>s, <1>1
  <2>2. QED
    BY ONLY <1>v, <2>1, n \in DOMAIN orders DEF SymbolInv
<1>3. r \in JournalRecord /\ r.type = "FILL" /\ r.symbol = s /\ r.order = n
  BY <1>0 DEF Record, JournalRecord
<1> HIDE DEF r
<1>4. /\ f \in PolicyRecord /\ f.orderOf = policy.orderOf
      /\ f.state = [policy.state EXCEPT ![s] = "FILLED"] /\ f.active = policy.active \cup {s}
  <2>1. f \in PolicyRecord /\ f.orderOf = policy.orderOf
        /\ f.state = [policy.state EXCEPT ![s] = "FILLED"]
    BY <1>0, FilledFields
  <2>2. f.active = policy.active \cup {s}
    BY <1>0 DEF Filled, PolicyRecord
  <2>3. QED
    BY <2>1, <2>2
<1> HIDE DEF f
<1>5. HeldIn(ledger') = HeldIn(ledger) \cup {s}
  <2>1. policy'.state = f.state
    BY <1>1, <1>4, SyncedFields
  <2>2. policy'.state[s] = "FILLED"
    BY <1>0, <1>4, <2>1 DEF PolicyRecord
  <2>3. ledger'.cost[s] > 0
    BY <2>2 DEF IInv, SymbolInv
  <2>4. \A t \in Symbols \ {s} : ledger'.cost[t] = ledger.cost[t]
    BY <1>0, <1>1 DEF BridgeType, LedgerRecord
  <2>5. QED
    BY <2>3, <2>4 DEF HeldIn
<1>6. policy' = f
  <2>1. policy.active = HeldIn(ledger)
    BY DEF IInv
  <2>2. f.active = HeldIn(ledger')
    BY <1>4, <1>5, <2>1
  <2>3. /\ policy' \in PolicyRecord /\ policy'.active = HeldIn(ledger')
        /\ policy'.state = f.state /\ policy'.pending = f.pending
        /\ policy'.orderOf = f.orderOf /\ policy'.reserved = f.reserved
        /\ policy'.committed = f.committed
    BY <1>1, <1>4, SyncedFields
  <2>4. QED
    BY <1>4, <2>2, <2>3, SamePolicy
<1>7. [f EXCEPT !.orderOf[s] = n] = f
  <2>1. [f.orderOf EXCEPT ![s] = n] = f.orderOf
    BY <1>0, <1>1, <1>4 DEF PolicyRecord
  <2>2. QED
    BY <1>4, <2>1 DEF PolicyRecord
<1>8. ASSUME NEW led
      PROVE  ApplyRecord(policy, r, led) = policy'
  <2>1. ApplyFill(policy, r) = [f EXCEPT !.orderOf[s] = n]
    BY <1>1, <1>2, <1>3 DEF ApplyFill, f
  <2>2. ApplyRecord(policy, r, led) = ApplyFill(policy, r)
    BY <1>0, <1>3 DEF ApplyRecord
  <2>3. QED
    BY <1>6, <1>7, <2>1, <2>2
<1>9. \A t \in Symbols : policy'.state[t] # policy.state[t] => t = s
  BY <1>0, <1>4, <1>6 DEF PolicyRecord
<1>10. QED
  BY <1>1, <1>2, <1>3, <1>8, <1>9 DEF Replays

LEMMA ExitReplays ==
    ASSUME IInv, NEW s \in Symbols, NEW result \in Results, ExitSymbol(s, result)
    PROVE  \E r : Replays(r)
<1> DEFINE r == Record("EXIT", s, 0, 0, 0)
           e == Exited(policy, s)
<1>0. BridgeType /\ policy \in PolicyRecord /\ policy # Raised
  BY NotRaised DEF IInv
<1>1. /\ policy' = Synced(e, ledger') /\ journal' = Append(journal, r)
      /\ ledger.cost[s] > 0 /\ ExitAccepted(policy, s)
      /\ ledger'.cost = [ledger.cost EXCEPT ![s] = 0]
  BY DEF ExitSymbol, Journalled
<1>2. policy.state[s] = "FILLED"
  BY <1>1 DEF IInv, SymbolInv
<1>3. r \in JournalRecord /\ r.type = "EXIT" /\ r.symbol = s
  BY DEF Record, JournalRecord
<1> HIDE DEF r
<1>4. /\ e \in PolicyRecord
      /\ e.state = [policy.state EXCEPT ![s] = "EXITED"] /\ e.active = policy.active \ {s}
  <2>1. e \in PolicyRecord /\ e.state = [policy.state EXCEPT ![s] = "EXITED"]
    BY <1>0, ExitedFields
  <2>2. e.active = policy.active \ {s}
    BY <1>0 DEF Exited, PolicyRecord
  <2>3. QED
    BY <2>1, <2>2
<1> HIDE DEF e
<1>5. HeldIn(ledger') = HeldIn(ledger) \ {s}
  <2>1. ledger'.cost[s] = 0 /\ \A t \in Symbols \ {s} : ledger'.cost[t] = ledger.cost[t]
    BY <1>0, <1>1 DEF BridgeType, LedgerRecord
  <2>2. QED
    BY <2>1 DEF HeldIn
<1>6. policy' = e
  <2>1. policy.active = HeldIn(ledger)
    BY DEF IInv
  <2>2. e.active = HeldIn(ledger')
    BY <1>4, <1>5, <2>1
  <2>3. /\ policy' \in PolicyRecord /\ policy'.active = HeldIn(ledger')
        /\ policy'.state = e.state /\ policy'.pending = e.pending
        /\ policy'.orderOf = e.orderOf /\ policy'.reserved = e.reserved
        /\ policy'.committed = e.committed
    BY <1>1, <1>4, SyncedFields
  <2>4. QED
    BY <1>4, <2>2, <2>3, SamePolicy
<1>7. ASSUME NEW led
      PROVE  ApplyRecord(policy, r, led) = policy'
  <2>1. ApplyExit(policy, r) = e
    BY <1>1, <1>2, <1>3 DEF ApplyExit, e
  <2>2. ApplyRecord(policy, r, led) = ApplyExit(policy, r)
    BY <1>0, <1>3 DEF ApplyRecord
  <2>3. QED
    BY <1>6, <2>1, <2>2
<1>8. \A t \in Symbols : policy'.state[t] # policy.state[t] => t = s
  BY <1>0, <1>4, <1>6 DEF PolicyRecord
<1>9. QED
  BY <1>1, <1>2, <1>3, <1>7, <1>8 DEF Replays

LEMMA NextLoads ==
    ASSUME IInv, IInv', Known, Loads, [Next]_vars
    PROVE  Known' /\ Loads'
<1>1. CASE UNCHANGED vars
  <2>1. UNCHANGED <<policy, journal>>
    BY <1>1 DEF vars
  <2>2. Known'
    BY <2>1 DEF Known, Reserves
  <2>3. ASSUME NEW led, NEW g
        PROVE  (IsLoad(g, led)' <=> IsLoad(g, led)) /\ (Repeatable(led)' => Repeatable(led))
    BY <2>1 DEF IsLoad, Repeatable, Reserves, EnteredOnce
  <2>4. QED
    BY <2>1, <2>2, <2>3 DEF Loads
<1>2. CASE RejectEntry
  <2>1. PICK s \in Symbols : s = entering /\ Release(s)
    BY <1>2 DEF RejectEntry, IInv, BridgeType
  <2>2. policy.state[s] = "RESERVED"
    BY <2>1 DEF IInv, SymbolInv
  <2>3. QED
    BY <2>1, <2>2, ReleaseReplays, StepLoads
<1>3. ASSUME NEW n \in DOMAIN orders, EndOrder(n)
      PROVE  Known' /\ Loads'
  <2>1. PICK s \in Symbols : policy.orderOf[s] = n /\ Release(s)
    BY <1>3 DEF EndOrder, ReleaseForOrder
  <2>2. n # 0 /\ orders[n].state = "PENDING"
    BY <1>3 DEF EndOrder, IInv, BridgeType
  <2>3. orders[n].symbol = s
    BY <2>1, <2>2 DEF IInv, SymbolInv
  <2>4. policy.state[s] = "BOUND"
    BY <2>2, <2>3 DEF IInv, SymbolInv
  <2>5. QED
    BY <2>1, <2>4, ReleaseReplays, StepLoads
<1>4. QED
  BY <1>1, <1>2, <1>3, AllocateReplays, SubmitReplays, FillReplays, ExitReplays, StepLoads
     DEF Next

(* The fold that recover() makes is the table's entry for all records.     *)
LEMMA LoadedIsTable ==
    ASSUME Loads, NEW led, Repeatable(led)
    PROVE  Loaded(led) = policy
<1> DEFINE Fixed(h) == h = [S \in SUBSET DOMAIN journal |->
                IF S = {} THEN NoPolicy
                ELSE ApplyRecord(h[S \ {Max(S)}], journal[Max(S)], led)]
           iter == CHOOSE h : Fixed(h)
<1>1. Loaded(led) = iter[DOMAIN journal]
  BY Zenon DEF Loaded, FoldLeft, MapThenFoldSet
<1>2. \A g : Fixed(g) <=> IsLoad(g, led)
  BY DEF IsLoad
<1>3. \E g : IsLoad(g, led)
  BY DEF Loads
<1> HIDE DEF Fixed
<1>4. Fixed(iter)
  BY <1>2, <1>3
<1> HIDE DEF iter
<1>5. QED
  BY <1>1, <1>2, <1>4 DEF Loads

(* recover(): at every point of every run the journal alone restores the   *)
(* policy with its order bindings, as long as no symbol was entered twice  *)
(* and the ledger would still pay for every past allocation.               *)
THEOREM RecoveryExactHolds == Spec => []RecoveryExact
<1>1. IInv /\ Loads => RecoveryExact
  <2> SUFFICES ASSUME IInv, Loads,
                      \A s \in Symbols : EnteredOnce(s),
                      \A k \in Reserves : StillAccepted(k)
               PROVE  Recovered(ledger) = policy
    BY DEF RecoveryExact
  <2>1. Repeatable(ledger)
    BY DEF Repeatable, StillAccepted
  <2>2. Loaded(ledger) = policy
    BY <2>1, LoadedIsTable
  <2>3. policy \in PolicyRecord /\ policy # Raised
    BY NotRaised
  <2>4. Synced(policy, ledger) = policy
    <3>1. policy.active = HeldIn(ledger)
      BY DEF IInv
    <3>2. QED
      BY <2>3, <3>1 DEF Synced, PolicyRecord
  <2>5. QED
    BY <2>2, <2>3, <2>4 DEF Recovered
<1>2. QED
  BY <1>1, InitInv, InitLoads, NextInv, NextLoads, PTL DEF Spec
=============================================================================
