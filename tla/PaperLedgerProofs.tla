-------------------------- MODULE PaperLedgerProofs --------------------------
(***************************************************************************)
(* Proofs about PaperLedger for every set of symbols, every fee and        *)
(* slippage rate and every starting equity that LedgerAssumption allows.   *)
(***************************************************************************)
EXTENDS PaperLedger, FiniteSums

(* A rate takes a whole amount of money, and no more than all of it when   *)
(* it is at most 100 percent.                                              *)
LEMMA PercentType ==
    ASSUME NEW rate \in Nat, NEW amount \in Nat
    PROVE  PercentOf(rate, amount) \in Nat
<1>1. rate * amount \in Nat
  OBVIOUS
<1>2. QED
  BY <1>1 DEF PercentOf

LEMMA SlipType ==
    ASSUME NEW ref \in Nat
    PROVE  Slip(ref) \in Nat /\ Slip(ref) <= ref
<1>0. SlippageRate \in Nat
  BY LedgerAssumption
<1>1. Slip(ref) \in Nat
  BY <1>0, PercentType DEF Slip
<1>2. SlippageRate * ref <= 100 * ref
  BY LedgerAssumption
<1>3. SlippageRate * ref \in Nat
  BY LedgerAssumption
<1>4. ASSUME NEW m \in Nat, m <= 100 * ref
      PROVE  m \div 100 <= ref
  BY <1>4
<1>5. QED
  BY <1>1, <1>2, <1>3, <1>4 DEF Slip, PercentOf

(* An execution costs or brings the reference value and its slippage.      *)
LEMMA NotionalType ==
    ASSUME NEW q \in Nat, NEW ref \in Nat
    PROVE  /\ Slip(ref) * q \in Nat
           /\ Notional("BUY", q, ref) \in Nat
           /\ Notional("BUY", q, ref) = ref * q + Slip(ref) * q
           /\ Notional("SELL", q, ref) \in Nat
           /\ Notional("SELL", q, ref) = ref * q - Slip(ref) * q
<1>1. /\ Notional("BUY", q, ref) = (ref + Slip(ref)) * q
      /\ Notional("SELL", q, ref) = (ref - Slip(ref)) * q
  BY DEF Notional, ExecutionPrice
<1>2. ASSUME NEW slip \in Nat, slip <= ref
      PROVE  /\ slip * q \in Nat
             /\ (ref + slip) * q \in Nat
             /\ (ref + slip) * q = ref * q + slip * q
             /\ (ref - slip) * q \in Nat
             /\ (ref - slip) * q = ref * q - slip * q
  <2>1. ref - slip \in Nat
    BY <1>2
  <2>2. /\ slip * q \in Nat
        /\ (ref + slip) * q \in Nat
        /\ (ref - slip) * q \in Nat
    BY <2>1
  <2>3. QED
    BY <2>2
<1>3. QED
  BY <1>1, <1>2, SlipType

LEMMA FeeType ==
    ASSUME NEW n \in Nat
    PROVE  Fee(n) \in Nat
BY PercentType, LedgerAssumption DEF Fee

(* The share of the cost that a sale takes along is a whole amount.        *)
LEMMA ShareType ==
    ASSUME NEW a \in Account, NEW s \in Symbols, NEW q \in Nat \ {0},
           SellAllowed(a, s, q)
    PROVE  CostShare(a, s, q) \in Int
<1>1. a.cost[s] \in Int /\ a.qty[s] \in Int /\ q <= a.qty[s]
  BY DEF Account, SellAllowed
<1>2. a.cost[s] * q \in Int /\ a.qty[s] > 0
  BY <1>1
<1>3. QED
  BY <1>1, <1>2 DEF CostShare
-----------------------------------------------------------------------------
Delta == [cash : Int, fee : Int, slippage : Int, realized : Int, cost : Int, qty : Int]

(* A fill of whole amounts keeps the shape of the account.                 *)
LEMMA FillType ==
    ASSUME NEW a \in Account, NEW s \in Symbols, NEW d \in Delta, NEW price \in Int
    PROVE  ApplyFill(a, s, d, price) \in Account
<1> DEFINE cash == a.cash + d.cash
           fees == a.fees + d.fee
           slip == a.slippage + d.slippage
           real == a.realized + d.realized
           inv  == a.invested + d.cost
           qty  == [a.qty EXCEPT ![s] = @ + d.qty]
           cost == [a.cost EXCEPT ![s] = @ + d.cost]
           mark == [a.mark EXCEPT ![s] = price]
<1>1. cash \in Int /\ fees \in Int /\ slip \in Int /\ real \in Int /\ inv \in Int
  BY DEF Account, Delta
<1>2. qty \in [Symbols -> Int] /\ cost \in [Symbols -> Int] /\ mark \in [Symbols -> Int]
  BY DEF Account, Delta
<1>3. ApplyFill(a, s, d, price) =
        [a EXCEPT !.cash = cash, !.fees = fees, !.slippage = slip, !.realized = real,
                  !.invested = inv, !.qty = qty, !.cost = cost, !.mark = mark]
  BY Zenon DEF ApplyFill
<1> HIDE DEF cash, fees, slip, real, inv, qty, cost, mark
<1>4. [a EXCEPT !.cash = cash, !.fees = fees, !.slippage = slip, !.realized = real,
                !.invested = inv, !.qty = qty, !.cost = cost, !.mark = mark] \in Account
  BY <1>1, <1>2, Zenon DEF Account
<1>5. QED
  BY ONLY <1>3, <1>4

(* The amounts a fill moves are moved by exactly its delta.                *)
LEMMA FillEffect ==
    ASSUME NEW a \in Account, NEW s \in Symbols, NEW d \in Delta, NEW price \in Int
    PROVE  /\ ApplyFill(a, s, d, price).cash = a.cash + d.cash
           /\ ApplyFill(a, s, d, price).reserved = a.reserved
           /\ ApplyFill(a, s, d, price).realized = a.realized + d.realized
           /\ ApplyFill(a, s, d, price).fees = a.fees + d.fee
           /\ ApplyFill(a, s, d, price).slippage = a.slippage + d.slippage
           /\ ApplyFill(a, s, d, price).invested = a.invested + d.cost
BY DEF ApplyFill, Account, Delta

(* The balances of an account, whatever was traded to reach it.            *)
Balanced(a, net) ==
    /\ StartingEquity = a.cash + a.invested + a.fees - a.realized
    /\ a.cash = StartingEquity + net - a.fees - a.slippage

(* A bought position keeps the balances.                                   *)
LEMMA BuyKeepsBalance ==
    ASSUME NEW a \in Account, NEW s \in Symbols, NEW q \in Nat, NEW ref \in Nat,
           NEW net \in Int, Balanced(a, net)
    PROVE  /\ AfterBuy(a, s, q, ref) \in Account
           /\ Balanced(AfterBuy(a, s, q, ref), net - ref * q)
           /\ AfterBuy(a, s, q, ref).reserved = a.reserved
           /\ AfterBuy(a, s, q, ref).cash =
                a.cash - (Notional("BUY", q, ref) + Fee(Notional("BUY", q, ref)))
<1> DEFINE n == Notional("BUY", q, ref)
           f == Fee(n)
           slip == Slip(ref) * q
           price == ExecutionPrice("BUY", ref)
           val == ref * q
           d == [cash |-> -(n + f), fee |-> f, slippage |-> slip,
                 realized |-> 0, cost |-> n, qty |-> q]
<1>1. n \in Nat /\ slip \in Nat /\ n = val + slip
  BY NotionalType
<1>2. price \in Int
  BY SlipType DEF ExecutionPrice
<1>3. AfterBuy(a, s, q, ref) = ApplyFill(a, s, d, price)
  BY DEF AfterBuy, BuyDelta
<1>4. val \in Int
  OBVIOUS
<1> HIDE DEF n, slip, price, val
<1>5. f \in Nat
  BY <1>1, FeeType
<1> HIDE DEF f
<1>6. d \in Delta
  BY <1>1, <1>5 DEF Delta
<1>7. /\ d.cash = -(n + f) /\ d.fee = f /\ d.slippage = slip
      /\ d.realized = 0 /\ d.cost = n
  OBVIOUS
<1> HIDE DEF d
<1>8. AfterBuy(a, s, q, ref) \in Account
  BY <1>2, <1>3, <1>6, FillType
<1>9. /\ AfterBuy(a, s, q, ref).cash = a.cash - (n + f)
      /\ AfterBuy(a, s, q, ref).reserved = a.reserved
      /\ AfterBuy(a, s, q, ref).realized = a.realized
      /\ AfterBuy(a, s, q, ref).fees = a.fees + f
      /\ AfterBuy(a, s, q, ref).slippage = a.slippage + slip
      /\ AfterBuy(a, s, q, ref).invested = a.invested + n
  BY <1>1, <1>2, <1>3, <1>5, <1>6, <1>7, FillEffect DEF Account
<1>10. Balanced(AfterBuy(a, s, q, ref), net - val)
  BY <1>1, <1>4, <1>5, <1>9, LedgerAssumption DEF Balanced, Account
<1>11. QED
  BY <1>8, <1>9, <1>10 DEF n, f, val

(* A sale keeps the balances.                                              *)
LEMMA SellKeepsBalance ==
    ASSUME NEW a \in Account, NEW s \in Symbols, NEW q \in Nat \ {0}, NEW ref \in Nat,
           NEW net \in Int, Balanced(a, net), SellAllowed(a, s, q)
    PROVE  /\ AfterSell(a, s, q, ref) \in Account
           /\ Balanced(AfterSell(a, s, q, ref), net + ref * q)
           /\ AfterSell(a, s, q, ref).reserved = a.reserved
           /\ AfterSell(a, s, q, ref).cash =
                a.cash + (Notional("SELL", q, ref) - Fee(Notional("SELL", q, ref)))
<1> DEFINE n == Notional("SELL", q, ref)
           f == Fee(n)
           slip == Slip(ref) * q
           price == ExecutionPrice("SELL", ref)
           val == ref * q
           share == CostShare(a, s, q)
           d == [cash |-> n - f, fee |-> f, slippage |-> slip,
                 realized |-> n - share, cost |-> -share, qty |-> -q]
<1>0. q \in Nat
  OBVIOUS
<1>1. n \in Nat /\ slip \in Nat /\ n = val - slip
  BY <1>0, NotionalType
<1>2. price \in Int
  BY SlipType DEF ExecutionPrice
<1>3. AfterSell(a, s, q, ref) = ApplyFill(a, s, d, price)
  BY DEF AfterSell, SellDelta, RealizedBySale
<1>4. val \in Int /\ share \in Int
  BY <1>0, ShareType
<1> HIDE DEF n, slip, price, val, share
<1>5. f \in Nat
  BY <1>1, FeeType
<1> HIDE DEF f
<1>6. d \in Delta
  BY <1>0, <1>1, <1>4, <1>5 DEF Delta
<1>7. /\ d.cash = n - f /\ d.fee = f /\ d.slippage = slip
      /\ d.realized = n - share /\ d.cost = -share
  OBVIOUS
<1> HIDE DEF d
<1>8. AfterSell(a, s, q, ref) \in Account
  BY <1>2, <1>3, <1>6, FillType
<1>9. /\ AfterSell(a, s, q, ref).cash = a.cash + (n - f)
      /\ AfterSell(a, s, q, ref).reserved = a.reserved
      /\ AfterSell(a, s, q, ref).realized = a.realized + (n - share)
      /\ AfterSell(a, s, q, ref).fees = a.fees + f
      /\ AfterSell(a, s, q, ref).slippage = a.slippage + slip
      /\ AfterSell(a, s, q, ref).invested = a.invested - share
  BY <1>1, <1>2, <1>3, <1>4, <1>5, <1>6, <1>7, FillEffect DEF Account
<1>10. Balanced(AfterSell(a, s, q, ref), net + val)
  BY <1>1, <1>4, <1>5, <1>9, LedgerAssumption DEF Balanced, Account
<1>11. QED
  BY <1>8, <1>9, <1>10 DEF n, f, val
-----------------------------------------------------------------------------
(* The inductive invariant: the shape, and the two balances that do not    *)
(* depend on the marks.                                                    *)
IInv == TypeOK /\ CostIdentity /\ CostsExplainCash

LEMMA InvIsBalanced ==
    ASSUME TypeOK
    PROVE  Balanced(account, traded) <=> CostIdentity /\ CostsExplainCash
BY DEF Balanced, CostIdentity, CostsExplainCash

LEMMA InitInv == Init => IInv
<1> SUFFICES ASSUME Init
             PROVE  IInv
  OBVIOUS
<1>1. account \in Account
  BY LedgerAssumption DEF Init, EmptyAccount, Account
<1>2. recorded \in 0 .. MaxEvents /\ traded \in Int
  BY InputAssumption DEF Init
<1>3. CostIdentity /\ CostsExplainCash
  BY LedgerAssumption DEF Init, EmptyAccount, CostIdentity, CostsExplainCash
<1>4. QED
  BY <1>1, <1>2, <1>3 DEF IInv, TypeOK

LEMMA ExtendType ==
    ASSUME TypeOK, NEW n \in Nat, Extend(n)
    PROVE  recorded' \in 0 .. MaxEvents
BY InputAssumption DEF TypeOK, Extend

(* A record that leaves the balances of the account alone.                 *)
LEMMA KeepsAmounts ==
    ASSUME IInv, account' \in Account, recorded' \in 0 .. MaxEvents, traded' = traded,
           account'.cash = account.cash, account'.invested = account.invested,
           account'.fees = account.fees, account'.realized = account.realized,
           account'.slippage = account.slippage
    PROVE  IInv'
BY DEF IInv, TypeOK, CostIdentity, CostsExplainCash

LEMMA NextInv ==
    ASSUME IInv, [Next]_vars
    PROVE  IInv'
<1> USE DEF IInv
<1>0. account \in Account /\ traded \in Int
  BY DEF TypeOK
<1>1. ASSUME NEW s \in Symbols, NEW q \in Quantities, NEW ref \in Prices,
             RecordOrder(s, q, ref) \/ RecordExit(s, q, ref)
      PROVE  IInv'
  <2>1. recorded' \in 0 .. MaxEvents
    BY <1>1, ExtendType DEF RecordOrder, RecordExit
  <2>2. QED
    BY <1>0, <1>1, <2>1, KeepsAmounts DEF RecordOrder, RecordExit
<1>2. ASSUME NEW s \in Symbols, NEW q \in Quantities, NEW ref \in Prices,
             FillBuy(s, q, ref)
      PROVE  IInv'
  <2>1. recorded' \in 0 .. MaxEvents
    BY <1>2, ExtendType DEF FillBuy
  <2>2. q \in Nat /\ ref \in Nat
    BY InputAssumption
  <2>3. Balanced(account, traded)
    BY InvIsBalanced
  <2>4. account' \in Account /\ Balanced(account', traded - ref * q)
    BY <1>0, <1>2, <2>2, <2>3, BuyKeepsBalance DEF FillBuy
  <2>5. traded' = traded - ref * q /\ traded' \in Int
    BY <1>0, <1>2, <2>2 DEF FillBuy
  <2>6. QED
    BY <2>1, <2>4, <2>5 DEF TypeOK, Balanced, CostIdentity, CostsExplainCash
<1>3. ASSUME NEW s \in Symbols, NEW q \in Quantities, NEW ref \in Prices,
             FillSell(s, q, ref)
      PROVE  IInv'
  <2>1. recorded' \in 0 .. MaxEvents
    BY <1>3, ExtendType DEF FillSell
  <2>2. q \in Nat \ {0} /\ q \in Nat /\ ref \in Nat
    BY InputAssumption
  <2>3. Balanced(account, traded)
    BY InvIsBalanced
  <2>4. account' \in Account /\ Balanced(account', traded + ref * q)
    BY <1>0, <1>3, <2>2, <2>3, SellKeepsBalance DEF FillSell
  <2>5. traded' = traded + ref * q /\ traded' \in Int
    BY <1>0, <1>3, <2>2 DEF FillSell
  <2>6. QED
    BY <2>1, <2>4, <2>5 DEF TypeOK, Balanced, CostIdentity, CostsExplainCash
<1>4. ASSUME NEW amount \in Amounts, ReserveCash(amount) \/ ReleaseCash(amount)
      PROVE  IInv'
  <2>1. recorded' \in 0 .. MaxEvents
    BY <1>4, ExtendType DEF ReserveCash, ReleaseCash
  <2>2. amount \in Int
    BY InputAssumption
  <2>3. PICK r \in Int : account' = [account EXCEPT !.reserved = r]
    BY <1>0, <1>4, <2>2 DEF ReserveCash, ReleaseCash, Account
  <2>4. account' \in Account
    BY <1>0, <2>3, Zenon DEF Account
  <2>5. QED
    BY <1>0, <1>4, <2>1, <2>3, <2>4, KeepsAmounts DEF ReserveCash, ReleaseCash, Account
<1>5. ASSUME NEW s \in Symbols, NEW price \in Prices, Mark(s, price)
      PROVE  IInv'
  <2>1. recorded' \in 0 .. MaxEvents
    BY <1>5, ExtendType DEF Mark
  <2>2. price \in Int
    BY InputAssumption
  <2> DEFINE m == [account.mark EXCEPT ![s] = price]
  <2>3. m \in [Symbols -> Int]
    BY <1>0, <2>2 DEF Account
  <2>4. account' = [account EXCEPT !.mark = m]
    BY <1>5 DEF Mark
  <2> HIDE DEF m
  <2>5. account' \in Account
    BY <1>0, <2>3, <2>4, Zenon DEF Account
  <2>6. QED
    BY <1>0, <1>5, <2>1, <2>4, <2>5, KeepsAmounts DEF Mark, Account
<1>6. CASE Snapshot
  <2>1. recorded' \in 0 .. MaxEvents
    BY <1>6, ExtendType DEF Snapshot
  <2>2. QED
    BY <1>0, <1>6, <2>1, KeepsAmounts DEF Snapshot
<1>7. CASE UNCHANGED vars
  BY <1>7 DEF vars, TypeOK, CostIdentity, CostsExplainCash
<1>8. QED
  BY <1>1, <1>2, <1>3, <1>4, <1>5, <1>6, <1>7 DEF Next

LEMMA SpecInv == Spec => []IInv
<1>1. Init => IInv
  BY InitInv
<1>2. IInv /\ [Next]_vars => IInv'
  BY NextInv
<1>3. QED
  BY <1>1, <1>2, PTL DEF Spec

(* The account keeps its shape and the ledger its bound.                   *)
THEOREM LedgerTypeCorrect == Spec => []TypeOK
<1>1. IInv => TypeOK
  BY DEF IInv
<1>2. QED
  BY <1>1, SpecInv, PTL

(* Money is in cash, in the cost of the open positions, or gone as fees    *)
(* and realized results, after every sequence of records.                  *)
THEOREM CostIdentityHolds == Spec => []CostIdentity
<1>1. IInv => CostIdentity
  BY DEF IInv
<1>2. QED
  BY <1>1, SpecInv, PTL

(* Cash differs from a frictionless account by exactly the fees and the    *)
(* slippage charged, after every sequence of records.                      *)
THEOREM CostsExplainCashHolds == Spec => []CostsExplainCash
<1>1. IInv => CostsExplainCash
  BY DEF IInv
<1>2. QED
  BY <1>1, SpecInv, PTL
-----------------------------------------------------------------------------
LEMMA NextWallet ==
    ASSUME FeesCovered, IInv, WalletReplayable, [Next]_vars
    PROVE  WalletReplayable'
<1> USE DEF WalletReplayable, WalletOK
<1>0. account \in Account /\ traded \in Int
  BY DEF IInv, TypeOK
<1>1. ASSUME NEW s \in Symbols, NEW q \in Quantities, NEW ref \in Prices,
             RecordOrder(s, q, ref) \/ RecordExit(s, q, ref)
      PROVE  WalletReplayable'
  BY <1>1 DEF RecordOrder, RecordExit
<1>2. ASSUME NEW s \in Symbols, NEW q \in Quantities, NEW ref \in Prices,
             FillBuy(s, q, ref)
      PROVE  WalletReplayable'
  <2> DEFINE n == Notional("BUY", q, ref)
             f == Fee(n)
  <2>1. q \in Nat /\ ref \in Nat
    BY InputAssumption
  <2>2. n \in Nat
    BY <2>1, NotionalType
  <2>3. n + f <= account.cash - account.reserved
    BY <1>2 DEF FillBuy, BuyAllowed, Available
  <2>4. Balanced(account, traded)
    BY InvIsBalanced DEF IInv
  <2>5. account'.cash = account.cash - (n + f) /\ account'.reserved = account.reserved
    BY <1>0, <1>2, <2>1, <2>4, BuyKeepsBalance DEF FillBuy
  <2> HIDE DEF n
  <2>6. f \in Nat
    BY <2>2, FeeType
  <2> HIDE DEF f
  <2>7. account.cash \in Int /\ account.reserved \in Int
    BY <1>0 DEF Account
  <2>8. QED
    BY <2>2, <2>3, <2>5, <2>6, <2>7
<1>3. ASSUME NEW s \in Symbols, NEW q \in Quantities, NEW ref \in Prices,
             FillSell(s, q, ref)
      PROVE  WalletReplayable'
  <2> DEFINE n == Notional("SELL", q, ref)
             f == Fee(n)
  <2>1. q \in Nat \ {0} /\ q \in Nat /\ ref \in Nat
    BY InputAssumption
  <2>2. n \in Nat
    BY <2>1, NotionalType
  <2>3. f <= n
    BY DEF FeesCovered
  <2>4. Balanced(account, traded)
    BY InvIsBalanced DEF IInv
  <2>5. account'.cash = account.cash + (n - f) /\ account'.reserved = account.reserved
    BY <1>0, <1>3, <2>1, <2>4, SellKeepsBalance DEF FillSell
  <2> HIDE DEF n
  <2>6. f \in Nat
    BY <2>2, FeeType
  <2> HIDE DEF f
  <2>7. account.cash \in Int /\ account.reserved \in Int
    BY <1>0 DEF Account
  <2>8. QED
    BY <2>2, <2>3, <2>5, <2>6, <2>7
<1>4. ASSUME NEW amount \in Amounts, ReserveCash(amount)
      PROVE  WalletReplayable'
  <2>1. amount \in Nat /\ account.cash \in Int /\ account.reserved \in Int
    BY <1>0, InputAssumption DEF Account
  <2>2. account' = [account EXCEPT !.reserved = account.reserved + amount]
    BY <1>4 DEF ReserveCash
  <2>3. account'.cash = account.cash /\ account'.reserved = account.reserved + amount
    BY <1>0, <2>2 DEF Account
  <2>4. QED
    BY <1>4, <2>1, <2>3 DEF ReserveCash, Available
<1>5. ASSUME NEW amount \in Amounts, ReleaseCash(amount)
      PROVE  WalletReplayable'
  <2>1. amount \in Nat /\ account.cash \in Int /\ account.reserved \in Int
    BY <1>0, InputAssumption DEF Account
  <2>2. account' = [account EXCEPT !.reserved = account.reserved - amount]
    BY <1>5 DEF ReleaseCash
  <2>3. account'.cash = account.cash /\ account'.reserved = account.reserved - amount
    BY <1>0, <2>2 DEF Account
  <2>4. QED
    BY <1>5, <2>1, <2>3 DEF ReleaseCash
<1>6. ASSUME NEW s \in Symbols, NEW price \in Prices, Mark(s, price)
      PROVE  WalletReplayable'
  BY <1>0, <1>6 DEF Mark, Account
<1>7. CASE Snapshot
  BY <1>7 DEF Snapshot
<1>8. CASE UNCHANGED vars
  BY <1>8 DEF vars
<1>9. QED
  BY <1>1, <1>2, <1>3, <1>4, <1>5, <1>6, <1>7, <1>8 DEF Next

(* Where a sale always covers its fee, no sequence of records leaves the   *)
(* ledger in a state that VirtualWallet refuses to rebuild.                *)
THEOREM LedgerStaysReplayable ==
    ASSUME FeesCovered
    PROVE  Spec => []WalletReplayable
<1>1. Init => WalletReplayable
  BY LedgerAssumption DEF Init, EmptyAccount, WalletReplayable, WalletOK
<1>2. IInv /\ WalletReplayable /\ [Next]_vars => WalletReplayable'
  BY NextWallet
<1>3. QED
  BY <1>1, <1>2, SpecInv, PTL DEF Spec
-----------------------------------------------------------------------------
(* A share of a whole is not more than the whole.                          *)
LEMMA ShareBound ==
    ASSUME NEW whole \in Nat, NEW q \in Nat, NEW held \in Nat, 0 < q, q < held
    PROVE  (whole * q) \div held \in Nat /\ (whole * q) \div held <= whole
<1> DEFINE m == whole * q
           k == m \div held
<1>1. m \in Nat /\ m <= whole * held
  <2>1. ASSUME NEW w \in Nat PROVE w * q \in Nat /\ w * held \in Nat /\ w * q <= w * held
    OBVIOUS
  <2>2. QED
    BY <2>1
<1> HIDE DEF m
<1>2. k \in Nat /\ k * held <= m
  BY <1>1
<1> HIDE DEF k
<1>3. k * held <= whole * held
  BY <1>1, <1>2
<1>4. k <= whole
  BY <1>2, <1>3
<1>5. QED
  BY <1>2, <1>4 DEF k, m

(* What a fill does to the positions.                                      *)
LEMMA FillPositions ==
    ASSUME NEW a \in Account, NEW s \in Symbols, NEW d \in Delta, NEW price \in Int
    PROVE  /\ ApplyFill(a, s, d, price).qty = [a.qty EXCEPT ![s] = a.qty[s] + d.qty]
           /\ ApplyFill(a, s, d, price).cost = [a.cost EXCEPT ![s] = a.cost[s] + d.cost]
BY DEF ApplyFill, Account, Delta

Sound(a) ==
    /\ \A s \in Symbols : a.qty[s] >= 0 /\ a.cost[s] >= 0
    /\ \A s \in Symbols : a.qty[s] = 0 => a.cost[s] = 0
    /\ a.invested = CommittedCapital(a)

(* The committed capital follows a fill because the sum of the costs       *)
(* changes by what the cost of the one symbol changes by.                  *)
LEMMA FillKeepsSound ==
    ASSUME NEW a \in Account, NEW s \in Symbols, NEW d \in Delta, NEW price \in Int,
           Sound(a), a.qty[s] + d.qty >= 0, a.cost[s] + d.cost >= 0,
           a.qty[s] + d.qty = 0 => a.cost[s] + d.cost = 0
    PROVE  Sound(ApplyFill(a, s, d, price))
<1> DEFINE b == ApplyFill(a, s, d, price)
<1>1. b \in Account
  BY FillType
<1>2. /\ b.qty = [a.qty EXCEPT ![s] = a.qty[s] + d.qty]
      /\ b.cost = [a.cost EXCEPT ![s] = a.cost[s] + d.cost]
      /\ b.invested = a.invested + d.cost
  BY FillPositions, FillEffect
<1> HIDE DEF b
<1>3. /\ a.cost \in [Symbols -> Int] /\ a.qty \in [Symbols -> Int] /\ a.invested \in Int
      /\ b.cost \in [Symbols -> Int] /\ b.qty \in [Symbols -> Int]
      /\ d.cost \in Int /\ d.qty \in Int
  BY <1>1 DEF Account, Delta
<1>4. SumFunctionOnSet(b.cost, Symbols) = SumFunctionOnSet(a.cost, Symbols) - a.cost[s] + b.cost[s]
  <2>1. /\ \A x \in Symbols : a.cost[x] \in Int
        /\ \A x \in Symbols : b.cost[x] \in Int
        /\ \A x \in Symbols \ {s} : b.cost[x] = a.cost[x]
        /\ IsFiniteSet(Symbols)
    BY <1>2, <1>3, LedgerAssumption
  <2>2. QED
    BY <2>1, SumOfChange
<1>5. b.invested = CommittedCapital(b)
  <2>1. /\ CommittedCapital(a) = SumFunctionOnSet(a.cost, Symbols)
        /\ CommittedCapital(b) = SumFunctionOnSet(b.cost, Symbols)
    BY <1>3 DEF CommittedCapital, SumFunction
  <2>2. a.invested = CommittedCapital(a)
    BY DEF Sound
  <2>3. b.cost[s] = a.cost[s] + d.cost /\ a.cost[s] \in Int
    BY <1>2, <1>3
  <2>4. QED
    BY <1>2, <1>3, <1>4, <2>1, <2>2, <2>3
<1>6. \A x \in Symbols : /\ b.qty[x] >= 0 /\ b.cost[x] >= 0
                         /\ b.qty[x] = 0 => b.cost[x] = 0
  <2>1. TAKE x \in Symbols
  <2>2. CASE x = s
    BY <1>2, <1>3, <2>2
  <2>3. CASE x # s
    BY <1>2, <1>3, <2>3 DEF Sound
  <2>4. QED
    BY <2>2, <2>3
<1>7. QED
  BY <1>5, <1>6 DEF Sound, b

LEMMA BuyKeepsSound ==
    ASSUME NEW a \in Account, NEW s \in Symbols, NEW q \in Nat \ {0}, NEW ref \in Nat,
           Sound(a)
    PROVE  Sound(AfterBuy(a, s, q, ref))
<1> DEFINE n == Notional("BUY", q, ref)
           slip == Slip(ref) * q
           price == ExecutionPrice("BUY", ref)
           d == BuyDelta(q, ref)
<1>0. q \in Nat
  OBVIOUS
<1>1. n \in Nat /\ slip \in Nat /\ Fee(n) \in Nat
  BY <1>0, NotionalType, FeeType
<1>2. price \in Int
  BY SlipType DEF ExecutionPrice
<1>3. d = [cash |-> -(n + Fee(n)), fee |-> Fee(n), slippage |-> slip,
           realized |-> 0, cost |-> n, qty |-> q]
  BY DEF BuyDelta
<1>4. AfterBuy(a, s, q, ref) = ApplyFill(a, s, d, price)
  BY DEF AfterBuy
<1> HIDE DEF n, slip, price, d
<1>5. d \in Delta /\ d.cost = n /\ d.qty = q
  BY <1>1, <1>3 DEF Delta
<1>6. a.qty[s] \in Int /\ a.cost[s] \in Int /\ a.qty[s] >= 0 /\ a.cost[s] >= 0
  BY DEF Account, Sound
<1>7. QED
  BY <1>1, <1>2, <1>4, <1>5, <1>6, FillKeepsSound

LEMMA SellKeepsSound ==
    ASSUME NEW a \in Account, NEW s \in Symbols, NEW q \in Nat \ {0}, NEW ref \in Nat,
           Sound(a), SellAllowed(a, s, q)
    PROVE  Sound(AfterSell(a, s, q, ref))
<1> DEFINE n == Notional("SELL", q, ref)
           slip == Slip(ref) * q
           price == ExecutionPrice("SELL", ref)
           share == CostShare(a, s, q)
           d == SellDelta(a, s, q, ref)
<1>0. q \in Nat
  OBVIOUS
<1>1. n \in Nat /\ slip \in Nat /\ Fee(n) \in Nat
  BY <1>0, NotionalType, FeeType
<1>2. price \in Int
  BY SlipType DEF ExecutionPrice
<1>3. d = [cash |-> n - Fee(n), fee |-> Fee(n), slippage |-> slip,
           realized |-> n - share, cost |-> -share, qty |-> -q]
  BY DEF SellDelta, RealizedBySale
<1>4. AfterSell(a, s, q, ref) = ApplyFill(a, s, d, price)
  BY DEF AfterSell
<1>5. a.qty[s] \in Nat /\ a.cost[s] \in Nat /\ q <= a.qty[s]
  BY DEF Account, Sound, SellAllowed
<1>6. share \in Nat /\ share <= a.cost[s] /\ (q = a.qty[s] => share = a.cost[s])
  <2>1. CASE q = a.qty[s]
    BY <1>5, <2>1 DEF CostShare
  <2>2. CASE q # a.qty[s]
    <3>1. 0 < q /\ q < a.qty[s]
      BY <1>5, <2>2
    <3>2. share = (a.cost[s] * q) \div a.qty[s]
      BY <2>2 DEF CostShare
    <3>3. QED
      BY <1>0, <1>5, <2>2, <3>1, <3>2, ShareBound
  <2>3. QED
    BY <2>1, <2>2
<1> HIDE DEF n, slip, price, d, share
<1>7. d \in Delta /\ d.cost = -share /\ d.qty = -q
  BY <1>1, <1>3, <1>6 DEF Delta
<1>8. QED
  BY <1>2, <1>4, <1>5, <1>6, <1>7, FillKeepsSound

LEMMA NextSound ==
    ASSUME IInv, PositionsSound, [Next]_vars
    PROVE  PositionsSound'
<1>0. account \in Account /\ Sound(account)
  BY DEF IInv, TypeOK, PositionsSound, Sound
<1>s. SUFFICES Sound(account')
  BY DEF PositionsSound, Sound
<1>1. ASSUME NEW s \in Symbols, NEW q \in Quantities, NEW ref \in Prices,
             RecordOrder(s, q, ref) \/ RecordExit(s, q, ref)
      PROVE  Sound(account')
  BY <1>0, <1>1 DEF RecordOrder, RecordExit
<1>2. ASSUME NEW s \in Symbols, NEW q \in Quantities, NEW ref \in Prices,
             FillBuy(s, q, ref)
      PROVE  Sound(account')
  <2>1. q \in Nat \ {0} /\ ref \in Nat
    BY InputAssumption
  <2>2. QED
    BY <1>0, <1>2, <2>1, BuyKeepsSound DEF FillBuy
<1>3. ASSUME NEW s \in Symbols, NEW q \in Quantities, NEW ref \in Prices,
             FillSell(s, q, ref)
      PROVE  Sound(account')
  <2>1. q \in Nat \ {0} /\ ref \in Nat
    BY InputAssumption
  <2>2. QED
    BY <1>0, <1>3, <2>1, SellKeepsSound DEF FillSell
<1>4. ASSUME NEW b, b.qty = account.qty, b.cost = account.cost, b.invested = account.invested
      PROVE  Sound(b)
  BY <1>0, <1>4 DEF Sound, CommittedCapital
<1>5. ASSUME NEW amount \in Amounts, ReserveCash(amount) \/ ReleaseCash(amount)
      PROVE  Sound(account')
  BY <1>0, <1>4, <1>5 DEF ReserveCash, ReleaseCash, Account
<1>6. ASSUME NEW s \in Symbols, NEW price \in Prices, Mark(s, price)
      PROVE  Sound(account')
  BY <1>0, <1>4, <1>6 DEF Mark, Account
<1>7. CASE Snapshot
  BY <1>0, <1>7 DEF Snapshot
<1>8. CASE UNCHANGED vars
  BY <1>0, <1>8 DEF vars
<1>9. QED
  BY <1>1, <1>2, <1>3, <1>5, <1>6, <1>7, <1>8 DEF Next

LEMMA InitSound == Init => PositionsSound
<1> SUFFICES ASSUME Init
             PROVE  PositionsSound
  OBVIOUS
<1>1. /\ account.qty = [s \in Symbols |-> 0] /\ account.cost = [s \in Symbols |-> 0]
      /\ account.invested = 0
  BY DEF Init, EmptyAccount
<1>2. SumFunctionOnSet(account.cost, Symbols) = 0
  BY <1>1, LedgerAssumption, SumOfZeroes
<1>3. CommittedCapital(account) = 0
  BY <1>1, <1>2 DEF CommittedCapital, SumFunction
<1>4. QED
  BY <1>1, <1>3 DEF PositionsSound

(* After every sequence of records no position is short, a flat one        *)
(* carries no cost, and the committed capital is the sum of the open       *)
(* costs, however many symbols there are.                                  *)
THEOREM PositionsStaySound == Spec => []PositionsSound
<1>1. IInv /\ PositionsSound /\ [Next]_vars => PositionsSound'
  BY NextSound
<1>2. QED
  BY <1>1, InitSound, SpecInv, PTL DEF Spec

(* The marks cancel out: what is unrealized is the value at the marks less *)
(* the cost, symbol by symbol and so in total.                             *)
LEMMA MarksCancel ==
    ASSUME TypeOK
    PROVE  /\ UnrealizedPnl(account) = OpenPositionValue(account) - CommittedCapital(account)
           /\ OpenPositionValue(account) \in Int
           /\ CommittedCapital(account) \in Int
<1> DEFINE value == [s \in Symbols |-> account.qty[s] * account.mark[s]]
           gain == [s \in Symbols |-> account.qty[s] * account.mark[s] - account.cost[s]]
<1>1. /\ account.qty \in [Symbols -> Int] /\ account.mark \in [Symbols -> Int]
      /\ account.cost \in [Symbols -> Int]
  BY DEF TypeOK, Account
<1>2. ASSUME NEW s \in Symbols
      PROVE  value[s] \in Int /\ account.cost[s] \in Int /\ gain[s] = value[s] - account.cost[s]
  <2>1. account.qty[s] \in Int /\ account.mark[s] \in Int /\ account.cost[s] \in Int
    BY <1>1
  <2>2. QED
    BY <2>1
<1>3. /\ OpenPositionValue(account) = SumFunctionOnSet(value, Symbols)
      /\ UnrealizedPnl(account) = SumFunctionOnSet(gain, Symbols)
      /\ CommittedCapital(account) = SumFunctionOnSet(account.cost, Symbols)
  BY <1>1 DEF OpenPositionValue, UnrealizedPnl, CommittedCapital, SumFunction
<1> HIDE DEF value, gain
<1>4. IsFiniteSet(Symbols)
  BY LedgerAssumption
<1>5. /\ SumFunctionOnSet(value, Symbols) \in Int
      /\ SumFunctionOnSet(account.cost, Symbols) \in Int
  BY <1>2, <1>4, SumType
<1>6. SumFunctionOnSet(gain, Symbols) =
        SumFunctionOnSet(value, Symbols) - SumFunctionOnSet(account.cost, Symbols)
  <2>1. /\ \A s \in Symbols : value[s] \in Int
        /\ \A s \in Symbols : account.cost[s] \in Int
        /\ \A s \in Symbols : gain[s] = value[s] - account.cost[s]
    BY <1>2
  <2>2. QED
    BY <1>4, <2>1, SumOfDifference
<1>7. QED
  BY <1>3, <1>5, <1>6

(* The contract's accounting identity, at every prefix of the ledger,      *)
(* whatever the marks are and however many symbols are traded.             *)
THEOREM AccountingIdentityHolds == Spec => []AccountingIdentity
<1>1. IInv /\ PositionsSound => AccountingIdentity
  <2> SUFFICES ASSUME IInv, PositionsSound
               PROVE  AccountingIdentity
    OBVIOUS
  <2>1. /\ UnrealizedPnl(account) = OpenPositionValue(account) - CommittedCapital(account)
        /\ OpenPositionValue(account) \in Int
        /\ CommittedCapital(account) \in Int
    BY MarksCancel DEF IInv
  <2>2. /\ account.cash \in Int /\ account.fees \in Int /\ account.realized \in Int
        /\ account.invested \in Int /\ StartingEquity \in Int
    BY LedgerAssumption DEF IInv, TypeOK, Account
  <2>3. /\ account.invested = CommittedCapital(account)
        /\ StartingEquity = account.cash + account.invested + account.fees - account.realized
    BY DEF IInv, CostIdentity, PositionsSound
  <2>4. QED
    BY <2>1, <2>2, <2>3 DEF AccountingIdentity, AccountingAdjustments
<1>2. QED
  BY <1>1, SpecInv, PositionsStaySound, PTL
=============================================================================
