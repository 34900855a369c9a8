------------------------------ MODULE FiniteSums ------------------------------
(***************************************************************************)
(* Lemmas about SumFunctionOnSet, the sum of the values a function takes   *)
(* on a finite set: the totals over all symbols in the ledger and in the   *)
(* capital policy are such sums.  Induction over the finite set is made by *)
(* choosing a smallest counterexample among its subsets.  LeastNatural     *)
(* does the same for a recursion over the natural numbers.  Last come the  *)
(* ranks that an order gives to the members of a finite set.               *)
(***************************************************************************)
EXTENDS Integers, FiniteSetsExt, FiniteSetTheorems, TLAPS

(* The order in which a fold takes the elements of a set.                  *)
Pick(s) == CHOOSE x \in s : TRUE

(* g is the table of the partial sums of f on the subsets of S.            *)
IsSumTable(g, f, S) ==
    /\ g = [s \in SUBSET S |-> g[s]]
    /\ \A s \in SUBSET S : g[s] = IF s = {} THEN 0 ELSE f[Pick(s)] + g[s \ {Pick(s)}]

(* Every nonempty family of subsets of a finite set has a smallest member: *)
(* the induction the other lemmas are made by.                             *)
LEMMA SmallestSubset ==
    ASSUME NEW S, IsFiniteSet(S), NEW F, F \subseteq SUBSET S, F # {}
    PROVE  \E T \in F : \A U \in F : U \subseteq T => U = T
<1>1. IsWellFoundedOn(StrictSubsetOrdering(S), SUBSET S)
  BY FS_StrictSubsetOrderingWellFounded, FS_FiniteSubsetsOfFinite
<1>2. \E T \in F : \A U \in F : ~(<<U, T>> \in StrictSubsetOrdering(S))
  BY <1>1, WFMin, Zenon
<1>3. ASSUME NEW T \in F, NEW U \in F, U \subseteq T, U # T
      PROVE  <<U, T>> \in StrictSubsetOrdering(S)
  BY <1>3 DEF StrictSubsetOrdering
<1>4. QED
  BY <1>2, <1>3

(* A set of natural numbers has a least member.                            *)
LEMMA LeastNatural ==
    ASSUME NEW T, T \subseteq Nat, T # {}
    PROVE  \E n \in T : \A m \in T : n <= m
<1>1. \E n \in T : \A m \in T : ~(<<m, n>> \in OpToRel(<, Nat))
  BY NatLessThanWellFounded, WFMin
<1>2. \A m, n \in Nat : m < n => <<m, n>> \in OpToRel(<, Nat)
  BY DEF OpToRel
<1>3. PICK n \in T : \A m \in T : ~(m < n)
  BY <1>1, <1>2
<1>4. \A m \in T : n <= m
  BY <1>3
<1> QED BY <1>4

(* A finite set of integers has a greatest member.                         *)
LEMMA FiniteSetHasMax ==
    ASSUME NEW S, IsFiniteSet(S), S # {}, S \subseteq Int
    PROVE  Max(S) \in S /\ \A y \in S : Max(S) >= y
<1> DEFINE Bad == {T \in SUBSET S : T # {} /\ ~ \E x \in T : \A y \in T : x >= y}
<1>1. SUFFICES ASSUME Bad # {} PROVE FALSE
  BY DEF Max
<1>2. PICK T \in Bad : \A U \in Bad : U \subseteq T => U = T
  <2>1. Bad \subseteq SUBSET S
    OBVIOUS
  <2> HIDE DEF Bad
  <2>2. QED
    BY ONLY <1>1, <2>1, IsFiniteSet(S), SmallestSubset
<1>3. PICK x \in T : TRUE
  OBVIOUS
<1>4. T \ {x} \notin Bad /\ T \ {x} \in SUBSET S
  BY <1>2
<1>5. x \in Int /\ T \subseteq Int
  BY <1>2
<1>6. CASE T \ {x} = {}
  <2>1. \A y \in T : x >= y
    BY <1>5, <1>6
  <2>2. QED
    BY <1>2, <2>1
<1>7. CASE T \ {x} # {}
  <2>1. PICK m \in T \ {x} : \A y \in T \ {x} : m >= y
    BY <1>4, <1>7
  <2>2. (\A y \in T : m >= y) \/ (\A y \in T : x >= y)
    BY <1>5, <2>1
  <2>3. QED
    BY <1>2, <2>1, <2>2
<1>8. QED
  BY <1>6, <1>7

LEMMA PickIn ==
    ASSUME NEW s, s # {}
    PROVE  Pick(s) \in s
BY DEF Pick

(* Two tables agree wherever both are defined.                             *)
LEMMA TablesAgree ==
    ASSUME NEW f, NEW S, IsFiniteSet(S), NEW T, T \subseteq S,
           NEW g, IsSumTable(g, f, S), NEW h, IsSumTable(h, f, T)
    PROVE  \A s \in SUBSET T : g[s] = h[s]
<1> DEFINE Bad == {s \in SUBSET T : g[s] # h[s]}
<1>1. SUFFICES ASSUME Bad # {} PROVE FALSE
  OBVIOUS
<1>2. IsFiniteSet(T) /\ Bad \subseteq SUBSET T
  BY FS_Subset
<1>3. PICK s \in Bad : \A U \in Bad : U \subseteq s => U = s
  <2> HIDE DEF Bad
  <2>1. QED
    BY <1>1, <1>2, SmallestSubset
<1>4. s # {}
  BY <1>3 DEF IsSumTable
<1>5. Pick(s) \in s
  BY <1>4, PickIn
<1>6. g[s \ {Pick(s)}] = h[s \ {Pick(s)}]
  BY <1>3, <1>5
<1>7. QED
  BY <1>3, <1>4, <1>6 DEF IsSumTable

LEMMA TableRestricts ==
    ASSUME NEW f, NEW S, NEW T, T \subseteq S, NEW g, IsSumTable(g, f, S)
    PROVE  IsSumTable([s \in SUBSET T |-> g[s]], f, T)
<1> DEFINE h == [s \in SUBSET T |-> g[s]]
<1>1. h = [s \in SUBSET T |-> h[s]]
  OBVIOUS
<1>2. ASSUME NEW s \in SUBSET T
      PROVE  h[s] = IF s = {} THEN 0 ELSE f[Pick(s)] + h[s \ {Pick(s)}]
  BY <1>2 DEF IsSumTable
<1>3. QED
  BY <1>1, <1>2 DEF IsSumTable

(* Every finite set has a table.                                           *)
LEMMA TableExists ==
    ASSUME NEW f, NEW S, IsFiniteSet(S)
    PROVE  \E g : IsSumTable(g, f, S)
<1> DEFINE Bad == {T \in SUBSET S : ~ \E g : IsSumTable(g, f, T)}
<1>1. SUFFICES ASSUME Bad # {} PROVE FALSE
  OBVIOUS
<1>2. PICK T \in Bad : \A U \in Bad : U \subseteq T => U = T
  <2>1. Bad \subseteq SUBSET S
    OBVIOUS
  <2> HIDE DEF Bad
  <2>2. QED
    BY <1>1, <2>1, SmallestSubset
<1> DEFINE table[s \in SUBSET S] == CHOOSE g : IsSumTable(g, f, s)
<1>3. ASSUME NEW s \in SUBSET T, s # T
      PROVE  IsSumTable(table[s], f, s)
  <2>1. s \in SUBSET S /\ s \notin Bad
    BY <1>2, <1>3
  <2>2. \E g : IsSumTable(g, f, s)
    BY <2>1
  <2>3. QED
    BY <2>1, <2>2
<1> HIDE DEF table
<1>4. ASSUME NEW s \in SUBSET T, s # T, NEW u \in SUBSET s
      PROVE  table[s][u] = table[u][u]
  <2>1. IsSumTable(table[u], f, u) /\ IsSumTable(table[s], f, s)
    <3>1. u \in SUBSET T /\ u # T
      BY <1>4
    <3>2. QED
      BY <1>3, <1>4, <3>1
  <2>2. IsFiniteSet(s)
    BY <1>2, <1>4, FS_Subset
  <2>3. \A r \in SUBSET u : table[s][r] = table[u][r]
    <3>1. ASSUME NEW g, IsSumTable(g, f, s), NEW h, IsSumTable(h, f, u)
          PROVE  \A r \in SUBSET u : g[r] = h[r]
      <4>1. u \subseteq s
        OBVIOUS
      <4>2. QED
        BY <2>2, <3>1, <4>1, TablesAgree
    <3>2. QED
      BY <2>1, <3>1
  <2>4. QED
    BY <2>3
<1> DEFINE top == IF T = {} THEN 0
                  ELSE f[Pick(T)] + table[T \ {Pick(T)}][T \ {Pick(T)}]
           whole == [s \in SUBSET T |-> IF s = T THEN top ELSE table[s][s]]
<1>5. ASSUME NEW s \in SUBSET T
      PROVE  whole[s] = IF s = {} THEN 0 ELSE f[Pick(s)] + whole[s \ {Pick(s)}]
  <2>1. CASE s = {}
    <3>1. CASE s = T
      BY <2>1, <3>1
    <3>2. CASE s # T
      BY <1>3, <2>1, <3>2 DEF IsSumTable
    <3>3. QED
      BY <3>1, <3>2
  <2>2. CASE s # {}
    <3> DEFINE r == s \ {Pick(s)}
    <3>1. r \in SUBSET s /\ r # s /\ r \in SUBSET T /\ r # T
      BY <2>2, PickIn
    <3>2. whole[r] = table[r][r]
      BY <3>1
    <3>3. CASE s = T
      BY <2>2, <3>2, <3>3
    <3>4. CASE s # T
      <4>1. table[s][s] = f[Pick(s)] + table[s][r]
        BY <1>3, <2>2, <3>4 DEF IsSumTable
      <4>2. table[s][r] = table[r][r]
        BY <1>4, <3>1, <3>4
      <4>3. whole[s] = table[s][s]
        BY <3>4
      <4>4. QED
        BY <2>2, <3>2, <4>1, <4>2, <4>3
    <3>5. QED
      BY <3>3, <3>4
  <2>3. QED
    BY <2>1, <2>2
<1>6. whole = [s \in SUBSET T |-> whole[s]]
  OBVIOUS
<1> HIDE DEF whole
<1>7. IsSumTable(whole, f, T)
  BY <1>5, <1>6 DEF IsSumTable
<1>8. QED
  BY <1>2, <1>7

(* The fold of the community modules is the entry of the table for the     *)
(* whole set.                                                              *)
LEMMA SumIsTable ==
    ASSUME NEW f, NEW S, IsFiniteSet(S), NEW g, IsSumTable(g, f, S)
    PROVE  SumFunctionOnSet(f, S) = g[S]
<1> DEFINE Fixed(h) == h = [s \in SUBSET S |->
                IF s = {} THEN 0 ELSE f[CHOOSE x \in s : TRUE] + h[s \ {CHOOSE x \in s : TRUE}]]
           iter == CHOOSE h : Fixed(h)
<1>1. SumFunctionOnSet(f, S) = iter[S]
  BY Zenon DEF SumFunctionOnSet, FoldFunctionOnSet, MapThenFoldSet
<1>2. Fixed(g)
  BY DEF IsSumTable, Pick
<1> HIDE DEF Fixed
<1>3. Fixed(iter)
  BY <1>2
<1> HIDE DEF iter
<1>4. IsSumTable(iter, f, S)
  BY <1>3 DEF Fixed, IsSumTable, Pick
<1>5. iter[S] = g[S]
  BY <1>4, TablesAgree
<1>6. QED
  BY <1>1, <1>5

LEMMA SumOfEmpty ==
    ASSUME NEW f
    PROVE  SumFunctionOnSet(f, {}) = 0
<1>1. IsFiniteSet({})
  BY FS_EmptySet
<1>2. PICK g : IsSumTable(g, f, {})
  BY <1>1, TableExists
<1>3. g[{}] = 0
  BY <1>2 DEF IsSumTable
<1>4. QED
  BY <1>1, <1>2, <1>3, SumIsTable

(* The sum is taken one element after the other.                           *)
LEMMA SumOfPicked ==
    ASSUME NEW f, NEW S, IsFiniteSet(S), S # {}
    PROVE  SumFunctionOnSet(f, S) = f[Pick(S)] + SumFunctionOnSet(f, S \ {Pick(S)})
<1> DEFINE r == S \ {Pick(S)}
<1>1. PICK g : IsSumTable(g, f, S)
  BY TableExists
<1>2. SumFunctionOnSet(f, S) = g[S]
  BY <1>1, SumIsTable
<1> DEFINE h == [s \in SUBSET r |-> g[s]]
<1>3. IsSumTable(h, f, r)
  BY <1>1, TableRestricts
<1>4. IsFiniteSet(r)
  BY FS_RemoveElement
<1>5. SumFunctionOnSet(f, r) = h[r]
  <2> HIDE DEF h, r
  <2>1. QED
    BY <1>3, <1>4, SumIsTable
<1>6. h[r] = g[r]
  OBVIOUS
<1>7. g[S] = f[Pick(S)] + g[r]
  BY <1>1 DEF IsSumTable
<1>8. QED
  BY <1>2, <1>5, <1>6, <1>7

LEMMA SumType ==
    ASSUME NEW S, IsFiniteSet(S), NEW f, \A x \in S : f[x] \in Int
    PROVE  SumFunctionOnSet(f, S) \in Int
<1> DEFINE Bad == {T \in SUBSET S : SumFunctionOnSet(f, T) \notin Int}
<1>1. SUFFICES ASSUME Bad # {} PROVE FALSE
  OBVIOUS
<1>2. PICK T \in Bad : \A U \in Bad : U \subseteq T => U = T
  <2>1. Bad \subseteq SUBSET S
    OBVIOUS
  <2> HIDE DEF Bad
  <2>2. QED
    BY <1>1, <2>1, SmallestSubset
<1>3. T # {}
  BY <1>2, SumOfEmpty
<1>4. Pick(T) \in T /\ T \subseteq S /\ IsFiniteSet(T)
  BY <1>2, <1>3, PickIn, FS_Subset
<1>5. SumFunctionOnSet(f, T \ {Pick(T)}) \in Int
  BY <1>2, <1>4
<1>6. f[Pick(T)] \in Int
  BY <1>4
<1>7. SumFunctionOnSet(f, T) = f[Pick(T)] + SumFunctionOnSet(f, T \ {Pick(T)})
  BY <1>3, <1>4, SumOfPicked
<1>8. QED
  BY <1>2, <1>5, <1>6, <1>7

(* Any element can be taken out first: the sum does not depend on the      *)
(* order in which the fold visits the set.                                 *)
LEMMA SumOfOneAndRest ==
    ASSUME NEW S, IsFiniteSet(S), NEW f, \A x \in S : f[x] \in Int, NEW a \in S
    PROVE  SumFunctionOnSet(f, S) = f[a] + SumFunctionOnSet(f, S \ {a})
<1> DEFINE Bad == {T \in SUBSET S : \E x \in T :
                     SumFunctionOnSet(f, T) # f[x] + SumFunctionOnSet(f, T \ {x})}
<1>1. SUFFICES ASSUME Bad # {} PROVE FALSE
  OBVIOUS
<1>2. PICK T \in Bad : \A U \in Bad : U \subseteq T => U = T
  <2>1. Bad \subseteq SUBSET S
    OBVIOUS
  <2> HIDE DEF Bad
  <2>2. QED
    BY <1>1, <2>1, SmallestSubset
<1>3. PICK x \in T : SumFunctionOnSet(f, T) # f[x] + SumFunctionOnSet(f, T \ {x})
  BY <1>2
<1> DEFINE p == Pick(T)
<1>4. p \in T /\ T \subseteq S /\ IsFiniteSet(T)
  BY <1>2, <1>3, PickIn, FS_Subset
<1> HIDE DEF p
<1>5. SumFunctionOnSet(f, T) = f[p] + SumFunctionOnSet(f, T \ {p})
  BY <1>3, <1>4, SumOfPicked DEF p
<1>6. x # p
  BY <1>3, <1>5
<1> DEFINE both == T \ {p, x}
<1>7. both = (T \ {p}) \ {x} /\ both = (T \ {x}) \ {p}
  OBVIOUS
<1> HIDE DEF both
<1>8. SumFunctionOnSet(f, T \ {p}) = f[x] + SumFunctionOnSet(f, both)
  <2>1. T \ {p} \in SUBSET S /\ T \ {p} \notin Bad /\ x \in T \ {p}
    BY <1>2, <1>4, <1>6
  <2>2. QED
    BY <2>1, <1>7
<1>9. SumFunctionOnSet(f, T \ {x}) = f[p] + SumFunctionOnSet(f, both)
  <2>1. T \ {x} \in SUBSET S /\ T \ {x} \notin Bad /\ p \in T \ {x}
    BY <1>2, <1>4, <1>6
  <2>2. QED
    BY <2>1, <1>7
<1>10. f[x] \in Int /\ f[p] \in Int /\ SumFunctionOnSet(f, both) \in Int
  <2>1. IsFiniteSet(both)
    <3>1. IsFiniteSet(T \ {p})
      BY <1>4, FS_RemoveElement
    <3>2. QED
      BY <1>7, <3>1, FS_RemoveElement
  <2>2. \A y \in both : f[y] \in Int
    BY <1>4, <1>7
  <2>3. QED
    BY <1>3, <1>4, <2>1, <2>2, SumType
<1>11. QED
  BY <1>3, <1>5, <1>8, <1>9, <1>10

(* The sum only depends on the values in the set.                          *)
LEMMA SumOfEquals ==
    ASSUME NEW S, IsFiniteSet(S), NEW f, NEW g, \A x \in S : f[x] = g[x]
    PROVE  SumFunctionOnSet(f, S) = SumFunctionOnSet(g, S)
<1> DEFINE Bad == {T \in SUBSET S : SumFunctionOnSet(f, T) # SumFunctionOnSet(g, T)}
<1>1. SUFFICES ASSUME Bad # {} PROVE FALSE
  OBVIOUS
<1>2. PICK T \in Bad : \A U \in Bad : U \subseteq T => U = T
  <2>1. Bad \subseteq SUBSET S
    OBVIOUS
  <2> HIDE DEF Bad
  <2>2. QED
    BY <1>1, <2>1, SmallestSubset
<1>3. T # {}
  BY <1>2, SumOfEmpty
<1>4. Pick(T) \in T /\ T \subseteq S /\ IsFiniteSet(T)
  BY <1>2, <1>3, PickIn, FS_Subset
<1>5. SumFunctionOnSet(f, T \ {Pick(T)}) = SumFunctionOnSet(g, T \ {Pick(T)})
  BY <1>2, <1>4
<1>6. /\ SumFunctionOnSet(f, T) = f[Pick(T)] + SumFunctionOnSet(f, T \ {Pick(T)})
      /\ SumFunctionOnSet(g, T) = g[Pick(T)] + SumFunctionOnSet(g, T \ {Pick(T)})
  BY <1>3, <1>4, SumOfPicked
<1>7. QED
  BY <1>2, <1>4, <1>5, <1>6

(* What a change of one value does to the sum.                             *)
LEMMA SumOfChange ==
    ASSUME NEW S, IsFiniteSet(S), NEW a \in S,
           NEW f, \A x \in S : f[x] \in Int,
           NEW g, \A x \in S : g[x] \in Int,
           \A x \in S \ {a} : g[x] = f[x]
    PROVE  SumFunctionOnSet(g, S) = SumFunctionOnSet(f, S) - f[a] + g[a]
<1>1. IsFiniteSet(S \ {a})
  BY FS_RemoveElement
<1>2. SumFunctionOnSet(f, S \ {a}) = SumFunctionOnSet(g, S \ {a})
  BY <1>1, SumOfEquals
<1>3. /\ SumFunctionOnSet(f, S) = f[a] + SumFunctionOnSet(f, S \ {a})
      /\ SumFunctionOnSet(g, S) = g[a] + SumFunctionOnSet(g, S \ {a})
  BY SumOfOneAndRest
<1>4. SumFunctionOnSet(f, S \ {a}) \in Int
  BY <1>1, SumType
<1>5. QED
  BY <1>2, <1>3, <1>4

(* The sum of differences is the difference of the sums.                   *)
LEMMA SumOfDifference ==
    ASSUME NEW S, IsFiniteSet(S),
           NEW f, \A x \in S : f[x] \in Int,
           NEW g, \A x \in S : g[x] \in Int,
           NEW d, \A x \in S : d[x] = f[x] - g[x]
    PROVE  SumFunctionOnSet(d, S) = SumFunctionOnSet(f, S) - SumFunctionOnSet(g, S)
<1> DEFINE Bad == {T \in SUBSET S :
               SumFunctionOnSet(d, T) # SumFunctionOnSet(f, T) - SumFunctionOnSet(g, T)}
<1>1. SUFFICES ASSUME Bad # {} PROVE FALSE
  OBVIOUS
<1>2. PICK T \in Bad : \A U \in Bad : U \subseteq T => U = T
  <2>1. Bad \subseteq SUBSET S
    OBVIOUS
  <2> HIDE DEF Bad
  <2>2. QED
    BY <1>1, <2>1, SmallestSubset
<1>3. T # {}
  <2>1. CASE T = {}
    <3>1. SumFunctionOnSet(d, T) # SumFunctionOnSet(f, T) - SumFunctionOnSet(g, T)
      BY <1>2
    <3>2. /\ SumFunctionOnSet(d, T) = 0 /\ SumFunctionOnSet(f, T) = 0
          /\ SumFunctionOnSet(g, T) = 0
      BY <2>1, SumOfEmpty
    <3>3. QED
      BY <3>1, <3>2
  <2>2. QED
    BY <2>1
<1> DEFINE r == T \ {Pick(T)}
<1>4. Pick(T) \in T /\ T \subseteq S /\ IsFiniteSet(T) /\ IsFiniteSet(r)
  BY <1>2, <1>3, PickIn, FS_Subset
<1>5. SumFunctionOnSet(d, r) = SumFunctionOnSet(f, r) - SumFunctionOnSet(g, r)
  BY <1>2, <1>4
<1>6. /\ SumFunctionOnSet(f, T) = f[Pick(T)] + SumFunctionOnSet(f, r)
      /\ SumFunctionOnSet(g, T) = g[Pick(T)] + SumFunctionOnSet(g, r)
      /\ SumFunctionOnSet(d, T) = d[Pick(T)] + SumFunctionOnSet(d, r)
  BY <1>3, <1>4, SumOfPicked
<1>7. SumFunctionOnSet(f, r) \in Int /\ SumFunctionOnSet(g, r) \in Int
  BY <1>4, SumType
<1>8. f[Pick(T)] \in Int /\ g[Pick(T)] \in Int /\ d[Pick(T)] = f[Pick(T)] - g[Pick(T)]
  BY <1>4
<1> HIDE DEF r
<1>9. QED
  BY <1>2, <1>5, <1>6, <1>7, <1>8

(* A set of zeroes adds up to nothing.                                     *)
LEMMA SumOfZeroes ==
    ASSUME NEW S, IsFiniteSet(S), NEW f, \A x \in S : f[x] = 0
    PROVE  SumFunctionOnSet(f, S) = 0
<1>1. \A x \in S : f[x] \in Int
  OBVIOUS
<1>2. \A x \in S : f[x] = f[x] - f[x]
  OBVIOUS
<1>3. SumFunctionOnSet(f, S) \in Int
  BY <1>1, SumType
<1>4. SumFunctionOnSet(f, S) = SumFunctionOnSet(f, S) - SumFunctionOnSet(f, S)
  BY <1>1, <1>2, SumOfDifference
<1>5. QED
  BY <1>3, <1>4

(* A sum of amounts that are not negative is not negative.                 *)
LEMMA SumOfNaturals ==
    ASSUME NEW S, IsFiniteSet(S), NEW f, \A x \in S : f[x] \in Nat
    PROVE  SumFunctionOnSet(f, S) \in Nat
<1> DEFINE Bad == {T \in SUBSET S : SumFunctionOnSet(f, T) \notin Nat}
<1>1. SUFFICES ASSUME Bad # {} PROVE FALSE
  OBVIOUS
<1>2. PICK T \in Bad : \A U \in Bad : U \subseteq T => U = T
  <2>1. Bad \subseteq SUBSET S
    OBVIOUS
  <2> HIDE DEF Bad
  <2>2. QED
    BY <1>1, <2>1, SmallestSubset
<1>3. T # {}
  <2>1. SumFunctionOnSet(f, {}) \in Nat
    BY SumOfEmpty
  <2>2. SumFunctionOnSet(f, T) \notin Nat
    BY <1>2
  <2>3. QED
    BY <2>1, <2>2
<1>4. Pick(T) \in T /\ T \subseteq S /\ IsFiniteSet(T)
  BY <1>2, <1>3, PickIn, FS_Subset
<1>5. SumFunctionOnSet(f, T \ {Pick(T)}) \in Nat
  BY <1>2, <1>4
<1>6. f[Pick(T)] \in Nat
  BY <1>4
<1>7. SumFunctionOnSet(f, T) = f[Pick(T)] + SumFunctionOnSet(f, T \ {Pick(T)})
  BY <1>3, <1>4, SumOfPicked
<1>8. QED
  BY <1>2, <1>5, <1>6, <1>7
-----------------------------------------------------------------------------
(* A relation that orders a finite set gives each of its members a rank,   *)
(* and every rank to one of them: what a sort does.                        *)

Orders(R, S) ==
    /\ \A x \in S : <<x, x>> \notin R
    /\ \A x, y, z \in S : <<x, y>> \in R /\ <<y, z>> \in R => <<x, z>> \in R
    /\ \A x, y \in S : x # y => <<x, y>> \in R \/ <<y, x>> \in R

Preceding(x, R, S) == {y \in S : <<y, x>> \in R}

RankIn(x, R, S) == Cardinality(Preceding(x, R, S)) + 1

LEMMA BelowIsFinite ==
    ASSUME NEW S, IsFiniteSet(S), NEW R, NEW x
    PROVE  IsFiniteSet(Preceding(x, R, S)) /\ Cardinality(Preceding(x, R, S)) \in Nat
<1>1. Preceding(x, R, S) \in SUBSET S
  BY DEF Preceding
<1> QED BY <1>1, FS_Subset, FS_CardinalityType

LEMMA RankIsPlace ==
    ASSUME NEW S, IsFiniteSet(S), NEW R, Orders(R, S), NEW x \in S
    PROVE  RankIn(x, R, S) \in 1 .. Cardinality(S)
<1>1. Preceding(x, R, S) \in SUBSET (S \ {x})
  BY DEF Preceding, Orders
<1>2. IsFiniteSet(S \ {x}) /\ Cardinality(S \ {x}) = Cardinality(S) - 1
  BY FS_RemoveElement
<1>3. Cardinality(Preceding(x, R, S)) <= Cardinality(S \ {x})
  BY <1>1, <1>2, FS_Subset
<1>4. Cardinality(Preceding(x, R, S)) \in Nat /\ Cardinality(S) \in Nat
  BY BelowIsFinite, FS_CardinalityType
<1> QED BY <1>2, <1>3, <1>4 DEF RankIn

LEMMA RankGrows ==
    ASSUME NEW S, IsFiniteSet(S), NEW R, Orders(R, S), NEW x \in S, NEW y \in S, <<x, y>> \in R
    PROVE  RankIn(x, R, S) < RankIn(y, R, S)
<1>1. /\ Preceding(x, R, S) \in SUBSET Preceding(y, R, S)
      /\ x \in Preceding(y, R, S) /\ x \notin Preceding(x, R, S)
  BY DEF Preceding, Orders
<1>2. /\ Cardinality(Preceding(x, R, S)) <= Cardinality(Preceding(y, R, S))
      /\ Cardinality(Preceding(x, R, S)) # Cardinality(Preceding(y, R, S))
  BY <1>1, BelowIsFinite, FS_Subset
<1>3. Cardinality(Preceding(x, R, S)) \in Nat /\ Cardinality(Preceding(y, R, S)) \in Nat
  BY BelowIsFinite
<1> QED BY <1>2, <1>3 DEF RankIn

LEMMA RankReaches ==
    ASSUME NEW S, IsFiniteSet(S), NEW R, Orders(R, S)
    PROVE  /\ \A i \in 1 .. Cardinality(S) : \E x \in S : RankIn(x, R, S) = i
           /\ \A x, y \in S : RankIn(x, R, S) = RankIn(y, R, S) => x = y
<1> DEFINE n == Cardinality(S)
           f == [x \in S |-> RankIn(x, R, S)]
<1>1. \A x, y \in S : RankIn(x, R, S) = RankIn(y, R, S) => x = y
  <2> SUFFICES ASSUME NEW x \in S, NEW y \in S, x # y,
                      RankIn(x, R, S) = RankIn(y, R, S)
               PROVE  FALSE
    OBVIOUS
  <2>1. RankIn(x, R, S) \in 1 .. n /\ RankIn(y, R, S) \in 1 .. n
    BY RankIsPlace
  <2>2. <<x, y>> \in R \/ <<y, x>> \in R
    BY DEF Orders
  <2>3. RankIn(x, R, S) < RankIn(y, R, S) \/ RankIn(y, R, S) < RankIn(x, R, S)
    BY <2>2, RankGrows
  <2> QED BY <2>1, <2>3
<1>2. n \in Nat
  BY FS_CardinalityType
<1>3. f \in [S -> 1 .. n]
  BY RankIsPlace
<1>4. f \in Injection(S, 1 .. n)
  BY <1>1, <1>3 DEF Injection, IsInjective
<1>5. IsFiniteSet(1 .. n) /\ Cardinality(1 .. n) = n
  <2>1. IsFiniteSet(1 .. n) /\ Cardinality(1 .. n) = IF 1 > n THEN 0 ELSE n - 1 + 1
    BY <1>2, FS_Interval
  <2> QED BY <1>2, <2>1
<1>6. f \in Surjection(S, 1 .. n)
  BY <1>4, <1>5, FS_Injection
<1>7. \A i \in 1 .. n : \E x \in S : f[x] = i
  BY <1>6 DEF Surjection
<1> QED BY <1>1, <1>7
=============================================================================
