---------------------------- MODULE DiscoveryProofs ----------------------------
(***************************************************************************)
(* For any symbols, rows and charts: the daily candles that an evaluation  *)
(* does not fetch are of its own call, no entry is allowed that its        *)
(* evidence does not back, and the active set has the best scores of the   *)
(* pool in all places but the last.                                        *)
(*                                                                         *)
(* The arguments: what a call hands over is made by the action before the  *)
(* ranking, and a lenient call never leaves a hand-off behind (Handed);    *)
(* every entry is what Entry makes of the evidence beside it (Judged).     *)
(* For the active set: sorting gives each candidate one place (Orders,     *)
(* OrderedSorts), each incumbent that is retained leaves a selection that  *)
(* is as good as the rest of the pool but for its worst (Best), and such a *)
(* selection, sorted, has the scores of the sorted pool, by counting who   *)
(* can be ahead of whom (BestHasTopScores).                                *)
(***************************************************************************)
EXTENDS Discovery, FiniteSums, SequenceTheorems

(* Who ranks has made its hand-off; and of a lenient run there is no other. *)
Handed ==
    /\ pc = "rank" => fresh
    /\ ~strict /\ pc # "rank" => handoff = {}
    /\ DailyCandlesAreFresh

LEMMA RecallHands ==
    ASSUME NEW candidates, RecallFrom(candidates)
    PROVE  /\ pc' # "rank"
           /\ pc' = "evaluate" => \E recalled : daily' = Daily(recalled)
BY DEF RecallFrom, Abort

LEMMA InitHanded == Init => Handed
BY DEF Init, Handed, DailyCandlesAreFresh

LEMMA NextHanded ==
    ASSUME Handed, [Next]_vars
    PROVE  Handed'
<1> USE DEF Handed, DailyCandlesAreFresh, acquired, result
<1>1. CASE \E u \in Universes : Discover(u)
  BY <1>1 DEF Discover
<1>2. CASE AnswerAgain
  <2>1. handoff = {} /\ handoff' = {} /\ UNCHANGED strict
    BY <1>2 DEF AnswerAgain, TakeHandOff
  <2>2. pc' # "rank" /\ (pc' = "evaluate" => daily' = {})
    BY <1>2, <2>1, RecallHands DEF AnswerAgain, Daily
  <2> QED BY <2>1, <2>2
<1>3. CASE \E rows \in [universe -> Rows] : BulkStrict(rows) \/ BulkLenient(rows)
  BY <1>3 DEF BulkStrict, BulkLenient, Acquired
<1>4. CASE BulkFails
  BY <1>4 DEF BulkFails, Raise, Abort
<1>5. CASE \E rows \in [pending -> Rows] : Revalidate(rows)
  BY <1>5 DEF Revalidate, Acquired
<1>6. CASE Incomplete
  BY <1>6 DEF Incomplete, Raise, Abort
<1>7. CASE Rank
  <2>1. handoff' = {} /\ UNCHANGED <<strict, fresh>> /\ fresh
    BY <1>7 DEF Rank, TakeHandOff
  <2>2. pc' # "rank"
    BY <1>7, RecallHands DEF Rank
  <2> QED BY <2>1, <2>2
<1>8. CASE Evaluate
  BY <1>8 DEF Evaluate, Return
<1>9. CASE EvaluationTimesOut
  BY <1>9 DEF EvaluationTimesOut, Abort
<1>10. CASE UNCHANGED vars
  BY <1>10 DEF vars
<1> QED BY <1>1, <1>2, <1>3, <1>4, <1>5, <1>6, <1>7, <1>8, <1>9, <1>10 DEF Next

(* take_daily_candle_handoff, "exactly once": whatever calls failed or     *)
(* answered from the cache before, the candles are of the call that judges *)
(* them.                                                                   *)
THEOREM DailyCandlesAreFreshHolds == Spec => []DailyCandlesAreFresh
<1>1. Handed => DailyCandlesAreFresh
  BY DEF Handed
<1> QED BY <1>1, InitHanded, NextHanded, PTL DEF Spec
-----------------------------------------------------------------------------
(* What the numbers of a chart's evidence are. *)
Classes == {"BREAKOUT_ACCELERATION", "PULLBACK_CONTINUATION", "TREND_CONTINUATION",
            "UNCLASSIFIED"}

EvidenceType ==
    [class : Classes, score : Int, timing : Int, direction : Int, ratio : Int]

LEMMA MaxOfTwo ==
    ASSUME NEW a \in Int, NEW b \in Int
    PROVE  Max({a, b}) \in Int
<1>1. \E x \in {a, b} : \A y \in {a, b} : x >= y
  OBVIOUS
<1>2. Max({a, b}) \in {a, b}
  BY <1>1 DEF Max
<1> QED BY <1>2

LEMMA ChartHasEvidence ==
    ASSUME NEW c \in Charts
    PROVE  Evidence(c) \in EvidenceType
<1>1. /\ c.d1.regime \in Int
      /\ \A f \in {c.h4, c.h1, c.m15} :
            /\ f.trend \in Int /\ f.trendTo \in Int
            /\ f.momentum \in Int /\ f.momentumTo \in Int /\ f.acceleration \in Int
            /\ f.volume \in Int /\ f.range \in Int /\ f.structure \in Int
  BY DiscoveryAssumption DEF ValidChart
<1>2. Direction(c) \in Int
  BY <1>1 DEF Direction
<1>3. Timing(c) \in Int /\ Ratio(c) \in Int
  BY <1>1 DEF Timing, Ratio
<1>4. Class(c) \in Classes
  BY DEF Class, Classes
<1>5. ClassScore(c) \in Int
  <2> DEFINE up == (8 * Max({0, Direction(c)})) \div 100
  <2>1. up \in Int
    <3>1. Max({0, Direction(c)}) \in Int
      BY <1>2, MaxOfTwo
    <3> QED BY <3>1
  <2> HIDE DEF up
  <2>2. CASE Class(c) = "BREAKOUT_ACCELERATION"
    <3>1. ClassScore(c) = 25 * c.m15.range + 25 * c.m15.volume + 22 * c.h1.acceleration
                              + 12 * c.h1.momentum + 8 * c.m15.structure + up
      BY <2>2 DEF ClassScore, up
    <3> QED BY <1>1, <2>1, <3>1
  <2>3. CASE Class(c) = "TREND_CONTINUATION"
    <3>1. ClassScore(c) = 30 * c.h4.trend + 28 * c.h1.trend + 18 * c.h1.momentum
                              + 10 * c.h1.acceleration + 6 * c.d1.regime + up
      BY <2>3 DEF ClassScore, up
    <3> QED BY <1>1, <2>1, <3>1
  <2>4. CASE Class(c) = "PULLBACK_CONTINUATION"
    <3>1. ClassScore(c) = 24 * c.h4.trend + 24 * c.h1.trend + 20 * c.m15.structure
                              + 14 * c.m15.momentum + 10 * c.m15.acceleration + up
      BY <2>4 DEF ClassScore, up
    <3> QED BY <1>1, <2>1, <3>1
  <2>5. CASE Class(c) = "UNCLASSIFIED"
    BY <2>5 DEF ClassScore
  <2> QED BY <1>4, <2>2, <2>3, <2>4, <2>5 DEF Classes
<1> QED
  <2>1. Evidence(c) = [class |-> Class(c), score |-> ClassScore(c), timing |-> Timing(c),
                       direction |-> Direction(c), ratio |-> Ratio(c)]
    BY DEF Evidence
  <2> QED BY <1>2, <1>3, <1>4, <1>5, <2>1 DEF EvidenceType

(* The decision and the integrity check together: a permission needs them. *)
LEMMA EntryIsBacked ==
    ASSUME NEW e \in EvidenceType, Entry(e).allowed
    PROVE  /\ Entry(e).state \in {"A", "A+"}
           /\ e.class # "UNCLASSIFIED"
           /\ e.score >= 7000 /\ e.timing >= 6000
           /\ e.direction >= LongMin \/ e.direction = -LongMin
           /\ e.ratio >= 150
<1>1. e.class # "UNCLASSIFIED" /\ Entry(e) = Decide(e)
  <2>1. Reclassified(e) = "UNCLASSIFIED" \/ e.class # "UNCLASSIFIED"
    BY DEF Reclassified
  <2>2. Rebuild(Decide(e), "C").allowed = FALSE /\ Rebuild(Decide(e), Decide(e).state).allowed = FALSE
    BY DEF Rebuild, Decide
  <2>3. DOMAIN Decide(e) = {"state", "allowed"}
    BY DEF Decide
  <2> QED BY <2>1, <2>2, <2>3 DEF Entry, Integrity, Rebuild, Decide
<1>2. /\ Rejections(e) = {} /\ Band(e) \notin {"B", "C", "D"}
      /\ Decide(e).state = Band(e)
  <2>1. Decide(e).allowed
    BY <1>1
  <2>2. e # NoEvidence
    <3> SUFFICES ASSUME e = NoEvidence PROVE FALSE
      OBVIOUS
    <3>1. Decide(e).allowed = FALSE
      BY DEF Decide
    <3> QED BY <2>1, <3>1
  <2>3. Decide(e) = [state |-> Band(e), allowed |-> Rejections(e) = {} /\ Band(e) \notin {"B", "C", "D"}]
    BY <1>1, <2>2 DEF Decide
  <2>4. Decide(e).allowed = (Rejections(e) = {} /\ Band(e) \notin {"B", "C", "D"})
    BY <2>3
  <2>5. Decide(e).state = Band(e)
    BY <2>3
  <2> QED BY <2>1, <2>4, <2>5
<1>3. Band(e) \in {"A", "A+"} /\ e.score >= 7000 /\ e.timing >= 6000
  BY <1>2 DEF Band, EvidenceType
<1>4. /\ ~(e.direction < -LongMin)
      /\ ~(-LongMin < e.direction /\ e.direction < LongMin)
      /\ ~(e.ratio < 150)
  BY <1>2 DEF Rejections
<1>5. /\ e.direction >= LongMin \/ e.direction = -LongMin
      /\ e.ratio >= 150
  BY <1>4 DEF EvidenceType, LongMin
<1> QED BY <1>1, <1>2, <1>3, <1>5

(* Beside every entry is the evidence that it was made of. *)
Judged ==
    \A s \in DOMAIN evaluated :
        /\ evaluated[s].evidence \in EvidenceType
        /\ evaluated[s].entry = Entry(evaluated[s].evidence)

LEMMA InitJudged == Init => Judged
BY DEF Init, Judged, Nothing

LEMMA NextJudged ==
    ASSUME Judged, [Next]_vars
    PROVE  Judged'
<1>1. CASE Evaluate
  <2>1. PICK evidence \in [{c.symbol : c \in pool} ->
                              {Evidence(c) : c \in Charts} \cup {NoEvidence}] :
           evaluated' = [s \in DOMAIN evidence |->
                            [evidence |-> evidence[s], entry |-> Entry(evidence[s])]]
    BY <1>1 DEF Evaluate
  <2>2. \A s \in DOMAIN evidence : evidence[s] \in EvidenceType
    <3>1. NoEvidence \in EvidenceType
      BY DEF NoEvidence, EvidenceType, Classes
    <3> QED BY <2>1, <3>1, ChartHasEvidence
  <2> QED BY <2>1, <2>2 DEF Judged
<1>2. CASE \E u \in Universes : Discover(u)
  BY <1>2 DEF Discover, Judged, Nothing
<1>3. CASE evaluated' = evaluated
  BY <1>3 DEF Judged
<1>4. [Next]_vars => \/ Evaluate \/ (\E u \in Universes : Discover(u))
                     \/ evaluated' = evaluated
  BY DEF Next, vars, AnswerAgain, BulkStrict, BulkLenient, BulkFails, Revalidate, Incomplete,
         Rank, EvaluationTimesOut, Raise, result
<1> QED BY <1>1, <1>2, <1>3, <1>4

(* ScalpingDecisionEngine.decide and _evaluate_candidate: no entry is      *)
(* allowed but for a classified opportunity in band A or A+, that rewards  *)
(* its risk, is timed, and goes up, or down by just LongMin.               *)
THEOREM EntriesAreBackedHolds == Spec => []EntriesAreBacked
<1>1. Judged => EntriesAreBacked
  BY EntryIsBacked DEF Judged, EntriesAreBacked
<1> QED BY <1>1, InitJudged, NextJudged, PTL DEF Spec
-----------------------------------------------------------------------------
(* The order of candidates.                                                *)

(* Candidates of one output: one for each symbol.                          *)
CandidateSet(C) ==
    /\ IsFiniteSet(C)
    /\ \A c \in C : c.symbol \in Symbols /\ c.score \in Int /\ c.quality \in Qualities
    /\ \A c, d \in C : c.symbol = d.symbol => c = d

LEMMA PositionOf ==
    ASSUME NEW s \in Symbols
    PROVE  Position(s) \in Int /\ Names[Position(s)] = s
<1>1. \E i \in DOMAIN Names : Names[i] = s
  BY DEF Symbols, ToSet
<1>2. Position(s) \in DOMAIN Names /\ Names[Position(s)] = s
  BY <1>1 DEF Position
<1>3. DOMAIN Names \subseteq Int
  BY OpportunityAssumption
<1> QED BY <1>2, <1>3

LEMMA AheadOrders ==
    ASSUME NEW C, CandidateSet(C), NEW value \in [C -> Int]
    PROVE  Orders({e \in C \X C : Ahead(e[1], e[2], value)}, C)
<1> DEFINE R == {e \in C \X C : Ahead(e[1], e[2], value)}
<1>1. \A c, d \in C : <<c, d>> \in R <=> Ahead(c, d, value)
  OBVIOUS
<1> HIDE DEF R
<1>2. \A c \in C : value[c] \in Int /\ Position(c.symbol) \in Int
  BY PositionOf DEF CandidateSet
<1>3. \A c, d \in C : c # d => Position(c.symbol) # Position(d.symbol)
  BY PositionOf DEF CandidateSet
<1>4. \A c \in C : ~Ahead(c, c, value)
  BY <1>2 DEF Ahead, Before
<1>5. \A c, d, e \in C : Ahead(c, d, value) /\ Ahead(d, e, value) => Ahead(c, e, value)
  BY <1>2 DEF Ahead, Before
<1>6. \A c, d \in C : c # d => Ahead(c, d, value) \/ Ahead(d, c, value)
  BY <1>2, <1>3 DEF Ahead, Before
<1> QED BY <1>1, <1>4, <1>5, <1>6 DEF Orders

(* s has the candidates by their value, place tells where.                 *)
Sorts(s, C, value, place) ==
    /\ s \in [1 .. Cardinality(C) -> C] /\ place \in [C -> 1 .. Cardinality(C)]
    /\ \A c \in C : s[place[c]] = c
    /\ \A i \in 1 .. Cardinality(C) : place[s[i]] = i
    /\ \A i, j \in 1 .. Cardinality(C) : i <= j => value[s[i]] >= value[s[j]]

LEMMA OrderedSorts ==
    ASSUME NEW C, CandidateSet(C), NEW value \in [C -> Int], NEW s, s = Ordered(C, value)
    PROVE  \E place : Sorts(s, C, value, place)
<1> DEFINE R == {e \in C \X C : Ahead(e[1], e[2], value)}
           n == Cardinality(C)
           place == [c \in C |-> Cardinality({d \in C : Ahead(d, c, value)}) + 1]
<1>1. Orders(R, C) /\ IsFiniteSet(C)
  BY AheadOrders DEF CandidateSet
<1>2. ASSUME NEW c \in C PROVE place[c] = RankIn(c, R, C)
  <2>1. Preceding(c, R, C) = {d \in C : Ahead(d, c, value)}
    BY DEF Preceding
  <2> QED BY <2>1 DEF RankIn
<1>3. s = [i \in 1 .. n |-> CHOOSE c \in C : place[c] = i]
  BY DEF Ordered
<1>e. place = [c \in C |-> place[c]]
  OBVIOUS
<1>9. \A c, d \in C : <<c, d>> \in R <=> Ahead(c, d, value)
  OBVIOUS
<1> HIDE DEF place, R
<1>4. place \in [C -> 1 .. n]
  BY <1>e, <1>1, <1>2, RankIsPlace
<1>5. \A i \in 1 .. n : s[i] \in C /\ place[s[i]] = i
  <2>1. \A i \in 1 .. n : \E c \in C : place[c] = i
    BY <1>1, <1>2, RankReaches
  <2> QED BY <1>3, <2>1
<1>6. \A c \in C : s[place[c]] = c
  <2> TAKE c \in C
  <2>1. place[c] \in 1 .. n
    BY <1>4
  <2>2. s[place[c]] \in C /\ place[s[place[c]]] = place[c]
    BY <1>5, <2>1
  <2> QED BY <1>1, <1>2, <2>2, RankReaches
<1>7. ASSUME NEW i \in 1 .. n, NEW j \in 1 .. n, i <= j
      PROVE  value[s[i]] >= value[s[j]]
  <2>0. s[i] \in C /\ s[j] \in C /\ place[s[i]] = i /\ place[s[j]] = j
    BY <1>5
  <2>1. ~(<<s[j], s[i]>> \in R)
    <3> SUFFICES ASSUME <<s[j], s[i]>> \in R PROVE FALSE
      OBVIOUS
    <3>1. RankIn(s[j], R, C) < RankIn(s[i], R, C)
      BY <1>1, <2>0, RankGrows
    <3>2. j < i
      BY <1>2, <2>0, <3>1
    <3> QED BY <1>7, <3>2
  <2>2. ~(value[s[j]] > value[s[i]])
    BY <1>9, <2>0, <2>1 DEF Ahead
  <2>3. value[s[i]] \in Int /\ value[s[j]] \in Int
    BY <2>0
  <2> QED BY <2>2, <2>3
<1>8. s \in [1 .. n -> C]
  BY <1>3, <1>5
<1> QED BY <1>4, <1>5, <1>6, <1>7, <1>8 DEF Sorts

LEMMA ByScoreSorts ==
    ASSUME NEW C, CandidateSet(C), NEW s, s = ByScore(C)
    PROVE  \E place : /\ s \in [1 .. Cardinality(C) -> C]
                      /\ place \in [C -> 1 .. Cardinality(C)]
                      /\ \A c \in C : s[place[c]] = c
                      /\ \A i \in 1 .. Cardinality(C) : place[s[i]] = i
                      /\ \A i, j \in 1 .. Cardinality(C) : i <= j => s[i].score >= s[j].score
<1> DEFINE value == [c \in C |-> c.score]
<1>1. value \in [C -> Int] /\ \A c \in C : value[c] = c.score
  BY DEF CandidateSet
<1>2. s = Ordered(C, value)
  BY DEF ByScore
<1> HIDE DEF value
<1>3. PICK place : Sorts(s, C, value, place)
  BY <1>1, <1>2, OrderedSorts
<1>4. \A i \in 1 .. Cardinality(C) : s[i] \in C
  BY <1>3 DEF Sorts
<1> QED BY <1>1, <1>3, <1>4 DEF Sorts

LEMMA SizeType ==
    ASSUME NEW C, CandidateSet(C)
    PROVE  Cardinality(C) \in Nat
BY FS_CardinalityType DEF CandidateSet

LEMMA SubsetOfCandidates ==
    ASSUME NEW C, CandidateSet(C), NEW D, D \subseteq C
    PROVE  CandidateSet(D)
<1>1. IsFiniteSet(D)
  BY FS_Subset DEF CandidateSet
<1> QED BY <1>1 DEF CandidateSet

(* What is sorted is a sequence.                                           *)
LEMMA IsSequence ==
    ASSUME NEW C, NEW m \in Nat, NEW s \in [1 .. m -> C]
    PROVE  s \in Seq(C) /\ Len(s) = m
<1>1. s \in Seq(C)
  BY SeqDef
<1>2. DOMAIN s = 1 .. Len(s) /\ Len(s) \in Nat
  BY <1>1, LenProperties
<1>3. 1 .. Len(s) = 1 .. m
  BY <1>2
<1> QED BY <1>1, <1>2, <1>3

(* The first n of a sequence are k.                                        *)
LEMMA FirstAreTaken ==
    ASSUME NEW C, NEW s \in Seq(C), NEW n \in Nat,
           NEW k \in Nat, k <= n, k <= Len(s), k = n \/ k = Len(s)
    PROVE  ToSet(First(n, s)) = {s[i] : i \in 1 .. k}
<1>1. PICK m \in Nat : m = Len(s)
  BY LenProperties
<1>2. \A i \in 1 .. m : s[i] \in C
  BY <1>1, ElementOfSeq
<1>3. k = (IF n < Len(s) THEN n ELSE Len(s)) /\ k <= m
  <2>1. k <= m /\ (k = n \/ k = m)
    BY <1>1
  <2>2. k = (IF n < m THEN n ELSE m)
    BY <2>1
  <2> QED BY <1>1, <2>1, <2>2
<1>4. First(n, s) = SubSeq(s, 1, k)
  BY <1>3 DEF First
<1>5. /\ SubSeq(s, 1, k) \in Seq(C) /\ Len(SubSeq(s, 1, k)) = k
      /\ \A i \in 1 .. k : SubSeq(s, 1, k)[i] = s[i]
  <2>1. \A i \in 1 .. k : s[i] \in C
    <3>1. \A i \in 1 .. k : i \in 1 .. m
      BY <1>3
    <3> QED BY <1>2, <3>1
  <2>2. /\ SubSeq(s, 1, k) \in Seq(C)
        /\ Len(SubSeq(s, 1, k)) = IF 1 <= k THEN k - 1 + 1 ELSE 0
        /\ \A i \in 1 .. k - 1 + 1 : SubSeq(s, 1, k)[i] = s[1 + i - 1]
    BY <2>1, SubSeqProperties
  <2>3. k - 1 + 1 = k /\ \A i \in 1 .. k : 1 + i - 1 = i
    OBVIOUS
  <2>4. \A i \in 1 .. k : SubSeq(s, 1, k)[i] = s[i]
    BY <2>2, <2>3
  <2> QED BY <2>2, <2>3, <2>4
<1>6. DOMAIN SubSeq(s, 1, k) = 1 .. k
  BY <1>5, LenProperties
<1> QED BY <1>4, <1>5, <1>6 DEF ToSet

(* The recall takes candidates of the output, and of no other.             *)
LEMMA LaneIsIn ==
    ASSUME NEW C, CandidateSet(C), NEW value \in [C -> Int], NEW n \in Nat
    PROVE  ToSet(First(n, Ordered(C, value))) \subseteq C
<1>1. PICK s : s = Ordered(C, value)
  OBVIOUS
<1>2. PICK place : Sorts(s, C, value, place)
  BY <1>1, OrderedSorts
<1>3. PICK m \in Nat : m = Cardinality(C)
  BY SizeType
<1>4. s \in [1 .. m -> C]
  BY <1>2, <1>3 DEF Sorts
<1>5. s \in Seq(C) /\ Len(s) = m
  BY <1>4, IsSequence
<1>6. PICK k \in Nat : k <= n /\ k <= m /\ (k = n \/ k = m)
  <2>1. n <= m \/ m <= n
    OBVIOUS
  <2> QED BY <2>1
<1>7. ToSet(First(n, s)) = {s[i] : i \in 1 .. k}
  BY <1>5, <1>6, FirstAreTaken
<1>8. \A i \in 1 .. k : s[i] \in C
  <2>1. \A i \in 1 .. k : i \in 1 .. m
    BY <1>6
  <2> QED BY <1>4, <2>1
<1> QED BY <1>1, <1>7, <1>8

LEMMA RecallIsIn ==
    ASSUME NEW C, CandidateSet(C)
    PROVE  ToSet(Recall(C)) \subseteq C
<1> DEFINE score == [c \in C |-> c.score]
           mover == [c \in C |-> HighMover(c)]
           acceleration == [c \in C |-> Acceleration(c)]
           volume == [c \in C |-> c.quality.volume]
           structure == [c \in C |-> c.quality.structure]
           U == UNION {ToSet(lane) : lane \in
                   {First(CompositeTop, ByScore(C)), Lane(C, mover), Lane(C, acceleration),
                    Lane(C, volume), Lane(C, structure)}}
<1>1. /\ score \in [C -> Int] /\ volume \in [C -> Int] /\ structure \in [C -> Int]
  BY DEF CandidateSet, Qualities
<1>2. mover \in [C -> Int] /\ acceleration \in [C -> Int]
  <2>1. \A c \in C : c.quality.change \in Int /\ c.quality.momentum \in Int
    BY DEF CandidateSet, Qualities
  <2>2. \A c \in C : HighMover(c) \in Int
    BY <2>1 DEF HighMover
  <2>3. \A m \in Int : m * m \in Int
    OBVIOUS
  <2>4. \A c \in C : Acceleration(c) \in Int
    BY <2>1, <2>3 DEF Acceleration
  <2> QED BY <2>2, <2>4
<1>3. Recall(C) = First(BroadTop, ByScore(U))
  BY DEF Recall
<1>4. CompositeTop \in Nat /\ LaneTop \in Nat /\ BroadTop \in Nat
  BY OpportunityAssumption DEF ValidRecall, ValidScalping
<1>5. ByScore(C) = Ordered(C, score)
  BY DEF ByScore
<1> HIDE DEF score, mover, acceleration, volume, structure
<1>6. U \subseteq C
  <2>1. ToSet(First(CompositeTop, ByScore(C))) \subseteq C
    BY <1>1, <1>4, <1>5, LaneIsIn
  <2>2. \A value \in [C -> Int] : ToSet(Lane(C, value)) \subseteq C
    BY <1>4, LaneIsIn DEF Lane
  <2> QED BY <1>1, <1>2, <2>1, <2>2
<1> HIDE DEF U
<1>7. CandidateSet(U)
  BY <1>6, SubsetOfCandidates
<1>8. PICK value \in [U -> Int] : ByScore(U) = Ordered(U, value)
  <2>1. [c \in U |-> c.score] \in [U -> Int]
    BY <1>7 DEF CandidateSet
  <2> QED BY <2>1 DEF ByScore
<1>9. ToSet(First(BroadTop, ByScore(U))) \subseteq U
  BY <1>4, <1>7, <1>8, LaneIsIn
<1> QED BY <1>3, <1>6, <1>9
-----------------------------------------------------------------------------
(* The active set.  What is selected is as good as what is not, but for    *)
(* the worst of it.                                                        *)
Best(selected, P) ==
    /\ selected \subseteq P /\ Cardinality(selected) = ActiveTop
    /\ \A c \in P \ selected, d \in selected \ {Worst(selected)} : c.score <= d.score

LEMMA WorstIsLeast ==
    ASSUME NEW C, CandidateSet(C), C # {}
    PROVE  Worst(C) \in C /\ \A d \in C : Worst(C).score <= d.score
<1> DEFINE Under(c, d) == c.score < d.score \/ (c.score = d.score /\ Before(c.symbol, d.symbol))
           R == {e \in C \X C : Under(e[1], e[2])}
<1>1. \A c \in C : c.score \in Int /\ Position(c.symbol) \in Int
  BY PositionOf DEF CandidateSet
<1>2. \A c, d \in C : c # d => Position(c.symbol) # Position(d.symbol)
  BY PositionOf DEF CandidateSet
<1>3. \A c, d \in C : <<c, d>> \in R <=> Under(c, d)
  OBVIOUS
<1> HIDE DEF R
<1>4. Orders(R, C)
  <2>1. \A c \in C : ~Under(c, c)
    BY <1>1 DEF Before
  <2>2. \A c, d, e \in C : Under(c, d) /\ Under(d, e) => Under(c, e)
    BY <1>1 DEF Before
  <2>3. \A c, d \in C : c # d => Under(c, d) \/ Under(d, c)
    BY <1>1, <1>2 DEF Before
  <2> HIDE DEF Under
  <2> QED BY <1>3, <2>1, <2>2, <2>3 DEF Orders
<1>5. IsFiniteSet(C) /\ Cardinality(C) \in Nat /\ Cardinality(C) # 0
  BY FS_CardinalityType, FS_EmptySet DEF CandidateSet
<1>6. PICK c \in C : RankIn(c, R, C) = 1
  BY <1>4, <1>5, RankReaches
<1>7. \A d \in C \ {c} : Under(c, d)
  <2> SUFFICES ASSUME NEW d \in C, d # c PROVE <<c, d>> \in R
    BY <1>3
  <2>1. ~(<<d, c>> \in R)
    <3> SUFFICES ASSUME <<d, c>> \in R PROVE FALSE
      OBVIOUS
    <3>1. RankIn(d, R, C) < 1 /\ RankIn(d, R, C) \in 1 .. Cardinality(C)
      BY <1>4, <1>5, <1>6, RankGrows, RankIsPlace
    <3> QED BY <3>1
  <2> QED BY <1>4, <2>1 DEF Orders
<1>8. Worst(C) \in C /\ \A d \in C \ {Worst(C)} : Under(Worst(C), d)
  BY <1>7 DEF Worst
<1> QED BY <1>1, <1>8

(* The selection before any incumbent is looked at.                        *)
LEMMA FirstAreBest ==
    ASSUME NEW C, CandidateSet(C), Cardinality(C) > ActiveTop
    PROVE  Best(ToSet(First(ActiveTop, ByScore(C))), C)
<1>0. ActiveTop \in Nat \ {0} /\ Cardinality(C) \in Nat
  BY SizeType, OpportunityAssumption DEF ValidScalping
<1>1. PICK s : s = ByScore(C)
  OBVIOUS
<1>2. PICK place : /\ s \in [1 .. Cardinality(C) -> C]
                   /\ place \in [C -> 1 .. Cardinality(C)]
                   /\ \A c \in C : s[place[c]] = c
                   /\ \A i \in 1 .. Cardinality(C) : place[s[i]] = i
                   /\ \A i, j \in 1 .. Cardinality(C) : i <= j => s[i].score >= s[j].score
  BY <1>1, ByScoreSorts
<1>3. PICK S : S = ToSet(First(ActiveTop, s)) /\ S = {s[i] : i \in 1 .. ActiveTop}
  <2>1. PICK m \in Nat : m = Cardinality(C) /\ ActiveTop <= m
    BY <1>0
  <2>2. s \in Seq(C) /\ Len(s) = m
    BY <1>2, <2>1, IsSequence
  <2>3. ToSet(First(ActiveTop, s)) = {s[i] : i \in 1 .. ActiveTop}
    BY <1>0, <2>1, <2>2, FirstAreTaken
  <2> QED BY <2>3
<1>4. \A i \in 1 .. ActiveTop : i \in 1 .. Cardinality(C)
  BY <1>0
<1>5. S \subseteq C
  BY <1>2, <1>3, <1>4
<1>6. Cardinality(S) = ActiveTop
  <2> DEFINE f == [i \in 1 .. ActiveTop |-> s[i]]
  <2>1. f \in [1 .. ActiveTop -> S]
    BY <1>3
  <2>2. \A i, j \in 1 .. ActiveTop : f[i] = f[j] => i = j
    <3>1. \A i \in 1 .. ActiveTop : place[f[i]] = i
      BY <1>2, <1>4
    <3> QED BY <3>1
  <2>3. f \in Injection(1 .. ActiveTop, S)
    BY <2>1, <2>2 DEF Injection, IsInjective
  <2>4. f \in Surjection(1 .. ActiveTop, S)
    BY <1>3, <2>1 DEF Surjection
  <2>5. IsFiniteSet(1 .. ActiveTop) /\ Cardinality(1 .. ActiveTop) = ActiveTop
    <3>1. IsFiniteSet(1 .. ActiveTop)
          /\ Cardinality(1 .. ActiveTop) = IF 1 > ActiveTop THEN 0 ELSE ActiveTop - 1 + 1
      BY <1>0, FS_Interval
    <3> QED BY <1>0, <3>1
  <2> HIDE DEF f
  <2>6. Cardinality(S) = Cardinality(1 .. ActiveTop)
    BY <2>3, <2>4, <2>5, FS_Surjection
  <2> QED BY <2>5, <2>6
<1>7. ASSUME NEW c \in C \ S, NEW d \in S
      PROVE  c.score <= d.score
  <2>1. PICK i \in 1 .. ActiveTop : d = s[i]
    BY <1>3
  <2>2. place[c] \in 1 .. Cardinality(C) /\ s[place[c]] = c
    BY <1>2
  <2>3. place[c] \notin 1 .. ActiveTop
    BY <1>3, <2>2
  <2>4. i <= place[c] /\ i \in 1 .. Cardinality(C)
    BY <1>0, <1>4, <2>1, <2>2, <2>3
  <2>5. s[i].score >= s[place[c]].score
    BY <1>2, <2>2, <2>4
  <2>6. c.score \in Int /\ d.score \in Int
    BY <1>5 DEF CandidateSet
  <2> QED BY <2>1, <2>2, <2>5, <2>6
<1> QED BY <1>1, <1>3, <1>5, <1>6, <1>7 DEF Best

(* An incumbent that takes the place of the worst.                         *)
LEMMA RetainKeepsBest ==
    ASSUME NEW C, CandidateSet(C), NEW S, Best(S, C), NEW incumbent
    PROVE  Best(Retain(S, incumbent, C), C)
<1> DEFINE now == {c \in C : c.symbol = incumbent.symbol}
           T == Retain(S, incumbent, C)
           w == Worst(S)
<1>0. ActiveTop \in Nat \ {0}
  BY OpportunityAssumption DEF ValidScalping
<1>1. CASE T = S
  BY <1>1
<1>2. CASE T # S
  <2>1. PICK x \in now : x \notin S
    BY <1>2 DEF Retain
  <2>2. now = {x}
    BY <2>1 DEF CandidateSet
  <2>3. T = (S \ {w}) \cup {x} /\ x \in C
    BY <1>2, <2>1, <2>2 DEF Retain
  <2> HIDE DEF now, T
  <2>4. CandidateSet(S) /\ IsFiniteSet(S) /\ S \subseteq C /\ Cardinality(S) = ActiveTop
    BY SubsetOfCandidates DEF Best, CandidateSet
  <2>5. S # {}
    BY <1>0, <2>4, FS_EmptySet
  <2>6. w \in S /\ \A d \in S : w.score <= d.score
    BY <2>4, <2>5, WorstIsLeast
  <2>7. \A c \in C \ S, d \in S \ {w} : c.score <= d.score
    BY DEF Best
  <2> HIDE DEF w
  <2>8. T \subseteq C /\ Cardinality(T) = ActiveTop
    <3>1. IsFiniteSet(S \ {w}) /\ Cardinality(S \ {w}) = ActiveTop - 1
      BY <2>4, <2>6, FS_RemoveElement
    <3>2. x \notin S \ {w}
      BY <2>1
    <3>3. Cardinality(T) = ActiveTop - 1 + 1
      BY <2>3, <3>1, <3>2, FS_AddElement
    <3> QED BY <1>0, <2>3, <2>4, <3>3
  <2>9. CandidateSet(T) /\ T # {}
    BY <2>3, <2>8, SubsetOfCandidates
  <2>10. PICK v \in T : v = Worst(T) /\ \A d \in T : v.score <= d.score
    BY <2>9, WorstIsLeast
  <2>11. ASSUME NEW c \in C \ T, NEW d \in T \ {v}
         PROVE  c.score <= d.score
    <3>1. /\ c.score \in Int /\ d.score \in Int /\ v.score \in Int /\ x.score \in Int
          /\ w.score \in Int
      BY <2>3, <2>4, <2>6, <2>8 DEF CandidateSet
    <3>2. c = w \/ c \in C \ S
      BY <2>3
    <3>3. CASE d \in S \ {w}
      BY <2>6, <2>7, <3>2, <3>3
    <3>4. CASE d \notin S \ {w}
      <4>1. d = x /\ v \in S \ {w}
        BY <2>3, <3>4
      <4>2. c.score <= v.score
        BY <2>6, <2>7, <3>2, <4>1
      <4> QED BY <2>10, <3>1, <4>2
    <3> QED BY <3>3, <3>4
  <2> QED BY <2>8, <2>10, <2>11 DEF Best, T
<1> QED BY <1>1, <1>2

(* g has the selection after each of the first incumbents.                 *)
Selects(g, previous, n, C) ==
    g = [i \in 0 .. n |-> IF i = 0 THEN ToSet(First(ActiveTop, ByScore(C)))
                          ELSE Retain(g[i - 1], previous[i], C)]

LEMMA SelectionExists ==
    ASSUME NEW C, NEW previous, NEW n \in Nat
    PROVE  \E g : Selects(g, previous, n, C)
<1> DEFINE Bad == {k \in Nat : ~\E g : Selects(g, previous, k, C)}
           B == ToSet(First(ActiveTop, ByScore(C)))
<1> SUFFICES ASSUME Bad # {} PROVE FALSE
  OBVIOUS
<1>1. PICK k \in Bad : \A m \in Bad : k <= m
  <2>1. Bad \subseteq Nat
    OBVIOUS
  <2> HIDE DEF Bad
  <2> QED BY <2>1, LeastNatural
<1>2. k # 0
  <2> SUFFICES Selects([i \in 0 .. 0 |-> B], previous, 0, C)
    BY <1>1
  <2> HIDE DEF B
  <2>1. \A i \in 0 .. 0 : i = 0
    OBVIOUS
  <2> QED BY <2>1 DEF Selects, B
<1>3. k - 1 \in Nat /\ k - 1 \notin Bad
  <2>1. k \in Nat /\ ~(k <= k - 1)
    OBVIOUS
  <2> QED BY <1>1, <1>2, <2>1
<1>4. PICK g : Selects(g, previous, k - 1, C)
  BY <1>3
<1> DEFINE h == [i \in 0 .. k |-> IF i = k THEN Retain(g[k - 1], previous[k], C) ELSE g[i]]
<1>5. Selects(h, previous, k, C)
  <2>1. \A i \in 0 .. k : i # k => i \in 0 .. k - 1 /\ i # k
    BY <1>3
  <2>2. \A i \in 0 .. k : i # 0 => i - 1 \in 0 .. k - 1 /\ i - 1 \in 0 .. k /\ i - 1 # k
    BY <1>3
  <2>3. \A i \in 0 .. k - 1 : g[i] = IF i = 0 THEN B ELSE Retain(g[i - 1], previous[i], C)
    <3> HIDE DEF B
    <3> QED BY <1>4 DEF Selects, B
  <2>4. \A i \in 0 .. k : i # 0 => h[i - 1] = g[i - 1]
    BY <2>2
  <2>5. \A i \in 0 .. k : h[i] = IF i = 0 THEN B ELSE Retain(h[i - 1], previous[i], C)
    <3> TAKE i \in 0 .. k
    <3>1. CASE i = k
      BY <1>2, <2>4, <3>1
    <3>2. CASE i # k
      <4>1. h[i] = g[i]
        BY <3>2
      <4> HIDE DEF h, B
      <4> QED BY <2>1, <2>3, <2>4, <3>2, <4>1
    <3> QED BY <3>1, <3>2
  <2>6. h = [i \in 0 .. k |-> h[i]]
    OBVIOUS
  <2> HIDE DEF h
  <2> QED BY <2>5, <2>6 DEF Selects
<1> QED BY <1>1, <1>5

LEMMA SelectionIsBest ==
    ASSUME NEW C, CandidateSet(C), Cardinality(C) > ActiveTop,
           NEW previous, NEW n \in Nat, NEW g, Selects(g, previous, n, C)
    PROVE  \A k \in 0 .. n : Best(g[k], C)
<1> DEFINE Bad == {k \in 0 .. n : ~Best(g[k], C)}
<1> SUFFICES ASSUME Bad # {} PROVE FALSE
  OBVIOUS
<1>1. PICK k \in Bad : \A m \in Bad : k <= m
  <2>1. Bad \subseteq Nat
    OBVIOUS
  <2> HIDE DEF Bad
  <2> QED BY <2>1, LeastNatural
<1>2. \A i \in 0 .. n : g[i] = IF i = 0 THEN ToSet(First(ActiveTop, ByScore(C)))
                               ELSE Retain(g[i - 1], previous[i], C)
  BY DEF Selects
<1>3. k # 0
  BY <1>1, <1>2, FirstAreBest
<1>4. k - 1 \in 0 .. n /\ ~(k <= k - 1)
  BY <1>1, <1>3
<1>5. Best(g[k - 1], C)
  BY <1>1, <1>4
<1>6. Best(g[k], C)
  BY <1>1, <1>2, <1>3, <1>5, RetainKeepsBest
<1> QED BY <1>1, <1>6

LEMMA ActiveIsBest ==
    ASSUME NEW C, CandidateSet(C), Cardinality(C) > ActiveTop,
           NEW previous, Len(previous) \in Nat
    PROVE  \E S : Best(S, C) /\ Active(C, previous) = ByScore(S)
<1> DEFINE IsTable(g) ==
        g = [i \in 0 .. Len(previous) |-> IF i = 0 THEN ToSet(First(ActiveTop, ByScore(C)))
                                          ELSE Retain(g[i - 1], previous[i], C)]
           t == CHOOSE g : IsTable(g)
<1>1. Active(C, previous) = ByScore(t[Len(previous)])
  BY DEF Active
<1>2. \E g : Selects(g, previous, Len(previous), C)
  BY SelectionExists
<1>3. \A g : IsTable(g) <=> Selects(g, previous, Len(previous), C)
  BY DEF Selects
<1> HIDE DEF IsTable
<1>4. IsTable(t)
  BY <1>2, <1>3
<1> HIDE DEF t
<1>5. PICK n \in Nat : n = Len(previous)
  OBVIOUS
<1>6. \A k \in 0 .. n : Best(t[k], C)
  BY <1>3, <1>4, <1>5, SelectionIsBest
<1>7. n \in 0 .. n
  OBVIOUS
<1> QED BY <1>1, <1>5, <1>6, <1>7

(* More candidates than places.                                            *)
LEMMA TooFewPlaces ==
    ASSUME NEW i \in Nat, i # 0, NEW f, f \in [1 .. i -> 1 .. i - 1]
    PROVE  \E k, l \in 1 .. i : k # l /\ f[k] = f[l]
<1>1. /\ IsFiniteSet(1 .. i) /\ IsFiniteSet(1 .. i - 1)
      /\ Cardinality(1 .. i) = IF 1 > i THEN 0 ELSE i - 1 + 1
      /\ Cardinality(1 .. i - 1) = IF 1 > i - 1 THEN 0 ELSE i - 1 - 1 + 1
  BY FS_Interval
<1>2. Cardinality(1 .. i - 1) < Cardinality(1 .. i)
  BY <1>1
<1> QED BY <1>1, <1>2, FS_PigeonHole

LEMMA BestHasTopScores ==
    ASSUME NEW C, CandidateSet(C), Cardinality(C) > ActiveTop,
           NEW S, Best(S, C), NEW a, a = ByScore(S), NEW b, b = ByScore(C)
    PROVE  /\ Len(a) = ActiveTop /\ ToSet(a) \subseteq C
           /\ \A i \in 1 .. ActiveTop - 1 : a[i].score = b[i].score
<1>0. PICK m \in Nat \ {0} : m = ActiveTop
  BY OpportunityAssumption DEF ValidScalping
<1>1. PICK n \in Nat : n = Cardinality(C) /\ m < n
  BY <1>0, SizeType
<1>2. S \subseteq C /\ Cardinality(S) = m /\ CandidateSet(S)
  BY <1>0, SubsetOfCandidates DEF Best
<1>3. PICK p : /\ a \in [1 .. m -> S] /\ p \in [S -> 1 .. m]
               /\ \A c \in S : a[p[c]] = c
               /\ \A i \in 1 .. m : p[a[i]] = i
               /\ \A i, j \in 1 .. m : i <= j => a[i].score >= a[j].score
  <2>1. CandidateSet(S) /\ a = ByScore(S)
    BY <1>2
  <2>2. \E r : /\ a \in [1 .. Cardinality(S) -> S]
               /\ r \in [S -> 1 .. Cardinality(S)]
               /\ \A c \in S : a[r[c]] = c
               /\ \A i \in 1 .. Cardinality(S) : r[a[i]] = i
               /\ \A i, j \in 1 .. Cardinality(S) : i <= j => a[i].score >= a[j].score
    BY ONLY <2>1, ByScoreSorts
  <2> QED BY <1>2, <2>2
<1>4. PICK q : /\ b \in [1 .. n -> C] /\ q \in [C -> 1 .. n]
               /\ \A c \in C : b[q[c]] = c
               /\ \A i \in 1 .. n : q[b[i]] = i
               /\ \A i, j \in 1 .. n : i <= j => b[i].score >= b[j].score
  BY <1>1, ByScoreSorts
<1>5. Len(a) = m /\ ToSet(a) \subseteq C
  <2>1. a \in Seq(S) /\ Len(a) = m
    BY <1>3, IsSequence
  <2>2. ToSet(a) \subseteq S
    BY <1>3 DEF ToSet
  <2> QED BY <1>2, <2>1, <2>2
<1>6. /\ \A i \in 1 .. m : a[i] \in S /\ a[i].score \in Int /\ i \in 1 .. n
      /\ \A i \in 1 .. n : b[i] \in C /\ b[i].score \in Int
  <2>1. \A i \in 1 .. m : i \in 1 .. n
    BY <1>1
  <2> QED BY <1>2, <1>3, <1>4, <2>1 DEF CandidateSet
<1>7. ASSUME NEW i \in 1 .. m PROVE ~(a[i].score > b[i].score)
  <2> SUFFICES ASSUME a[i].score > b[i].score PROVE FALSE
    OBVIOUS
  <2>1. ASSUME NEW k \in 1 .. i PROVE q[a[k]] \in 1 .. i - 1
    <3>1. k \in 1 .. m /\ k <= i
      OBVIOUS
    <3>2. a[k] \in C /\ q[a[k]] \in 1 .. n /\ b[q[a[k]]] = a[k]
      BY <1>2, <1>4, <1>6, <3>1
    <3>3. a[k].score >= a[i].score
      BY <1>3, <3>1
    <3>4. PICK j \in 1 .. n : j = q[a[k]] /\ b[j] = a[k]
      BY <3>2
    <3>5. ~(i <= j)
      <4> SUFFICES ASSUME i <= j PROVE FALSE
        OBVIOUS
      <4>1. b[i].score >= b[j].score
        BY <1>4, <1>6
      <4>2. b[i].score >= a[k].score
        BY <3>4, <4>1
      <4> QED BY <1>6, <3>1, <3>3, <4>2
    <3>6. j \in 1 .. i - 1
      BY <3>5
    <3> QED BY <3>4, <3>6
  <2>2. PICK f : f = [k \in 1 .. i |-> q[a[k]]]
    OBVIOUS
  <2>3. f \in [1 .. i -> 1 .. i - 1]
    BY <2>1, <2>2
  <2>4. PICK k \in 1 .. i, l \in 1 .. i : k # l /\ f[k] = f[l]
    <3>1. i \in Nat /\ i # 0
      OBVIOUS
    <3> QED BY ONLY <2>3, <3>1, TooFewPlaces
  <2>5. k \in 1 .. m /\ l \in 1 .. m
    OBVIOUS
  <2>6. q[a[k]] = q[a[l]] /\ a[k] \in C /\ a[l] \in C
    BY <1>2, <1>6, <2>2, <2>4, <2>5
  <2>7. a[k] = a[l]
    BY <1>4, <2>6
  <2> QED BY <1>3, <2>4, <2>5, <2>7
<1>8. ASSUME NEW i \in 1 .. m - 1 PROVE ~(a[i].score < b[i].score)
  <2> SUFFICES ASSUME a[i].score < b[i].score PROVE FALSE
    OBVIOUS
  <2>0. i \in 1 .. m /\ m \in 1 .. m /\ i # m /\ i <= m /\ i \in 1 .. n
    BY <1>1
  <2>1. PICK d \in S \ {Worst(S)} : d.score \in Int /\ d.score <= a[i].score
    <3>1. a[m].score <= a[i].score /\ a[i].score <= a[i].score
      BY <1>3, <1>6, <2>0
    <3>2. a[m] # a[i]
      BY <1>3, <2>0
    <3> QED BY <1>6, <2>0, <3>1, <3>2
  <2>2. ASSUME NEW k \in 1 .. i PROVE b[k] \in S /\ p[b[k]] \in 1 .. i - 1
    <3>1. k \in 1 .. n /\ k <= i
      BY <2>0
    <3>2. b[k] \in C /\ b[k].score \in Int /\ b[k].score >= b[i].score
      BY <1>4, <1>6, <2>0, <3>1
    <3>3. b[k] \in S
      <4> SUFFICES ASSUME b[k] \notin S PROVE FALSE
        OBVIOUS
      <4>1. b[k].score <= d.score
        BY <3>2 DEF Best
      <4> QED BY <1>6, <2>0, <2>1, <3>2, <4>1
    <3>4. PICK j \in 1 .. m : j = p[b[k]] /\ a[j] = b[k]
      BY <1>3, <3>3
    <3>5. ~(i <= j)
      <4> SUFFICES ASSUME i <= j PROVE FALSE
        OBVIOUS
      <4>1. a[i].score >= a[j].score
        BY <1>3, <2>0
      <4>2. a[i].score >= b[k].score
        BY <3>4, <4>1
      <4> QED BY <1>6, <2>0, <3>2, <4>2
    <3>6. j \in 1 .. i - 1
      BY <3>5
    <3> QED BY <3>3, <3>4, <3>6
  <2>3. PICK f : f = [k \in 1 .. i |-> p[b[k]]]
    OBVIOUS
  <2>4. f \in [1 .. i -> 1 .. i - 1]
    BY <2>2, <2>3
  <2>5. PICK k \in 1 .. i, l \in 1 .. i : k # l /\ f[k] = f[l]
    <3>1. i \in Nat /\ i # 0
      OBVIOUS
    <3> QED BY ONLY <2>4, <3>1, TooFewPlaces
  <2>6. k \in 1 .. n /\ l \in 1 .. n
    BY <2>0
  <2>7. p[b[k]] = p[b[l]] /\ b[k] \in S /\ b[l] \in S
    BY <2>2, <2>3, <2>5
  <2>8. b[k] = b[l]
    BY <1>3, <2>7
  <2> QED BY <1>4, <2>5, <2>6, <2>8
<1>9. ASSUME NEW i \in 1 .. m - 1 PROVE a[i].score = b[i].score
  <2>1. i \in 1 .. m /\ i \in 1 .. n
    BY <1>1
  <2>2. a[i].score \in Int /\ b[i].score \in Int
    BY <1>6, <2>1
  <2> QED BY <1>7, <1>8, <2>1, <2>2
<1> QED BY <1>0, <1>5, <1>9
-----------------------------------------------------------------------------
(* What is acquired of the symbols makes a set of candidates.              *)
IsMetrics(m) ==
    /\ DOMAIN m \subseteq Symbols
    /\ \A s \in DOMAIN m : m[s].score \in Int /\ m[s].quality \in Qualities

LEMMA SymbolsAreFinite == IsFiniteSet(Symbols)
<1>1. Names \in Seq(Symbols)
  BY OpportunityAssumption
<1>2. PICK n \in Nat : n = Len(Names) /\ DOMAIN Names = 1 .. n /\ Names \in [1 .. n -> Symbols]
  BY <1>1, LenProperties
<1>3. Symbols = {Names[i] : i \in 1 .. n}
  BY <1>2 DEF Symbols, ToSet
<1>4. Names \in Surjection(1 .. n, Symbols)
  <2>1. \A s \in Symbols : \E i \in 1 .. n : Names[i] = s
    BY <1>3
  <2> HIDE DEF Symbols
  <2> QED BY <1>2, <2>1 DEF Surjection
<1>5. IsFiniteSet(1 .. n)
  BY FS_Interval
<1> QED BY <1>4, <1>5, FS_Surjection

LEMMA ScoreType ==
    ASSUME NEW book, NEW q \in Qualities
    PROVE  Score(book, q) \in Int
<1>1. /\ q.volume \in Int /\ q.spread \in Int /\ q.volatility \in Int /\ q.trend \in Int
      /\ q.persistence \in Int /\ q.momentum \in Int /\ q.structure \in Int
  BY DEF Qualities
<1>2. Liquidity(book, q) \in Int
  BY <1>1 DEF Liquidity
<1>3. VolatilityRegime(q) \in Int
  <2> DEFINE distance == IF q.volatility > TargetVolatility THEN q.volatility - TargetVolatility
                         ELSE TargetVolatility - q.volatility
  <2>1. distance \in Int
    BY <1>1 DEF TargetVolatility
  <2>2. VolatilityRegime(q) = IF distance > MaxVolatility - TargetVolatility THEN 0
                              ELSE 100 - (100 * distance) \div (MaxVolatility - TargetVolatility)
    BY DEF VolatilityRegime
  <2> HIDE DEF distance
  <2>3. MaxVolatility - TargetVolatility = 1700
    BY DEF MaxVolatility, TargetVolatility
  <2> QED BY <2>1, <2>2, <2>3
<1>4. TrendQuality(q) \in Int
  BY <1>1 DEF TrendQuality
<1>5. Score(book, q) = 20 * q.volume + 15 * Liquidity(book, q) + 15 * VolatilityRegime(q)
                           + 25 * TrendQuality(q) + 15 * q.momentum + 10 * q.structure
  BY DEF Score, Weight
<1> QED BY <1>1, <1>2, <1>3, <1>4, <1>5

LEMMA MeasuredIsMetrics ==
    ASSUME NEW D, D \subseteq Symbols, NEW rows, \A s \in D : rows[s] \in Rows
    PROVE  IsMetrics(Measured(rows, D))
<1>1. \A s \in D : rows[s].quality \in Qualities
  BY DiscoveryAssumption
<1>2. \A s \in D : MetricOf(rows[s]).score \in Int /\ MetricOf(rows[s]).quality \in Qualities
  BY <1>1, ScoreType DEF MetricOf
<1> QED BY <1>2 DEF IsMetrics, Measured

LEMMA CandidatesAreSound ==
    ASSUME IsMetrics(metrics)
    PROVE  CandidateSet(Candidates)
<1> DEFINE T == {t \in DOMAIN metrics : metrics[t].eligible}
           of == [s \in T |-> [symbol |-> s, score |-> metrics[s].score,
                               quality |-> metrics[s].quality]]
<1>1. Candidates = {of[s] : s \in T}
  BY DEF Candidates
<1>2. \A s \in T : /\ s \in Symbols /\ of[s].symbol = s
                   /\ of[s].score \in Int /\ of[s].quality \in Qualities
  BY DEF IsMetrics
<1>3. IsFiniteSet(T)
  <2>1. T \subseteq Symbols
    BY DEF IsMetrics
  <2> HIDE DEF T
  <2> QED BY <2>1, SymbolsAreFinite, FS_Subset
<1>4. DOMAIN of = T /\ of = [s \in T |-> of[s]]
  OBVIOUS
<1> HIDE DEF of, T
<1>5. of \in Surjection(T, Candidates)
  BY <1>1, <1>4 DEF Surjection
<1>6. IsFiniteSet(Candidates)
  BY <1>3, <1>5, FS_Surjection
<1> QED BY <1>1, <1>2, <1>6 DEF CandidateSet

(* What a call works on are candidates of the known symbols, it works on   *)
(* no result of before, and who is evaluated has more than the active set. *)
Discovered ==
    /\ universe \subseteq Symbols /\ pending \subseteq Symbols /\ IsMetrics(metrics)
    /\ cached # <<>> => CandidateSet(cached[1])
    /\ CandidateSet(pool) /\ (pc = "evaluate" => Cardinality(pool) > ActiveTop)
    /\ pc \notin {"idle", "failed"} => evaluated = Nothing
    /\ Len(active) \in Nat
    /\ BestScoresAreActive

LEMMA NothingIsSound == IsMetrics(Nothing) /\ CandidateSet({})
BY FS_EmptySet DEF IsMetrics, Nothing, CandidateSet

LEMMA RecallKeeps ==
    ASSUME CandidateSet(pool), NEW C, CandidateSet(C), RecallFrom(C)
    PROVE  /\ universe' = {} /\ pending' = {} /\ metrics' = Nothing
           /\ CandidateSet(pool') /\ (pc' = "evaluate" => Cardinality(pool') > ActiveTop)
<1>1. CASE Cardinality(ToSet(Recall(C))) <= ActiveTop
  BY <1>1 DEF RecallFrom, Abort, Leave
<1>2. CASE ~(Cardinality(ToSet(Recall(C))) <= ActiveTop)
  <2>1. pool' = ToSet(Recall(C)) /\ Leave
    BY <1>2 DEF RecallFrom
  <2>2. CandidateSet(pool')
    BY <2>1, RecallIsIn, SubsetOfCandidates
  <2>3. PICK n \in Nat : n = Cardinality(pool')
    BY <2>2, SizeType
  <2>4. PICK m \in Nat : m = ActiveTop
    BY OpportunityAssumption DEF ValidScalping
  <2>5. n > m
    BY <1>2, <2>1, <2>3, <2>4
  <2> QED BY <2>1, <2>2, <2>3, <2>4, <2>5 DEF Leave
<1> QED BY <1>1, <1>2

LEMMA InitDiscovered == Init => Discovered
<1> SUFFICES ASSUME Init PROVE Discovered
  OBVIOUS
<1>1. active = <<>> /\ Len(<<>>) \in Nat
  BY DEF Init
<1> QED BY <1>1, NothingIsSound DEF Init, Discovered, BestScoresAreActive

(* Who raises or acquires leaves the last result, or none, as it is.       *)
LEMMA ResultStays ==
    ASSUME Discovered, UNCHANGED <<pool, evaluated, active>>
    PROVE  /\ CandidateSet(pool)' /\ Len(active)' \in Nat /\ BestScoresAreActive'
           /\ pc \notin {"idle", "failed"} => evaluated' = Nothing
BY DEF Discovered, BestScoresAreActive

LEMMA NextDiscovered ==
    ASSUME Discovered, [Next]_vars
    PROVE  Discovered'
<1>0. /\ universe \subseteq Symbols /\ pending \subseteq Symbols /\ IsMetrics(metrics)
      /\ cached # <<>> => CandidateSet(cached[1])
      /\ CandidateSet(pool) /\ (pc = "evaluate" => Cardinality(pool) > ActiveTop)
      /\ pc \notin {"idle", "failed"} => evaluated = Nothing
      /\ Len(active) \in Nat
  BY DEF Discovered
<1>1. CASE \E u \in Universes : Discover(u)
  <2>1. universe' \subseteq Symbols
    BY <1>1, DiscoveryAssumption DEF Discover
  <2> QED BY <1>0, <1>1, <2>1, NothingIsSound DEF Discover, Discovered, BestScoresAreActive
<1>2. CASE AnswerAgain
  <2>1. CandidateSet(cached[1]) /\ RecallFrom(cached[1]) /\ evaluated = Nothing
    BY <1>0, <1>2 DEF AnswerAgain
  <2>2. /\ universe' = {} /\ pending' = {} /\ metrics' = Nothing
        /\ CandidateSet(pool') /\ (pc' = "evaluate" => Cardinality(pool') > ActiveTop)
    BY <1>0, <2>1, RecallKeeps
  <2>3. evaluated' = Nothing /\ UNCHANGED <<cached, active>>
    BY <1>2, <2>1 DEF AnswerAgain
  <2> QED BY <1>0, <2>2, <2>3, NothingIsSound DEF Discovered, BestScoresAreActive
<1>3. ASSUME NEW rows \in [universe -> Rows], BulkStrict(rows) \/ BulkLenient(rows)
      PROVE  Discovered'
  <2>1. pending' \subseteq Symbols /\ UNCHANGED <<universe, cached, active, pool, evaluated>>
    BY <1>0, <1>3 DEF BulkStrict, BulkLenient, Missing, result
  <2>2. IsMetrics(metrics')
    <3>1. PICK D : D \subseteq universe /\ metrics' = Measured(rows, D)
      BY <1>3 DEF BulkStrict, BulkLenient
    <3>2. D \subseteq Symbols /\ \A s \in D : rows[s] \in Rows
      BY <1>0, <3>1
    <3> QED BY <3>1, <3>2, MeasuredIsMetrics
  <2>3. pc \notin {"idle", "failed"} /\ pc' # "evaluate"
    BY <1>3 DEF BulkStrict, BulkLenient, Acquired
  <2> QED BY <1>0, <2>1, <2>2, <2>3, ResultStays DEF Discovered
<1>4. CASE BulkFails \/ Incomplete
  <2>1. /\ universe' = {} /\ pending' = {} /\ metrics' = Nothing
        /\ UNCHANGED <<cached, active, pool, evaluated>>
        /\ pc \notin {"idle", "failed"} /\ pc' # "evaluate"
    BY <1>4 DEF BulkFails, Incomplete, Raise, Abort, Leave, result
  <2> QED BY <1>0, <2>1, NothingIsSound, ResultStays DEF Discovered
<1>5. ASSUME NEW rows \in [pending -> Rows], Revalidate(rows)
      PROVE  Discovered'
  <2>1. pending' \subseteq Symbols /\ UNCHANGED <<universe, cached, active, pool, evaluated>>
    BY <1>0, <1>5 DEF Revalidate, result
  <2>2. IsMetrics(metrics')
    <3>1. PICK m : m = Measured(rows, pending)
      OBVIOUS
    <3>2. IsMetrics(m)
      <4>1. \A s \in pending : rows[s] \in Rows
        OBVIOUS
      <4> QED BY <1>0, <3>1, <4>1, MeasuredIsMetrics
    <3>3. metrics' = [s \in DOMAIN metrics \cup DOMAIN m |->
                          IF s \in DOMAIN m THEN m[s] ELSE metrics[s]]
      BY <1>5, <3>1 DEF Revalidate
    <3> QED BY <1>0, <3>2, <3>3 DEF IsMetrics
  <2>3. pc \notin {"idle", "failed"} /\ pc' # "evaluate"
    BY <1>5 DEF Revalidate, Acquired
  <2> QED BY <1>0, <2>1, <2>2, <2>3, ResultStays DEF Discovered
<1>6. CASE Rank
  <2>1. PICK C : C = Candidates /\ CandidateSet(C)
    BY <1>0, CandidatesAreSound
  <2>2. RecallFrom(C) /\ evaluated = Nothing
    BY <1>0, <1>6, <2>1 DEF Rank
  <2>3. /\ universe' = {} /\ pending' = {} /\ metrics' = Nothing
        /\ CandidateSet(pool') /\ (pc' = "evaluate" => Cardinality(pool') > ActiveTop)
    BY <1>0, <2>1, <2>2, RecallKeeps
  <2>4. evaluated' = Nothing /\ UNCHANGED active
    BY <1>6, <2>2 DEF Rank
  <2>5. cached' = <<>> \/ cached'[1] = C
    BY <1>6, <2>1 DEF Rank
  <2> QED BY <1>0, <2>1, <2>3, <2>4, <2>5, NothingIsSound DEF Discovered, BestScoresAreActive
<1>7. CASE Evaluate
  <2>1. /\ pc = "evaluate" /\ active' = Active(pool, active)
        /\ pc' = "idle" /\ universe' = {} /\ pending' = {} /\ metrics' = Nothing
        /\ UNCHANGED <<cached, pool>>
    BY <1>7 DEF Evaluate, Return, Leave
  <2>2. PICK S : Best(S, pool) /\ Active(pool, active) = ByScore(S)
    BY <1>0, <2>1, ActiveIsBest
  <2>3. PICK a, b : a = ByScore(S) /\ b = ByScore(pool)
    OBVIOUS
  <2>4. /\ Len(a) = ActiveTop /\ ToSet(a) \subseteq pool
        /\ \A i \in 1 .. ActiveTop - 1 : a[i].score = b[i].score
    BY <1>0, <2>1, <2>2, <2>3, BestHasTopScores
  <2>5. active' = a /\ ByScore(pool)' = b /\ pool' = pool
    BY <2>1, <2>2, <2>3
  <2>6. BestScoresAreActive'
    BY <2>4, <2>5 DEF BestScoresAreActive
  <2>7. Len(active)' \in Nat
    BY <2>4, <2>5, OpportunityAssumption DEF ValidScalping
  <2> QED BY <1>0, <2>1, <2>6, <2>7, NothingIsSound DEF Discovered
<1>8. CASE EvaluationTimesOut
  <2>1. /\ universe' = {} /\ pending' = {} /\ metrics' = Nothing /\ pool' = {}
        /\ evaluated' = Nothing /\ pc' # "evaluate" /\ UNCHANGED <<cached, active>>
    BY <1>0, <1>8 DEF EvaluationTimesOut, Abort, Leave
  <2> QED BY <1>0, <2>1, NothingIsSound DEF Discovered, BestScoresAreActive
<1>9. CASE UNCHANGED vars
  <2>1. UNCHANGED <<pc, universe, metrics, pending, cached, pool, evaluated, active>>
    BY <1>9 DEF vars
  <2> QED BY <1>0, <2>1, ResultStays DEF Discovered
<1> QED BY <1>1, <1>2, <1>3, <1>4, <1>5, <1>6, <1>7, <1>8, <1>9 DEF Next

(* However many incumbents the hysteresis retains, over however many       *)
(* calls: the active set is full, of the pool of this call, and has its    *)
(* best scores in all places but the last (select).                        *)
THEOREM BestScoresAreActiveHolds == Spec => []BestScoresAreActive
<1>1. Discovered => BestScoresAreActive
  BY DEF Discovered
<1> QED BY <1>1, InitDiscovered, NextDiscovered, PTL DEF Spec
=============================================================================
