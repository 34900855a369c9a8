----------------------------- MODULE Opportunity -----------------------------
(***************************************************************************)
(* The functions of the D1 discovery: what BinanceSpotOpportunitySource    *)
(* makes of the exchange's answers, the recall, the entry decision of      *)
(* ScalpingDecisionEngine and the active set of                            *)
(* ScalpingCandidatePoolManager.                                           *)
(*                                                                         *)
(* Qualities, components and the directions of a chart count hundredths;   *)
(* what is weighed of them, scores, timing and the directional evidence,   *)
(* counts ten-thousandths, so that a score of 100 percent is 10000; a      *)
(* volatility counts ten-thousandths, too.  A                              *)
(* ticker is "none", "low" (below the minimum volume) or "good"; a book is *)
(* "none", "wide" or "tight", where one without a spread counts as none.   *)
(* What indicators make of prices is left out: qualities are given.        *)
(***************************************************************************)
EXTENDS Integers, SequencesExt, FiniteSetsExt

CONSTANTS ActiveDelta,  \* ScalpingConfig.hysteresis_score_delta
          ActiveTop,    \* active_top_n
          BroadTop,     \* broad_pool_top_n
          CompositeTop, \* FastRecall.composite_top_n
          LaneTop,      \* FastRecall.lane_top_n
          Names         \* the symbols, in the order of their names

Symbols == ToSet(Names)

(* What the constructors of ScalpingConfig and FastRecall refuse otherwise *)
ValidScalping == /\ ActiveDelta \in Nat
                 /\ ActiveTop \in Nat \ {0}
                 /\ BroadTop \in Nat /\ BroadTop > ActiveTop

ValidRecall == {CompositeTop, LaneTop} \subseteq Nat \ {0}

(* OpportunityConfig: the bounds of eligibility and the weights            *)
MinVolatility == 10
MaxVolatility == 2000
TargetVolatility == 300

Weight == [volume |-> 20, liquidity |-> 15, volatility |-> 15, trend |-> 25,
           momentum |-> 15, structure |-> 10]

ValidDiscovery ==
    /\ 0 <= MinVolatility /\ MinVolatility <= TargetVolatility
    /\ TargetVolatility <= MaxVolatility
    /\ \A w \in DOMAIN Weight : Weight[w] >= 0
    /\ FoldFunction(+, 0, Weight) = 100

ASSUME OpportunityAssumption ==
    /\ ValidScalping /\ ValidRecall /\ ValidDiscovery
    /\ Names \in Seq(Symbols) /\ IsInjective(Names)
-----------------------------------------------------------------------------
(* BinanceSpotOpportunitySource and the provider of candles                *)

MaxAttempts == 4   \* RETRY_MAX_ATTEMPTS

(* A request is retried while it fails by time, transport or load.         *)
Request(attempts) ==
    LET last == Min({i \in 1 .. MaxAttempts :
                        i = MaxAttempts \/ attempts[i] \in {"ok", "fatal"}})
    IN  CASE attempts[last] = "ok"      -> "ok"
          [] attempts[last] = "timeout" -> "timeout"
          [] OTHER                      -> "raises"

(* What may come of a request.                                             *)
Requests == {Request(a) : a \in [1 .. MaxAttempts -> {"ok", "timeout", "busy", "fatal"}]}

Failures == Requests \ {"ok"}

(* _fetch_history: a history that is too short is asked for once more; one *)
(* that is malformed, or a request that fails, is not.                     *)
History(first, second) ==
    LET final == IF first = "short" THEN second ELSE first
    IN  IF final \in {"short", "malformed"} THEN "raises" ELSE final

Histories ==
    LET answers == {"full", "enough", "short", "malformed"} \cup Failures
    IN  {History(a, b) : a, b \in answers}

NeedsHistory(row) == row.ticker = "none" \/ (row.ticker = "good" /\ row.book # "wide")

(* A metric can be made of the ticker alone, or of the ticker and history. *)
Measurable(row) == row.ticker # "none" /\ (NeedsHistory(row) => row.history \notin Failures)

(* What is measured of a symbol.                                           *)
Qualities == [{"volume", "spread", "volatility", "trend", "persistence", "momentum",
               "structure", "change"} -> Int]

(* OpportunityScorer: the components of the quality q of a metric and the  *)
(* weights of OpportunityConfig.                                           *)
Liquidity(book, q) ==
    IF book = "none" THEN 50 ELSE IF q.spread > 50 THEN 0 ELSE 100 - 2 * q.spread

VolatilityRegime(q) ==
    LET distance == IF q.volatility > TargetVolatility THEN q.volatility - TargetVolatility
                    ELSE TargetVolatility - q.volatility
        widest   == MaxVolatility - TargetVolatility
    IN  IF distance > widest THEN 0 ELSE 100 - (100 * distance) \div widest

TrendQuality(q) == (70 * q.trend + 30 * q.persistence) \div 100

Score(book, q) ==
    Weight.volume * q.volume + Weight.liquidity * Liquidity(book, q)
        + Weight.volatility * VolatilityRegime(q) + Weight.trend * TrendQuality(q)
        + Weight.momentum * q.momentum + Weight.structure * q.structure

(* MarketEligibilityFilter, on what a measured metric may lack: a metric   *)
(* that is made without history has no volatility, and any other has the   *)
(* volume and the spread that called for a history.                        *)
Eligible(row) == NeedsHistory(row) /\ row.quality.volatility \in MinVolatility .. MaxVolatility

MetricOf(row) ==
    [score |-> Score(row.book, row.quality), quality |-> row.quality,
     whole |-> NeedsHistory(row) /\ row.history = "full", eligible |-> Eligible(row)]
-----------------------------------------------------------------------------
(* The order of candidates, each [symbol, score, quality], and FastRecall  *)

Position(s) == CHOOSE i \in DOMAIN Names : Names[i] = s

Before(s, t) == Position(s) < Position(t)

Ahead(c, d, value) ==
    value[c] > value[d] \/ (value[c] = value[d] /\ Before(c.symbol, d.symbol))

(* By the value of a candidate, the greatest first: its place is behind    *)
(* all that are ahead of it.                                               *)
Ordered(candidates, value) ==
    LET place == [c \in candidates |-> Cardinality({d \in candidates : Ahead(d, c, value)}) + 1]
    IN  [i \in 1 .. Cardinality(candidates) |-> CHOOSE c \in candidates : place[c] = i]

ByScore(candidates) == Ordered(candidates, [c \in candidates |-> c.score])

First(n, s) == SubSeq(s, 1, IF n < Len(s) THEN n ELSE Len(s))

(* The best by score, and the best of four other lanes.                    *)
HighMover(c) == IF c.quality.change < 0 THEN -c.quality.change ELSE c.quality.change

Acceleration(c) == c.quality.momentum * c.quality.momentum

Lane(candidates, value) == First(LaneTop, Ordered(candidates, value))

Recall(candidates) ==
    LET lanes == {First(CompositeTop, ByScore(candidates)),
                  Lane(candidates, [c \in candidates |-> HighMover(c)]),
                  Lane(candidates, [c \in candidates |-> Acceleration(c)]),
                  Lane(candidates, [c \in candidates |-> c.quality.volume]),
                  Lane(candidates, [c \in candidates |-> c.quality.structure])}
    IN  First(BroadTop, ByScore(UNION {ToSet(lane) : lane \in lanes}))
-----------------------------------------------------------------------------
(* ScalpingEvidenceEngine.  A chart c has the evidence of four timeframes, *)
(* each [regime, trend, trendTo, momentum, momentumTo, acceleration,       *)
(* volume, range, structure], where -To is a direction.                    *)

ValidChart(c) ==
    /\ c.exact \in BOOLEAN
    /\ \A f \in {c.d1, c.h4, c.h1, c.m15} :
          f \in [{"regime", "trend", "trendTo", "momentum", "momentumTo", "acceleration",
                  "volume", "range", "structure"} -> Int]

Breakout(c) == c.m15.volume >= 50 /\ c.m15.range >= 50 /\ c.h1.acceleration >= 40

Pullback(c) ==
    c.h1.trend >= 45 /\ c.m15.momentum >= 30 /\ c.m15.structure >= 45 /\ c.m15.acceleration >= 25

Trend(c) ==
    \/ c.h4.trend >= 45 /\ c.h1.trend >= 45 /\ c.h1.momentum >= 35
    \/ c.d1.regime >= 40 /\ c.h1.trend >= 35

Class(c) ==
    IF Breakout(c) THEN "BREAKOUT_ACCELERATION"
    ELSE IF Pullback(c) THEN "PULLBACK_CONTINUATION"
    ELSE IF Trend(c) THEN "TREND_CONTINUATION" ELSE "UNCLASSIFIED"

Direction(c) ==
    25 * c.h4.trendTo + 30 * c.h1.trendTo + 30 * c.h1.momentumTo + 15 * c.m15.momentumTo

ClassScore(c) ==
    LET up == (8 * Max({0, Direction(c)})) \div 100
    IN  CASE Class(c) = "BREAKOUT_ACCELERATION" ->
                 25 * c.m15.range + 25 * c.m15.volume + 22 * c.h1.acceleration
                     + 12 * c.h1.momentum + 8 * c.m15.structure + up
          [] Class(c) = "TREND_CONTINUATION" ->
                 30 * c.h4.trend + 28 * c.h1.trend + 18 * c.h1.momentum
                     + 10 * c.h1.acceleration + 6 * c.d1.regime + up
          [] Class(c) = "PULLBACK_CONTINUATION" ->
                 24 * c.h4.trend + 24 * c.h1.trend + 20 * c.m15.structure
                     + 14 * c.m15.momentum + 10 * c.m15.acceleration + up
          [] OTHER -> 0

Timing(c) ==
    35 * c.m15.momentum + 25 * c.m15.acceleration + 20 * c.m15.volume + 20 * c.m15.range

(* The target is two risks away, so that the ratio is two but for its      *)
(* rounding, c.exact; without a direction there is none.                   *)
Ratio(c) == IF Direction(c) = 0 THEN 0 ELSE IF c.exact THEN 200 ELSE 199

Evidence(c) ==
    [class |-> Class(c), score |-> ClassScore(c), timing |-> Timing(c),
     direction |-> Direction(c), ratio |-> Ratio(c)]

(* Candles that are missing or too few.                                    *)
NoEvidence ==
    [class |-> "UNCLASSIFIED", score |-> 0, timing |-> 0, direction |-> 0, ratio |-> 0]
-----------------------------------------------------------------------------
(* ScalpingDecisionEngine.decide, as the pipeline calls it: for an         *)
(* eligible candidate, without capital, pause or active symbols.           *)

LongMin == 1500   \* directional_long_min

(* A direction of exactly minus LongMin is neither a conflict nor          *)
(* insufficient.                                                           *)
Rejections(e) ==
    (IF e.direction < -LongMin THEN {"DIRECTIONAL_CONFLICT"} ELSE {})
        \cup (IF -LongMin < e.direction /\ e.direction < LongMin
              THEN {"DIRECTIONAL_INSUFFICIENT"} ELSE {})
        \cup (IF e.ratio < 150 THEN {"RISK"} ELSE {})

Actionable(e) == Rejections(e) \subseteq {"RISK"}

Band(e) ==
    LET allowed == Rejections(e) = {}
    IN  IF e.score >= 8000 /\ e.timing >= 7500 /\ e.ratio >= 200 /\ allowed THEN "A+"
        ELSE IF e.score >= 7000 /\ e.timing >= 6000 /\ allowed THEN "A"
        ELSE IF e.score >= 6500 /\ Actionable(e) THEN "B"
        ELSE IF Actionable(e) /\ ~allowed THEN "D" ELSE "C"

(* Without evidence decide says D; a band without entry takes the          *)
(* permission back, which the trace does for C and D a second time.        *)
Decide(e) ==
    IF e = NoEvidence THEN [state |-> "D", allowed |-> FALSE]
    ELSE [state   |-> IF e.class = "UNCLASSIFIED" THEN "C" ELSE Band(e),
          allowed |-> Rejections(e) = {} /\ Band(e) \notin {"B", "C", "D"}
                                         /\ e.class # "UNCLASSIFIED"]

(* _rebuild: the candidate again, with another entry.                      *)
Rebuild(entry, state) == [entry EXCEPT !.state = state, !.allowed = FALSE]

(* The evidence is classified once more, and as before: decide has used    *)
(* the same; where there is none the class stays as it is.                 *)
Reclassified(e) == IF e = NoEvidence THEN "UNCLASSIFIED" ELSE e.class

Integrity(e, entry) ==
    LET sound == IF entry.state \in {"C", "D"} /\ entry.allowed
                 THEN Rebuild(entry, entry.state) ELSE entry
    IN  IF e.class = "UNCLASSIFIED" /\ Reclassified(e) = "UNCLASSIFIED"
        THEN Rebuild(sound, "C") ELSE sound

(* Mutant: the bands without entry do not take the permission back.        *)
EntryInAnyBand(e) == [state |-> Band(e), allowed |-> Rejections(e) = {}]

(* _evaluate_candidate                                                     *)
Entry(e) == Integrity(e, Decide(e))
-----------------------------------------------------------------------------
(* ScalpingCandidatePoolManager.select.  previous is the active set of the *)
(* last selection, in its order.                                           *)

Worst(selected) == CHOOSE c \in selected : \A d \in selected \ {c} :
    c.score < d.score \/ (c.score = d.score /\ Before(c.symbol, d.symbol))

(* An incumbent whose score has not fallen much takes the place of the     *)
(* worst that is selected by now, when it is not much worse than that.     *)
Retain(selected, incumbent, pool) ==
    LET now == {c \in pool : c.symbol = incumbent.symbol}
    IN  IF \E c \in now : /\ c \notin selected
                          /\ c.score >= incumbent.score - ActiveDelta
                          /\ c.score >= Worst(selected).score - ActiveDelta
        THEN (selected \ {Worst(selected)}) \cup now ELSE selected

(* Mutant: an incumbent never takes the place of another incumbent.        *)
ActiveWithAllIncumbents(pool, previous) ==
    LET first == ToSet(First(ActiveTop, ByScore(pool)))
        kept  == {c \in pool : \E p \in ToSet(previous) :
                     p.symbol = c.symbol /\ c.score >= p.score - ActiveDelta
                                         /\ c.score >= Worst(first).score - ActiveDelta}
    IN  ByScore(kept \cup ToSet(First(ActiveTop - Cardinality(kept), ByScore(first \ kept))))

Active(pool, previous) ==
    LET selected[n \in 0 .. Len(previous)] ==
            IF n = 0 THEN ToSet(First(ActiveTop, ByScore(pool)))
            ELSE Retain(selected[n - 1], previous[n], pool)
    IN  ByScore(selected[Len(previous)])
=============================================================================
