---------------------------- MODULE MarketAnalysis ----------------------------
(***************************************************************************)
(* From the last row of a market's indicators to an execution:             *)
(* AnalysisEngine, ScoreEngine, DecisionEngine, ExecutionPlanBuilder and   *)
(* ExecutionEngine over the paper adapter.  All of them are functions.     *)
(*                                                                         *)
(* A row is a record of the columns a frame has.  row.momentum is          *)
(* momentum_5 / close * 100, in twentieths of a percent.  A strength is    *)
(* counted in hundredths (round(strength, 2)), a score and a confidence in *)
(* thousandths.  Reasons, warnings and messages are left out, and with     *)
(* them the two RSI signals, which nothing but the report reads.           *)
(***************************************************************************)
EXTENDS Integers, FiniteSets, FiniteSetsExt

CONSTANT NaN   \* a value that pandas takes for missing, or an argument not given

ASSUME NaNAssumption == NaN \notin Int

IndicatorValue == Int \cup {NaN}

Clamp(x, low, high) == IF x < low THEN low ELSE IF x > high THEN high ELSE x

Magnitude(x) == IF x < 0 THEN -x ELSE x
-----------------------------------------------------------------------------
(* AnalysisEngine *)

RequiredIndicators == {"ema_9", "ema_20", "ema_50", "rsi_14", "adx_14", "momentum"}

(* The timeframes in which the analysis looks for its frame. *)
TimeframeOrder == <<"1h", "4h", "15m", "1d", "1m", "5m">>

(* Timeframes outside the order come last, in the order of the dataset.    *)
Primary(timeframes) ==
    LET known == {i \in DOMAIN TimeframeOrder :
                     \E j \in DOMAIN timeframes : timeframes[j] = TimeframeOrder[i]}
    IN  IF known = {} THEN timeframes[1]
        ELSE TimeframeOrder[CHOOSE i \in known : \A j \in known : i <= j]

MarketState(row) ==
    IF NaN \in {row.ema_9, row.ema_20, row.ema_50} THEN "NEUTRAL"
    ELSE IF row.ema_9 > row.ema_20 /\ row.ema_20 > row.ema_50 THEN "BULLISH"
    ELSE IF row.ema_9 < row.ema_20 /\ row.ema_20 < row.ema_50 THEN "BEARISH"
    ELSE "NEUTRAL"

Measured(row) ==
    {k \in {"rsi_14", "adx_14", "momentum"} :
        row[k] # NaN /\ (k = "momentum" => row.close > 0)}

PartOfStrength(row, k) ==
    IF k \notin Measured(row) THEN 0
    ELSE IF k = "rsi_14" THEN Clamp(2 * Magnitude(row.rsi_14 - 50), 0, 100)
    ELSE IF k = "adx_14" THEN Clamp(row.adx_14, 0, 100)
    ELSE Clamp(Magnitude(row.momentum), 0, 100)

Strength(row) ==
    IF Measured(row) = {} THEN 5000
    ELSE Clamp((100 * (PartOfStrength(row, "rsi_14") + PartOfStrength(row, "adx_14")
                          + PartOfStrength(row, "momentum")))
                   \div Cardinality(Measured(row)), 0, 10000)

Signals(row) ==
    LET state == MarketState(row)
    IN  {s \in {"EMA_ALIGNMENT_BULLISH"} : state = "BULLISH"}
        \cup {s \in {"EMA_ALIGNMENT_BEARISH"} : state = "BEARISH"}
        \cup (IF "adx_14" \notin Measured(row) THEN {}
              ELSE IF row.adx_14 > 25 THEN {"STRONG_TREND"} ELSE {"WEAK_TREND"})
        \cup {s \in {"MOMENTUM_POSITIVE"} : "momentum" \in Measured(row) /\ row.momentum > 0}
        \cup {s \in {"MOMENTUM_NEGATIVE"} : "momentum" \in Measured(row) /\ row.momentum < 0}

(* Without all the required columns the analysis is neutral.               *)
Analysis(row) ==
    IF RequiredIndicators \subseteq DOMAIN row
    THEN [state |-> MarketState(row), strength |-> Strength(row), signals |-> Signals(row)]
    ELSE [state |-> "NEUTRAL", strength |-> 0, signals |-> {"LOW_CONFIDENCE_DATA"}]
-----------------------------------------------------------------------------
(* ScoreEngine *)

PositiveSignals == {"EMA_ALIGNMENT_BULLISH", "MOMENTUM_POSITIVE", "STRONG_TREND"}

NegativeSignals == {"EMA_ALIGNMENT_BEARISH", "MOMENTUM_NEGATIVE", "WEAK_TREND"}

(* A full state, a strength from 0 to 100 centred around 50, and ten for   *)
(* each signal, before they are weighed.                                   *)
StateScore(state) ==
    IF state = "BULLISH" THEN 30000 ELSE IF state = "BEARISH" THEN -30000 ELSE 0

StrengthScore(state, strength) ==
    LET centered == 20 * Clamp(strength, 0, 10000) - 100000
    IN  IF state = "BEARISH" THEN -Magnitude(centered) ELSE centered

SignalScore(signals) ==
    10000 * (Cardinality(signals \cap PositiveSignals)
                - Cardinality(signals \cap NegativeSignals))

(* Mutant: the weight of the state is forgotten. *)
ScoreUnweighted(a) ==
    Clamp((100 * StateScore(a.state) + 40 * StrengthScore(a.state, a.strength)
              + 10 * SignalScore(a.signals)) \div 100, -100000, 100000)

Score(a) ==
    Clamp((50 * StateScore(a.state) + 40 * StrengthScore(a.state, a.strength)
              + 10 * SignalScore(a.signals)) \div 100, -100000, 100000)

Category(score) ==
    IF score >= 60000 THEN "STRONG_BULLISH"
    ELSE IF score >= 20000 THEN "BULLISH"
    ELSE IF score <= -60000 THEN "STRONG_BEARISH"
    ELSE IF score <= -20000 THEN "BEARISH" ELSE "NEUTRAL"
-----------------------------------------------------------------------------
(* DecisionEngine and ExecutionPlanBuilder *)

Decision(a) ==
    IF Category(Score(a)) = "STRONG_BULLISH" /\ a.state = "BULLISH" THEN "FAVORABLE"
    ELSE IF Category(Score(a)) = "STRONG_BEARISH" /\ a.state = "BEARISH" THEN "UNFAVORABLE"
    ELSE "WAIT"

SideOf(decision) ==
    CASE decision = "FAVORABLE"   -> "BUY"
      [] decision = "UNFAVORABLE" -> "SELL"
      [] decision = "WAIT"        -> "HOLD"

(* close is that of the first frame of the dataset, which need not be the  *)
(* frame the analysis has looked at.                                       *)
Plan(a, close) ==
    [decision |-> Decision(a), side |-> SideOf(Decision(a)), price |-> close,
     quantity |-> IF SideOf(Decision(a)) = "HOLD" THEN 0 ELSE 1,
     confidence |-> Magnitude(Score(a))]
-----------------------------------------------------------------------------
(* ExecutionEngine *)

PlanSound(plan) ==
    /\ plan.confidence \in 0 .. 100000
    /\ SideOf(plan.decision) = plan.side
    /\ IF plan.side \in {"BUY", "SELL"}
       THEN plan.price > 0 /\ plan.quantity > 0
       ELSE plan.quantity = 0

(* The status of the result; a quantity that is given takes the place of   *)
(* the plan's, and is looked at before the side.                           *)
Execution(plan, quantity) ==
    IF ~PlanSound(plan) \/ (quantity # NaN /\ quantity <= 0) THEN "FAILED"
    ELSE IF plan.side = "HOLD" THEN "SKIPPED" ELSE "EXECUTED"
=============================================================================
