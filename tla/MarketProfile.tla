---------------------------- MODULE MarketProfile ----------------------------
(***************************************************************************)
(* ProfileBuilder (the characteristics of one timeframe), ProfileEngine    *)
(* (the profile of a symbol, merged over its timeframes) and               *)
(* ProfileIntelligence (a recommendation that fails closed).               *)
(*                                                                         *)
(* row.slope is the change of ema_20 over five rows, row.macd is macd less *)
(* its signal, row.atr is ATR / close in hundredths of a percent.  Scores  *)
(* and confidences are counted in hundredths of a percent.  A column that  *)
(* is None is NaN here; only ema_200 needs to be told apart, because it is *)
(* None for every history that is too short.  Distances, liquidity, dates  *)
(* and messages are left out.                                              *)
(***************************************************************************)
EXTENDS MarketAnalysis, SequencesExt

(* The columns that ProfileBuilder reads.                                  *)
ProfiledIndicators ==
    {"ema_20", "ema_50", "ema_100", "ema_200", "slope", "rsi_14", "adx_14", "macd", "mfi_14",
     "atr", "swing_low", "dc_lower", "swing_high", "dc_upper"}

Above(x, bound) == x # NaN /\ x > bound

Below(x, bound) == x # NaN /\ x < bound
-----------------------------------------------------------------------------
(* ProfileBuilder *)

(* close, ema_20, ema_50, ema_100, ema_200 in falling or rising order.     *)
Falls(s) == \A i \in 1 .. Len(s) - 1 : s[i] > s[i + 1]

Rises(s) == \A i \in 1 .. Len(s) - 1 : s[i] < s[i + 1]

Averages(row) == <<row.close, row.ema_20, row.ema_50, row.ema_100, row.ema_200>>

BullishAlignment(row) == Falls(Averages(row)) /\ row.slope > 0

BearishAlignment(row) == Rises(Averages(row)) /\ row.slope < 0

Trend(row) ==
    IF BullishAlignment(row) THEN "Bullish"
    ELSE IF BearishAlignment(row) THEN "Bearish" ELSE "Sideways"

(* The distance of ema_20 from ema_50 is more than that many percent.      *)
Apart(row, percent) ==
    row.close > 0 /\ 100 * Magnitude(row.ema_20 - row.ema_50) > percent * row.close

TrendStrength(row) ==
    IF Above(row.adx_14, 40) /\ Apart(row, 2) THEN "Very Strong"
    ELSE IF Above(row.adx_14, 25) /\ Apart(row, 1) THEN "Strong"
    ELSE IF Above(row.adx_14, 15) THEN "Medium" ELSE "Weak"

Phase(row) ==
    CASE Trend(row) = "Bullish"  -> IF Above(row.adx_14, 25) THEN "Markup" ELSE "Accumulation"
      [] Trend(row) = "Bearish"  -> IF Above(row.adx_14, 25) THEN "Markdown" ELSE "Distribution"
      [] Trend(row) = "Sideways" -> "Range"

(* Without a positive close ATR counts as nothing.                         *)
AtrPercent(row) == IF row.close > 0 THEN row.atr ELSE 0

VolatilityLevel(row) ==
    IF AtrPercent(row) > 300 THEN "Extreme"
    ELSE IF AtrPercent(row) > 150 THEN "High"
    ELSE IF AtrPercent(row) > 50 THEN "Normal" ELSE "Low"

Momentum(row) ==
    IF Above(row.rsi_14, 70) /\ row.macd > 0 THEN "Strong Buy"
    ELSE IF Above(row.rsi_14, 55) /\ row.macd >= 0 THEN "Buy"
    ELSE IF Below(row.rsi_14, 30) /\ row.macd < 0 THEN "Strong Sell"
    ELSE IF Below(row.rsi_14, 45) /\ row.macd <= 0 THEN "Sell" ELSE "Neutral"

VolumeStrength(row) ==
    IF Above(row.mfi_14, 70) \/ Below(row.mfi_14, 30) THEN "Strong"
    ELSE IF Above(row.mfi_14, 50) THEN "Normal" ELSE "Weak"

MomentumConflict(row) == Above(row.rsi_14, 80) \/ Below(row.rsi_14, 20)

Risk(row) ==
    IF AtrPercent(row) > 300 \/ MomentumConflict(row) THEN "Extreme"
    ELSE IF AtrPercent(row) > 150 \/ Apart(row, 5) THEN "High"
    ELSE IF AtrPercent(row) < 50 THEN "Low" ELSE "Medium"

(* The lowest low and the highest high of twenty rows, or of the channel.  *)
Support(row) == Min({row.swing_low, row.dc_lower})

Resistance(row) == Max({row.swing_high, row.dc_upper})

PriceLocation(row) ==
    LET range  == Resistance(row) - Support(row)
        height == row.close - Support(row)
    IN  IF range > 0 /\ 10 * height > 8 * range THEN "Near Resistance"
        ELSE IF range > 0 /\ 10 * height < 2 * range THEN "Near Support" ELSE "Middle"

EmaAlignment(row) ==
    LET averages == <<row.close, row.ema_20, row.ema_50, row.ema_200>>
    IN  IF Falls(averages) THEN "Bullish" ELSE IF Rises(averages) THEN "Bearish" ELSE "None"

TrendScore(row) == IF BullishAlignment(row) \/ BearishAlignment(row) THEN 7500 ELSE 4000

Agreement(row) == IF BullishAlignment(row) \/ BearishAlignment(row) THEN 10000 ELSE 5000

MomentumScore(row) == Clamp(100 * row.rsi_14, 0, 10000)

VolumeScore(row) == Clamp(100 * row.mfi_14, 0, 10000)

VolatilityScore(row) == Clamp(25 * AtrPercent(row), 0, 10000)

(* Without RSI or MFI there is no confidence; np.clip keeps a NaN.         *)
Confidence(row) ==
    IF NaN \in {row.rsi_14, row.mfi_14} THEN NaN
    ELSE Clamp((30 * TrendScore(row) + 25 * MomentumScore(row) + 20 * VolumeScore(row)
                + 15 * (10000 - VolatilityScore(row)) + 10 * Agreement(row)) \div 100, 0, 10000)

Characteristics(row) ==
    [trend |-> Trend(row), strength |-> TrendStrength(row), phase |-> Phase(row),
     volatility |-> VolatilityLevel(row), momentum |-> Momentum(row),
     volume |-> VolumeStrength(row), risk |-> Risk(row), location |-> PriceLocation(row),
     alignment |-> EmaAlignment(row), confidence |-> Confidence(row)]
-----------------------------------------------------------------------------
(* ProfileEngine.  A profile is built from the rows of the timeframes, in  *)
(* the order of the dataset.                                               *)

(* float(None): the builder fails, and the timeframe blocks the profile.   *)
Readable(row) == row.ema_200 # NaN

Weight(timeframe) ==
    CASE timeframe = "1d" -> 40
      [] timeframe = "4h" -> 35
      [] OTHER -> 25

(* Counter.most_common(1): the first of those that occur most often.       *)
Dominant(values) ==
    LET count(i) == Cardinality({j \in DOMAIN values : values[j] = values[i]})
        best == {i \in DOMAIN values : \A j \in DOMAIN values : count(i) >= count(j)}
    IN  values[CHOOSE i \in best : \A j \in best : i <= j]

MergedAlignment(values) ==
    IF \E side \in {"Bullish", "Bearish"} : \A i \in DOMAIN values : values[i] = side
    THEN values[1] ELSE "None"

WeightedMean(weights, values) ==
    IF \E i \in DOMAIN values : values[i] = NaN THEN NaN
    ELSE SumFunction([i \in DOMAIN values |-> weights[i] * values[i]]) \div SumFunction(weights)

(* tfs names the timeframe of each of the characteristics cs.              *)
Merged(tfs, cs) ==
    LET all(field) == [i \in DOMAIN cs |-> cs[i][field]]
    IN  [field \in DOMAIN cs[1] |->
            CASE field = "confidence" ->
                   WeightedMean([i \in DOMAIN tfs |-> Weight(tfs[i])], all(field))
              [] field = "alignment" -> MergedAlignment(all(field))
              [] OTHER -> Dominant(all(field))]

(* min() over the timeframes; a NaN makes it NaN or not, by its place.     *)
Least(values) ==
    IF values[1] = NaN THEN NaN ELSE Min({values[i] : i \in DOMAIN values} \ {NaN})

(* (SubSeq has TLC build the sequence once.)                               *)
AllCharacteristics(rows) ==
    SubSeq([i \in DOMAIN rows |-> Characteristics(rows[i])], 1, Len(rows))

Profile(tfs, rows) ==
    LET cs == AllCharacteristics(rows)
        market == Merged(tfs, cs)
    IN  IF \E i \in DOMAIN rows : ~Readable(rows[i])
        THEN [tradeable |-> FALSE]
        ELSE [tradeable |-> Above(market.confidence, 0),
              market |-> market, timeframes |-> cs,
              limit |-> Least([i \in DOMAIN cs |-> cs[i].confidence])]
-----------------------------------------------------------------------------
(* ProfileIntelligence *)

Blocked == [recommendation |-> "Blocked", confidence |-> 0]

(* The confidence of a recommendation: nobody's is lower.                  *)
SafeConfidence(profile) ==
    LET values == {profile.market.confidence, profile.limit}
                      \cup {profile.timeframes[i].confidence : i \in DOMAIN profile.timeframes}
    IN  IF NaN \in values THEN 0 ELSE Clamp(Min(values), 0, 10000)

Directional(profile, recommendation) ==
    IF SafeConfidence(profile) <= 0 THEN Blocked
    ELSE [recommendation |-> recommendation, confidence |-> SafeConfidence(profile)]

(* What the engine has built is well formed; what is left of               *)
(* _validate_profile is whether it is tradeable and finite.                *)
ProfileValid(profile) ==
    /\ profile.tradeable
    /\ NaN \notin {profile.market.confidence, profile.limit}
    /\ \A i \in DOMAIN profile.timeframes : profile.timeframes[i].confidence # NaN

(* Mutant: only the dominant risk counts. *)
IntelligenceOfTheMarket(profile) ==
    IF ~ProfileValid(profile) THEN Blocked
    ELSE IF profile.market.risk = "Extreme"
    THEN [recommendation |-> "Neutral", confidence |-> 0]
    ELSE IF profile.market.trend = "Bullish" /\ profile.market.momentum \in {"Strong Buy", "Buy"}
    THEN Directional(profile, "Bullish")
    ELSE IF profile.market.trend = "Bearish" /\ profile.market.momentum \in {"Strong Sell", "Sell"}
    THEN Directional(profile, "Bearish")
    ELSE [recommendation |-> "Neutral", confidence |-> SafeConfidence(profile)]

Intelligence(profile) ==
    IF ~ProfileValid(profile) THEN Blocked
    ELSE IF \/ profile.market.risk = "Extreme"
            \/ \E i \in DOMAIN profile.timeframes : profile.timeframes[i].risk = "Extreme"
    THEN [recommendation |-> "Neutral", confidence |-> 0]
    ELSE IF profile.market.trend = "Bullish" /\ profile.market.momentum \in {"Strong Buy", "Buy"}
    THEN Directional(profile, "Bullish")
    ELSE IF profile.market.trend = "Bearish" /\ profile.market.momentum \in {"Strong Sell", "Sell"}
    THEN Directional(profile, "Bearish")
    ELSE [recommendation |-> "Neutral", confidence |-> SafeConfidence(profile)]
=============================================================================
