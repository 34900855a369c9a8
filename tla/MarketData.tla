------------------------------ MODULE MarketData ------------------------------
(***************************************************************************)
(* Candles on their way from the exchange to a row of indicators:          *)
(* BinanceMapper, ValidationEngine, SQLiteMarketStorage, IndicatorEngine.  *)
(*                                                                         *)
(* A frame has a number of rows, at most one defect in them, the candles   *)
(* that it tells of, and the row of indicators that an unlimited history   *)
(* would give.  A dataset is a function from timeframes to frames.         *)
(*                                                                         *)
(* The clock has two ticks in every candle; a candle is told by the exchange *)
(* when it opens, half way and when it is closed, and its values differ.   *)
(***************************************************************************)
EXTENDS MarketProfile

CONSTANT Window   \* the candles of an answer (the limit that is asked for)

ASSUME WindowAssumption == Window \in Nat \ {0}

Closed == 2

(* The candles in an answer: that which is open, and those before it.      *)
Candles(clock) ==
    LET open == clock \div 2
    IN  [bar \in {b \in 0 .. open : b > open - Window} |-> Clamp(clock - 2 * bar, 0, Closed)]

Defects == {"none", "nan", "infinite", "negative_volume", "high_below_low",
            "duplicate", "unsorted", "negative_price"}

(* What no frame of the mapper has: it sorts the rows, and looks at        *)
(* everything but the sign of the prices.                                  *)
MapperRefuses(frame) ==
    \/ frame.rows = 0
    \/ frame.defect \in Defects \ {"none", "unsorted", "negative_price"}

Mapped(frame) == IF frame.defect = "unsorted" THEN [frame EXCEPT !.defect = "none"] ELSE frame

(* MetadataRule and TimeframeRule in strict mode, for a symbol that is not *)
(* blank: there are timeframes, and none is empty.                         *)
DatasetValid(dataset) ==
    DOMAIN dataset # {} /\ \A tf \in DOMAIN dataset : dataset[tf].rows > 0

(* Mutant: INSERT OR IGNORE. *)
KeepOld(old, new) ==
    [bar \in DOMAIN old \cup DOMAIN new |-> IF bar \in DOMAIN old THEN old[bar] ELSE new[bar]]

(* INSERT OR REPLACE by (symbol, timeframe, timestamp).                    *)
Upsert(old, new) ==
    [bar \in DOMAIN old \cup DOMAIN new |-> IF bar \in DOMAIN new THEN new[bar] ELSE old[bar]]

(* save_dataset, in one transaction.                                       *)
Saved(stored, dataset) ==
    [tf \in DOMAIN stored |->
        IF tf \in DOMAIN dataset THEN Upsert(stored[tf], dataset[tf].candles) ELSE stored[tf]]

(* The engine looks at the sign as well, the calculator at all of it once  *)
(* more.                                                                   *)
EngineRefuses(frame) ==
    \/ frame.rows = 0
    \/ frame.defect \in {"nan", "infinite", "negative_volume", "duplicate", "unsorted",
                         "negative_price"}

CalculatorRefuses(frame) == frame.rows = 0 \/ frame.defect # "none"

IndicatorsRefuse(frame) == EngineRefuses(frame) \/ CalculatorRefuses(frame)

(* pandas_ta tells nothing of a series with fewer rows than it needs.      *)
Shortened(frame, row, needs) ==
    [column \in DOMAIN row |->
        IF column \in DOMAIN needs /\ frame.rows < needs[column] THEN NaN ELSE row[column]]

TrendIndicators(frame, row) ==
    Shortened(frame, row, [ema_9 |-> 9, ema_20 |-> 20, ema_50 |-> 50, ema_100 |-> 100,
                           ema_200 |-> 200, adx_14 |-> 28])

MomentumIndicators(frame, row) == Shortened(frame, row, [rsi_14 |-> 15, momentum |-> 6])

VolumeIndicators(frame, row) == Shortened(frame, row, [mfi_14 |-> 15])

(* Of the Donchian channel a short series has no columns.                  *)
VolatilityIndicators(frame, row) ==
    Shortened(frame, row, [atr |-> 15, dc_lower |-> 20, dc_upper |-> 20])

(* The columns that the engines read; what the engines do not read is left *)
(* out.                                                                    *)
WithIndicators(frame) ==
    VolatilityIndicators(frame,
        VolumeIndicators(frame, MomentumIndicators(frame, TrendIndicators(frame, frame.row))))
=============================================================================
