------------------------------ MODULE ScanProofs ------------------------------
(***************************************************************************)
(* For any symbols, timeframes, rows of indicators, answers and batches: a *)
(* scan never trades, the result that is handed out with a symbol is that  *)
(* of its own run, the table of candles has what was saved last, and no    *)
(* direction is recommended that some timeframe does not back.             *)
(*                                                                         *)
(* The argument for the first: a score stays within 58000 (Bounded), so a  *)
(* plan always holds; Planned carries the rows of a symbol from their      *)
(* download to the execution.  For the second: an execution follows the    *)
(* result FINISHED of the same symbol, and between two calls no symbol is  *)
(* in work (Ran).  For the third: what waits to be saved was told after    *)
(* what is in the table, and ends with the candle that was open (Timely).  *)
(* For the fourth: a direction takes a valid profile, which reads every    *)
(* timeframe, has no extreme risk and is cut to the least confidence       *)
(* (DirectionIsBacked); a row that can be read has a long enough history   *)
(* (ReadableIsLong); and the frames of the result are those that the       *)
(* profile was built from (Cautious).                                      *)
(***************************************************************************)
EXTENDS ScanPipeline, FiniteSums, SequenceTheorems

(* The score *)

States == {"BULLISH", "BEARISH", "NEUTRAL"}

SoundRow(row) ==
    /\ row \in [DOMAIN row -> IndicatorValue]
    /\ RequiredIndicators \cup {"close"} \subseteq DOMAIN row
    /\ row.close \in Int

SoundAnalysis(a) == a.state \in States /\ a.strength \in Int

LEMMA ClampInt ==
    ASSUME NEW x \in Int, NEW low \in Int, NEW high \in Int, low <= high
    PROVE  /\ Clamp(x, low, high) \in Int
           /\ low <= Clamp(x, low, high) /\ Clamp(x, low, high) <= high
BY DEF Clamp

LEMMA AtMostThree ==
    ASSUME NEW a, NEW b, NEW c, NEW S
    PROVE  Cardinality(S \cap {a, b, c}) \in 0 .. 3
<1>1. IsFiniteSet({a}) /\ Cardinality({a}) = 1
  BY FS_Singleton
<1>2. IsFiniteSet({a} \cup {b}) /\ Cardinality({a} \cup {b}) <= 2
  BY <1>1, FS_AddElement
<1>3. Cardinality({a} \cup {b}) \in Nat
  BY <1>2, FS_CardinalityType
<1>4. IsFiniteSet(({a} \cup {b}) \cup {c}) /\ Cardinality(({a} \cup {b}) \cup {c}) <= 3
  BY <1>2, <1>3, FS_AddElement
<1>5. S \cap {a, b, c} \subseteq ({a} \cup {b}) \cup {c}
  OBVIOUS
<1>6. IsFiniteSet(S \cap {a, b, c})
      /\ Cardinality(S \cap {a, b, c}) <= Cardinality(({a} \cup {b}) \cup {c})
  BY <1>4, <1>5, FS_Subset
<1>7. Cardinality(S \cap {a, b, c}) \in Nat /\ Cardinality(({a} \cup {b}) \cup {c}) \in Nat
  BY <1>4, <1>6, FS_CardinalityType
<1> QED BY <1>4, <1>6, <1>7

LEMMA Bounded ==
    ASSUME NEW a, SoundAnalysis(a)
    PROVE  Score(a) \in Int /\ -58000 <= Score(a) /\ Score(a) <= 58000
<1> DEFINE state == StateScore(a.state)
           strength == StrengthScore(a.state, a.strength)
           signals == SignalScore(a.signals)
<1>1. state \in Int /\ -30000 <= state /\ state <= 30000
  BY SMT DEF SoundAnalysis, States, StateScore
<1>2. strength \in Int /\ -100000 <= strength /\ strength <= 100000
  <2>1. Clamp(a.strength, 0, 10000) \in Int /\ 0 <= Clamp(a.strength, 0, 10000)
        /\ Clamp(a.strength, 0, 10000) <= 10000
    BY SMT DEF Clamp, SoundAnalysis
  <2> QED BY <2>1, SMT DEF StrengthScore, Magnitude
<1>3. signals \in Int /\ -30000 <= signals /\ signals <= 30000
  <2>1. Cardinality(a.signals \cap PositiveSignals) \in 0 .. 3
    BY AtMostThree DEF PositiveSignals
  <2>2. Cardinality(a.signals \cap NegativeSignals) \in 0 .. 3
    BY AtMostThree DEF NegativeSignals
  <2> QED BY <2>1, <2>2, SMT DEF SignalScore
<1>4. Score(a) = Clamp((50 * state + 40 * strength + 10 * signals) \div 100, -100000, 100000)
  BY SMT DEF Score
<1> HIDE DEF state, strength, signals
<1>5. PICK sum : sum = 50 * state + 40 * strength + 10 * signals
  OBVIOUS
<1>6. sum \in Int /\ -5800000 <= sum /\ sum <= 5800000
  BY <1>1, <1>2, <1>3, <1>5, SMT
<1>7. sum \div 100 \in Int /\ -58000 <= sum \div 100 /\ sum \div 100 <= 58000
  BY <1>6, SMT
<1>8. Score(a) = Clamp(sum \div 100, -100000, 100000)
  BY <1>4, <1>5, SMT
<1> QED BY <1>7, <1>8, SMT DEF Clamp

LEMMA AlwaysHold ==
    ASSUME NEW a, SoundAnalysis(a), NEW close
    PROVE  Plan(a, close).side = "HOLD"
<1>1. Category(Score(a)) \notin {"STRONG_BULLISH", "STRONG_BEARISH"}
  BY Bounded, SMT DEF Category
<1>2. Decision(a) = "WAIT"
  BY <1>1 DEF Decision
<1> QED BY <1>2, Zenon DEF Plan, SideOf

LEMMA RowIsAnalyzed ==
    ASSUME NEW row, SoundRow(row)
    PROVE  SoundAnalysis(Analysis(row))
<1>1. MarketState(row) \in States
  BY DEF MarketState, States
<1>2. \A k \in {"rsi_14", "adx_14", "momentum"} : k \in Measured(row) => row[k] \in Int
  BY DEF SoundRow, Measured, RequiredIndicators, IndicatorValue
<1>3. ASSUME NEW k \in {"rsi_14", "adx_14", "momentum"}
      PROVE  PartOfStrength(row, k) \in Int
  <2>1. CASE k \notin Measured(row)
    BY <2>1 DEF PartOfStrength
  <2>2. CASE k \in Measured(row)
    <3>1. row[k] \in Int
      BY <1>2, <2>2
    <3>2. 2 * Magnitude(row[k] - 50) \in Int /\ Magnitude(row[k]) \in Int
      BY <3>1 DEF Magnitude
    <3>3. \A x \in Int : Clamp(x, 0, 100) \in Int
      BY ClampInt
    <3> QED BY <2>2, <3>1, <3>2, <3>3 DEF PartOfStrength
  <2> QED BY <2>1, <2>2
<1>4. Strength(row) \in Int
  <2> DEFINE n == Cardinality(Measured(row))
             sum == 100 * (PartOfStrength(row, "rsi_14") + PartOfStrength(row, "adx_14")
                              + PartOfStrength(row, "momentum"))
  <2>1. CASE Measured(row) = {}
    BY <2>1 DEF Strength
  <2>2. CASE Measured(row) # {}
    <3>1. IsFiniteSet(Measured(row))
      <4>1. IsFiniteSet({"rsi_14", "adx_14", "momentum"})
        <5>1. IsFiniteSet({"rsi_14"})
          BY FS_Singleton
        <5>2. IsFiniteSet({"rsi_14"} \cup {"adx_14"})
          BY <5>1, FS_AddElement
        <5>3. IsFiniteSet(({"rsi_14"} \cup {"adx_14"}) \cup {"momentum"})
          BY <5>2, FS_AddElement
        <5>4. {"rsi_14", "adx_14", "momentum"} = ({"rsi_14"} \cup {"adx_14"}) \cup {"momentum"}
          OBVIOUS
        <5> QED BY <5>3, <5>4
      <4>2. Measured(row) \subseteq {"rsi_14", "adx_14", "momentum"}
        BY DEF Measured
      <4> QED BY <4>1, <4>2, FS_Subset
    <3>2. n \in Nat \ {0}
      BY <2>2, <3>1, FS_CardinalityType, FS_EmptySet
    <3>3. sum \in Int
      BY <1>3
    <3>4. Strength(row) = Clamp(sum \div n, 0, 10000)
      BY <2>2 DEF Strength
    <3> HIDE DEF n, sum
    <3>5. sum \div n \in Int
      BY <3>2, <3>3
    <3> QED BY <3>4, <3>5, ClampInt, SMT
  <2> QED BY <2>1, <2>2
<1> QED BY <1>1, <1>4 DEF Analysis, SoundAnalysis, States
-----------------------------------------------------------------------------
(* The rows of a symbol, from their download to the plan. *)

Downloaded == {"VALIDATION", "STORE", "INDICATORS", "ANALYSIS"}

Planned ==
    /\ DOMAIN item = {"symbol", "quantity", "at", "work"}
    /\ DOMAIN item.work = {"dataset", "analysis", "intelligence", "plan"}
    /\ \A tf \in DOMAIN item.work.dataset : SoundRow(item.work.dataset[tf].row)
    /\ item.at \in Downloaded => DOMAIN item.work.dataset = Names
    /\ item.at \in {"PROFILE", "DECISION"} => SoundAnalysis(item.work.analysis)
    /\ item.at = "EXECUTION" => item.work.plan.side = "HOLD"

LEMMA RestIsPlanned ==
    ASSUME item' = Rest \/ item' = NextItem \/ \E q : item' = Between(q)
    PROVE  Planned'
<1>1. /\ DOMAIN item' = {"symbol", "quantity", "at", "work"}
      /\ item'.work = Nothing /\ item'.at \in {"idle", "next"}
  BY DEF Rest, NextItem, Between
<1>2. Nothing.dataset = <<>> /\ DOMAIN Nothing = {"dataset", "analysis", "intelligence", "plan"}
  BY DEF Nothing
<1>3. DOMAIN Nothing.dataset = {}
  BY <1>2
<1> QED BY <1>1, <1>2, <1>3 DEF Planned, Downloaded

(* What a step leaves of an item that goes on. *)
LEMMA GoesOn ==
    ASSUME Planned, NEW at, NEW work, item' = [item EXCEPT !.at = at, !.work = work]
    PROVE  /\ DOMAIN item' = {"symbol", "quantity", "at", "work"}
           /\ item'.at = at /\ item'.work = work /\ item'.symbol = item.symbol
BY DEF Planned

LEMMA PrimaryIsThere == Primary(Timeframes) \in Names
<1> DEFINE known == {i \in DOMAIN TimeframeOrder :
                        \E j \in DOMAIN Timeframes : Timeframes[j] = TimeframeOrder[i]}
<1>1. CASE known = {}
  <2>1. Primary(Timeframes) = Timeframes[1]
    BY <1>1 DEF Primary
  <2>2. Timeframes \in Seq(Names) /\ Timeframes # <<>>
    BY ScanAssumption
  <2>3. 1 \in DOMAIN Timeframes
    BY <2>2
  <2> QED BY <2>1, <2>3 DEF Names
<1>2. CASE known # {}
  <2>1. known \subseteq 1 .. 6
    BY DEF TimeframeOrder
  <2>2. \E i \in known : \A j \in known : i <= j
    <3> HIDE DEF known
    <3>1. CASE 1 \in known
      BY <2>1, <3>1
    <3>2. CASE 1 \notin known /\ 2 \in known
      BY <2>1, <3>2
    <3>3. CASE known \cap {1, 2} = {} /\ 3 \in known
      BY <2>1, <3>3
    <3>4. CASE known \cap {1, 2, 3} = {} /\ 4 \in known
      BY <2>1, <3>4
    <3>5. CASE known \cap {1, 2, 3, 4} = {} /\ 5 \in known
      BY <2>1, <3>5
    <3>6. CASE known \cap {1, 2, 3, 4, 5} = {}
      <4>1. \A i \in known : i = 6
        BY <2>1, <3>6
      <4> QED BY <1>2, <4>1
    <3> QED BY <3>1, <3>2, <3>3, <3>4, <3>5, <3>6
  <2> DEFINE first == CHOOSE i \in known : \A j \in known : i <= j
  <2>3. first \in known
    <3> HIDE DEF known
    <3> QED BY <2>2
  <2>4. Primary(Timeframes) = TimeframeOrder[first]
    BY <1>2 DEF Primary
  <2>5. PICK j \in DOMAIN Timeframes : Timeframes[j] = TimeframeOrder[first]
    <3> HIDE DEF first
    <3> QED BY <2>3
  <2> QED BY <2>4, <2>5 DEF Names
<1> QED BY <1>1, <1>2

LEMMA ShortenedIsSound ==
    ASSUME NEW frame, NEW row, SoundRow(row), NEW needs, "close" \notin DOMAIN needs
    PROVE  SoundRow(Shortened(frame, row, needs))
<1>1. DOMAIN Shortened(frame, row, needs) = DOMAIN row
  BY DEF Shortened
<1>2. \A column \in DOMAIN row : Shortened(frame, row, needs)[column] \in {NaN, row[column]}
  BY DEF Shortened
<1>3. Shortened(frame, row, needs) \in [DOMAIN row -> IndicatorValue]
  <2>1. \A column \in DOMAIN row : Shortened(frame, row, needs)[column] \in IndicatorValue
    BY <1>2 DEF SoundRow, IndicatorValue
  <2> QED BY <1>1, <2>1 DEF Shortened
<1>4. Shortened(frame, row, needs).close = row.close
  BY DEF SoundRow, Shortened
<1> QED BY <1>1, <1>3, <1>4 DEF SoundRow

LEMMA IndicatorsAreSound ==
    ASSUME NEW frame, SoundRow(frame.row)
    PROVE  SoundRow(WithIndicators(frame))
<1>1. \A row : SoundRow(row) => SoundRow(TrendIndicators(frame, row))
  BY ShortenedIsSound DEF TrendIndicators
<1>2. \A row : SoundRow(row) => SoundRow(MomentumIndicators(frame, row))
  BY ShortenedIsSound DEF MomentumIndicators
<1>3. \A row : SoundRow(row) => SoundRow(VolumeIndicators(frame, row))
  BY ShortenedIsSound DEF VolumeIndicators
<1>4. \A row : SoundRow(row) => SoundRow(VolatilityIndicators(frame, row))
  BY ShortenedIsSound DEF VolatilityIndicators
<1> QED BY <1>1, <1>2, <1>3, <1>4 DEF WithIndicators

LEMMA InitPlanned == Init => Planned
<1> SUFFICES ASSUME Init PROVE Planned
  OBVIOUS
<1>1. /\ DOMAIN item = {"symbol", "quantity", "at", "work"}
      /\ item.work = Nothing /\ item.at = "idle"
  BY DEF Init, Rest
<1>2. Nothing.dataset = <<>> /\ DOMAIN Nothing = {"dataset", "analysis", "intelligence", "plan"}
  BY DEF Nothing
<1>3. DOMAIN Nothing.dataset = {}
  BY <1>2
<1> QED BY <1>1, <1>2, <1>3 DEF Planned, Downloaded

LEMMA NextPlanned ==
    ASSUME Planned, [Next]_vars
    PROVE  Planned'
<1>1. CASE UNCHANGED item
  BY <1>1 DEF Planned
<1>2. ASSUME NEW stage, Fail(stage)
      PROVE  Planned'
  BY <1>2, RestIsPlanned DEF Fail
<1>3. CASE BeginSymbol
  <2>1. item' = [item EXCEPT !.symbol = Head(batch), !.at = "DOWNLOAD"]
    BY <1>3 DEF BeginSymbol
  <2>2. DOMAIN item' = {"symbol", "quantity", "at", "work"} /\ item'.at = "DOWNLOAD"
        /\ item'.work = item.work
    BY <2>1 DEF Planned
  <2> QED BY <2>2 DEF Planned, Downloaded
<1>4. ASSUME NEW frame \in Frames, Download(frame)
      PROVE  Planned'
  <2> DEFINE answer  == [rows |-> frame.rows, defect |-> frame.defect, row |-> frame.row,
                         candles |-> Candles(clock)]
             dataset == [tf \in DOMAIN Work.dataset \cup {Here} |->
                            IF tf = Here THEN Mapped(answer) ELSE Work.dataset[tf]]
             next == IF DOMAIN dataset = Names THEN "VALIDATION" ELSE "DOWNLOAD"
             work == [Work EXCEPT !.dataset = dataset]
  <2>1. CASE Fail("DOWNLOAD")
    BY <1>2, <2>1
  <2>2. CASE Continue("DOWNLOAD", next, work)
    <3>1. SoundRow(Mapped(answer).row)
      <4>1. SoundRow(frame.row)
        BY ScanAssumption DEF SoundRow
      <4>2. answer.row = frame.row /\ Mapped(answer).row = answer.row
        BY DEF Mapped
      <4> QED BY <4>1, <4>2
    <3>2. \A tf \in DOMAIN dataset : SoundRow(dataset[tf].row)
      <4>1. \A tf \in DOMAIN dataset : dataset[tf] = Mapped(answer) \/
               (tf \in DOMAIN Work.dataset /\ dataset[tf] = Work.dataset[tf])
        <5> HIDE DEF answer
        <5> QED OBVIOUS
      <4> HIDE DEF answer, dataset
      <4> QED BY <3>1, <4>1 DEF Planned, Work
    <3> HIDE DEF dataset
    <3>3. /\ DOMAIN work = {"dataset", "analysis", "intelligence", "plan"}
          /\ work.dataset = dataset
      BY DEF Planned, Work
    <3>4. next \in {"VALIDATION", "DOWNLOAD"} /\ (next = "VALIDATION" => DOMAIN dataset = Names)
      OBVIOUS
    <3> HIDE DEF work, next
    <3>5. item' = [item EXCEPT !.at = next, !.work = work]
      BY <2>2 DEF Continue
    <3> QED BY <3>2, <3>3, <3>4, <3>5, GoesOn DEF Planned, Downloaded
  <2> QED BY <1>4, <2>1, <2>2 DEF Download
<1>5. CASE Validate \/ Store \/ Indicators
  <2>1. ASSUME NEW stage \in Downloaded, NEW next \in Downloaded, Continue(stage, next, Work)
        PROVE  Planned'
    <3>1. item' = [item EXCEPT !.at = next, !.work = Work] /\ item.at = stage
      BY <2>1 DEF Continue, At
    <3>2. DOMAIN item' = {"symbol", "quantity", "at", "work"} /\ item'.at = next
          /\ item'.work = item.work
      BY <3>1, GoesOn DEF Work
    <3> QED BY <3>1, <3>2 DEF Planned, Downloaded
  <2> QED BY <1>2, <1>5, <2>1 DEF Validate, Store, Indicators, Downloaded
<1>6. CASE Analyze
  <2> DEFINE frame == Work.dataset[Primary(Timeframes)]
             work == [Work EXCEPT !.analysis = Analysis(WithIndicators(frame))]
  <2>1. item.at = "ANALYSIS" /\ item' = [item EXCEPT !.at = "PROFILE", !.work = work]
    BY <1>6 DEF Analyze, Continue, At
  <2>2. SoundRow(frame.row)
    BY <2>1, PrimaryIsThere DEF Planned, Downloaded, Work
  <2>3. SoundAnalysis(Analysis(WithIndicators(frame)))
    <3> HIDE DEF frame
    <3> QED BY <2>2, IndicatorsAreSound, RowIsAnalyzed
  <2>4. /\ DOMAIN work = {"dataset", "analysis", "intelligence", "plan"}
        /\ work.dataset = Work.dataset /\ work.analysis = Analysis(WithIndicators(frame))
    <3> HIDE DEF frame
    <3> QED BY DEF Planned, Work
  <2> HIDE DEF work, frame
  <2> QED BY <2>1, <2>3, <2>4, GoesOn DEF Planned, Downloaded, Work
<1>7. CASE BuildProfile
  <2>1. CASE Fail("PROFILE")
    BY <1>2, <2>1
  <2>2. ASSUME NEW found, Continue("PROFILE", "DECISION", [Work EXCEPT !.intelligence = found])
        PROVE  Planned'
    <3> DEFINE work == [Work EXCEPT !.intelligence = found]
    <3>1. item.at = "PROFILE" /\ item' = [item EXCEPT !.at = "DECISION", !.work = work]
      BY <2>2 DEF Continue, At
    <3>2. /\ DOMAIN work = {"dataset", "analysis", "intelligence", "plan"}
          /\ work.dataset = Work.dataset /\ work.analysis = Work.analysis
      BY DEF Planned, Work
    <3> HIDE DEF work
    <3> QED BY <3>1, <3>2, GoesOn DEF Planned, Downloaded, Work
  <2>3. Fail("PROFILE") \/ \E found : Continue("PROFILE", "DECISION",
                                               [Work EXCEPT !.intelligence = found])
    BY <1>7 DEF BuildProfile
  <2> QED BY <2>1, <2>2, <2>3
<1>8. CASE Decide
  <2> DEFINE plan == Plan(Work.analysis, Rows[1].close)
             work == [Work EXCEPT !.plan = plan]
  <2>1. item.at = "DECISION" /\ item' = [item EXCEPT !.at = "EXECUTION", !.work = work]
    BY <1>8 DEF Decide, At
  <2>2. plan.side = "HOLD"
    BY <2>1, AlwaysHold DEF Planned, Work
  <2> HIDE DEF plan
  <2>3. /\ DOMAIN work = {"dataset", "analysis", "intelligence", "plan"}
        /\ work.dataset = Work.dataset /\ work.plan = plan
    BY DEF Planned, Work
  <2> HIDE DEF work
  <2> QED BY <2>1, <2>2, <2>3, GoesOn DEF Planned, Downloaded, Work
<1>9. CASE EndBatch \/ Execute \/ \E op, symbols, q : Run(op, symbols, q)
  BY <1>9, RestIsPlanned DEF EndBatch, Execute, Run
<1>10. CASE DownloadFails \/ StoreFails \/ IndicatorsFail
  BY <1>2, <1>10 DEF DownloadFails, StoreFails, IndicatorsFail, RollBack
<1>11. CASE Tick \/ Start \/ Reset \/ Shutdown \/ RefuseSymbol \/ UNCHANGED vars
  BY <1>1, <1>11 DEF Tick, Start, Reset, Shutdown, RefuseSymbol, vars
<1> QED BY <1>3, <1>4, <1>5, <1>6, <1>7, <1>8, <1>9, <1>10, <1>11 DEF Next, Stages
-----------------------------------------------------------------------------
(* The results of a batch, and the run that an execution follows. *)

Outcomes == [symbol : Symbols, stage : PipelineStages]

ItemResults ==
    [symbol : Symbols \cup {Blank}, success : BOOLEAN,
     failedStage : {NoResult, "ORCHESTRATION", "EXECUTION"},
     of : Outcomes \cup {NoResult}, status : {NoResult, "FAILED", "SKIPPED"}]

Belongs(result) ==
    result.symbol # Blank =>
        /\ result.of # NoResult
        /\ result.of.symbol = result.symbol
        /\ result.success => result.of.stage = "FINISHED"
        /\ result.failedStage = "ORCHESTRATION" => result.of.stage # "FINISHED"

Ran ==
    /\ results \in Seq({result \in ItemResults : Belongs(result)})
    /\ counts.executed = 0
    /\ last \in Outcomes \cup {NoResult}
    /\ batch \in Seq(Symbols \cup {Blank})
    /\ call = "none" => item.at = "idle"
    /\ item.at \notin {"idle", "next"} => item.symbol \in Symbols
    /\ item.at = "EXECUTION" => last = Outcome("FINISHED")

LEMMA AppendTo ==
    ASSUME NEW S, NEW s \in Seq(S), NEW x \in S
    PROVE  Append(s, x) \in Seq(S)
OBVIOUS

LEMMA NextItemAt ==
    ASSUME item' = NextItem
    PROVE  item'.at = "next"
BY DEF NextItem, Between

LEMMA InitRan == Init => Ran
<1> SUFFICES ASSUME Init PROVE Ran
  OBVIOUS
<1>1. item.at = "idle" /\ counts.executed = 0
  BY DEF Init, Rest, NoCounts
<1>2. results = <<>> /\ batch = <<>> /\ last = NoResult
  BY DEF Init
<1> QED BY <1>1, <1>2 DEF Ran

(* A stage that raises leaves the result of its own run. *)
LEMMA FailRan ==
    ASSUME Ran, NEW stage \in PipelineStages \ {"FINISHED"}, Fail(stage),
           UNCHANGED <<counts, call, batch>>
    PROVE  Ran'
<1> DEFINE result == [symbol |-> item.symbol, success |-> FALSE,
                      failedStage |-> "ORCHESTRATION", of |-> last', status |-> NoResult]
<1>1. item.at = stage /\ stage \notin {"idle", "next"} /\ item.symbol \in Symbols
  BY DEF Fail, At, Ran, PipelineStages
<1>2. last' = [symbol |-> item.symbol, stage |-> stage] /\ last' \in Outcomes
  BY <1>1 DEF Fail, Remember, Outcome, Outcomes
<1>3. result \in ItemResults /\ Belongs(result)
  <2>1. result \in ItemResults
    BY <1>1, <1>2 DEF ItemResults
  <2>2. last' # NoResult
    BY <1>2, ScanAssumption DEF Outcomes
  <2>3. last'.symbol = item.symbol /\ last'.stage = stage
    BY <1>2
  <2> QED BY <2>1, <2>2, <2>3 DEF Belongs
<1>4. results' = Append(results, result)
  BY DEF Fail
<1> HIDE DEF result
<1>5. results' \in Seq({r \in ItemResults : Belongs(r)})
  BY <1>3, <1>4, AppendTo DEF Ran
<1>6. item'.at = "next"
  BY NextItemAt DEF Fail
<1>7. call # "none"
  BY <1>1 DEF Ran
<1> QED BY <1>2, <1>5, <1>6, <1>7 DEF Ran

LEMMA ContinueRan ==
    ASSUME Ran, Planned, NEW stage, NEW next, NEW work, Continue(stage, next, work),
           stage \notin {"idle", "next"}, next # "EXECUTION",
           UNCHANGED <<counts, call, batch>>
    PROVE  Ran'
<1>1. item' = [item EXCEPT !.at = next, !.work = work]
  BY DEF Continue
<1>2. item'.at = next /\ item'.symbol = item.symbol /\ item.at = stage
  BY <1>1, GoesOn DEF Continue, At
<1> QED BY <1>2 DEF Ran, Continue

LEMMA ExecuteRan ==
    ASSUME Ran, Planned, Execute
    PROVE  Ran'
<1> DEFINE status == Execution(Work.plan, item.quantity)
           result == [symbol |-> item.symbol, success |-> status # "FAILED",
                      failedStage |-> IF status = "FAILED" THEN "EXECUTION" ELSE NoResult,
                      of |-> last, status |-> status]
<1>1. item.at = "EXECUTION" /\ item.symbol \in Symbols /\ last = Outcome("FINISHED")
  BY DEF Execute, At, Ran
<1>2. status \in {"FAILED", "SKIPPED"}
  BY <1>1 DEF Planned, Execution, Work
<1>3. /\ results' = Append(results, result)
      /\ counts'.executed = counts.executed
      /\ item' = NextItem
      /\ UNCHANGED <<call, batch, last>>
  <2>1. counts'.executed = counts.executed
    BY <1>2 DEF Execute, Ran
  <2> QED BY <2>1 DEF Execute
<1> HIDE DEF status
<1>4. result \in ItemResults /\ Belongs(result)
  <2>1. last \in Outcomes
    BY <1>1 DEF Outcome, Outcomes, PipelineStages
  <2>2. result \in ItemResults
    BY <1>1, <1>2, <2>1 DEF ItemResults
  <2>3. last # NoResult
    BY <2>1, ScanAssumption DEF Outcomes
  <2>4. last.symbol = item.symbol /\ last.stage = "FINISHED"
    BY <1>1 DEF Outcome
  <2> QED BY <2>2, <2>3, <2>4, ScanAssumption DEF Belongs
<1> HIDE DEF result
<1>5. results' \in Seq({r \in ItemResults : Belongs(r)})
  BY <1>3, <1>4, AppendTo DEF Ran
<1>6. item'.at = "next"
  BY <1>3, NextItemAt
<1> QED BY <1>1, <1>3, <1>5, <1>6 DEF Ran

LEMMA NextRan ==
    ASSUME Ran, Planned, [Next]_vars
    PROVE  Ran'
<1>1. CASE UNCHANGED <<counts, last, item, call, batch, results>>
  BY <1>1 DEF Ran, Outcome
<1>2. CASE Start
  BY <1>2 DEF Start, NewOrchestrator, NewExecutionEngine, NoCounts, Ran
<1>3. ASSUME NEW op \in {"run_symbol", "run_symbols"},
             NEW symbols \in Seq(Symbols \cup {Blank}), NEW quantity,
             Run(op, symbols, quantity)
      PROVE  Ran'
  <2>1. item'.at = "next" /\ call' # "none"
    BY <1>3 DEF Run, Between
  <2> QED BY <1>3, <2>1 DEF Run, Ran
<1>4. CASE RefuseSymbol
  <2> DEFINE result == [symbol |-> Blank, success |-> FALSE, failedStage |-> NoResult,
                        of |-> last, status |-> NoResult]
  <2>1. result \in ItemResults /\ Belongs(result)
    BY DEF Ran, ItemResults, Belongs
  <2>2. results' = Append(results, result) /\ batch' = Tail(batch) /\ batch # <<>>
    BY <1>4 DEF RefuseSymbol
  <2> HIDE DEF result
  <2>3. results' \in Seq({r \in ItemResults : Belongs(r)})
    BY <2>1, <2>2, AppendTo DEF Ran
  <2>4. batch' \in Seq(Symbols \cup {Blank})
    BY <2>2 DEF Ran
  <2> QED BY <1>4, <2>3, <2>4 DEF RefuseSymbol, Ran, Outcome
<1>5. CASE BeginSymbol
  <2>1. batch # <<>> /\ Head(batch) # Blank /\ batch' = Tail(batch) /\ item.at = "next"
        /\ item' = [item EXCEPT !.symbol = Head(batch), !.at = "DOWNLOAD"]
    BY <1>5 DEF BeginSymbol, Idle
  <2>2. Head(batch) \in Symbols /\ batch' \in Seq(Symbols \cup {Blank})
    BY <2>1 DEF Ran
  <2>3. item'.at = "DOWNLOAD" /\ item'.symbol = Head(batch)
    BY <2>1 DEF Planned
  <2> QED BY <1>5, <2>1, <2>2, <2>3 DEF BeginSymbol, Ran
<1>6. CASE EndBatch
  <2>1. item'.at = "idle" /\ results' = <<>>
    BY <1>6 DEF EndBatch, Rest
  <2> QED BY <1>6, <2>1 DEF EndBatch, Ran
<1>7. CASE DownloadFails \/ StoreFails \/ IndicatorsFail
  BY <1>7, FailRan DEF DownloadFails, StoreFails, IndicatorsFail, RollBack, PipelineStages
<1>8. ASSUME NEW frame \in Frames, Download(frame)
      PROVE  Ran'
  <2>1. Fail("DOWNLOAD") \/ \E next \in {"VALIDATION", "DOWNLOAD"} : \E work :
                               Continue("DOWNLOAD", next, work)
    BY <1>8, Zenon DEF Download
  <2>2. UNCHANGED <<counts, call, batch>>
    BY <1>8 DEF Download
  <2> QED BY <2>1, <2>2, FailRan, ContinueRan DEF PipelineStages
<1>9. CASE Validate
  BY <1>9, FailRan, ContinueRan DEF Validate, PipelineStages
<1>10. CASE Store
  BY <1>10, ContinueRan DEF Store
<1>11. CASE Indicators
  BY <1>11, ContinueRan DEF Indicators
<1>12. CASE Analyze
  BY <1>12, ContinueRan DEF Analyze
<1>13. CASE BuildProfile
  BY <1>13, FailRan, ContinueRan DEF BuildProfile, PipelineStages
<1>14. CASE Decide
  <2>1. item.at = "DECISION" /\ last' = [symbol |-> item.symbol, stage |-> "FINISHED"]
        /\ UNCHANGED <<counts, call, batch, results>>
    BY <1>14 DEF Decide, At, Remember, Outcome
  <2>2. item'.at = "EXECUTION" /\ item'.symbol = item.symbol
    <3>1. \E work : item' = [item EXCEPT !.at = "EXECUTION", !.work = work]
      BY <1>14 DEF Decide
    <3> QED BY <3>1, GoesOn
  <2>3. item.symbol \in Symbols
    BY <2>1 DEF Ran
  <2>4. last' \in Outcomes
    BY <2>1, <2>3 DEF Outcomes, PipelineStages
  <2> QED BY <2>1, <2>2, <2>3, <2>4 DEF Ran, Outcome
<1>15. CASE Execute
  BY <1>15, ExecuteRan
<1>16. CASE Tick \/ Reset \/ Shutdown \/ UNCHANGED vars
  BY <1>1, <1>16 DEF Tick, Reset, Shutdown, ResetContainer, vars, world
<1>17. ASSUME NEW q \in Quantities, NEW s \in Symbols \cup {Blank}
       PROVE  <<s>> \in Seq(Symbols \cup {Blank})
  OBVIOUS
<1>18. ASSUME NEW n \in 0 .. MaxBatch, NEW symbols \in [1 .. n -> Symbols \cup {Blank}]
       PROVE  symbols \in Seq(Symbols \cup {Blank})
  BY ScanAssumption
<1> QED BY <1>2, <1>3, <1>4, <1>5, <1>6, <1>7, <1>8, <1>9, <1>10, <1>11, <1>12, <1>13, <1>14,
           <1>15, <1>16, <1>17, <1>18 DEF Next, Stages

(* ScoreEngine and ExecutionEngine: whatever rows of indicators the        *)
(* exchange's candles give, no decision is other than WAIT and nothing is  *)
(* ever executed.                                                          *)
THEOREM ScanNeverTradesHolds == Spec => []ScanNeverTrades
<1>1. Ran => ScanNeverTrades
  <2>1. ASSUME Ran, NEW i \in DOMAIN results PROVE results[i].status # "EXECUTED"
    <3>1. results[i] \in ItemResults
      BY <2>1 DEF Ran
    <3> QED BY <3>1, ScanAssumption DEF ItemResults
  <2> QED BY <2>1 DEF Ran, ScanNeverTrades
<1> QED BY <1>1, InitPlanned, InitRan, NextPlanned, NextRan, PTL DEF Spec

(* Pipeline.run_symbol: the result that is handed out with a symbol is     *)
(* that of its own run, in a batch of any length.                          *)
THEOREM ResultsBelongHolds == Spec => []ResultsBelong
<1>1. Ran => ResultsBelong
  <2>1. ASSUME Ran, NEW i \in DOMAIN results PROVE Belongs(results[i])
    BY <2>1 DEF Ran
  <2> QED BY <2>1 DEF Belongs, ResultsBelong
<1> QED BY <1>1, InitPlanned, InitRan, NextPlanned, NextRan, PTL DEF Spec
-----------------------------------------------------------------------------
(* The table of candles.  The market only goes on, so what a symbol was    *)
(* told in an earlier run opens no later than what it is told now.         *)

(* What the exchange told at some time since.                              *)
ToldSince(since, candles) == \E t \in since .. clock : candles = Candles(t)

(* The table of a symbol and timeframe is empty, or it ends with what was  *)
(* fetched last, at the time t.                                            *)
EndsWith(had, got, t) ==
    /\ got = Candles(t)
    /\ DOMAIN had \subseteq 0 .. t \div 2
    /\ \A bar \in DOMAIN got : bar \in DOMAIN had /\ had[bar] = got[bar]

Kept(s, tf, t) ==
    \/ DOMAIN stored[s][tf] = {} /\ DOMAIN fetched[s][tf] = {}
    \/ EndsWith(stored[s][tf], fetched[s][tf], t)

(* What is on its way to the table was told after what is there.           *)
Asked == {"DOWNLOAD", "VALIDATION", "STORE"}

Pending(s, tf, t) ==
    item.at \in Asked /\ item.symbol = s /\ tf \in DOMAIN item.work.dataset =>
        ToldSince(t, item.work.dataset[tf].candles)

Timely ==
    /\ clock \in Nat
    /\ DOMAIN stored = Symbols /\ DOMAIN fetched = Symbols
    /\ \A s \in Symbols : DOMAIN stored[s] = Names
    /\ item.at \in {"idle", "next"} => DOMAIN item.work.dataset = {}
    /\ \A s \in Symbols, tf \in Names :
          \E t \in 0 .. clock : Kept(s, tf, t) /\ Pending(s, tf, t)

(* The candle that is open is in every answer, and is its last.            *)
LEMMA CandlesEnd ==
    ASSUME NEW t \in Nat
    PROVE  /\ t \div 2 \in DOMAIN Candles(t)
           /\ DOMAIN Candles(t) \subseteq 0 .. t \div 2
<1>1. t \div 2 \in Nat
  OBVIOUS
<1> DEFINE open == t \div 2
<1> HIDE DEF open
<1>2. open \in Nat /\ Window \in Nat \ {0}
  BY <1>1, WindowAssumption DEF open
<1>3. DOMAIN Candles(t) = {b \in 0 .. open : b > open - Window}
  BY DEF Candles, open
<1> QED BY <1>2, <1>3 DEF open

LEMMA InitTimely == Init => Timely
<1> SUFFICES ASSUME Init PROVE Timely
  OBVIOUS
<1>1. item.at = "idle" /\ DOMAIN item.work.dataset = {}
  <2>1. item.work = Nothing /\ Nothing.dataset = <<>> /\ item.at = "idle"
    BY DEF Init, Rest, Nothing
  <2> QED BY <2>1
<1>2. \A tf \in Names : DOMAIN NoCandles[tf] = {}
  BY DEF NoCandles
<1>3. clock = 0 /\ \A s \in Symbols : stored[s] = NoCandles /\ fetched[s] = NoCandles
  BY DEF Init
<1>4. DOMAIN stored = Symbols /\ DOMAIN fetched = Symbols /\ DOMAIN NoCandles = Names
  BY DEF Init, NoCandles
<1>5. ASSUME NEW s \in Symbols, NEW tf \in Names
      PROVE  Kept(s, tf, 0) /\ Pending(s, tf, 0)
  BY <1>1, <1>2, <1>3 DEF Kept, Pending, Asked
<1> QED BY <1>1, <1>3, <1>4, <1>5 DEF Timely

(* A step that leaves the table alone asks for nothing else than before,   *)
(* or for what the market tells now.                                       *)
LEMMA SameTable ==
    ASSUME Timely, UNCHANGED <<clock, stored, fetched>>,
           item'.at \in {"idle", "next"} => DOMAIN item'.work.dataset = {},
           item'.at \in Asked =>
              \A tf \in DOMAIN item'.work.dataset :
                 \/ item'.work.dataset[tf].candles = Candles(clock)
                 \/ /\ item.at \in Asked /\ item.symbol = item'.symbol
                    /\ tf \in DOMAIN item.work.dataset
                    /\ item'.work.dataset[tf].candles = item.work.dataset[tf].candles
    PROVE  Timely'
<1>1. ASSUME NEW s \in Symbols, NEW tf \in Names
      PROVE  \E t \in 0 .. clock : Kept(s, tf, t)' /\ Pending(s, tf, t)'
  <2>1. PICK t \in 0 .. clock : Kept(s, tf, t) /\ Pending(s, tf, t)
    BY DEF Timely
  <2>2. Kept(s, tf, t)'
    BY <2>1 DEF Kept
  <2>3. ToldSince(t, Candles(clock))
    BY <2>1 DEF ToldSince, Timely
  <2>4. ASSUME item'.at \in Asked, item'.symbol = s, tf \in DOMAIN item'.work.dataset
        PROVE  ToldSince(t, item'.work.dataset[tf].candles)
    BY <2>1, <2>3, <2>4 DEF Pending
  <2>5. Pending(s, tf, t)'
    BY <2>4 DEF Pending, ToldSince
  <2> QED BY <2>2, <2>5
<1> QED BY <1>1 DEF Timely

LEMMA TickTimely ==
    ASSUME Timely, Tick
    PROVE  Timely'
<1>1. clock' = clock + 1 /\ UNCHANGED <<stored, fetched, item>>
  BY DEF Tick
<1>2. ASSUME NEW s \in Symbols, NEW tf \in Names
      PROVE  \E t \in 0 .. clock' : Kept(s, tf, t)' /\ Pending(s, tf, t)'
  <2>1. PICK t \in 0 .. clock : Kept(s, tf, t) /\ Pending(s, tf, t)
    BY DEF Timely
  <2>2. t \in 0 .. clock' /\ t .. clock \subseteq t .. clock'
    BY <1>1 DEF Timely
  <2>3. Kept(s, tf, t)'
    BY <1>1, <2>1 DEF Kept
  <2>4. Pending(s, tf, t)'
    BY <1>1, <2>1, <2>2 DEF Pending, ToldSince
  <2> QED BY <2>2, <2>3, <2>4
<1> QED BY <1>1, <1>2 DEF Timely

(* A candle of the table that the new answer does not tell is older than   *)
(* its last one.                                                           *)
LEMMA UpsertEndsWith ==
    ASSUME NEW had, NEW t \in Nat, DOMAIN had \subseteq 0 .. t \div 2
    PROVE  EndsWith(Upsert(had, Candles(t)), Candles(t), t)
BY CandlesEnd DEF EndsWith, Upsert

LEMMA StoreTimely ==
    ASSUME Timely, Planned, Ran, Store
    PROVE  Timely'
<1> DEFINE x == item.symbol
           dataset == item.work.dataset
<1>1. item.at = "STORE" /\ x \in Symbols /\ DOMAIN dataset = Names
  BY DEF Store, Continue, At, Ran, Planned, Downloaded
<1>2. item'.at = "INDICATORS"
  <2>1. item' = [item EXCEPT !.at = "INDICATORS", !.work = Work]
    BY DEF Store, Continue
  <2> QED BY <2>1, GoesOn
<1>3. /\ stored' = [stored EXCEPT ![x] = Saved(stored[x], dataset)]
      /\ fetched' = [fetched EXCEPT ![x] = [tf \in Names |-> dataset[tf].candles]]
      /\ clock' = clock
  BY DEF Store, Work
<1> HIDE DEF dataset
<1>4. /\ DOMAIN stored' = Symbols /\ DOMAIN fetched' = Symbols
      /\ stored'[x] = Saved(stored[x], dataset)
      /\ fetched'[x] = [tf \in Names |-> dataset[tf].candles]
      /\ \A s \in Symbols \ {x} : stored'[s] = stored[s] /\ fetched'[s] = fetched[s]
  BY <1>1, <1>3 DEF Timely
<1>5. /\ DOMAIN Saved(stored[x], dataset) = Names
      /\ \A tf \in Names : Saved(stored[x], dataset)[tf] = Upsert(stored[x][tf], dataset[tf].candles)
  BY <1>1 DEF Saved, Timely
<1>6. ASSUME NEW s \in Symbols, NEW tf \in Names, NEW t \in 0 .. clock
      PROVE  Pending(s, tf, t)'
  BY <1>2 DEF Pending, Asked
<1>7. ASSUME NEW s \in Symbols, NEW tf \in Names
      PROVE  \E t \in 0 .. clock : Kept(s, tf, t)'
  <2>1. PICK u \in 0 .. clock : Kept(s, tf, u) /\ Pending(s, tf, u)
    BY DEF Timely
  <2>2. CASE s # x
    BY <1>4, <2>1, <2>2 DEF Kept
  <2>3. CASE s = x
    <3>1. ToldSince(u, dataset[tf].candles)
      BY <1>1, <2>1, <2>3 DEF Pending, Asked, dataset
    <3>2. PICK t \in u .. clock : dataset[tf].candles = Candles(t)
      BY <3>1 DEF ToldSince
    <3>3. t \in Nat /\ t \in 0 .. clock /\ u \in Nat /\ u <= t
      BY <2>1, <3>2 DEF Timely
    <3>4. u \div 2 <= t \div 2 /\ u \div 2 \in Nat /\ t \div 2 \in Nat
      BY ONLY <3>3, SMT
    <3>5. DOMAIN stored[x][tf] \subseteq 0 .. t \div 2
      <4>1. DOMAIN stored[x][tf] \subseteq 0 .. u \div 2
        BY <2>1, <2>3 DEF Kept, EndsWith
      <4>2. 0 .. u \div 2 \subseteq 0 .. t \div 2
        BY ONLY <3>4, SMT
      <4> QED BY <4>1, <4>2
    <3>6. EndsWith(Upsert(stored[x][tf], Candles(t)), Candles(t), t)
      BY <3>3, <3>5, UpsertEndsWith
    <3>7. stored'[x][tf] = Upsert(stored[x][tf], Candles(t)) /\ fetched'[x][tf] = Candles(t)
      BY <1>4, <1>5, <3>2
    <3> QED BY <2>3, <3>3, <3>6, <3>7 DEF Kept
  <2> QED BY <2>2, <2>3
<1>8. \A s \in Symbols : DOMAIN stored'[s] = Names
  BY <1>4, <1>5 DEF Timely
<1>9. clock' \in Nat /\ (item'.at \in {"idle", "next"} => DOMAIN item'.work.dataset = {})
  BY <1>2, <1>3 DEF Timely
<1> QED BY <1>3, <1>4, <1>6, <1>7, <1>8, <1>9 DEF Timely

(* Rest and Between have no dataset. *)
LEMMA RestIsEmpty ==
    ASSUME item' = Rest \/ item' = NextItem \/ \E q : item' = Between(q)
    PROVE  item'.at \notin Asked /\ DOMAIN item'.work.dataset = {}
<1>1. item'.work = Nothing /\ item'.at \in {"idle", "next"}
  BY DEF Rest, NextItem, Between
<1>2. Nothing.dataset = <<>>
  BY DEF Nothing
<1> QED BY <1>1, <1>2 DEF Asked

LEMMA NextTimely ==
    ASSUME Timely, Planned, Ran, [Next]_vars
    PROVE  Timely'
<1>1. CASE UNCHANGED <<clock, stored, fetched, item>>
  BY <1>1, SameTable DEF Timely
<1>2. ASSUME item' = Rest \/ item' = NextItem \/ \E q : item' = Between(q),
             UNCHANGED <<clock, stored, fetched>>
      PROVE  Timely'
  BY <1>2, RestIsEmpty, SameTable
<1>3. ASSUME NEW stage, Fail(stage), UNCHANGED <<clock, stored, fetched>>
      PROVE  Timely'
  BY <1>2, <1>3 DEF Fail
<1>4. CASE BeginSymbol
  <2>1. item' = [item EXCEPT !.symbol = Head(batch), !.at = "DOWNLOAD"] /\ item.at = "next"
    BY <1>4 DEF BeginSymbol, Idle
  <2>2. item'.at = "DOWNLOAD" /\ item'.work = item.work
    BY <2>1 DEF Planned
  <2>3. DOMAIN item'.work.dataset = {}
    BY <2>1, <2>2 DEF Timely
  <2> QED BY <1>4, <2>2, <2>3, SameTable DEF BeginSymbol, world
<1>5. ASSUME NEW stage, NEW next, NEW work, Continue(stage, next, work),
             next \notin {"idle", "next"}, work.dataset = item.work.dataset,
             next \in Asked => item.at \in Asked, UNCHANGED <<clock, stored, fetched>>
      PROVE  Timely'
  <2>1. item' = [item EXCEPT !.at = next, !.work = work]
    BY <1>5 DEF Continue
  <2>2. item'.at = next /\ item'.work.dataset = item.work.dataset /\ item'.symbol = item.symbol
    BY <1>5, <2>1, GoesOn
  <2> QED BY <1>5, <2>2, SameTable
<1>6. ASSUME NEW frame \in Frames, Download(frame)
      PROVE  Timely'
  <2> DEFINE answer  == [rows |-> frame.rows, defect |-> frame.defect, row |-> frame.row,
                         candles |-> Candles(clock)]
             dataset == [tf \in DOMAIN Work.dataset \cup {Here} |->
                            IF tf = Here THEN Mapped(answer) ELSE Work.dataset[tf]]
             next == IF DOMAIN dataset = Names THEN "VALIDATION" ELSE "DOWNLOAD"
             work == [Work EXCEPT !.dataset = dataset]
  <2>1. UNCHANGED <<clock, stored, fetched>>
    BY <1>6 DEF Download, world
  <2>2. CASE Fail("DOWNLOAD")
    BY <1>3, <2>1, <2>2
  <2>3. CASE Continue("DOWNLOAD", next, work)
    <3>1. Mapped(answer).candles = Candles(clock)
      BY DEF Mapped
    <3>2. \A tf \in DOMAIN dataset :
             \/ dataset[tf].candles = Candles(clock)
             \/ tf \in DOMAIN item.work.dataset /\ dataset[tf] = item.work.dataset[tf]
      <4>1. \A tf \in DOMAIN dataset : dataset[tf] = Mapped(answer) \/
               (tf \in DOMAIN Work.dataset /\ dataset[tf] = Work.dataset[tf])
        <5> HIDE DEF answer
        <5> QED OBVIOUS
      <4> HIDE DEF answer, dataset
      <4> QED BY <3>1, <4>1 DEF Work
    <3> HIDE DEF dataset
    <3>3. work.dataset = dataset
      BY DEF Planned, Work
    <3>4. next \in {"VALIDATION", "DOWNLOAD"}
      OBVIOUS
    <3> HIDE DEF work, next
    <3>5. item' = [item EXCEPT !.at = next, !.work = work] /\ item.at = "DOWNLOAD"
      BY <2>3 DEF Continue, At
    <3>6. item'.at = next /\ item'.work = work /\ item'.symbol = item.symbol
      BY <3>5, GoesOn
    <3> QED BY <2>1, <3>2, <3>3, <3>4, <3>5, <3>6, SameTable DEF Asked
  <2> QED BY <1>6, <2>2, <2>3 DEF Download
<1>7. CASE Validate
  BY <1>3, <1>5, <1>7 DEF Validate, Continue, At, Asked, Work, world
<1>8. CASE Indicators
  <2>1. Continue("INDICATORS", "ANALYSIS", Work) /\ UNCHANGED <<clock, stored, fetched>>
    BY <1>8 DEF Indicators, world
  <2>2. Work.dataset = item.work.dataset /\ "ANALYSIS" \notin {"idle", "next"}
        /\ "ANALYSIS" \notin Asked
    BY DEF Work, Asked
  <2> QED BY <1>5, <2>1, <2>2
<1>9. ASSUME NEW stage, NEW next, NEW field \in {"analysis", "intelligence"}, NEW found,
             Continue(stage, next, [Work EXCEPT ![field] = found]),
             next \in {"PROFILE", "DECISION"}, UNCHANGED <<clock, stored, fetched>>
      PROVE  Timely'
  <2>1. [Work EXCEPT ![field] = found].dataset = item.work.dataset
    BY DEF Work
  <2> QED BY <1>5, <1>9, <2>1 DEF Asked
<1>10. CASE Analyze
  BY <1>9, <1>10 DEF Analyze, world
<1>11. CASE BuildProfile
  <2>1. Fail("PROFILE") \/ \E found : Continue("PROFILE", "DECISION",
                                               [Work EXCEPT !.intelligence = found])
    BY <1>11 DEF BuildProfile
  <2> QED BY <1>3, <1>9, <1>11, <2>1 DEF BuildProfile, world
<1>12. CASE Decide
  <2>1. PICK work : item' = [item EXCEPT !.at = "EXECUTION", !.work = work]
    BY <1>12 DEF Decide
  <2>2. item'.at = "EXECUTION"
    BY <2>1, GoesOn
  <2> QED BY <1>12, <2>2, SameTable DEF Decide, Asked, world
<1>13. CASE DownloadFails \/ StoreFails \/ IndicatorsFail
  BY <1>3, <1>13 DEF DownloadFails, StoreFails, IndicatorsFail, RollBack, world
<1>14. CASE EndBatch \/ Execute \/ \E op, symbols, q : Run(op, symbols, q)
  BY <1>2, <1>14 DEF EndBatch, Execute, Run, world
<1>15. CASE Start \/ Reset \/ Shutdown \/ RefuseSymbol \/ UNCHANGED vars
  BY <1>1, <1>15 DEF Start, Reset, Shutdown, RefuseSymbol, vars, world
<1> QED BY <1>4, <1>6, <1>7, <1>8, <1>10, <1>11, <1>12, <1>13, <1>14, <1>15, TickTimely,
           StoreTimely DEF Next, Stages

(* save_dataset: whatever failed before, the table has every candle as the *)
(* last saved dataset tells it, and beside them only older ones.           *)
THEOREM StoreHoldsLatestHolds == Spec => []StoreHoldsLatest
<1>1. Timely => StoreHoldsLatest
  <2> SUFFICES ASSUME Timely, NEW s \in Symbols, NEW tf \in Names
               PROVE  /\ \A bar \in DOMAIN fetched[s][tf] :
                            bar \in DOMAIN stored[s][tf] /\ stored[s][tf][bar] = fetched[s][tf][bar]
                      /\ \A bar \in DOMAIN stored[s][tf] \ DOMAIN fetched[s][tf] :
                            \E b \in DOMAIN fetched[s][tf] : bar < b
    BY DEF StoreHoldsLatest
  <2>1. PICK t \in 0 .. clock : Kept(s, tf, t)
    BY DEF Timely
  <2>2. CASE DOMAIN stored[s][tf] = {} /\ DOMAIN fetched[s][tf] = {}
    BY <2>2
  <2>3. CASE EndsWith(stored[s][tf], fetched[s][tf], t)
    <3>1. t \in Nat /\ t \div 2 \in Nat
      BY DEF Timely
    <3>2. t \div 2 \in DOMAIN fetched[s][tf]
      BY <2>3, <3>1, CandlesEnd DEF EndsWith
    <3>3. ASSUME NEW bar \in DOMAIN stored[s][tf] \ DOMAIN fetched[s][tf]
          PROVE  bar < t \div 2
      <4>1. bar \in 0 .. t \div 2
        BY <2>3 DEF EndsWith
      <4>2. bar # t \div 2
        BY <3>2
      <4> HIDE DEF Timely
      <4> QED BY <3>1, <4>1, <4>2
    <3> QED BY <2>3, <3>2, <3>3 DEF EndsWith
  <2> QED BY <2>1, <2>2, <2>3 DEF Kept
<1> QED BY <1>1, InitPlanned, InitRan, InitTimely, NextPlanned, NextRan, NextTimely, PTL DEF Spec
-----------------------------------------------------------------------------
(* The intelligence of a profile.                                          *)

(* A row with the columns that the profile reads.                          *)
ProfiledRow(row) ==
    /\ row.close \in Int /\ row.atr \in Int
    /\ row.rsi_14 \in IndicatorValue /\ row.mfi_14 \in IndicatorValue

LEMMA ConfidenceType ==
    ASSUME NEW row, ProfiledRow(row), Confidence(row) # NaN
    PROVE  Confidence(row) \in Nat
<1> DEFINE weighed == 30 * TrendScore(row) + 25 * MomentumScore(row) + 20 * VolumeScore(row)
                          + 15 * (10000 - VolatilityScore(row)) + 10 * Agreement(row)
<1>0. \A x \in Int : Clamp(x, 0, 10000) \in Nat
  BY DEF Clamp
<1>1. row.rsi_14 \in Int /\ row.mfi_14 \in Int /\ NaN \notin {row.rsi_14, row.mfi_14}
  BY DEF Confidence, ProfiledRow, IndicatorValue
<1>2. TrendScore(row) \in Int /\ Agreement(row) \in Int
  BY DEF TrendScore, Agreement
<1>3. MomentumScore(row) \in Int /\ VolumeScore(row) \in Int
  <2>1. 100 * row.rsi_14 \in Int /\ 100 * row.mfi_14 \in Int
    BY <1>1
  <2> QED BY <1>0, <2>1 DEF MomentumScore, VolumeScore
<1>4. VolatilityScore(row) \in Int
  <2>1. AtrPercent(row) \in Int
    BY DEF AtrPercent, ProfiledRow
  <2>2. 25 * AtrPercent(row) \in Int
    BY <2>1
  <2> QED BY <1>0, <2>2 DEF VolatilityScore
<1>5. Confidence(row) = Clamp(weighed \div 100, 0, 10000)
  BY <1>1 DEF Confidence
<1>6. weighed \in Int
  BY <1>2, <1>3, <1>4
<1> HIDE DEF weighed
<1>7. weighed \div 100 \in Int
  BY <1>6
<1> QED BY <1>0, <1>5, <1>7

LEMMA LeastOfNaturals ==
    ASSUME NEW S, S \subseteq Nat, S # {}
    PROVE  Min(S) \in S /\ \A x \in S : Min(S) <= x
<1>1. \E n \in S : \A x \in S : n <= x
  BY LeastNatural
<1> QED BY <1>1 DEF Min

LEMMA QuotientType ==
    ASSUME NEW s \in Nat, NEW d \in Nat \ {0}
    PROVE  s \div d \in Nat
<1>1. s \div d \in Int
  OBVIOUS
<1>2. PICK q \in Int : q = s \div d
  BY <1>1
<1>3. s < d * (q + 1)
  BY <1>2
<1>4. ~(q + 1 <= 0)
  <2> SUFFICES ASSUME q + 1 <= 0 PROVE FALSE
    OBVIOUS
  <2>1. \A a \in Nat, b \in Int : b <= 0 => a * b <= 0
    OBVIOUS
  <2> QED BY <1>3, <2>1
<1> QED BY <1>2, <1>4

LEMMA WeightedMeanType ==
    ASSUME NEW n \in Nat \ {0}, NEW weights \in [1 .. n -> Nat \ {0}],
           NEW values \in [1 .. n -> Nat]
    PROVE  WeightedMean(weights, values) \in Nat
<1> DEFINE products == [i \in 1 .. n |-> weights[i] * values[i]]
           rest == SumFunctionOnSet(weights, (1 .. n) \ {1})
<1>1. IsFiniteSet(1 .. n) /\ IsFiniteSet((1 .. n) \ {1})
  <2>1. IsFiniteSet(1 .. n)
    BY FS_Interval
  <2> QED BY <2>1, FS_RemoveElement
<1>2. \A i \in 1 .. n : products[i] \in Nat
  <2>1. \A a, b \in Nat : a * b \in Nat
    OBVIOUS
  <2> QED BY <2>1
<1>3. WeightedMean(weights, values) = SumFunctionOnSet(products, 1 .. n)
                                          \div SumFunctionOnSet(weights, 1 .. n)
  <2>1. \A i \in 1 .. n : values[i] # NaN
    BY NaNAssumption
  <2>2. DOMAIN products = 1 .. n /\ DOMAIN weights = 1 .. n /\ DOMAIN values = 1 .. n
    OBVIOUS
  <2> QED BY <2>1, <2>2 DEF WeightedMean, SumFunction
<1> HIDE DEF products
<1>4. SumFunctionOnSet(products, 1 .. n) \in Nat
  BY <1>1, <1>2, SumOfNaturals
<1>5. SumFunctionOnSet(weights, 1 .. n) = weights[1] + rest
  <2>1. 1 \in 1 .. n /\ \A i \in 1 .. n : weights[i] \in Int
    OBVIOUS
  <2> QED BY <1>1, <2>1, SumOfOneAndRest
<1>6. rest \in Nat
  BY <1>1, SumOfNaturals
<1> HIDE DEF rest
<1>7. weights[1] \in Nat \ {0}
  OBVIOUS
<1>8. PICK d \in Nat \ {0} : d = SumFunctionOnSet(weights, 1 .. n)
  BY <1>5, <1>6, <1>7
<1>9. PICK s \in Nat : s = SumFunctionOnSet(products, 1 .. n)
  BY <1>4
<1>10. s \div d \in Nat
  BY QuotientType
<1> QED BY <1>3, <1>8, <1>9, <1>10

LEMMA LeastType ==
    ASSUME NEW n \in Nat \ {0}, NEW values \in [1 .. n -> Nat]
    PROVE  Least(values) \in Nat
<1> DEFINE S == {values[i] : i \in DOMAIN values} \ {NaN}
<1>1. values[1] \in Nat /\ values[1] # NaN
  BY NaNAssumption
<1>2. S \subseteq Nat /\ S # {}
  BY <1>1
<1>3. Least(values) = Min(S)
  BY <1>1 DEF Least
<1> HIDE DEF S
<1> QED BY <1>2, <1>3, LeastOfNaturals

LEMMA CharacteristicsOf ==
    ASSUME NEW n \in Nat, NEW rows, rows = [i \in 1 .. n |-> rows[i]]
    PROVE  /\ AllCharacteristics(rows) \in [1 .. n -> {Characteristics(rows[i]) : i \in 1 .. n}]
           /\ \A i \in 1 .. n : AllCharacteristics(rows)[i] = Characteristics(rows[i])
<1> DEFINE S == {Characteristics(rows[i]) : i \in 1 .. n}
           cs == [i \in 1 .. n |-> Characteristics(rows[i])]
<1>1. Len(rows) = n
  <2>1. rows \in Seq({rows[i] : i \in 1 .. n})
    BY SeqDef
  <2>2. DOMAIN rows = 1 .. Len(rows) /\ Len(rows) \in Nat /\ DOMAIN rows = 1 .. n
    BY <2>1, LenProperties
  <2> QED BY <2>2
<1>2. DOMAIN rows = 1 .. n
  OBVIOUS
<1>3. AllCharacteristics(rows) = SubSeq(cs, 1, n)
  BY <1>1, <1>2 DEF AllCharacteristics
<1>4. \A i \in 1 .. n : cs[i] \in S /\ cs[i] = Characteristics(rows[i])
  OBVIOUS
<1> HIDE DEF cs, S
<1>5. /\ SubSeq(cs, 1, n) \in Seq(S)
      /\ Len(SubSeq(cs, 1, n)) = IF 1 <= n THEN n - 1 + 1 ELSE 0
      /\ \A i \in 1 .. n - 1 + 1 : SubSeq(cs, 1, n)[i] = cs[1 + i - 1]
  BY <1>4, SubSeqProperties
<1>6. Len(SubSeq(cs, 1, n)) = n /\ \A i \in 1 .. n : SubSeq(cs, 1, n)[i] = cs[i]
  <2>1. n - 1 + 1 = n /\ \A i \in 1 .. n : 1 + i - 1 = i
    OBVIOUS
  <2>2. Len(SubSeq(cs, 1, n)) = n
    BY <1>5
  <2>3. \A i \in 1 .. n : SubSeq(cs, 1, n)[i] = cs[i]
    BY <1>5, <2>1
  <2> QED BY <2>2, <2>3
<1>7. SubSeq(cs, 1, n) \in [1 .. n -> S]
  BY <1>5, <1>6, LenProperties
<1> QED BY <1>3, <1>4, <1>6, <1>7 DEF S

(* What a recommendation needs of the profile.                             *)
LEMMA DirectionalNeeds ==
    ASSUME NEW p, Intelligence(p).recommendation \in {"Bullish", "Bearish"}
    PROVE  /\ ProfileValid(p) /\ \A i \in DOMAIN p.timeframes : p.timeframes[i].risk # "Extreme"
           /\ Intelligence(p).confidence = SafeConfidence(p) /\ ~(SafeConfidence(p) <= 0)
<1>1. Blocked.recommendation \notin {"Bullish", "Bearish"}
  BY DEF Blocked
<1>2. \A r : Directional(p, r) # Blocked =>
         /\ Directional(p, r).confidence = SafeConfidence(p) /\ ~(SafeConfidence(p) <= 0)
  BY DEF Directional
<1>3. Intelligence(p) # Blocked
  BY <1>1
<1>4. ProfileValid(p)
  BY <1>3 DEF Intelligence
<1>5. /\ p.market.risk # "Extreme"
      /\ \A i \in DOMAIN p.timeframes : p.timeframes[i].risk # "Extreme"
  BY <1>4 DEF Intelligence
<1>6. Intelligence(p) = Directional(p, "Bullish") \/ Intelligence(p) = Directional(p, "Bearish")
  BY <1>4, <1>5 DEF Intelligence
<1> QED BY <1>2, <1>3, <1>4, <1>5, <1>6

(* What it says of the rows the profile was built from.                    *)
LEMMA DirectionIsBacked ==
    ASSUME NEW n \in Nat \ {0}, NEW tfs, DOMAIN tfs = 1 .. n,
           NEW rows, rows = [i \in 1 .. n |-> rows[i]],
           \A i \in 1 .. n : Readable(rows[i]) => ProfiledRow(rows[i]),
           NEW found, found = Intelligence(Profile(tfs, rows)),
           found.recommendation \in {"Bullish", "Bearish"}
    PROVE  \A i \in 1 .. n :
              /\ Readable(rows[i]) /\ Risk(rows[i]) # "Extreme" /\ Confidence(rows[i]) # NaN
              /\ found.confidence <= Confidence(rows[i])
<1> DEFINE weights == [i \in DOMAIN tfs |-> Weight(tfs[i])]
           limits(cs) == [i \in DOMAIN cs |-> cs[i].confidence]
<1>1. PICK p : p = Profile(tfs, rows)
  OBVIOUS
<1>2. /\ ProfileValid(p) /\ \A i \in DOMAIN p.timeframes : p.timeframes[i].risk # "Extreme"
      /\ found.confidence = SafeConfidence(p) /\ ~(SafeConfidence(p) <= 0)
  BY <1>1, DirectionalNeeds
<1>3. PICK cs : /\ cs = AllCharacteristics(rows)
                /\ cs \in [1 .. n -> {Characteristics(rows[i]) : i \in 1 .. n}]
                /\ \A i \in 1 .. n : cs[i] = Characteristics(rows[i])
  BY CharacteristicsOf
<1>4. DOMAIN rows = 1 .. n /\ DOMAIN cs = 1 .. n
  BY <1>3
<1>5. /\ \A i \in 1 .. n : Readable(rows[i])
      /\ p.market = Merged(tfs, cs) /\ p.timeframes = cs /\ p.limit = Least(limits(cs))
  <2>1. p.tradeable
    BY <1>2 DEF ProfileValid
  <2>2. CASE \E i \in DOMAIN rows : ~Readable(rows[i])
    <3>1. p = [tradeable |-> FALSE]
      BY <1>1, <2>2 DEF Profile
    <3> QED BY <2>1, <3>1
  <2>3. CASE \A i \in DOMAIN rows : Readable(rows[i])
    <3>1. p = [tradeable |-> Above(Merged(tfs, cs).confidence, 0), market |-> Merged(tfs, cs),
               timeframes |-> cs, limit |-> Least(limits(cs))]
      BY <1>1, <1>3, <2>3 DEF Profile
    <3> QED BY <1>4, <2>3, <3>1
  <2> QED BY <2>2, <2>3
<1>6. \A i \in 1 .. n : /\ cs[i].confidence = Confidence(rows[i]) /\ cs[i].risk = Risk(rows[i])
                        /\ "confidence" \in DOMAIN cs[i]
  <2>1. \A row : /\ Characteristics(row).confidence = Confidence(row)
                 /\ Characteristics(row).risk = Risk(row)
                 /\ "confidence" \in DOMAIN Characteristics(row)
    BY DEF Characteristics
  <2> QED BY <1>3, <2>1
<1>7. \A i \in 1 .. n : Confidence(rows[i]) # NaN /\ Confidence(rows[i]) \in Nat
  <2>1. \A i \in 1 .. n : Confidence(rows[i]) # NaN
    BY <1>2, <1>4, <1>5, <1>6 DEF ProfileValid
  <2> QED BY <1>5, <2>1, ConfidenceType
<1>8. PICK values : /\ values = limits(cs) /\ values \in [1 .. n -> Nat]
                    /\ \A i \in 1 .. n : values[i] = Confidence(rows[i])
  <2>1. limits(cs) = [i \in 1 .. n |-> cs[i].confidence]
    BY <1>4
  <2>2. \A i \in 1 .. n : cs[i].confidence = Confidence(rows[i]) /\ cs[i].confidence \in Nat
    BY <1>6, <1>7
  <2> HIDE DEF limits
  <2> QED BY <2>1, <2>2
<1>9. p.limit \in Nat
  BY <1>5, <1>8, LeastType
<1>10. p.market.confidence \in Nat
  <2>1. p.market.confidence = WeightedMean(weights, values)
    <3>1. 1 \in 1 .. n
      OBVIOUS
    <3>2. "confidence" \in DOMAIN cs[1]
      BY <1>6, <3>1
    <3>3. values = [i \in DOMAIN cs |-> cs[i]["confidence"]]
      BY <1>8
    <3> QED BY <1>5, <3>2, <3>3 DEF Merged
  <2>2. weights \in [1 .. n -> Nat \ {0}]
    BY DEF Weight
  <2> HIDE DEF weights
  <2> QED BY <1>8, <2>1, <2>2, WeightedMeanType
<1>11. PICK S : S = {p.market.confidence, p.limit}
                       \cup {p.timeframes[i].confidence : i \in DOMAIN p.timeframes}
  OBVIOUS
<1>12. S \subseteq Nat /\ S # {} /\ \A i \in 1 .. n : Confidence(rows[i]) \in S
  <2>1. PICK T : T = {p.timeframes[i].confidence : i \in DOMAIN p.timeframes}
    OBVIOUS
  <2>2. \A i \in 1 .. n : p.timeframes[i].confidence = Confidence(rows[i])
    BY <1>5, <1>6
  <2>3. DOMAIN p.timeframes = 1 .. n
    BY <1>4, <1>5
  <2>4. T \subseteq Nat /\ \A i \in 1 .. n : Confidence(rows[i]) \in T
    BY <1>7, <2>1, <2>2, <2>3
  <2>5. S = {p.market.confidence, p.limit} \cup T
    BY <1>11, <2>1
  <2> QED BY <1>9, <1>10, <2>4, <2>5
<1>13. PICK least \in Nat : least = Min(S) /\ \A x \in S : least <= x
  BY <1>12, LeastOfNaturals
<1>14. found.confidence <= least
  <2>1. NaN \notin S
    BY <1>12, NaNAssumption
  <2>2. found.confidence = Clamp(least, 0, 10000)
    BY <1>2, <1>11, <1>13, <2>1 DEF SafeConfidence
  <2> QED BY <2>2 DEF Clamp
<1>15. found.confidence \in Int
  BY <1>2, <1>11, <1>12, <1>13, NaNAssumption DEF SafeConfidence, Clamp
<1>16. ASSUME NEW i \in 1 .. n PROVE found.confidence <= Confidence(rows[i])
  <2>1. Confidence(rows[i]) \in Nat /\ least <= Confidence(rows[i])
    BY <1>7, <1>12, <1>13
  <2> QED BY <1>14, <1>15, <2>1
<1> QED BY <1>2, <1>4, <1>5, <1>6, <1>7, <1>16

(* Who has ema_200 has a history, and then every column as it was told.    *)
ProfiledFrame(frame) ==
    /\ frame.rows \in Nat /\ ProfiledRow(frame.row)
    /\ {"close", "atr", "rsi_14", "mfi_14", "ema_200"} \subseteq DOMAIN frame.row

LEMMA ReadableIsLong ==
    ASSUME NEW frame, ProfiledFrame(frame), Readable(WithIndicators(frame))
    PROVE  frame.rows >= 200 /\ ProfiledRow(WithIndicators(frame))
<1> DEFINE Columns == {"close", "atr", "rsi_14", "mfi_14", "ema_200"}
           r1 == TrendIndicators(frame, frame.row)
           r2 == MomentumIndicators(frame, r1)
           r3 == VolumeIndicators(frame, r2)
           r4 == VolatilityIndicators(frame, r3)
<1>1. WithIndicators(frame) = r4
  BY DEF WithIndicators
<1>2. ASSUME NEW row, NEW needs, Columns \subseteq DOMAIN row
      PROVE  /\ Columns \subseteq DOMAIN Shortened(frame, row, needs)
             /\ \A c \in Columns : c \notin DOMAIN needs => Shortened(frame, row, needs)[c] = row[c]
             /\ \A c \in Columns : c \in DOMAIN needs /\ ~(frame.rows < needs[c]) =>
                                      Shortened(frame, row, needs)[c] = row[c]
             /\ \A c \in Columns : c \in DOMAIN needs /\ frame.rows < needs[c] =>
                                      Shortened(frame, row, needs)[c] = NaN
  BY <1>2 DEF Shortened
<1> HIDE DEF Columns
<1>c. Columns = {"close", "atr", "rsi_14", "mfi_14", "ema_200"}
  BY DEF Columns
<1>3. /\ Columns \subseteq DOMAIN r1 /\ (frame.rows < 200 => r1.ema_200 = NaN)
      /\ \A c \in Columns \ {"ema_200"} : r1[c] = frame.row[c]
  <2>1. Columns \subseteq DOMAIN frame.row
    BY <1>c DEF ProfiledFrame
  <2> QED BY <1>2, <1>c, <2>1 DEF TrendIndicators
<1> HIDE DEF r1
<1>4. /\ Columns \subseteq DOMAIN r2 /\ r2.ema_200 = r1.ema_200
      /\ r2.close = r1.close /\ r2.atr = r1.atr /\ r2.mfi_14 = r1.mfi_14
      /\ ~(frame.rows < 15) => r2.rsi_14 = r1.rsi_14
  BY <1>2, <1>3, <1>c DEF MomentumIndicators
<1> HIDE DEF r2
<1>5. /\ Columns \subseteq DOMAIN r3 /\ r3.ema_200 = r2.ema_200
      /\ r3.close = r2.close /\ r3.atr = r2.atr /\ r3.rsi_14 = r2.rsi_14
      /\ ~(frame.rows < 15) => r3.mfi_14 = r2.mfi_14
  BY <1>2, <1>4, <1>c DEF VolumeIndicators
<1> HIDE DEF r3
<1>6. /\ r4.ema_200 = r3.ema_200 /\ r4.close = r3.close
      /\ r4.rsi_14 = r3.rsi_14 /\ r4.mfi_14 = r3.mfi_14
      /\ ~(frame.rows < 15) => r4.atr = r3.atr
  BY <1>2, <1>5, <1>c DEF VolatilityIndicators
<1> HIDE DEF r4
<1>7. ~(frame.rows < 200)
  BY <1>1, <1>3, <1>4, <1>5, <1>6 DEF Readable
<1>8. frame.rows >= 200 /\ ~(frame.rows < 15)
  BY <1>7 DEF ProfiledFrame
<1> QED BY <1>1, <1>3, <1>4, <1>5, <1>6, <1>8, <1>c DEF ProfiledFrame, ProfiledRow

(* A recommendation that is known is backed by every row of its dataset.   *)
Backed(found, dataset) ==
    \A i \in DOMAIN Timeframes :
        LET frame == dataset[Timeframes[i]]
            row   == WithIndicators(frame)
        IN  /\ Timeframes[i] \in DOMAIN dataset
            /\ frame.defect = "none" /\ frame.rows >= 200
            /\ Risk(row) # "Extreme" /\ Confidence(row) # NaN
            /\ found.confidence <= Confidence(row)

FailsClosed(found, dataset) ==
    found # NoResult /\ found.recommendation \in {"Bullish", "Bearish"} => Backed(found, dataset)

(* The frames are whole when the profile is built, and nothing is          *)
(* recommended before.                                                     *)
Judging == {"ANALYSIS", "PROFILE"}

Cautious ==
    /\ \A tf \in DOMAIN item.work.dataset : ProfiledFrame(item.work.dataset[tf])
    /\ item.at \in Judging => /\ DOMAIN item.work.dataset = Names
                              /\ \A tf \in Names : ~IndicatorsRefuse(item.work.dataset[tf])
    /\ item.at \notin {"DECISION", "EXECUTION"} => item.work.intelligence = NoResult
    /\ FailsClosed(item.work.intelligence, item.work.dataset)

LEMMA NothingIsCautious ==
    ASSUME item'.work = Nothing, item'.at \in {"idle", "next"}
    PROVE  Cautious'
<1>1. Nothing.dataset = <<>> /\ Nothing.intelligence = NoResult
  BY DEF Nothing
<1>2. DOMAIN item'.work.dataset = {} /\ item'.work.intelligence = NoResult
  BY <1>1
<1> QED BY <1>2 DEF Cautious, Judging, FailsClosed

LEMMA InitCautious == Init => Cautious
<1> SUFFICES ASSUME Init PROVE Cautious
  OBVIOUS
<1>1. item.work = Nothing /\ item.at = "idle"
  BY DEF Init, Rest
<1>2. Nothing.dataset = <<>> /\ Nothing.intelligence = NoResult
  BY DEF Nothing
<1>3. DOMAIN item.work.dataset = {} /\ item.work.intelligence = NoResult
  BY <1>1, <1>2
<1> QED BY <1>1, <1>3 DEF Cautious, Judging, FailsClosed

LEMMA TimeframesAreNumbered ==
    /\ \E n \in Nat \ {0} : DOMAIN Timeframes = 1 .. n
    /\ \A i \in DOMAIN Timeframes : Timeframes[i] \in Names
<1>1. Timeframes \in Seq(Names) /\ Timeframes # <<>>
  BY ScanAssumption
<1>2. PICK n \in Nat : DOMAIN Timeframes = 1 .. n /\ n = Len(Timeframes)
  BY <1>1, LenProperties
<1>3. n # 0
  BY <1>1, <1>2, EmptySeq
<1> QED BY <1>2, <1>3 DEF Names

(* The profile that is built of whole frames.                              *)
LEMMA ProfileIsBacked ==
    ASSUME NEW dataset, DOMAIN dataset = Names,
           \A tf \in Names : ProfiledFrame(dataset[tf]) /\ ~IndicatorsRefuse(dataset[tf]),
           NEW rows, rows = [i \in DOMAIN Timeframes |-> WithIndicators(dataset[Timeframes[i]])]
    PROVE  FailsClosed(Intelligence(Profile(Timeframes, rows)), dataset)
<1>1. PICK n \in Nat \ {0} : DOMAIN Timeframes = 1 .. n
  BY TimeframesAreNumbered
<1>2. \A i \in 1 .. n : /\ Timeframes[i] \in Names /\ rows[i] = WithIndicators(dataset[Timeframes[i]])
                        /\ ProfiledFrame(dataset[Timeframes[i]])
                        /\ dataset[Timeframes[i]].defect = "none"
  BY <1>1, TimeframesAreNumbered DEF IndicatorsRefuse, CalculatorRefuses
<1>3. rows = [i \in 1 .. n |-> rows[i]]
  BY <1>1
<1>4. \A i \in 1 .. n : Readable(rows[i]) =>
         ProfiledRow(rows[i]) /\ dataset[Timeframes[i]].rows >= 200
  BY <1>2, ReadableIsLong
<1>5. PICK found : found = Intelligence(Profile(Timeframes, rows))
  OBVIOUS
<1>6. ASSUME found.recommendation \in {"Bullish", "Bearish"}
      PROVE  Backed(found, dataset)
  <2>1. \A i \in 1 .. n :
           /\ Readable(rows[i]) /\ Risk(rows[i]) # "Extreme" /\ Confidence(rows[i]) # NaN
           /\ found.confidence <= Confidence(rows[i])
    BY <1>1, <1>3, <1>4, <1>5, <1>6, DirectionIsBacked
  <2> QED BY <1>1, <1>2, <1>4, <2>1 DEF Backed
<1> QED BY <1>5, <1>6 DEF FailsClosed

(* A stage that adds neither frames nor a recommendation.                  *)
LEMMA SameFrames ==
    ASSUME Cautious, item'.work.dataset = item.work.dataset,
           item'.work.intelligence = item.work.intelligence,
           item'.at \in Judging => \/ item.at \in Judging
                                   \/ /\ DOMAIN item.work.dataset = Names
                                      /\ \A tf \in Names : ~IndicatorsRefuse(item.work.dataset[tf]),
           item'.at \notin {"DECISION", "EXECUTION"} => item.at \notin {"DECISION", "EXECUTION"}
    PROVE  Cautious'
BY DEF Cautious

LEMMA NextCautious ==
    ASSUME Cautious, Planned, [Next]_vars
    PROVE  Cautious'
<1>1. CASE UNCHANGED item
  BY <1>1, SameFrames
<1>2. ASSUME item' = Rest \/ item' = NextItem \/ \E q : item' = Between(q)
      PROVE  Cautious'
  <2>1. item'.work = Nothing /\ item'.at \in {"idle", "next"}
    BY <1>2 DEF Rest, NextItem, Between
  <2> QED BY <2>1, NothingIsCautious
<1>3. ASSUME NEW stage, Fail(stage)
      PROVE  Cautious'
  BY <1>2, <1>3 DEF Fail
<1>4. CASE BeginSymbol
  <2>1. item' = [item EXCEPT !.symbol = Head(batch), !.at = "DOWNLOAD"] /\ item.at = "next"
    BY <1>4 DEF BeginSymbol, Idle
  <2>2. item'.at = "DOWNLOAD" /\ item'.work = item.work
    BY <2>1 DEF Planned
  <2> QED BY <2>1, <2>2, SameFrames DEF Judging
<1>5. ASSUME NEW stage, NEW next, NEW work, Continue(stage, next, work),
             work.dataset = item.work.dataset, work.intelligence = item.work.intelligence,
             next \in Judging => \/ stage \in Judging
                                 \/ /\ DOMAIN item.work.dataset = Names
                                    /\ \A tf \in Names : ~IndicatorsRefuse(item.work.dataset[tf]),
             stage \notin {"DECISION", "EXECUTION"}
      PROVE  Cautious'
  <2>1. item' = [item EXCEPT !.at = next, !.work = work] /\ item.at = stage
    BY <1>5 DEF Continue, At
  <2>2. item'.at = next /\ item'.work = work
    BY <2>1, GoesOn
  <2> QED BY <1>5, <2>1, <2>2, SameFrames
<1>6. ASSUME NEW frame \in Frames, Download(frame)
      PROVE  Cautious'
  <2> DEFINE answer  == [rows |-> frame.rows, defect |-> frame.defect, row |-> frame.row,
                         candles |-> Candles(clock)]
             dataset == [tf \in DOMAIN Work.dataset \cup {Here} |->
                            IF tf = Here THEN Mapped(answer) ELSE Work.dataset[tf]]
             next == IF DOMAIN dataset = Names THEN "VALIDATION" ELSE "DOWNLOAD"
             work == [Work EXCEPT !.dataset = dataset]
  <2>1. CASE Fail("DOWNLOAD")
    BY <1>3, <2>1
  <2>2. CASE Continue("DOWNLOAD", next, work)
    <3>1. ProfiledFrame(Mapped(answer))
      <4>1. Mapped(answer).row = frame.row /\ Mapped(answer).rows = frame.rows
        BY DEF Mapped
      <4>2. /\ frame.rows \in Nat /\ frame.row \in [DOMAIN frame.row -> IndicatorValue]
            /\ frame.row.close \in Int /\ frame.row.atr \in Int
            /\ RequiredIndicators \cup ProfiledIndicators \cup {"close"} \subseteq DOMAIN frame.row
        BY ScanAssumption
      <4>3. {"close", "atr", "rsi_14", "mfi_14", "ema_200"} \subseteq DOMAIN frame.row
        BY <4>2 DEF ProfiledIndicators
      <4>4. frame.row.rsi_14 \in IndicatorValue /\ frame.row.mfi_14 \in IndicatorValue
        BY <4>2, <4>3
      <4> HIDE DEF answer
      <4> QED BY <4>1, <4>2, <4>3, <4>4 DEF ProfiledFrame, ProfiledRow
    <3>2. \A tf \in DOMAIN dataset : ProfiledFrame(dataset[tf])
      <4>1. \A tf \in DOMAIN dataset : dataset[tf] = Mapped(answer) \/
               (tf \in DOMAIN Work.dataset /\ dataset[tf] = Work.dataset[tf])
        <5> HIDE DEF answer
        <5> QED OBVIOUS
      <4> HIDE DEF answer, dataset
      <4> QED BY <3>1, <4>1 DEF Cautious, Work
    <3> HIDE DEF dataset
    <3>3. work.dataset = dataset /\ work.intelligence = item.work.intelligence
      BY DEF Planned, Work
    <3>4. next \in {"VALIDATION", "DOWNLOAD"}
      OBVIOUS
    <3> HIDE DEF work, next
    <3>5. item' = [item EXCEPT !.at = next, !.work = work] /\ item.at = "DOWNLOAD"
      BY <2>2 DEF Continue, At
    <3>6. item'.at = next /\ item'.work = work
      BY <3>5, GoesOn
    <3>7. item'.work.intelligence = NoResult
      BY <3>3, <3>5, <3>6 DEF Cautious
    <3> QED BY <3>2, <3>3, <3>4, <3>6, <3>7 DEF Cautious, Judging, FailsClosed
  <2> QED BY <1>6, <2>1, <2>2 DEF Download
<1>7. CASE Validate
  BY <1>3, <1>5, <1>7 DEF Validate, Judging, Work
<1>8. CASE Store
  BY <1>5, <1>8 DEF Store, Judging, Work
<1>9. CASE Indicators
  <2>1. /\ Continue("INDICATORS", "ANALYSIS", item.work) /\ item.at = "INDICATORS"
        /\ \A tf \in Names : ~IndicatorsRefuse(item.work.dataset[tf])
    BY <1>9 DEF Indicators, Continue, Work, At
  <2>2. DOMAIN item.work.dataset = Names
    BY <2>1 DEF Planned, Downloaded
  <2> QED BY <1>5, <2>1, <2>2
<1>10. CASE Analyze
  <2>1. PICK work : /\ Continue("ANALYSIS", "PROFILE", work)
                    /\ work.dataset = item.work.dataset /\ work.intelligence = item.work.intelligence
    <3>1. \A found : /\ [Work EXCEPT !.analysis = found].dataset = item.work.dataset
                     /\ [Work EXCEPT !.analysis = found].intelligence = item.work.intelligence
      BY DEF Work, Planned
    <3> QED BY <1>10, <3>1 DEF Analyze
  <2> QED BY <1>5, <2>1 DEF Judging
<1>11. CASE BuildProfile
  <2>1. CASE Fail("PROFILE")
    BY <1>3, <2>1
  <2>2. CASE ~Fail("PROFILE")
    <3>1. PICK found, work : /\ found = Intelligence(Profile(Timeframes, Rows))
                             /\ work = [Work EXCEPT !.intelligence = found]
                             /\ Continue("PROFILE", "DECISION", work)
      BY <1>11, <2>2 DEF BuildProfile
    <3>2. work.dataset = item.work.dataset /\ work.intelligence = found
      BY <3>1 DEF Work, Planned
    <3>3. item' = [item EXCEPT !.at = "DECISION", !.work = work] /\ item.at = "PROFILE"
      BY <3>1 DEF Continue, At
    <3>4. item'.at = "DECISION" /\ item'.work = work
      BY <3>3, GoesOn
    <3>5. DOMAIN item.work.dataset = Names
          /\ \A tf \in Names : /\ ProfiledFrame(item.work.dataset[tf])
                               /\ ~IndicatorsRefuse(item.work.dataset[tf])
      BY <3>3 DEF Cautious, Judging
    <3>6. Rows = [i \in DOMAIN Timeframes |-> WithIndicators(item.work.dataset[Timeframes[i]])]
      BY DEF Rows, Work
    <3>7. FailsClosed(found, item.work.dataset)
      BY <3>1, <3>5, <3>6, ProfileIsBacked
    <3> QED BY <3>2, <3>4, <3>5, <3>7 DEF Cautious, Judging
  <2> QED BY <2>1, <2>2
<1>12. CASE Decide
  <2>1. PICK plan : item' = [item EXCEPT !.at = "EXECUTION", !.work = [Work EXCEPT !.plan = plan]]
    BY <1>12 DEF Decide
  <2>2. item'.at = "EXECUTION" /\ item'.work = [Work EXCEPT !.plan = plan]
    BY <2>1, GoesOn
  <2>3. item'.work.dataset = item.work.dataset /\ item'.work.intelligence = item.work.intelligence
    BY <2>2 DEF Work, Planned
  <2> QED BY <2>2, <2>3, SameFrames DEF Judging
<1>13. CASE DownloadFails \/ StoreFails \/ IndicatorsFail
  BY <1>3, <1>13 DEF DownloadFails, StoreFails, IndicatorsFail, RollBack
<1>14. CASE EndBatch \/ Execute \/ \E op, symbols, q : Run(op, symbols, q)
  BY <1>2, <1>14 DEF EndBatch, Execute, Run
<1>15. CASE Tick \/ Start \/ Reset \/ Shutdown \/ RefuseSymbol \/ UNCHANGED vars
  BY <1>1, <1>15 DEF Tick, Start, Reset, Shutdown, RefuseSymbol, vars
<1> QED BY <1>4, <1>6, <1>7, <1>8, <1>9, <1>10, <1>11, <1>12, <1>13, <1>14, <1>15 DEF Next, Stages

(* ProfileIntelligence fails closed: with no answer of the exchange is a   *)
(* direction recommended that one of the timeframes does not back, or with *)
(* more confidence than it has.                                            *)
THEOREM IntelligenceFailsClosedHolds == Spec => []IntelligenceFailsClosed
<1>1. Cautious => IntelligenceFailsClosed
  <2> SUFFICES ASSUME Cautious PROVE IntelligenceFailsClosed
    OBVIOUS
  <2>1. FailsClosed(item.work.intelligence, item.work.dataset)
    BY DEF Cautious
  <2>2. \A i \in DOMAIN Timeframes : Rows[i] = WithIndicators(item.work.dataset[Timeframes[i]])
    BY DEF Rows, Work
  <2> HIDE DEF Cautious
  <2> QED BY <2>1, <2>2 DEF IntelligenceFailsClosed, FailsClosed, Backed, Work
<1> QED BY <1>1, InitPlanned, InitCautious, NextPlanned, NextCautious, PTL DEF Spec
=============================================================================
