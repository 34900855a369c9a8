----------------------------- MODULE ScanPipeline -----------------------------
(***************************************************************************)
(* The scan of a batch of symbols: OrionApplication over Pipeline over     *)
(* Orchestrator, with the provider, the storage and the engines that the   *)
(* DependencyContainer gives them.  One thread runs it; an action is one   *)
(* stage, since the exchange and the store may fail in each, and the       *)
(* market goes on meanwhile.                                               *)
(***************************************************************************)
EXTENDS MarketData

CONSTANTS Symbols,
          Blank,        \* a symbol of spaces
          Timeframes,   \* the timeframes that are asked for, in their order
          Frames,       \* what the exchange may answer, without the candles
          Quantities,   \* the quantity of a run; NaN when there is none
          MaxClock,     \* ticks of the market, a bound
          MaxBatch,     \* symbols of a batch, a bound
          MaxRuns,      \* symbols that are run in all, a bound
          NoResult      \* None

Names == {Timeframes[i] : i \in DOMAIN Timeframes}

PipelineStages ==
    {"INITIALIZE", "DOWNLOAD", "VALIDATION", "STORE", "INDICATORS", "ANALYSIS", "PROFILE",
     "SCORE", "DECISION", "FINISHED"}

ASSUME ScanAssumption ==
    /\ Blank \notin Symbols
    /\ Timeframes \in Seq(Names) \ {<<>>}
    /\ MaxClock \in Nat /\ MaxBatch \in Nat /\ MaxRuns \in Nat
    /\ \A frame \in Frames :
          /\ frame.rows \in Nat
          /\ frame.row \in [DOMAIN frame.row -> IndicatorValue]
          /\ frame.row.close \in Int /\ frame.row.atr \in Int
          /\ RequiredIndicators \cup ProfiledIndicators \cup {"close"} \subseteq DOMAIN frame.row
    /\ NoResult \notin [symbol : Symbols, stage : PipelineStages]
    /\ NoResult \notin {"ORCHESTRATION", "EXECUTED"}

VARIABLES running,  \* OrionApplication._is_running
          runs,     \* how many symbols were given to run so far, for the bound
          clock,    \* the time of the market
          stored,   \* the table market_data: per symbol and timeframe, its candles
          fetched,  \* for each symbol the candles of the last dataset that was saved
          call,     \* "none", run_symbol or run_symbols
          batch,    \* the symbols that are still to run
          item,     \* the symbol in work, its stage, and what is known of it
          last,     \* Orchestrator._last_result
          counts,   \* ExecutionEngine._statistics
          results,  \* the PipelineItemResults of the batch in work
          summary   \* Pipeline._last_summary: whether all of the batch succeeded

vars == <<running, runs, clock, stored, fetched, call, batch, item, last, counts, results, summary>>

world == <<runs, clock, stored, fetched>>

NoCandles == [tf \in Names |-> [bar \in {} |-> 0]]

Nothing == [dataset |-> <<>>, analysis |-> NoResult, intelligence |-> NoResult,
            plan |-> NoResult]

Rest == [symbol |-> NoResult, quantity |-> NaN, at |-> "idle", work |-> Nothing]

Between(quantity) ==
    [symbol |-> NoResult, quantity |-> quantity, at |-> "next", work |-> Nothing]

NoCounts == [processed |-> 0, executed |-> 0, skipped |-> 0, failed |-> 0]

Init ==
    /\ running = FALSE
    /\ runs = 0
    /\ clock = 0
    /\ stored = [s \in Symbols |-> NoCandles]
    /\ fetched = [s \in Symbols |-> NoCandles]
    /\ call = "none"
    /\ batch = <<>>
    /\ item = Rest
    /\ last = NoResult
    /\ counts = NoCounts
    /\ results = <<>>
    /\ summary = NoResult

(* Time matters to nothing but an answer of the exchange.                  *)
Tick ==
    /\ item.at = "DOWNLOAD" /\ clock < MaxClock
    /\ clock' = clock + 1
    /\ UNCHANGED <<running, runs, stored, fetched, call, batch, item, last, counts, results, summary>>
-----------------------------------------------------------------------------
(* OrionApplication *)

NewOrchestrator == last' = NoResult

NewExecutionEngine == counts' = NoCounts

NewPipeline == summary' = NoResult

(* The container forgets the engines that it has built, but the pipeline   *)
(* goes on with them.                                                      *)
ResetContainer == UNCHANGED <<last, counts>>

(* start() builds a container and a pipeline; the table is there already.  *)
Start ==
    /\ call = "none"
    /\ running' = TRUE
    /\ NewOrchestrator /\ NewExecutionEngine /\ NewPipeline
    /\ UNCHANGED <<world, call, batch, item, results>>

ResetPipeline == summary' = NoResult

Reset ==
    /\ running /\ call = "none"
    /\ ResetPipeline /\ ResetContainer
    /\ UNCHANGED <<running, world, call, batch, item, results>>

Shutdown ==
    /\ call = "none"
    /\ running' = FALSE
    /\ ResetPipeline /\ ResetContainer
    /\ UNCHANGED <<world, call, batch, item, results>>

Run(op, symbols, quantity) ==
    /\ running /\ call = "none"
    /\ runs + Len(symbols) <= MaxRuns
    /\ runs' = runs + Len(symbols)
    /\ call' = op
    /\ batch' = symbols
    /\ item' = Between(quantity)
    /\ UNCHANGED <<running, clock, stored, fetched, last, counts, results, summary>>
-----------------------------------------------------------------------------
(* Pipeline *)

NextItem == Between(item.quantity)

Idle == item.at = "next"

(* _validate_symbol refuses the symbol before there is a stage; the result *)
(* of the orchestrator is that of whatever ran before.                     *)
RefuseSymbol ==
    /\ Idle /\ batch # <<>> /\ Head(batch) = Blank
    /\ batch' = Tail(batch)
    /\ results' = Append(results, [symbol |-> Blank, success |-> FALSE,
                                   failedStage |-> NoResult, of |-> last, status |-> NoResult])
    /\ UNCHANGED <<running, world, call, item, last, counts, summary>>

BeginSymbol ==
    /\ Idle /\ batch # <<>> /\ Head(batch) # Blank
    /\ batch' = Tail(batch)
    /\ item' = [item EXCEPT !.symbol = Head(batch), !.at = "DOWNLOAD"]
    /\ UNCHANGED <<running, world, call, last, counts, results, summary>>

(* The results are handed out; only run_symbols writes a summary.          *)
EndBatch ==
    /\ Idle /\ batch = <<>>
    /\ call' = "none"
    /\ item' = Rest
    /\ results' = <<>>
    /\ summary' = IF call = "run_symbol" THEN summary
                  ELSE results # <<>> /\ \A i \in DOMAIN results : results[i].success
    /\ UNCHANGED <<running, world, batch, last, counts>>
-----------------------------------------------------------------------------
(* Orchestrator.run_pipeline, one action for each stage *)

At(stage) == item.at = stage

Work == item.work

(* Of an OrchestrationResult: whose it is, and how far the run has come.   *)
Outcome(stage) == [symbol |-> item.symbol, stage |-> stage]

(* Mutant: only a success is remembered. *)
RememberSuccess(stage) == last' = IF stage = "FINISHED" THEN Outcome(stage) ELSE last

(* The finally clause.                                                     *)
Remember(stage) == last' = Outcome(stage)

(* A stage raises: the result so far is remembered, and the pipeline finds *)
(* it there.                                                               *)
Fail(stage) ==
    /\ At(stage)
    /\ Remember(stage)
    /\ results' = Append(results, [symbol |-> item.symbol, success |-> FALSE,
                                   failedStage |-> "ORCHESTRATION", of |-> last',
                                   status |-> NoResult])
    /\ item' = NextItem

Continue(stage, next, work) ==
    /\ At(stage)
    /\ item' = [item EXCEPT !.at = next, !.work = work]
    /\ UNCHANGED <<last, results>>

Here == Timeframes[Cardinality(DOMAIN Work.dataset) + 1]

(* The next timeframe is asked for; the request fails, after its retries,  *)
(* or is answered with a frame.                                            *)
DownloadFails ==
    /\ Fail("DOWNLOAD")
    /\ UNCHANGED <<running, world, call, batch, counts, summary>>

Download(frame) ==
    LET answer  == [rows |-> frame.rows, defect |-> frame.defect, row |-> frame.row,
                    candles |-> Candles(clock)]
        dataset == [tf \in DOMAIN Work.dataset \cup {Here} |->
                       IF tf = Here THEN Mapped(answer) ELSE Work.dataset[tf]]
    IN  /\ At("DOWNLOAD")
        /\ IF MapperRefuses(answer) THEN Fail("DOWNLOAD")
           ELSE Continue("DOWNLOAD", IF DOMAIN dataset = Names THEN "VALIDATION" ELSE "DOWNLOAD",
                         [Work EXCEPT !.dataset = dataset])
        /\ UNCHANGED <<running, world, call, batch, counts, summary>>

Validate ==
    /\ At("VALIDATION")
    /\ IF DatasetValid(Work.dataset) THEN Continue("VALIDATION", "STORE", Work)
       ELSE Fail("VALIDATION")
    /\ UNCHANGED <<running, world, call, batch, counts, summary>>

(* Mutant: a frame at a time. *)
SaveUntilItFails ==
    /\ Fail("STORE")
    /\ \E tf \in Names : stored' = [stored EXCEPT ![item.symbol] =
                             Saved(@, [t \in {tf} |-> Work.dataset[t]])]

(* The transaction is rolled back.                                         *)
RollBack == Fail("STORE") /\ UNCHANGED stored

StoreFails ==
    /\ RollBack
    /\ UNCHANGED <<running, runs, clock, fetched, call, batch, counts, summary>>

Store ==
    /\ At("STORE")
    /\ Continue("STORE", "INDICATORS", Work)
    /\ stored' = [stored EXCEPT ![item.symbol] = Saved(@, Work.dataset)]
    /\ fetched' = [fetched EXCEPT ![item.symbol] = [tf \in Names |-> Work.dataset[tf].candles]]
    /\ UNCHANGED <<running, runs, clock, call, batch, counts, summary>>

(* A frame is refused, or the library raises on one that was not.          *)
IndicatorsFail ==
    /\ Fail("INDICATORS")
    /\ UNCHANGED <<running, world, call, batch, counts, summary>>

Indicators ==
    /\ At("INDICATORS")
    /\ \A tf \in Names : ~IndicatorsRefuse(Work.dataset[tf])
    /\ Continue("INDICATORS", "ANALYSIS", Work)
    /\ UNCHANGED <<running, world, call, batch, counts, summary>>

Rows == [i \in DOMAIN Timeframes |-> WithIndicators(Work.dataset[Timeframes[i]])]

Analyze ==
    /\ At("ANALYSIS")
    /\ Continue("ANALYSIS", "PROFILE",
                [Work EXCEPT !.analysis = Analysis(WithIndicators(Work.dataset[Primary(Timeframes)]))])
    /\ UNCHANGED <<running, world, call, batch, counts, summary>>

BuildProfile ==
    LET profile == Profile(Timeframes, Rows)
    IN  /\ At("PROFILE")
        /\ IF profile.tradeable
           THEN Continue("PROFILE", "DECISION",
                         [Work EXCEPT !.intelligence = Intelligence(profile)])
           ELSE Fail("PROFILE")
        /\ UNCHANGED <<running, world, call, batch, counts, summary>>

(* SCORE and DECISION do not fail on what ANALYSIS gives.                  *)
Decide ==
    LET work == [Work EXCEPT !.plan = Plan(Work.analysis, Rows[1].close)]
    IN  /\ At("DECISION")
        /\ Remember("FINISHED")
        /\ item' = [item EXCEPT !.at = "EXECUTION", !.work = work]
        /\ UNCHANGED <<running, world, call, batch, counts, results, summary>>

(* ExecutionEngine.execute, the check of its result, and the report.       *)
Execute ==
    LET status == Execution(Work.plan, item.quantity)
    IN  /\ At("EXECUTION")
        /\ counts' = [counts EXCEPT !.processed = @ + 1,
                                    !.executed = IF status = "EXECUTED" THEN @ + 1 ELSE @,
                                    !.skipped = IF status = "SKIPPED" THEN @ + 1 ELSE @,
                                    !.failed = IF status = "FAILED" THEN @ + 1 ELSE @]
        /\ results' = Append(results,
                             [symbol |-> item.symbol, success |-> status # "FAILED",
                              failedStage |-> IF status = "FAILED" THEN "EXECUTION" ELSE NoResult,
                              of |-> last, status |-> status])
        /\ item' = NextItem
        /\ UNCHANGED <<running, world, call, batch, last, summary>>

Stages ==
    \/ DownloadFails
    \/ \E frame \in Frames : Download(frame)
    \/ Validate
    \/ StoreFails
    \/ Store
    \/ IndicatorsFail
    \/ Indicators
    \/ Analyze
    \/ BuildProfile
    \/ Decide
    \/ Execute

Next ==
    \/ Tick
    \/ Start
    \/ Reset
    \/ Shutdown
    \/ \E s \in Symbols \cup {Blank}, q \in Quantities : Run("run_symbol", <<s>>, q)
    \/ \E n \in 0 .. MaxBatch : \E symbols \in [1 .. n -> Symbols \cup {Blank}], q \in Quantities :
          Run("run_symbols", symbols, q)
    \/ RefuseSymbol
    \/ BeginSymbol
    \/ EndBatch
    \/ Stages

Spec == Init /\ [][Next]_vars
-----------------------------------------------------------------------------
(* A scan never trades: whatever the exchange tells, no decision is other  *)
(* than WAIT (ScoreEngine: the score of a row stays below the threshold of *)
(* the strong categories), so no execution is ever EXECUTED.               *)
ScanNeverTrades ==
    /\ counts.executed = 0
    /\ \A i \in DOMAIN results : results[i].status # "EXECUTED"

(* The result of the orchestrator that run_symbol hands out with an item   *)
(* is that of the item's own run, also when that run has raised and the    *)
(* result is looked up afterwards.  (Of a symbol that was refused before,  *)
(* it is the result of an earlier symbol.)                                 *)
ResultsBelong ==
    \A i \in DOMAIN results :
        LET result == results[i]
        IN  result.symbol # Blank =>
                /\ result.of # NoResult
                /\ result.of.symbol = result.symbol
                /\ result.success => result.of.stage = "FINISHED"
                /\ result.failedStage = "ORCHESTRATION" => result.of.stage # "FINISHED"

(* A directional recommendation means that every timeframe that was asked  *)
(* for is there, sound, long enough and without extreme risk, and that     *)
(* none of them is less confident (ProfileEngine, ProfileIntelligence).    *)
IntelligenceFailsClosed ==
    LET found == item.work.intelligence
    IN  found # NoResult /\ found.recommendation \in {"Bullish", "Bearish"} =>
            \A i \in DOMAIN Timeframes :
                /\ Timeframes[i] \in DOMAIN Work.dataset
                /\ Work.dataset[Timeframes[i]].defect = "none"
                /\ Work.dataset[Timeframes[i]].rows >= 200
                /\ Risk(Rows[i]) # "Extreme"
                /\ Confidence(Rows[i]) # NaN
                /\ found.confidence <= Confidence(Rows[i])

(* The table has every candle as the last saved dataset tells it, in all   *)
(* timeframes, and beside them only older ones: a save that fails leaves   *)
(* nothing, and a candle that was open is replaced (save_dataset).         *)
StoreHoldsLatest ==
    \A s \in Symbols, tf \in Names :
        LET had == stored[s][tf]
            got == fetched[s][tf]
        IN  /\ \A bar \in DOMAIN got : bar \in DOMAIN had /\ had[bar] = got[bar]
            /\ \A bar \in DOMAIN had \ DOMAIN got : \E b \in DOMAIN got : bar < b
=============================================================================
