------------------------------ MODULE Discovery ------------------------------
(***************************************************************************)
(* One ScalpingOpportunityPipeline over one OpportunityDiscovery, asked    *)
(* again and again by the signal cycle of a run: the universe, the bulk    *)
(* answers, the targeted revalidation of what they lack, the history, the  *)
(* hand-off of the daily candles, the recall, the evaluation of what was   *)
(* recalled and the selection of the active set.                           *)
(*                                                                         *)
(* A run starts either strict (the official runner, whose source has a     *)
(* startup deadline) or lenient (the legacy one, whose discovery may       *)
(* answer with the output of before).  The requests of one step are made   *)
(* by a pool of threads and joined before the next; they share nothing, so *)
(* their order is left out.  The ranker has a hysteresis of its own, which *)
(* only orders candidates that the recall sorts again; it is left out too. *)
(***************************************************************************)
EXTENDS Opportunity

CONSTANTS Universes,  \* what exchangeInfo may list, as sets of symbols
          Rows,       \* what may be known of a symbol: [ticker, book, history, quality]
          Charts      \* what the candles of a symbol may show

ASSUME DiscoveryAssumption ==
    /\ Universes \subseteq SUBSET Symbols
    /\ \A r \in Rows : /\ r.ticker \in {"none", "low", "good"}
                       /\ r.book \in {"none", "wide", "tight"}
                       /\ r.history \in Histories
                       /\ r.quality \in Qualities
    /\ \A c \in Charts : ValidChart(c)

Attempts == 2   \* RECONCILIATION_MAX_ATTEMPTS

VARIABLES strict,    \* the source has a _startup_deadline
          pc,        \* where the call of the pipeline is, or "failed"
          universe,  \* the symbols of this call
          metrics,   \* the metrics that were acquired, by symbol
          pending,   \* the symbols to be revalidated
          attempt,   \* of the revalidation
          handoff,   \* the symbols of _last_daily_candle_handoff
          fresh,     \* the hand-off was made by this call (an observer's)
          cached,    \* _cached_output as <<candidates>>, <<>> for none
          pool,      \* the candidates that were recalled
          daily,     \* the symbols whose daily candles were handed over
          evaluated, \* [evidence, entry] of every candidate of the last result
          active     \* the active set of the last result, and _previous_active

vars == <<strict, pc, universe, metrics, pending, attempt, handoff, fresh, cached,
          pool, daily, evaluated, active>>

acquired == <<universe, metrics, pending, attempt>>

result == <<pool, daily, evaluated>>
-----------------------------------------------------------------------------
Nothing == [s \in {} |-> 0]

Init ==
    /\ strict \in BOOLEAN
    /\ pc = "idle"
    /\ universe = {} /\ metrics = Nothing /\ pending = {} /\ attempt = 0
    /\ handoff = {} /\ fresh = TRUE
    /\ cached = <<>>
    /\ pool = {} /\ daily = {} /\ evaluated = Nothing
    /\ active = <<>>

(* A call that ends, by its result or by an exception, leaves nothing of   *)
(* what it acquired.                                                       *)
Leave == universe' = {} /\ metrics' = Nothing /\ pending' = {} /\ attempt' = 0

Return == pc' = "idle" /\ Leave

(* The exception of the first call ends the run before it has a runner.    *)
Startup == active = <<>>

Abort == pc' = (IF Startup THEN "failed" ELSE "idle") /\ Leave

(* Later the caller skips its cycle and keeps its active symbols.          *)
Raise == Abort /\ UNCHANGED <<strict, cached, active, result>>
-----------------------------------------------------------------------------
(* The pipeline asks for the universe; a failure of that request changes   *)
(* nothing.  The exchange's list is cached for a while, so that it may be  *)
(* older than the rows.                                                    *)
Discover(listed) ==
    /\ pc = "idle"
    /\ pc' = "metrics" /\ universe' = listed
    /\ fresh' = FALSE
    /\ pool' = {} /\ daily' = {} /\ evaluated' = Nothing
    /\ UNCHANGED <<strict, metrics, pending, attempt, handoff, cached, active>>

(* The candidates whose daily candles the hand-off spares a request; of    *)
(* those it lacks, and of the other timeframes, the provider is asked.     *)
Daily(candidates) == handoff \cap {c.symbol : c \in candidates}

TakeHandOff == handoff' = {}

(* FastRecall over the output of the discovery, after the hand-off is      *)
(* taken: what cannot be recalled raises, and has taken it as well.        *)
RecallFrom(candidates) ==
    LET recalled == ToSet(Recall(candidates))
    IN  IF Cardinality(recalled) <= ActiveTop
        THEN Abort /\ UNCHANGED <<pool, daily>>
        ELSE /\ pool' = recalled
             /\ daily' = Daily(recalled)
             /\ pc' = "evaluate" /\ Leave

(* Within the refresh interval a lenient discovery answers as before.      *)
AnswerAgain ==
    /\ pc = "metrics" /\ ~strict /\ cached # <<>>
    /\ RecallFrom(cached[1])
    /\ TakeHandOff
    /\ UNCHANGED <<strict, fresh, cached, evaluated, active>>
-----------------------------------------------------------------------------
(* The two bulk requests and the histories they call for.  A strict run    *)
(* revalidates a symbol that either answer lacks; a history that fails     *)
(* leaves the symbol out.  A lenient run leaves out what cannot be         *)
(* measured, and ends when a history times out.                            *)

Missing(rows) == {s \in universe : rows[s].ticker = "none" \/ rows[s].book = "none"}

Measured(rows, symbols) ==
    [s \in {t \in symbols : Measurable(rows[t])} |-> MetricOf(rows[s])]

TimesOut(rows) ==
    ~strict /\ \E s \in universe : NeedsHistory(rows[s]) /\ rows[s].history = "timeout"

(* The end of the acquisition makes a new hand-off of the full histories.  *)
Acquired ==
    /\ pc' = "rank"
    /\ handoff' = {s \in DOMAIN metrics' : metrics'[s].whole}
    /\ fresh' = TRUE

BulkStrict(rows) ==
    /\ pc = "metrics" /\ strict
    /\ pending' = Missing(rows)
    /\ metrics' = Measured(rows, universe \ pending')
    /\ attempt' = 1
    /\ IF pending' = {} THEN Acquired ELSE pc' = "revalidate" /\ UNCHANGED <<handoff, fresh>>
    /\ UNCHANGED <<strict, universe, cached, active, result>>

BulkLenient(rows) ==
    /\ pc = "metrics" /\ ~strict /\ ~TimesOut(rows)
    /\ metrics' = Measured(rows, universe)
    /\ attempt' = 1
    /\ Acquired
    /\ UNCHANGED <<strict, universe, pending, cached, active, result>>

(* A bulk request, or in a lenient run a history, fails.                   *)
BulkFails ==
    /\ pc = "metrics"
    /\ handoff' = IF strict THEN handoff ELSE {}
    /\ UNCHANGED fresh
    /\ Raise

(* Each pending symbol is asked for alone; an error counts as no answer.   *)
Revalidate(rows) ==
    /\ pc = "revalidate"
    /\ LET found == Measured(rows, pending)
       IN  metrics' = [s \in DOMAIN metrics \cup DOMAIN found |->
                          IF s \in DOMAIN found THEN found[s] ELSE metrics[s]]
    /\ pending' = {s \in pending : ~Measurable(rows[s])}
    /\ attempt' = attempt + 1
    /\ IF pending' = {} \/ attempt = Attempts THEN Acquired
       ELSE UNCHANGED <<pc, handoff, fresh>>
    /\ UNCHANGED <<strict, universe, cached, active, result>>

(* A strict discovery that lacks a symbol fails; its hand-off stays.       *)
Incomplete ==
    /\ pc = "rank" /\ strict /\ universe \ DOMAIN metrics # {}
    /\ UNCHANGED <<handoff, fresh>>
    /\ Raise

Candidates ==
    {[symbol |-> s, score |-> metrics[s].score, quality |-> metrics[s].quality] :
        s \in {t \in DOMAIN metrics : metrics[t].eligible}}

(* Mutant: the hand-off may be taken more than once.                       *)
RankAndKeepHandOff ==
    /\ pc = "rank" /\ (strict => universe \subseteq DOMAIN metrics)
    /\ cached' = IF strict THEN <<>> ELSE <<Candidates>>
    /\ RecallFrom(Candidates)
    /\ UNCHANGED <<strict, handoff, fresh, evaluated, active>>

(* The output is kept (a strict discovery never reads it) and recalled     *)
(* from.                                                                   *)
Rank ==
    /\ pc = "rank" /\ (strict => universe \subseteq DOMAIN metrics)
    /\ cached' = IF strict THEN <<>> ELSE <<Candidates>>
    /\ RecallFrom(Candidates)
    /\ TakeHandOff
    /\ UNCHANGED <<strict, fresh, evaluated, active>>
-----------------------------------------------------------------------------
(* The candles of every candidate are fetched, the daily ones unless they  *)
(* were handed over, and judged; a failure other than by time counts as no *)
(* evidence.                                                               *)
Evaluate ==
    /\ pc = "evaluate"
    /\ active' = Active(pool, active)
    /\ Return
    /\ \E evidence \in [{c.symbol : c \in pool} ->
                           {Evidence(c) : c \in Charts} \cup {NoEvidence}] :
           evaluated' = [s \in DOMAIN evidence |->
                            [evidence |-> evidence[s], entry |-> Entry(evidence[s])]]
    /\ UNCHANGED <<strict, handoff, fresh, cached, pool, daily>>

EvaluationTimesOut ==
    /\ pc = "evaluate"
    /\ pool' = {} /\ daily' = {}
    /\ Abort
    /\ UNCHANGED <<strict, handoff, fresh, cached, evaluated, active>>

Next ==
    \/ \E u \in Universes : Discover(u)
    \/ AnswerAgain
    \/ \E rows \in [universe -> Rows] : BulkStrict(rows) \/ BulkLenient(rows)
    \/ BulkFails
    \/ \E rows \in [pending -> Rows] : Revalidate(rows)
    \/ Incomplete
    \/ Rank
    \/ Evaluate
    \/ EvaluationTimesOut

Spec == Init /\ [][Next]_vars
-----------------------------------------------------------------------------
(* The daily candles that the evaluation does not fetch were acquired by   *)
(* this very call, whatever calls failed or answered from the cache before *)
(* it (take_daily_candle_handoff, "exactly once").                         *)
DailyCandlesAreFresh == pc = "evaluate" /\ daily # {} => fresh

(* Whatever the hysteresis retains, the active set has the best scores of  *)
(* the pool but for its last place: the incumbent that was retained last   *)
(* is the first to be replaced.  Scores, not symbols: of equal ones select *)
(* takes the first name for the best, and min the first name for the worst. *)
BestScoresAreActive ==
    evaluated # Nothing =>
        /\ Len(active) = ActiveTop /\ ToSet(active) \subseteq pool
        /\ \A i \in 1 .. ActiveTop - 1 : active[i].score = ByScore(pool)[i].score

(* No entry is allowed but for a classified opportunity in band A or A+,   *)
(* that rewards its risk, is timed and goes up, or down by just LongMin:   *)
(* the one direction that neither of the two tests of decide refuses.      *)
(* Neither missing candles nor the bands below leave a permission behind.  *)
EntriesAreBacked ==
    \A s \in DOMAIN evaluated :
        LET e == evaluated[s].evidence
        IN  evaluated[s].entry.allowed =>
                /\ evaluated[s].entry.state \in {"A", "A+"}
                /\ e.class # "UNCLASSIFIED"
                /\ e.score >= 7000 /\ e.timing >= 6000
                /\ e.direction >= LongMin \/ e.direction = -LongMin
                /\ e.ratio >= 150
=============================================================================
