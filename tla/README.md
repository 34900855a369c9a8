# ORION NEXT: the TLA+ project

ORION NEXT is a scanner for Binance markets with a paper trading runtime: it
discovers symbols, turns candles into signals, and trades the signals on paper,
with an order lifecycle, a position book, an event-sourced ledger, a capital
policy and an operator's pause switch. Nothing it does reaches an exchange's
order interface. This directory holds TLA+ modules translated from the Python
source, the TLC configurations that check them on small instances, and TLAPS
proofs of what matters most about the ledger, the runtime, the capital bridge and
its recovery, the pause switch, the scheduler, the market feed, the replay, discovery
and the scan. `PROJECT.json` lists the
components, the runs, the lines every definition stands for (`map`), the
hazards the properties are aimed at and the disagreements found.

The repository's contracts number the parts of the paper runtime: D4 is the
order and position lifecycle, D5 the pending-order revalidation, D6 the paper
ledger. The names are used here as well.

## 1. Inventory

`M` = modelled, `P` = partly, `-` = not modelled (section 7 says why).

### Paper trading core

| component (source under `src/`) | state | operations | interacts with | hard about it | what makes it correct |
|---|---|---|---|---|---|
| M paper ledger, D6 (`binansScanner/models/paper_capital.py`) | append-only tuple of events; everything else is a fold (`replay`) | `record_order`, `reserve_cash`, `release_cash`, `record_fill`, `record_exit`, `mark`, `snapshot` | the runtime writes it, the capital view reads it | fees with a minimum, slippage in the price *and* as a cost, partial sales of an averaged cost, an event that makes every later fold raise | the fold never raises; money is neither created nor lost; cost, cash and result tell one story |
| P pending order revalidation, D5 (`tools/pending_order_revalidation.py`, `models/signal_snapshot.py`) | one pending order per intent with its window, number of reprices and drift | `build_pending_order`, `revalidate_pending_order`, `add`, `cancel`, `replace`, `try_fill` | called by the runtime for every signal and every market event | material change thresholds, cumulative drift, a replacement next to the order it replaces, expiry at the boundary | never two working orders of an intent; an order follows its signal; only a live order fills |
| P order and position lifecycle, D4 (`models/order_position_lifecycle.py`) | orders, positions, an event store with sequence numbers | `create`, `fill`, `cancel`, `expire`, `replace`, `fail`; `create_from_fill`, `reduce`, `close`, `replay` | the runtime drives it after D5 decided | one active long position per symbol; a journal that ends between two events of one operation | every order ends once; holdings equal the filled orders |
| P realtime lifecycle and supervisor (`integration/paper_realtime_lifecycle.py`, `integration/paper_runtime_supervisor.py`) | last accepted signal per intent, seen event ids, failed flag, log of operations | `submit_signal`, `revalidate`, `process_market_event`, `exit_position`, `recover` | composes D4, D5, D6 and the control | a market event visits several orders and may raise between any two calls, with no rollback | the books agree while healthy; after a failure nothing moves |
| M capital manager (`models/capital_management.py`) | reserved, committed, active positions | `calculate`, `on_fill`, `on_cancel`, `on_exit`, `set_active_positions` | sized by the bridge against a view of the ledger | a frozen view of the account; two counters of one capital | never hands out money twice; caps concurrent symbols |
| M capital bridge (`integration/paper_capital_runner_bridge.py`) | pending notional, order bindings, allocation states, a JSONL journal | `allocation_for`, `bind_order`, `release`, `on_fill`, `on_exit_symbol`, `reconcile_terminal_orders`, `recover` | between runner, manager, D4 and ledger | four ways for a reservation to end; ids used again; recovery from the journal | each pending order reserved once; recovery restores what was live |
| P paper runner (`tools/_orion_paper_8h_runner_legacy.py`, `tools/orion_paper_8h_runner.py`) | prices, followed symbols, tasks | `_run_signal_cycle`, `_on_market_event`, `run`, `_finalize` | stream, discovery, bridge, supervisor | the stream is exchanged under a running task; a report written while tasks may still run | allocations are settled; the run ends, and what is handled after its report is bounded |
| M trading control (`integration/trading_control.py`, `tools/orion_trading_control.py`) | a state file, a temporary file and an event log, shared by processes | `initialize`, `pause`, `resume`, `require_entry_allowed` | supervisor, GUI, operator command | reads and writes of several processes; check and order creation are two steps | a confirmed pause stops entries; unreadable means paused |
| - recovery verification, experiment evidence (`integration/paper_recovery_verification.py`, `paper_experiment*.py`) | fingerprints of two runtimes | `verify_recovery` | supervisor | the recovered ledger has no fee or slippage model | equal states give equal fingerprints |

### Market feed, scheduling, replay

| component | state | operations | interacts with | hard about it | what makes it correct |
|---|---|---|---|---|---|
| P market stream (`providers/market_stream.py`, `models/market_event.py`) | sockets, bounded memory of delivered ids, last time per symbol and kind, stop flag | `connect`, `run`, `stop`, `_reconnect` | the runner reads it, exchanges it and closes it | redelivery after reconnects, late events, a consumer's error taken for a lost connection, a stream exchanged while the old one is read | at most once and in order, across connections; comes back until it is stopped; then ends |
| M scheduler (`scheduler/`) | registry, engine jobs with `next_run`, running flag, worker thread | `register_job`, `remove_job`, `start`, `stop`, worker loop | jobs of the application | a join with a timeout, callbacks outside the lock, a restart while the old loop lives | enabled jobs are called; `stop` ends the workers |
| M historical replay (`replay/`) | dataset and its digest, simulation clock, stream position, the runner's prices and orders | `write_directory`, `from_directory`, `events`, the source's questions, `run` | discovery through a historical source, the paper runtime | what a step may already know; unordered, repeated, unidentified events | no decision sees the future; a fill comes after its decision; every event once |

### Discovery and analysis

| component | state | operations | interacts with | hard about it | what makes it correct |
|---|---|---|---|---|---|
| M discovery and scalping pipeline (`services/`, `providers/binance_opportunity_source.py`) | cached output, hand-off of daily candles, active set of the last selection | `discover`, `recall`, `_evaluate_candidate`, `select` | asks the exchange in bulk, then symbol by symbol; the runner trades its active set | calls that fail half way and leave a hand-off, a cache, two modes of failure, hysteresis over a changing pool, thresholds | an entry is backed by all of its evidence; the active set has the best; candles are of this call |
| P analysis engines (`engines/`) | counters of executions | analysis, score, decision, profile | stages of the orchestrator | missing columns, values that are no number, nested thresholds | a scan never trades; a recommendation needs every timeframe |
| M orchestrator, pipeline and application (`core/`, `app/application.py`) | last result, summary, counters, stage in work | `start`, `run_symbol(s)`, `reset`, `shutdown`, ten stages | provider, storage, engines | a result that is looked up after an exception; a reset between batches | every result is that of its symbol |
| P providers (`providers/binance_*.py`, `market_data_provider.py`) | sessions, caches | requests with retries, mapping | discovery and scan | retries, short histories, malformed answers | a request ends by answer, time or error |
| P storage (`storage/sqlite_market_storage.py`) | table of candles | `save_dataset` | scan | a save that fails half way, candles that are still open | the table has what was saved last |
| - recovery verification, experiment evidence, replay audits | none | comparisons of finished runs | reports | | |
| - signal journal, unused storage and repository, application services, API, GUI, reports, configuration, scripts, backup copy | | | | | |

## 2. Modules and how they correspond to the code

    LedgerOps ---- PaperLedger ---- PaperLedgerProofs
        |
        +--- PaperRuntime (with Revalidation, OrderPosition) ---- PaperRuntimeProofs
                  ==implements==> OrderDesk

    CapitalPolicy --- CapitalBridge --- CapitalRecovery --- CapitalRestart
                                             |
                                             +--- CapitalBridgeProofs

    FiniteSums: lemmas for PaperLedgerProofs, PaperRuntimeProofs, CapitalBridgeProofs,
                DiscoveryProofs, EventSourceProofs

    TradingControl + Scheduler --- ProcessProofs

    MarketFeed + Replay --- EventSourceProofs

    Opportunity --- Discovery --- DiscoveryProofs

    MarketAnalysis --- MarketProfile --- MarketData --- ScanPipeline --- ScanProofs

The `MC` modules give the constants of a module small values. Where the proofs of two
components stand in one module, which extends both, the specification of the second
has the component's name in it (`SchedulerSpec`, `ReplaySpec`).

* **LedgerOps**: the arithmetic of `paper_capital.py`: fee, slippage, execution
  price, the conditions under which `record_fill` accepts, and what one fill
  does to the fold of the ledger. Money is in whole units and percentages are
  rounded down; the MC modules choose prices and rates for which nothing is
  rounded, and the proofs hold for any rates. The fold is kept as `account` instead of the tuple of events: every
  operation of the ledger reads only the fold.
* **PaperLedger**: `account` is what `replay()` returns, `recorded` the length of
  the tuple, `traded` a history variable (the cash of a frictionless account).
  One action per method. `replay` runs before each recording, so an action needs
  `WalletOK`; once it is false the ledger is stuck, as the program is.
* **Revalidation**: `revalidate_pending_order` and what it calls as operators:
  whether a signal is expired, withdrawn, too far away, materially changed, and
  which of keep, reprice and withdraw follows.
* **OrderPosition**: D4's aggregates: which event an order or a position accepts in
  which state, and what the event makes of it.
* **PaperRuntime**: `submit_signal`, `revalidate`, market events and exits. A
  market event is not one action: `BeginEvent` takes it in, one action handles
  each pending order it visits (keep, withdraw, fill, or fail after D4 has
  filled the order and before the ledger accepted it), `EndEvent` ends it. An
  exception in between leaves the state as it is and sets `failed`.
* **OrderDesk**: the abstract specification: intents with at most one working
  order, holdings, and a desk that halts. PaperRuntime implements it with the
  pending book as working orders and the position book as holdings.
* **CapitalPolicy**: the rules of `CapitalManager`; **CapitalBridge**: the
  bridge as the runner drives it, with its journal; **CapitalRecovery**: the
  fold of `_apply_journal_event` over the journal, as a function of the state;
  **CapitalRestart**: a second process on the journal of the first.
* **TradingControl**: the state file and the temporary file that the runtime, the
  operator's command and the GUI share. An action is one file access: reading and
  deciding to write, opening (and emptying) the temporary file, writing, moving.
  A writer keeps its file when another process moves it. `alone` and `confirmed`
  are history variables: a pause counts if no resume, and no pause that began
  beside one, was under way when it began or while it ran.
* **Scheduler**: facade, registry, engine, worker threads and the client thread;
  an action is what a thread does between two points where another can run.
  `abandoned` is a history variable: the workers that `stop()` gave up in a round of
  callbacks.
* **MarketFeed**: the exchange's sockets, `DynamicMarketStream` and the inner
  stream, `MarketStreamRunner.run` (`pc`), the consumer as far as the feed can
  tell, and the tasks of `Paper8HRunner.run` (`main`). Between two actions the
  event loop may run something else; the consumer is awaited, so there is one
  event in hand, and handling it is one stretch of code, in which `run` does not go
  on (`Turn`). `main` says where `run` waits: for the tasks (running), for the close
  of the stream when the time is up (stopping), for the reader (awaiting), in the
  finally clause (closing); then it is over, and asyncio.run cancels what is left and
  returns (ended). An interrupt cancels `run` where it waits: for the tasks or the
  close, the reader goes on beside the report; for the reader, it is cancelled too; in
  the finally clause, there is no report. One interrupt comes at most: a second one
  ends the process where it is. `handled` and `report` (how many events were handled
  when the report was written) are history variables.
* **Opportunity**: D1 as functions: retries, the metrics of a symbol, its
  eligibility and score, the recall, the class, score, timing and direction of a
  chart, the entry decision, and the active set. **Discovery**: the calls of the
  pipeline one after the other, over a source that is strict or lenient, with
  what they leave to the next call: the cached output, the hand-off and the
  previous active set. `fresh` is a history variable.
* **Replay**: from the dataset that is handed to `write_directory` to the report.
  A run begins with what `from_directory` makes of the files, or with its refusal
  (`Accepted`: the digest is the one that was written and the dataset is valid).
  `Release` moves the clock; a `Handle...` action is one event in the runner.
  Discovery may answer any choice of what it can have read; the runtime may keep,
  withdraw, fill or refuse. What is sorted or filtered is placed by its rank (how
  many members come before it), which needs no recursion and can be reasoned about.
* **MarketAnalysis**: AnalysisEngine, ScoreEngine, DecisionEngine,
  ExecutionPlanBuilder and ExecutionEngine, from a row of indicators to a status.
  **MarketProfile**: ProfileBuilder, ProfileEngine and ProfileIntelligence.
  **MarketData**: what mapper, validation and indicator engine refuse, and the
  table of candles. **ScanPipeline**: OrionApplication, Pipeline and
  Orchestrator; an action is a stage, since the exchange and the store may fail in
  each, and the market goes on during a download.

Definitions named after a bug (`BuyWithoutFee`, `Retaining`, `NotEnded`, ...) and
marked *Mutant* are not used by any specification: each is a plausible bug put
in the place of the definition that follows it, to see that a property notices.

## 3. Runs

| run | what it asks | bounds, and why they are enough |
|---|---|---|
| `paper_ledger` | the wallet stays valid and the balances hold for every order of operations, including marks, partial sales and reservations | two symbols, two prices, quantities 1 and 2, 15 events: cash of 60 is used up after two buys, so every rejection occurs, and 15 events allow several rounds of buying, partial selling and emptying |
| `repricing` | one intent, all branches of revalidation, two market events | three orders: an entry and two replacements, with `MaxReprices` 2 and a drift bound of 25 percent that the second replacement exceeds; three instants around a window of 2 |
| `trading` | two intents on one symbol, failures, exits, and the refinement of OrderDesk | four orders, two events, cash for one of two buys; a second SELL that finds too little |
| `capital` | three symbols, at most two positions, compounding; recovery at every point | journal of 8 records: a full entry and exit and a second entry beside another symbol's |
| `capital_final` | recovery against the ledger at the end of a run: **violated** (finding 1) | the same instance |
| `capital_restart` | the first market event after a restart: **violated** (finding 2) | one symbol, one restart |
| `control` | a pause is read and obeyed beside other writers, crashes and restarts | the runtime and two operators, so that two pauses and a resume can overlap; one entry more than the property allows is counted |
| `scheduler` | a scheduler that runs has one worker, but for those that were given up, and the worker that stop will wait for; jobs run while the scheduler does, and stop ends the workers, under fairness | two jobs (one with an interval of zero, which counts as one), room for two live workers; the number of starts and registrations is unbounded |
| `feed` | at most once, in order, the report is final but for one event after an interrupt, lost connections come back, a stop ends the run | seven messages of two symbols, four of which are sent; memory of two ids, so that one is forgotten; two delays, and more failures than that; two streams, so that the followed one is exchanged once |
| `discovery` | every pair of consecutive calls, strict or lenient | four symbols, two of them active; four rows (good ones a hysteresis apart, too thin, without a book); four charts (breakout, too early, down by exactly the threshold and by a little less) and missing candles |
| `replay` | no look-ahead, causal fills, every event handled once, the end | datasets of six or seven events on two symbols, unordered, some repeated or without an id, with prices on both sides of a pending entry; candle rows in and out of order, and a series without rows; a day of three ticks, and a refresh interval of two, so that an answer comes from the cache |
| `scan` | a scan never trades, results belong to their symbols, recommendations fail closed, the table is the latest | two symbols in all, so that a run follows another with or without a reset; two timeframes; seven frames; a candle has two ticks, and two pass |

The runs on the ledger, the runtime, the capital bridge, discovery and replay
switch deadlock checking off: their bounds (events, orders, journal) end every
behaviour, the runtime and the ledger may really stop (failed closed, not
replayable), a discovery that fails at startup ends its run, and a replay ends.

**Fairness.** `Scheduler`: weak fairness of `Tick` (time passes) and of each
worker's steps. The operating system schedules a daemon thread that is ready, its
lock is held for short blocks only, and a callback is assumed to return, without
which no job after it could ever run. The client has none: it may stop using the
scheduler at any moment. `MarketFeed`: weak fairness of the reader, the consumer,
the waking after a delay, the attempt to connect, and the steps of `run` once its
wait is over: asyncio runs a task that is ready, a close returns (it has a timeout), and a discovery in a thread ends since its requests
have timeouts. Strong fairness of `ConnectSucceeds`: an exchange that is asked
again and again accepts at last. The exchange need not send, drop or be
reachable at any given time, and the timer and the interrupt may never come.
`Replay`: weak fairness of `Next`; there is one task, and its sleeps end. All
other specifications are about safety.

## 4. Proofs

Every proof is an induction over the behaviour: the initial states satisfy an
inductive invariant, each action keeps it, and the property follows from it. What
is summed or folded needs an induction over data as well; section "Sums and folds"
says how it is made.

### PaperLedgerProofs

For every finite set of symbols, prices, quantities, rates, minimum fee and starting
equity, and any number of events:

* `LedgerTypeCorrect`: `TypeOK`;
* `CostIdentityHolds`: starting equity is cash plus open cost plus fees less
  realized results;
* `CostsExplainCashHolds`: cash is the starting equity plus what a frictionless
  account would have traded, less fees and slippage;
* `PositionsStaySound`: no position is short, a flat one carries no cost, and the
  committed capital is the sum of the open costs;
* `AccountingIdentityHolds`: the contract's identity of equity, whatever the marks;
* `LedgerStaysReplayable`: `FeesCovered` implies that the wallet is always
  valid. The assumption is not in the code (section 5, observation 1).

The argument: a fill changes the account by a record of six differences
(`BuyDelta`, `SellDelta`). The lemmas `BuyKeepsBalance` and `SellKeepsBalance`
show that each of them adds up to nothing in both balances; `FillEffect` that
applying the record moves `cash`, `fees`, `slippage`, `realized` and `invested` by
exactly these amounts. Neither identity is inductive alone without the types
(the differences have to be integers), hence `IInv == TypeOK /\ CostIdentity /\
CostsExplainCash`, preserved by each action (`NextInv`). For the wallet a second
induction (`NextWallet`) uses the guards: a buy is checked against the available
cash, a release against what is reserved, and a sale gains because its fee is
covered. `PositionsSound` is inductive beside `IInv`: a partial sale takes its share
of the averaged cost, which is never more than the cost, and all of it when the
position ends. The accounting identity is then `CostIdentity` with the marks split
off the sum over the symbols.

### PaperRuntimeProofs

For every set of intents, offers, times, prices, events, revalidation policy and
cost model that the named assumptions allow (rates of money are natural numbers,
the symbols finite, `NoSignal` is not a signal):

* `TypeCorrect`, `IntentsStaySingle`, `BooksMatch`, `OrdersFollowSignals`: the
  invariants `TypeOK`, `SingleIntent`, `BookMatchesOrders`, `BookFollowsSignal`;
* `EventsRepriceNothing`, `FillsAreLive`: the action properties `EventsNeverReprice`
  and `OnlyLiveOrdersFill`;
* `RuntimeImplementsDesk`: every behaviour of the runtime is one of `OrderDesk`;
* `HoldingsStayInAgreement`: if every sale brings in its fee (`SalesCoverFees`) then
  `HoldingsAgree`; `HoldingsAgreeWithoutMinimum` is the same for a fee without a
  minimum, as `FeeModel` has it by default (`models/paper_capital.py:46`).

`SingleIntent` is not inductive, since a replacement is placed while its order ends:
`IInv` says that the book holds exactly the pending orders, each with its terms and one
for each intent (`Sound`), that each asks for what the last accepted signal of its
intent asks for (`Follows`), and that an event is in work only while nothing has
failed, with orders still to be visited that are pending and of its symbol
(`LoopSound`). What an action does to the orders and the book is said once, as
`Adds` (an order is created) and `Ends` (an order ends and leaves the book), and both
the invariant and the refinement use it: `Ends` is an execution or a cancellation of
the desk, `Adds` its placing, a replacement its amendment.

`HInv` is about a runtime that has not failed: the ledger can be replayed, and for each
symbol its quantity, the position and the net of the filled orders are equal. Without
`SalesCoverFees` it is false, and TLC shows how: with `FeeMinimum` 11 and a starting
equity of 31 the run buys two at 10 and sells one, whose fee of 11 leaves the cash at -1;
`exit_position` closes the position in D4, and the ledger, which no longer replays,
refuses the exit.

### CapitalBridgeProofs

For every finite set of symbols, budget, sizes, minimum and result of a trade:

* `EveryOrderReservedHolds`, `BooksStayInAgreement`, `CapitalStaysCovered`,
  `ConcurrencyStaysCapped`: the invariants of `CapitalBridge`;
* `ReservationsAlwaysSettle`: the action property `ReservationsSettle`;
* `RecoveryExactHolds`: `RecoveryExact`, at every point of every run.

`SymbolInv` says what holds of one symbol between two writes of the journal: which of the
four places of its money (reserved, bound, committed, none) its state names, and that
its only pending order is the one bound to it. A step touches one symbol; the totals
change by that symbol's amounts, which gives `Covered`: pending and committed capital
stay within the starting capital and the realized results, where the guard of
`allocation_for` is needed for a reservation and the result of a trade that loses at
most its cost for an exit. `ConcurrencyCapped` needs that the active symbols are those
with a position.

Recovery is a fold over the journal. Because a journal only grows, by one record with
each step, that fold is an invariant of the behaviour: `Loads` says that for any ledger
the fold of today's journal is today's policy, if the ledger would size and pay for every
past allocation again and no symbol was entered twice. Each action then has to show only
that applying its own record does what the action did (`Replays`). `Known` says that
a symbol whose state is not NONE was entered, so that the second entry of a symbol is seen
as one. Assumed: an exception is no policy (`RaisedAssumption`).

### Sums and folds

The provers cannot instantiate a theorem of induction over data. `FiniteSums` proves
what is needed of sums and greatest members without one: a finite set has a smallest
subset in any family (`SmallestSubset`, from the well-foundedness of strict subsets), so
that a lemma about all finite sets is shown by contradiction on a smallest counterexample.
It gives the existence of the table that the fold of a sum is defined by, what
changing one value or one element does to a sum, and its sign. A recursive function on
the natural numbers is treated alike: `LeastNatural` gives the least number at which a
claim about it would fail, and the function itself exists because a shortest table of
it that cannot be extended would be extended (`SelectionExists` in DiscoveryProofs).
Sorting is about ranks: in an order on a finite set (`Orders`) every member has a rank of its
own, and every rank up to the number of members is reached (`RankIsPlace`, `RankGrows`,
`RankReaches`).

### ProcessProofs

Trading control, for any number of processes:

* `ControlTypeCorrect`: `TypeOK`;
* `PauseIsReadHolds`: a pause that counts is what everyone reads, until a resume or
  a first start begins;
* `AtMostOneLateEntryHolds`: after it, at most the entry that had passed the check;
* `RunsOnlyOnRequestHolds`: trading is switched on only while a process writes
  RUNNING or a pause that one disturbed is under way.

`PauseIsRead` is not inductive: a pause could move a RUNNING that a crashed resume
left in the temporary file. `Calm` says that while a pause counts every writer is
such a pause, `CleanTmp` that such a pause has emptied the temporary file and no
one has written RUNNING to it since. Together with the types they are `IInv`. An
entry is counted late only if the check came before the pause, which reads
PAUSED from then on; `EntryInv` says that it is the last.

Scheduler, for any jobs, intervals and finite set of worker threads:

* `RunningServedHolds`: `RunningServed`, with `SingleWorker`;
* `RegistriesAgreeHolds`: between two calls of the client the registry and the engine
  have the same jobs, enabled alike.

`RunningServed` is not inductive: a `stop()` that finds its thread ended leaves it in
`_thread`. `Served` adds that whoever stops or joins has cleared the flag, so that
`start()`, which comes after, finds no thread that it knows alive, and that a worker
which is neither known nor given up has ended; a worker that goes on changes none of
it (`WorkerGoesOn`). `Agreed` says where the client is in its two updates and that
the engine's loop and clock change nothing of a job but its next run.

### EventSourceProofs

Market feed, for any messages, symbols, number of streams and capacity of the memory; assumed: the
constants are of their kind and times are natural numbers.

* `AtMostOnceHolds`, `InOrderHolds`: within the memory no event is given to the
  consumer twice, and what it is given of a symbol and kind goes forward in time;
* `ReportIsFinalHolds`: nothing is handled after the report of a run that was not
  interrupted, and at most one event after that of a run that was.

Neither of the first two is inductive, since they do not speak of what the runner
remembers. `Remembers` says that the ids it has are those of the last events that
were handled, in their order and up to the capacity, `Timed` that the time it keeps
for a key is never behind an event of that key; only `Accept` changes any of them.
`Shape` is about the sockets: what is read is a stream that was made and holds
messages. For the report `Ending`: a run that was not interrupted is in its finally
clause only when the reader is done (`Awaited`), and since the log is closed with the
report, the event that a reader takes after it is the one it ends at (`AfterReport`).

Historical replay, for any datasets, symbols, window of the ticker and refresh interval;
assumed: the datasets are of their kind (`ReplayAssumption`).

* `NoLookAheadHolds`: what discovery was shown is of a time the clock has reached, and
  it is what the dataset shows when everything later is cut off;
* `FillsAreCausalHolds`: a position was decided on with the last trade before the
  decision and filled by a later trade at that price or a better one;
* `HandledOnceHolds`: at its end a stream has had every event handled, a repeated one
  once, in the order of time, however the dataset was ordered.

None of them is inductive. `Followed` is their strengthening: what was read is sorted by
time (`Read`), the clock is at the last event that was released (`Clocked`), the view is what
was visible at its time (`Informed`), the events taken are those released less the
repeated and the one in hand (`Handled`), the price of a symbol is that of its last trade
among them (`Priced`), and an entry or a position names the event of its decision, whose
last trade gives its price (`Ordered`, `Caused`). That a sort sorts follows from its ranks:
each position has one rank and each rank one position, and a smaller value has a smaller
rank. For `NoLookAhead` the lemma `PastShowsTheSame` compares the source on the dataset
and on its past: a snapshot or a candle that is kept at a time is kept by both.

### DiscoveryProofs

For any symbols, rows and charts whose scores are integers (`ValidChart`).

* `DailyCandlesAreFreshHolds`: `Handed` says that whoever ranks has made its
  hand-off, and that a lenient run leaves none;
* `EntriesAreBackedHolds`: `Judged` says that an entry is what `Entry` makes of the
  evidence beside it; the lemma `EntryIsBacked` goes through the decision and the
  integrity check and shows what a permission needs;
* `BestScoresAreActiveHolds`: sorting gives every candidate one place (`Orders`,
  `OrderedSorts`). `Best` says of a selection that whoever is left out is no better than
  anyone in it but its worst; the first of the pool are such a selection
  (`FirstAreBest`) and an incumbent that takes the place of the worst leaves one
  (`RetainKeepsBest`), so that the recursion over the incumbents ends with one
  (`ActiveIsBest`). Sorted, it has the scores of the sorted pool in all places but the
  last: otherwise more candidates would be ahead of a place than it has places before
  it (`BestHasTopScores`). `Discovered` says that the result was made from the pool
  beside it.

### ScanProofs

For any symbols, timeframes, rows of indicators and batches; assumed: the columns that
the analysis requires and the profile reads are there, an indicator is a number or
missing, the close and the ATR of a long enough frame are numbers, and the number of
rows is a natural number.

* `ScanNeverTradesHolds`: the lemma `Bounded` shows that a score stays within 58 of
  100, because state, strength and signals are weighed after they were bounded;
  `Planned` carries the rows of a symbol from the download to the plan;
* `ResultsBelongHolds`: `Ran` says that an execution follows the result FINISHED of
  its own symbol, and that between two calls no symbol is in work, so that a new
  orchestrator takes no result away from a run;
* `StoreHoldsLatestHolds`: `Timely` says of each series that there is a time at which
  its last saved answer was told, that what waits to be saved was told since, and that
  the table ends with the candle that was open then, so that whatever a later answer does
  not contain is older than all that it contains;
* `IntelligenceFailsClosedHolds`: a direction takes a valid profile, and a profile is
  valid only if it reads all its timeframes and none of them is extreme; what is
  recommended is cut to the least of their confidences, a minimum that skips missing
  values after the first, so that the lemma `DirectionIsBacked` has to show that none is
  missing in a row that can be read. Such a row has an average of 200 candles
  (`ReadableIsLong`). `Cautious` says that the frames passed the indicator engine when
  the profile is built from them, and that nothing was recommended before.

### What is only model-checked

The liveness properties (`JobsKeepRunning`, `StopEndsWorkers`, `FeedReturns`, `StopEnds`,
`ReplayEnds`), which are out of the prover's reach. Every invariant and every other
property that a passing run checks is stated by a theorem.

## 5. Findings and observations

A finding is a run that TLC ends with a violation of what the repository says.

1. **Recovery is not driven by the journal alone.** A reserve record is skipped
   if the symbol's allocation has ended before, so a second entry is forgotten,
   and it is sized again with the ledger of the moment, so a moved balance makes
   recovery raise. `_finalize` demands that recovery agrees. (`capital_final`)
   The run `capital` shows the other half: as long as no symbol was entered twice
   and the balance would still pay for the past allocations, recovery is exact.
2. **A restart on an old journal stops at the first event.** The lookup of an
   order of the earlier process raises `LifecycleError`, which the reconciliation
   does not expect. (`capital_restart`)

Observations are what the models have, because the code has it, and what the
properties leave room for:

1. `record_fill` checks a BUY against the available cash and a SELL only against
   the quantity. A minimum fee above the proceeds of a sale takes cash below zero
   or below what is reserved, and every later `replay()` raises
   (`models/paper_capital.py:273`). The runner's ledger has no fee. In the runtime
   the next exit then closes the position that the ledger still holds (section 4,
   PaperRuntimeProofs).
2. `stop()` of the scheduler waits three seconds and forgets the worker. A callback
   that takes longer finds the flag set again by the next `start()`, and its loop
   goes on beside the new one (`scheduler/scheduler_engine.py:174`).
3. `decide` calls a direction below -0.15 a conflict and one whose absolute value is
   below 0.15 insufficient; exactly -0.15 is neither, and a long entry in band A is
   allowed against it (`services/scalping_opportunity.py:271`). A trend of -0.6 in
   the 4h timeframe alone gives that direction. `EntriesAreBacked` names the
   exception.
4. The stage VALIDATION does not look at the sign of prices, the stage INDICATORS
   does, and between them the frame is stored, although invalid output "must never
   become durable market state" (`core/orchestrator.py:178`).
5. A scan's score cannot reach the strong categories, so its decision is always
   WAIT (`ScanNeverTrades`, proved for every row of indicators).
6. The result that is handed out with a symbol that is refused before its first
   stage is that of an earlier symbol (`core/pipeline.py:134`); `ResultsBelong`
   speaks of the others.
7. `close()` of the runner's stream reaches only the stream that was selected last.
   If it was exchanged under the reader, the run ends when the exchange drops the
   old connection (`StopEnds` says: when no connection is open). An interrupt ends
   it all the same.
8. The digest of a dataset is taken of its candle rows as they were given, and reading
   sorts them: a dataset whose rows are not in the order of their opening is written and
   then refused when it is read back (`replay/dataset.py:115`, `:228`), and so is one
   with a series that has no rows, which no line of the file tells of. In the run such
   datasets begin with the phase "refused".
9. After an interrupt `run` writes its report without awaiting the reader
   (`tools/_orion_paper_8h_runner_legacy.py:205`), whose task asyncio.run cancels only
   then. An event that is ready is still handled, and may fill an order the report does
   not tell of; the consumer fails at it, since the run log is closed, so that it is
   the only one (`ReportIsFinal`).

## 6. What is abstracted

Amounts are whole units: the tolerances of the code (1e-9) and the rounding of
floats are not modelled. Identities (uuids, event hashes) are numbers and model
values. Logging, the observation counters of D5, confidence and quality of a
signal beyond the material change they cause, and the contents of reports are
left out. Files behave as POSIX files do: moving one does not disturb its writer.
A pause while there is no control file writes nothing, since a missing file reads
as PAUSED; a supervisor or GUI that starts afterwards writes RUNNING, and the pause
is lost. The model has this behaviour (`Initialize`), and `PauseIsRead` speaks of
the time until then. `record_fill` would take a third side, HOLD, without looking at
cash or quantity; no caller passes it, and the model has purchases and sales. The runner's ledger has no fee and no slippage, so the instances of the
runtime and the bridge have none either; the ledger's own run has both.

On the analysis side a candle is its time and how much of it has passed, a frame
the number of its rows, one defect and the row of indicators that a long history
would give; the indicators themselves are given. Qualities, scores and directions
are integers (hundredths to ten-thousandths). The threads of one acquisition are
joined before anything is read, so they are one action. In the feed, ids and times
are small numbers, and the runner follows one timeframe.

## 7. Not modelled

* **Recovery by `PaperRuntimeSupervisor.recover` and D4's own replay**: `recover`
  repeats the logged calls on fresh objects, so a model of it would show what the
  calls already show; nothing calls the replay of orders and positions.
* **Recovery verification, experiment evidence, replay audits**: they compare and
  describe finished runs.
* **Signal journal and outcome adapter**: written by an observer script and read
  offline.
* **File storage and repository**: built for a service that nothing calls.
* **Indicators** (`indicator_calculator.py`): numerical series of a library; which
  series are too short, and what is refused, is in MarketData, and that the library
  may raise on any frame is in ScanPipeline (`IndicatorsFail`).
* **Application services, bootstrap, API, GUI, reports**: wrappers and
  presentation. **Configuration**: values. **Scripts and the backup copy**: not part
  of the program.
* **Runtime and feed together**: that a pending order whose symbol is no longer
  followed keeps its reservation until the end follows from MarketFeed's exchange
  and PaperRuntime's events, but their product is too large for TLC.

## 8. Plan

The safety properties that the passing runs check are proved; liveness stays with TLC.
What the hazards list without a property is where a model could still grow: recovery with
a fee or slippage model, the symbols that are no longer followed (section 7), the
revalidation that the capital bridge has to grant, and frames that are stored before they are refused
(observation 4).
