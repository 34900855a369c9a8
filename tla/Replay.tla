-------------------------------- MODULE Replay --------------------------------
(***************************************************************************)
(* The historical paper replay: a dataset that was written is read back    *)
(* and checked (how a run begins), a simulation clock follows its events,  *)
(* the opportunity source shows discovery what the dataset knew at the     *)
(* time of the clock, and the paper runner trades on the events as they    *)
(* are released.                                                           *)
(*                                                                         *)
(* Everything runs in one task, which awaits the sleeps between events and *)
(* the discovery, so an event is handled in one step.  Prices are those of *)
(* trades; candles show no price to the runtime.  Discovery is left open   *)
(* but for what it can have read (Discovery has it in full), the runtime   *)
(* but for its entries, fills and exits (PaperRuntime has it in full).     *)
(***************************************************************************)
EXTENDS Integers, SequencesExt, FiniteSetsExt

CONSTANTS Names,      \* the symbols, in their order
          Datasets,   \* what was handed to write_directory
          Day,        \* length of the window of the derived 24h ticker
          Refresh     \* refresh_interval_seconds, in time of the simulation

Symbols == ToSet(Names)

NoId == 0             \* an event without a source_event_id

(* The kinds of event, in the order of their names.                        *)
Kinds == <<"candle_close", "candle_update", "trade">>

ASSUME ReplayAssumption ==
    /\ Day \in Nat \ {0} /\ Refresh \in Nat
    /\ Names \in Seq(Symbols)
    /\ \A d \in Datasets :
          /\ d.events \in Seq([at : Nat, symbol : Symbols, kind : ToSet(Kinds),
                               id : Nat, open : Nat, price : Nat])
          /\ d.snapshots \in Seq([at : Nat, listed : SUBSET Symbols])
          /\ \A s \in DOMAIN d.candles : d.candles[s] \in Seq([open : Nat, close : Nat, price : Nat])
          /\ d.symbols \subseteq Symbols /\ DOMAIN d.candles \subseteq Symbols

VARIABLES phase,     \* of the run
          data,      \* the dataset as it was read from the disk
          clock,     \* simulation_timestamp
          index,     \* number of events the stream has released
          waiting,   \* an event was released and is not handled yet
          taken,     \* the positions of the events that were handled
          prices,    \* last_prices, 0 for none
          view,      \* what the discovery answered last: its time and what it read
          order,     \* the pending entry of a symbol: [price, at] or nothing
          held       \* the position of a symbol: [price, at, filled] or nothing

replayVars == <<phase, data, clock, index, waiting, taken, prices, view, order, held>>

None == <<>>
-----------------------------------------------------------------------------
(* The members of a sequence at the positions that have a rank, by rank.   *)
(* (SubSeq has TLC build the sequence once.)                               *)
Ranked(s, rank) ==
    SubSeq([n \in 1 .. Cardinality(DOMAIN rank) |-> s[CHOOSE i \in DOMAIN rank : rank[i] = n]],
           1, Cardinality(DOMAIN rank))

(* A filter.                                                               *)
Kept(s, positions) ==
    Ranked(s, [i \in positions |-> 1 + Cardinality({j \in positions : j < i})])

(* A stable sort by a value of each position.                              *)
Sorted(s, value) ==
    Ranked(s, [i \in DOMAIN s |->
                  1 + Cardinality({j \in DOMAIN s : \/ value[j] < value[i]
                                                   \/ (value[j] = value[i] /\ j < i)})])
-----------------------------------------------------------------------------
(* The dataset on disk.                                                    *)

HashOf(e) == 1000 + 100 * e.at + e.price

EventId(e) == IF e.id = NoId THEN HashOf(e) ELSE e.id

Place(x, s) == CHOOSE i \in DOMAIN s : s[i] = x

SortKey(e) == <<e.at, Place(e.symbol, Names), Place(e.kind, Kinds), EventId(e)>>

Precedes(k, l) ==
    \E i \in DOMAIN k : k[i] < l[i] /\ \A j \in 1 .. i - 1 : k[j] = l[j]

SortEvents(events) ==
    LET key == [i \in DOMAIN events |-> SortKey(events[i])]
    IN  Sorted(events, [i \in DOMAIN events |-> Cardinality({j \in DOMAIN events : Precedes(key[j], key[i])})])

ByTime(snapshots) == Sorted(snapshots, [i \in DOMAIN snapshots |-> snapshots[i].at])

ByOpening(rows) == Sorted(rows, [i \in DOMAIN rows |-> rows[i].open])

(* What the digest is taken of.                                            *)
Content(events, snapshots, candles) == <<events, snapshots, candles>>

(* An event is written with the id it is known by, which the digest has too. *)
Written(d) ==
    LET sorted == SortEvents(d.events)
        events == [i \in DOMAIN sorted |-> [sorted[i] EXCEPT !.id = EventId(sorted[i])]]
    IN  [events    |-> events,
         snapshots |-> ByTime(d.snapshots),
         candles   |-> d.candles,
         symbols   |-> d.symbols,
         integrity |-> Content(events, ByTime(d.snapshots), d.candles)]

(* The file of candles has rows only: a series without rows is not read.   *)
ReadBack(file) ==
    [events    |-> SortEvents(file.events),
     snapshots |-> ByTime(file.snapshots),
     candles   |-> [s \in {x \in DOMAIN file.candles : file.candles[x] # <<>>} |->
                       ByOpening(file.candles[s])],
     symbols   |-> file.symbols]

Intact(file) ==
    LET d == ReadBack(file) IN Content(d.events, d.snapshots, d.candles) = file.integrity

Valid(d) ==
    /\ d.events # <<>> \/ d.snapshots # <<>>
    /\ d.symbols # {} => /\ \A i \in DOMAIN d.events : d.events[i].symbol \in d.symbols
                         /\ DOMAIN d.candles \subseteq d.symbols

Start(d) ==
    Min({d.events[i].at : i \in DOMAIN d.events}
        \cup {d.snapshots[i].at : i \in DOMAIN d.snapshots})
-----------------------------------------------------------------------------
(* What the historical source shows at a time.                             *)

MetadataAt(d, t) ==
    LET seen == Kept(d.snapshots, {i \in DOMAIN d.snapshots : d.snapshots[i].at <= t})
    IN  IF seen = <<>> THEN {} ELSE Last(seen).listed

(* Mutant: a candle is visible when it opens. *)
CandlesFromOpening(d, s, t) ==
    IF s \in DOMAIN d.candles
    THEN Kept(d.candles[s], {i \in DOMAIN d.candles[s] : d.candles[s][i].open <= t})
    ELSE <<>>

CandlesAt(d, s, t) ==
    IF s \in DOMAIN d.candles
    THEN Kept(d.candles[s], {i \in DOMAIN d.candles[s] : d.candles[s][i].close <= t})
    ELSE <<>>

(* The ticker of a day is derived from at least two candles.               *)
Ticker(d, s, t) ==
    LET closed == CandlesAt(d, s, t)
        day == Kept(closed, {i \in DOMAIN closed : closed[i].close > t - Day})
    IN  IF Len(day) < 2 THEN None ELSE <<Head(day).price, Last(day).price>>

Visible(d, t) ==
    [at |-> t,
     tickers |-> [s \in MetadataAt(d, t) \cap d.symbols |-> Ticker(d, s, t)],
     candles |-> [s \in MetadataAt(d, t) |-> CandlesAt(d, s, t)]]

Candidates(v) == {s \in DOMAIN v.tickers : v.tickers[s] # None}
-----------------------------------------------------------------------------
(* from_directory returns a dataset if the digest of what was read is the  *)
(* one of what write_directory had and the dataset is valid.               *)
Accepted(file) == Intact(file) /\ Valid(ReadBack(file))

ReplayInit ==
    /\ \E d \in Datasets :
          LET file == Written(d)
          IN  /\ data = ReadBack(file)
              /\ phase = IF Accepted(file) THEN "loaded" ELSE "refused"
    /\ clock = (IF phase = "loaded" THEN Start(data) ELSE 0)
    /\ index = 0 /\ waiting = FALSE /\ taken = <<>>
    /\ prices = [s \in Symbols |-> 0]
    /\ view = None
    /\ order = [s \in Symbols |-> None] /\ held = [s \in Symbols |-> None]

Idle == UNCHANGED <<data, clock, index, waiting, taken, prices, view, order, held>>

(* No runtime is built before a first discovery found opportunities.       *)
Startup ==
    /\ phase = "loaded" /\ Candidates(Visible(data, clock)) # {}
    /\ phase' = "running" /\ view' = Visible(data, clock)
    /\ UNCHANGED <<data, clock, index, waiting, taken, prices, order, held>>

StartupFails == phase = "loaded" /\ phase' = "failed" /\ Idle

Event == data.events[index]

(* Mutant: the stream does not move its position. *)
ReleaseInPlace ==
    /\ phase = "running" /\ ~waiting /\ index < Len(data.events)
    /\ clock' = data.events[index + 1].at
    /\ waiting' = TRUE
    /\ index' = IF index = 0 THEN 1 ELSE index
    /\ UNCHANGED <<phase, data, taken, prices, view, order, held>>

(* events(): the clock is at the event when the event is handed over.      *)
Release ==
    /\ phase = "running" /\ ~waiting /\ index < Len(data.events)
    /\ clock' = data.events[index + 1].at
    /\ index' = index + 1
    /\ waiting' = TRUE
    /\ UNCHANGED <<phase, data, taken, prices, view, order, held>>

(* The identity of an event after normalization: a trade keeps the id of   *)
(* its source, a candle is known by when it opened.                        *)
Identity(e) == <<e.symbol, e.kind, IF e.kind = "trade" THEN e.id ELSE e.open>>

(* Mutant: only the last event is remembered. *)
RepeatsLast == taken # <<>> /\ Identity(data.events[Last(taken)]) = Identity(Event)

Repeated == Identity(Event) \in {Identity(data.events[i]) : i \in ToSet(taken)}

Handles(kind) == waiting /\ ~Repeated /\ Event.kind = kind

Done == waiting' = FALSE /\ taken' = Append(taken, index) /\ UNCHANGED <<data, clock, index>>

DropRepeated ==
    /\ waiting /\ Repeated
    /\ waiting' = FALSE
    /\ UNCHANGED <<phase, data, clock, index, taken, prices, view, order, held>>

(* A candle that is not closed is shown to the runtime, which wants prices. *)
HandleUpdate == Handles("candle_update") /\ Done /\ UNCHANGED <<phase, prices, view, order, held>>

Quoted(e) == prices' = [prices EXCEPT ![e.symbol] = e.price]

(* A pending entry of the symbol stays, is withdrawn by its revalidation,  *)
(* or is filled if the price touches it.                                   *)
HandleTrade ==
    /\ Handles("trade") /\ Done /\ Quoted(Event)
    /\ LET s == Event.symbol
       IN  \/ UNCHANGED <<order, held>>
           \/ /\ order[s] # None
              /\ order' = [order EXCEPT ![s] = None] /\ UNCHANGED held
           \/ /\ order[s] # None /\ Event.price <= order[s][1]
              /\ order' = [order EXCEPT ![s] = None]
              /\ held' = [held EXCEPT ![s] = Append(order[s], index)]
    /\ UNCHANGED <<phase, view>>

(* The ledger refuses the fill: the supervisor fails and the run ends.     *)
FillRefused ==
    /\ Handles("trade") /\ order[Event.symbol] # None /\ Event.price <= order[Event.symbol][1]
    /\ Quoted(Event)
    /\ phase' = "failed" /\ waiting' = FALSE
    /\ UNCHANGED <<data, clock, index, taken, view, order, held>>

(* Discovery answers with its last output while that is fresh.             *)
Answer == IF clock - view.at < Refresh THEN view ELSE Visible(data, clock)

(* Mutant: an entry may be made with a price of any event. *)
EntryAtAnyPrice(s) == {e.price : e \in {data.events[i] : i \in DOMAIN data.events}} \ {0}

EntryPrices(s) == {prices[s]} \ {0}

(* _run_signal_cycle on a closed candle: any of the candidates may be      *)
(* entered, at the price last seen, unless it is held or has an entry.     *)
HandleClose ==
    /\ Handles("candle_close") /\ Done
    /\ view' = Answer
    /\ \E chosen \in SUBSET {s \in Candidates(Answer) : held[s] = None /\ order[s] = None} :
          \E price \in [chosen -> UNION {EntryPrices(s) : s \in chosen}] :
             /\ \A s \in chosen : price[s] \in EntryPrices(s)
             /\ order' = [s \in Symbols |-> IF s \in chosen THEN <<price[s], index>> ELSE order[s]]
    /\ UNCHANGED <<phase, prices, held>>

(* A discovery that fails ends the cycle, not the run.                     *)
CycleFails == Handles("candle_close") /\ Done /\ UNCHANGED <<phase, prices, view, order, held>>

StreamEnded ==
    /\ phase = "running" /\ ~waiting /\ index = Len(data.events)
    /\ phase' = "closing"
    /\ Idle

(* CLOSE_AT_END: at the last price, which every position has.              *)
ClosePosition(s) ==
    /\ phase = "closing" /\ held[s] # None /\ prices[s] # 0
    /\ held' = [held EXCEPT ![s] = None]
    /\ UNCHANGED <<phase, data, clock, index, waiting, taken, prices, view, order>>

Report == phase = "closing" /\ (\A s \in Symbols : held[s] = None) /\ phase' = "done" /\ Idle

ReplayNext ==
    \/ Startup \/ StartupFails
    \/ Release \/ DropRepeated
    \/ HandleUpdate \/ HandleTrade \/ FillRefused \/ HandleClose \/ CycleFails
    \/ StreamEnded \/ Report
    \/ \E s \in Symbols : ClosePosition(s)

(* One task, whose sleeps and whose discovery end.                         *)
ReplaySpec == ReplayInit /\ [][ReplayNext]_replayVars /\ WF_replayVars(ReplayNext)
-----------------------------------------------------------------------------
(* The dataset without what was not known yet.                             *)
Past(d, t) ==
    [d EXCEPT !.events    = Kept(@, {i \in DOMAIN @ : @[i].at <= t}),
              !.snapshots = Kept(@, {i \in DOMAIN @ : @[i].at <= t}),
              !.candles   = [s \in DOMAIN @ |-> Kept(@[s], {i \in DOMAIN @[s] : @[s][i].close <= t})]]

(* What discovery knows does not change if the future of the dataset is    *)
(* cut off, and is never of a time the clock has not reached ("future rows *)
(* remain inaccessible to downstream discovery").                          *)
NoLookAhead == view # None => view.at <= clock /\ view = Visible(Past(data, view.at), view.at)

(* The price of the last trade of a symbol among the first n events, of    *)
(* those that were not dropped as repeated, or 0.                          *)
LastTrade(s, n) ==
    LET trades == {i \in ToSet(taken) : /\ i <= n
                                        /\ data.events[i].symbol = s
                                        /\ data.events[i].kind = "trade"}
    IN  IF trades = {} THEN 0 ELSE data.events[Max(trades)].price

(* "A fill can occur only while a paper order already exists and a later   *)
(* visible market event satisfies" it: a position was decided on with the  *)
(* last trade before the decision, and filled by a later trade at that     *)
(* price or a better one.                                                  *)
FillsAreCausal ==
    \A s \in Symbols : held[s] # None =>
        LET price == held[s][1]  at == held[s][2]  filled == held[s][3]
        IN  /\ at < filled
            /\ price = LastTrade(s, at)
            /\ data.events[filled].symbol = s /\ data.events[filled].kind = "trade"
            /\ data.events[filled].price <= price

(* Every event of the dataset was handled, a repeated one once, in the     *)
(* order of time.                                                          *)
EachOnce ==
    LET ids == [i \in DOMAIN taken |-> Identity(data.events[taken[i]])]
    IN  /\ ToSet(ids) = {Identity(data.events[i]) : i \in DOMAIN data.events}
        /\ IsInjective(ids)
        /\ \A i \in DOMAIN taken : i > 1 =>
              /\ taken[i - 1] < taken[i]
              /\ data.events[taken[i - 1]].at <= data.events[taken[i]].at

(* What was traded on when the stream is at its end is the whole dataset,  *)
(* however its events were ordered and repeated (events, is_duplicate).    *)
HandledOnce == phase \in {"closing", "done"} => EachOnce

(* A replay ends: it is refused, it fails, or it has handled every event   *)
(* of the dataset once, in the order of time, and closed its positions.    *)
ReplayEnds ==
    <>(\/ phase \in {"refused", "failed"}
       \/ phase = "done" /\ EachOnce /\ \A s \in Symbols : held[s] = None)
=============================================================================
