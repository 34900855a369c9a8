------------------------------ MODULE MarketFeed ------------------------------
(***************************************************************************)
(* The live market of a paper run: BinanceWebSocketMarketStream behind     *)
(* DynamicMarketStream, MarketStreamRunner that reads it, and the tasks of *)
(* Paper8HRunner.run.  The runner awaits its consumer, so an event is      *)
(* handled before the next is read; the timer, an interrupt, the exchange  *)
(* and its connections go on meanwhile.                                    *)
(*                                                                         *)
(* Of the consumer (_on_market_event) this module has what the feed can    *)
(* tell: that it ends, that it raises, and that after a closed candle it   *)
(* may exchange the followed symbols.  PaperRuntime models what it does.   *)
(***************************************************************************)
EXTENDS Integers, Sequences, FiniteSets

CONSTANTS Messages,    \* what the exchange may send, as [e, s, E, id, x]
          Selections,  \* the sets of symbols that a discovery may select
          First,       \* the symbols that are followed at first
          Capacity,    \* dedupe_capacity
          Delays,      \* the number of reconnect_delays
          MaxSent,     \* messages that are sent in all, a bound
          MaxQueue,    \* messages in a socket, a bound
          MaxStreams   \* streams that are made in all, a bound

ASSUME FeedAssumption ==
    /\ {Capacity, Delays, MaxSent, MaxQueue, MaxStreams} \subseteq Nat \ {0}
    /\ \A raw \in Messages : raw.E \in Nat
    /\ First \in Selections
    /\ {} \notin Selections

VARIABLES streams,    \* every stream that was made: its symbols, its socket, what is in it
          inner,      \* DynamicMarketStream._inner
          reading,    \* the stream whose generator is iterated
          pc,         \* where MarketStreamRunner.run is
          hand,       \* the event that the consumer has
          seen,       \* _seen, the oldest first
          times,      \* _last_timestamp, 0 for none
          reconnects, \* stats.reconnects, as far as the delays go
          stop,       \* MarketStreamRunner._stop
          main,       \* where Paper8HRunner.run is
          interrupted, \* whether the run was interrupted
          report,     \* how many events were handled when the report was written
          sent,       \* messages sent so far, for the bound
          handled     \* the events that were given to the consumer, in their order

vars == <<streams, inner, reading, pc, hand, seen, times, reconnects, stop, main, interrupted,
          report, sent, handled>>

memory == <<seen, times, handled>>

ending == <<main, interrupted, report>>

NoEvent == [symbol |-> "none"]

NoReport == -1

New(symbols) == [symbols |-> symbols, open |-> FALSE, queue |-> <<>>]
-----------------------------------------------------------------------------
(* MarketEventNormalizer and MarketEvent.event_id.  The id of a candle is  *)
(* its timeframe and its start, so that all the updates of a candle have   *)
(* one id, and its close another.  Both have the timeframe in their key of *)
(* order, and a run follows one timeframe.                                 *)

Normalizable(raw) == raw.e \in {"trade", "kline"}

TypeOfMessage(raw) ==
    IF raw.e = "trade" THEN "TRADE" ELSE IF raw.x THEN "CANDLE_CLOSE" ELSE "CANDLE_UPDATE"

Normalize(raw) ==
    [symbol |-> raw.s, type |-> TypeOfMessage(raw), at |-> raw.E,
     id |-> <<raw.s, TypeOfMessage(raw), raw.id>>]

Key(event) == <<event.symbol, event.type>>

Keys == {Key(Normalize(raw)) : raw \in {m \in Messages : Normalizable(m)}}

Init ==
    /\ streams = <<New(First)>>
    /\ inner = 1
    /\ reading = 0
    /\ pc = "connecting"
    /\ hand = NoEvent
    /\ seen = <<>>
    /\ times = [k \in Keys |-> 0]
    /\ reconnects = 0
    /\ stop = FALSE
    /\ main = "running"
    /\ interrupted = FALSE
    /\ report = NoReport
    /\ sent = 0
    /\ handled = <<>>
-----------------------------------------------------------------------------
(* The exchange *)

Send(k, raw) ==
    /\ sent < MaxSent
    /\ streams[k].open /\ raw.s \in streams[k].symbols
    /\ Len(streams[k].queue) < MaxQueue
    /\ sent' = sent + 1
    /\ streams' = [streams EXCEPT ![k].queue = Append(@, raw)]
    /\ UNCHANGED <<inner, reading, pc, hand, reconnects, stop, ending, memory>>

Drop(k) ==
    /\ streams[k].open
    /\ streams' = [streams EXCEPT ![k].open = FALSE]
    /\ UNCHANGED <<inner, reading, pc, hand, reconnects, stop, ending, sent, memory>>
-----------------------------------------------------------------------------
(* MarketStreamRunner.run *)

(* close() of the dynamic stream closes the socket of the inner one.       *)
Closed(all) == [all EXCEPT ![inner] = [@ EXCEPT !.open = FALSE]]

(* Mutant: a delay for every attempt. *)
OutOfDelays ==
    /\ reading' = 0
    /\ hand' = NoEvent
    /\ pc' = IF stop \/ reconnects = Delays THEN "done" ELSE "sleeping"
    /\ reconnects' = IF stop \/ reconnects = Delays THEN reconnects ELSE reconnects + 1

(* A connection is over: the runner ends when it has to stop; otherwise it *)
(* closes the source and sleeps.  The source is closed either way.         *)
Disconnected ==
    /\ reading' = 0
    /\ hand' = NoEvent
    /\ pc' = IF stop THEN "done" ELSE "sleeping"
    /\ reconnects' = IF stop \/ reconnects = Delays THEN reconnects ELSE reconnects + 1

ConnectSucceeds ==
    /\ pc = "connecting"
    /\ streams' = [streams EXCEPT ![inner] = [@ EXCEPT !.open = TRUE, !.queue = <<>>]]
    /\ reading' = inner
    /\ pc' = "reading"
    /\ UNCHANGED <<inner, hand, reconnects, stop, ending, sent, memory>>

ConnectFails ==
    /\ pc = "connecting"
    /\ Disconnected
    /\ streams' = Closed(streams)
    /\ UNCHANGED <<inner, stop, ending, sent, memory>>

(* Mutant: whether to stop is not looked at. *)
ConnectAgain ==
    /\ pc = "sleeping"
    /\ pc' = "connecting"
    /\ UNCHANGED <<streams, inner, reading, hand, reconnects, stop, ending, sent, memory>>

Wake ==
    /\ pc = "sleeping"
    /\ pc' = IF stop THEN "done" ELSE "connecting"
    /\ UNCHANGED <<streams, inner, reading, hand, reconnects, stop, ending, sent, memory>>

Known(event) == \E i \in DOMAIN seen : seen[i] = event.id

Late(event) == event.at < times[Key(event)]

(* Mutant: what is known is forgotten beyond the last event. *)
RememberTheLast(event) ==
    /\ seen' = <<event.id>>
    /\ times' = [times EXCEPT ![Key(event)] = event.at]

(* Mutant: only the time of the last event is kept. *)
RememberNoTime(event) ==
    /\ seen' = IF Len(seen) = Capacity THEN Append(Tail(seen), event.id) ELSE Append(seen, event.id)
    /\ times' = [k \in Keys |-> IF k = Key(event) THEN event.at ELSE 0]

Remember(event) ==
    /\ seen' = IF Len(seen) = Capacity THEN Append(Tail(seen), event.id) ELSE Append(seen, event.id)
    /\ times' = [times EXCEPT ![Key(event)] = event.at]

Message == Head(streams[reading].queue)

Taken == [streams EXCEPT ![reading].queue = Tail(@)]

HasMessage == pc = "reading" /\ streams[reading].queue # <<>>

(* A message that is unsupported, known or late is counted and skipped.    *)
Skip ==
    /\ HasMessage /\ Message.e # "garbled"
    /\ \/ ~Normalizable(Message)
       \/ Known(Normalize(Message))
       \/ Late(Normalize(Message))
    /\ streams' = Taken
    /\ UNCHANGED <<inner, reading, pc, hand, reconnects, stop, ending, sent, memory>>

Accept ==
    LET event == Normalize(Message)
    IN  /\ HasMessage /\ Normalizable(Message)
        /\ ~Known(event) /\ ~Late(event)
        /\ Remember(event)
        /\ streams' = Taken
        /\ hand' = event
        /\ handled' = Append(handled, event)
        /\ pc' = "handling"
        /\ UNCHANGED <<inner, reading, reconnects, stop, ending, sent>>

(* Text that is not JSON counts as a lost connection, though the socket is *)
(* still there; it is closed when it is that of the inner stream.          *)
Garbled ==
    /\ HasMessage /\ Message.e = "garbled"
    /\ Disconnected
    /\ streams' = Closed(Taken)
    /\ UNCHANGED <<inner, stop, ending, sent, memory>>

(* The socket is closed, by either side; what is in it may be lost.        *)
EndOfStream ==
    /\ pc = "reading" /\ ~streams[reading].open
    /\ Disconnected
    /\ streams' = Closed(streams)
    /\ UNCHANGED <<inner, stop, ending, sent, memory>>
-----------------------------------------------------------------------------
(* The consumer *)

(* Once the report is written the run log is closed, and what the consumer *)
(* would write to it fails.                                                *)
Logging == report = NoReport

(* A closed candle goes on with a signal cycle, in a thread.               *)
Consumed ==
    /\ pc = "handling" /\ Logging
    /\ pc' = IF hand.type = "CANDLE_CLOSE" THEN "discovering" ELSE "reading"
    /\ hand' = IF pc' = "reading" THEN NoEvent ELSE hand
    /\ UNCHANGED <<streams, inner, reading, reconnects, stop, ending, sent, memory>>

(* Another selection makes another stream, that nobody has connected; the  *)
(* generator of the old one goes on.  A discovery that fails selects       *)
(* nothing new; one that finds no candidate, again, writes nothing.        *)
Discovered(symbols) ==
    /\ pc = "discovering"
    /\ Logging \/ symbols = streams[inner].symbols
    /\ IF symbols = streams[inner].symbols
       THEN UNCHANGED <<streams, inner>>
       ELSE /\ Len(streams) < MaxStreams
            /\ streams' = Append(streams, New(symbols))
            /\ inner' = Len(streams) + 1
    /\ pc' = "reading"
    /\ hand' = NoEvent
    /\ UNCHANGED <<reading, reconnects, stop, ending, sent, memory>>

(* An OSError of the consumer (the run log, the journals) is taken for one *)
(* of the connection.                                                      *)
ConsumerLosesConnection ==
    /\ pc \in {"handling", "discovering"}
    /\ Disconnected
    /\ streams' = Closed(streams)
    /\ UNCHANGED <<inner, stop, ending, sent, memory>>

(* Any other exception ends the task.                                      *)
ConsumerFails ==
    /\ pc \in {"handling", "discovering"}
    /\ pc' = "done"
    /\ reading' = 0
    /\ hand' = NoEvent
    /\ streams' = IF stop THEN Closed(streams) ELSE streams
    /\ UNCHANGED <<inner, reconnects, stop, ending, sent, memory>>
-----------------------------------------------------------------------------
(* Paper8HRunner.run.  It goes on when the consumer gives way: handling an *)
(* event is one stretch of code.                                           *)

Turn == pc # "handling"

(* The time is up: stop, and close the stream.                             *)
Expire ==
    /\ main = "running" /\ Turn /\ pc # "done"
    /\ main' = "stopping"
    /\ stop' = TRUE
    /\ streams' = Closed(streams)
    /\ UNCHANGED <<inner, reading, pc, hand, reconnects, interrupted, report, sent, memory>>

(* The stream is closed; the task is awaited.                              *)
CloseReturns ==
    /\ main = "stopping" /\ Turn
    /\ main' = "awaiting"
    /\ UNCHANGED <<streams, inner, reading, pc, hand, reconnects, stop, interrupted, report, sent,
                   memory>>

(* The finally clause: stop, and close the stream.                         *)
ToClosing ==
    /\ main' = "closing"
    /\ stop' = TRUE
    /\ streams' = Closed(streams)

(* Mutant: the time is up, and the task is not awaited. *)
NotAwaited ==
    /\ main = "awaiting" \/ (main = "running" /\ pc = "done")
    /\ Turn
    /\ ToClosing
    /\ UNCHANGED <<inner, reading, pc, hand, reconnects, interrupted, report, sent, memory>>

(* The task is over, returned or failed: it was waited for, or is awaited. *)
TaskOver ==
    /\ main \in {"running", "awaiting"} /\ pc = "done"
    /\ ToClosing
    /\ UNCHANGED <<inner, reading, pc, hand, reconnects, interrupted, report, sent, memory>>

(* The task of the reader is cancelled, wherever it waits.                 *)
Cancelled ==
    /\ pc' = "done"
    /\ reading' = 0
    /\ hand' = NoEvent
    /\ streams' = Closed(streams)

(* KeyboardInterrupt cancels the run where it waits: for the tasks or for  *)
(* the first close, and the finally clause is next, while the reader goes  *)
(* on; for the reader's task, which is cancelled with it; for the close of *)
(* the finally clause, and the run is over without a report.               *)
Interrupt ==
    /\ ~interrupted /\ Turn
    /\ interrupted' = TRUE
    /\ \/ /\ main \in {"running", "stopping"}
          /\ ToClosing
          /\ UNCHANGED <<reading, pc, hand>>
       \/ /\ main = "awaiting"
          /\ Cancelled
          /\ UNCHANGED <<main, stop>>
       \/ /\ main = "closing"
          /\ main' = "over"
          /\ UNCHANGED <<streams, reading, pc, hand, stop>>
    /\ UNCHANGED <<inner, reconnects, report, sent, memory>>

(* _finalize, and the report goes into the run log, which is closed; or    *)
(* the verification fails, and there is no report.                         *)
Finalize ==
    /\ main = "closing" /\ Turn
    /\ main' = "over"
    /\ report' \in {Len(handled), NoReport}
    /\ UNCHANGED <<streams, inner, reading, pc, hand, reconnects, stop, interrupted, sent, memory>>

(* The run is over: asyncio.run cancels the task that is left, and returns.*)
End ==
    /\ main = "over" /\ Turn
    /\ main' = "ended"
    /\ Cancelled
    /\ UNCHANGED <<inner, reconnects, stop, interrupted, report, sent, memory>>

Ended == main = "ended" /\ UNCHANGED vars

Consumer ==
    \/ Consumed
    \/ \E symbols \in Selections : Discovered(symbols)
    \/ ConsumerLosesConnection
    \/ ConsumerFails

Reader == Skip \/ Accept \/ Garbled \/ EndOfStream

Run == CloseReturns \/ TaskOver \/ Finalize \/ End

Next ==
    \/ \E k \in DOMAIN streams : Drop(k) \/ \E raw \in Messages : Send(k, raw)
    \/ ConnectSucceeds \/ ConnectFails \/ Wake
    \/ Reader
    \/ Consumer
    \/ Run \/ Expire \/ Interrupt \/ Ended

(* The event loop runs what can run, and a thread of discovery ends; an    *)
(* exchange that is asked again and again takes a connection at last.  A   *)
(* connection need never be dropped.                                       *)
Fairness ==
    /\ WF_vars(Reader) /\ WF_vars(Consumer) /\ WF_vars(Wake) /\ WF_vars(Run)
    /\ WF_vars(ConnectSucceeds \/ ConnectFails) /\ SF_vars(ConnectSucceeds)

Spec == Init /\ [][Next]_vars /\ Fairness
-----------------------------------------------------------------------------
(* The consumer is given no event twice while it is one of the last        *)
(* Capacity, across reconnections and exchanges of the symbols, and also   *)
(* when it failed on it (MarketEvent.event_id, MarketStreamRunner._seen).  *)
AtMostOnce ==
    \A i, j \in DOMAIN handled :
        i < j /\ handled[i].id = handled[j].id => j - i > Capacity

(* What the consumer is given of a symbol and kind goes forward in time,   *)
(* whichever connection it came by (MarketStreamRunner._last_timestamp).   *)
InOrder ==
    \A i, j \in DOMAIN handled :
        i < j /\ Key(handled[i]) = Key(handled[j]) => handled[i].at <= handled[j].at

(* The report is final: the timer and a failure await the reader before    *)
(* Paper8HRunner.run finalizes, and nothing is handled after it.  Only an  *)
(* interrupt leaves the reader to asyncio.run, and then at most one event  *)
(* is handled that the report does not tell of: the consumer fails at it,  *)
(* since the run log is closed.                                            *)
ReportIsFinal ==
    report # NoReport => Len(handled) - report <= IF interrupted THEN 1 ELSE 0

(* A lost connection is made again, however often it fails, unless the     *)
(* timer or an interrupt ends the run (MarketStreamRunner._reconnect).     *)
FeedReturns ==
    pc \in {"connecting", "sleeping"}
        ~> (pc = "reading" \/ main \in {"stopping", "awaiting"} \/ interrupted)

(* An interrupt ends the run, and so does the timer when no connection is  *)
(* open or being made.  (One that was exchanged, or was being made, goes   *)
(* on until the exchange drops it: close() does not reach it, and _stop is *)
(* not looked at.)                                                         *)
StopEnds ==
    (\/ interrupted
     \/ main # "running" /\ pc # "connecting" /\ \A k \in DOMAIN streams : ~streams[k].open)
        ~> main = "ended"
=============================================================================
