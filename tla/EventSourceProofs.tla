--------------------------- MODULE EventSourceProofs ---------------------------
(***************************************************************************)
(* The two sources of events of the paper runner.                          *)
(*                                                                         *)
(* The market stream (MarketFeed), for any messages, symbols, capacity of  *)
(* the memory and number of streams: the consumer is given an event at     *)
(* most once within the memory, of each symbol and kind in the order of    *)
(* time, and after the report nothing, or one event when the run was       *)
(* interrupted, whatever the exchange sends, drops and refuses.  The       *)
(* argument: seen holds the ids of the last events that were handled, in   *)
(* their order (Remembers), and times is never behind one of them (Timed); *)
(* only Accept changes any of these.  When the report is written the       *)
(* reader is done, which is never undone, unless the run was interrupted;  *)
(* then it ends at the next event, since the log is closed (Ending).       *)
(*                                                                         *)
(* The historical replay (Replay), for any datasets, symbols, window of    *)
(* the ticker and refresh interval: discovery sees nothing that comes      *)
(* after the clock, fills are causal, and every event is handled once, in  *)
(* the order of time.  The argument: a sort gives each                     *)
(* position a rank, so what is read is in the order of time (Read), the    *)
(* clock never goes back (Clocked), what discovery was shown is of a time  *)
(* the clock has passed (Informed), the events taken are those released    *)
(* less the repeated (Handled), and the prices, entries and positions are  *)
(* founded on the last trade among them (Priced, Ordered, Caused).         *)
(***************************************************************************)
EXTENDS MarketFeed, Replay, FiniteSums, SequenceTheorems

Events == {Normalize(raw) : raw \in {m \in Messages : Normalizable(m)}}

Stream == [symbols : Selections, open : BOOLEAN, queue : Seq(Messages)]

(* The sockets hold messages, and what is read is a stream that was made. *)
Shape ==
    /\ streams \in Seq(Stream)
    /\ inner \in DOMAIN streams
    /\ pc \in {"reading", "handling", "discovering"} => reading \in DOMAIN streams

(* The ids are those of the last events, and all of them up to Capacity. *)
Remembers ==
    /\ handled \in Seq(Events)
    /\ seen \in Seq({e.id : e \in Events})
    /\ Len(seen) = IF Len(handled) < Capacity THEN Len(handled) ELSE Capacity
    /\ \A i \in 1 .. Len(seen) : seen[i] = handled[Len(handled) - Len(seen) + i].id

Timed ==
    /\ times \in [Keys -> Nat]
    /\ \A i \in DOMAIN handled : handled[i].at <= times[Key(handled[i])]

IInv == Shape /\ Remembers /\ Timed /\ AtMostOnce /\ InOrder

LEMMA EventHasKey ==
    ASSUME NEW e \in Events
    PROVE  Key(e) \in Keys /\ e.at \in Nat
<1>1. PICK raw \in {m \in Messages : Normalizable(m)} : e = Normalize(raw)
  BY DEF Events
<1>2. raw.E \in Nat
  BY <1>1, FeedAssumption
<1>3. e.at = raw.E
  BY <1>1 DEF Normalize
<1>4. Key(e) \in Keys
  BY <1>1 DEF Keys
<1> QED BY <1>2, <1>3, <1>4

LEMMA InitInv == Init => IInv
<1> SUFFICES ASSUME Init PROVE IInv
  OBVIOUS
<1>1. Shape
  BY FeedAssumption DEF Init, Shape, New, Stream
<1>2. Remembers
  <2>1. handled = <<>> /\ seen = <<>>
    BY DEF Init
  <2> QED BY <2>1, FeedAssumption DEF Remembers
<1>3. Timed /\ AtMostOnce /\ InOrder
  BY DEF Init, Timed, AtMostOnce, InOrder
<1> QED BY <1>1, <1>2, <1>3 DEF IInv
-----------------------------------------------------------------------------
(* The shape: a stream that is closed or read remains one. *)

LEMMA ElementOf ==
    ASSUME NEW S, NEW s \in Seq(S), NEW k \in DOMAIN s
    PROVE  s[k] \in S
OBVIOUS

LEMMA Changed ==
    ASSUME NEW S, NEW s \in Seq(S), NEW k \in DOMAIN s, NEW x \in S
    PROVE  [s EXCEPT ![k] = x] \in Seq(S) /\ DOMAIN [s EXCEPT ![k] = x] = DOMAIN s
BY ExceptSeq

LEMMA ClosedShape ==
    ASSUME Shape, NEW all \in Seq(Stream), DOMAIN all = DOMAIN streams
    PROVE  Closed(all) \in Seq(Stream) /\ DOMAIN Closed(all) = DOMAIN streams
<1>1. inner \in DOMAIN all
  BY DEF Shape
<1>2. all[inner] \in Stream
  BY <1>1, ElementOf
<1>3. [all[inner] EXCEPT !.open = FALSE] \in Stream
  BY <1>2 DEF Stream
<1>4. Closed(all) = [all EXCEPT ![inner] = [all[inner] EXCEPT !.open = FALSE]]
  BY DEF Closed
<1> QED BY <1>1, <1>3, <1>4, Changed

LEMMA TakenShape ==
    ASSUME Shape, HasMessage
    PROVE  /\ Taken \in Seq(Stream) /\ DOMAIN Taken = DOMAIN streams
           /\ Message \in Messages
<1>1. reading \in DOMAIN streams /\ streams \in Seq(Stream)
      /\ streams[reading].queue # <<>>
  BY DEF Shape, HasMessage
<1>2. streams[reading] \in Stream
  BY <1>1, ElementOf
<1>3. streams[reading].queue \in Seq(Messages)
  BY <1>2 DEF Stream
<1>4. Message \in Messages /\ Tail(streams[reading].queue) \in Seq(Messages)
  BY <1>1, <1>3 DEF Message
<1>5. [streams[reading] EXCEPT !.queue = Tail(streams[reading].queue)] \in Stream
  BY <1>2, <1>4 DEF Stream
<1>6. Taken = [streams EXCEPT ![reading] =
                 [streams[reading] EXCEPT !.queue = Tail(streams[reading].queue)]]
  BY DEF Taken
<1> QED BY <1>1, <1>4, <1>5, <1>6, Changed

LEMMA NextShape ==
    ASSUME Shape, [Next]_vars
    PROVE  Shape'
<1>1. ASSUME streams' = streams, inner' = inner,
             pc' \in {"reading", "handling", "discovering"} =>
                reading' = reading /\ pc \in {"reading", "handling", "discovering"}
      PROVE  Shape'
  BY <1>1 DEF Shape
<1>2. ASSUME streams' = Closed(streams), inner' = inner,
             pc' \in {"reading", "handling", "discovering"} =>
                reading' = reading /\ pc \in {"reading", "handling", "discovering"}
      PROVE  Shape'
  BY <1>2, ClosedShape DEF Shape
<1>3. ASSUME NEW k \in DOMAIN streams, Drop(k) \/ \E raw \in Messages : Send(k, raw)
      PROVE  Shape'
  <2>1. streams \in Seq(Stream) /\ streams[k] \in Stream
    BY ElementOf DEF Shape
  <2>2. PICK x \in Stream : streams' = [streams EXCEPT ![k] = x]
    <3>1. CASE Drop(k)
      <4>1. [streams[k] EXCEPT !.open = FALSE] \in Stream
        BY <2>1 DEF Stream
      <4>2. streams' = [streams EXCEPT ![k] = [streams[k] EXCEPT !.open = FALSE]]
        BY <3>1 DEF Drop
      <4> QED BY <4>1, <4>2
    <3>2. ASSUME NEW raw \in Messages, Send(k, raw)
          PROVE  \E x \in Stream : streams' = [streams EXCEPT ![k] = x]
      <4>1. Append(streams[k].queue, raw) \in Seq(Messages)
        BY <2>1 DEF Stream
      <4>2. [streams[k] EXCEPT !.queue = Append(streams[k].queue, raw)] \in Stream
        BY <2>1, <4>1 DEF Stream
      <4>3. streams' = [streams EXCEPT ![k] =
                           [streams[k] EXCEPT !.queue = Append(streams[k].queue, raw)]]
        BY <3>2 DEF Send
      <4> QED BY <4>2, <4>3
    <3> QED BY <1>3, <3>1, <3>2
  <2>3. streams' \in Seq(Stream) /\ DOMAIN streams' = DOMAIN streams
    BY <2>1, <2>2, Changed
  <2>4. UNCHANGED <<inner, reading, pc>>
    BY <1>3 DEF Drop, Send
  <2> QED BY <2>3, <2>4 DEF Shape
<1>4. CASE ConnectSucceeds
  <2>1. /\ streams' = [streams EXCEPT ![inner] =
                           [streams[inner] EXCEPT !.open = TRUE, !.queue = <<>>]]
        /\ reading' = inner /\ inner' = inner
    BY <1>4 DEF ConnectSucceeds
  <2>2. inner \in DOMAIN streams /\ streams \in Seq(Stream)
    BY DEF Shape
  <2>3. [streams[inner] EXCEPT !.open = TRUE, !.queue = <<>>] \in Stream
    <3>1. streams[inner] \in Stream
      BY <2>2, ElementOf
    <3>2. <<>> \in Seq(Messages)
      OBVIOUS
    <3>3. [streams[inner] EXCEPT !.open = TRUE] \in Stream
      BY <3>1 DEF Stream
    <3>4. [[streams[inner] EXCEPT !.open = TRUE] EXCEPT !.queue = <<>>] \in Stream
      BY <3>2, <3>3 DEF Stream
    <3>5. [[streams[inner] EXCEPT !.open = TRUE] EXCEPT !.queue = <<>>]
              = [streams[inner] EXCEPT !.open = TRUE, !.queue = <<>>]
      OBVIOUS
    <3> QED BY <3>4, <3>5
  <2>4. streams' \in Seq(Stream) /\ DOMAIN streams' = DOMAIN streams
    BY <2>1, <2>2, <2>3, Changed
  <2> QED BY <2>1, <2>2, <2>4 DEF Shape
<1>5. CASE ConnectFails \/ EndOfStream \/ ConsumerLosesConnection
  BY <1>2, <1>5 DEF ConnectFails, EndOfStream, ConsumerLosesConnection, Disconnected
<1>6. CASE Wake \/ Consumed
  BY <1>1, <1>6 DEF Wake, Consumed
<1>7. CASE Skip
  BY <1>7, TakenShape DEF Skip, Shape
<1>8. CASE Accept
  BY <1>8, TakenShape DEF Accept, Shape, HasMessage
<1>9. CASE Garbled
  <2>1. HasMessage /\ inner' = inner /\ streams' = Closed(Taken)
        /\ pc' \notin {"reading", "handling", "discovering"}
    BY <1>9 DEF Garbled, Disconnected
  <2>2. Closed(Taken) \in Seq(Stream) /\ DOMAIN Closed(Taken) = DOMAIN streams
    BY <2>1, TakenShape, ClosedShape
  <2> QED BY <2>1, <2>2 DEF Shape
<1>10. ASSUME NEW symbols \in Selections, Discovered(symbols)
       PROVE  Shape'
  <2>1. CASE symbols = streams[inner].symbols
    BY <1>1, <1>10, <2>1 DEF Discovered
  <2>2. CASE symbols # streams[inner].symbols
    <3>1. streams' = Append(streams, New(symbols)) /\ inner' = Len(streams) + 1
          /\ reading' = reading /\ pc = "discovering"
      BY <1>10, <2>2 DEF Discovered
    <3>2. New(symbols) \in Stream
      BY DEF New, Stream
    <3>3. streams' \in Seq(Stream) /\ Len(streams') = Len(streams) + 1
      BY <3>1, <3>2 DEF Shape
    <3>4. reading \in DOMAIN streams
      BY <3>1 DEF Shape
    <3>5. DOMAIN streams = 1 .. Len(streams) /\ DOMAIN streams' = 1 .. Len(streams')
          /\ Len(streams) \in Nat
      BY <3>3 DEF Shape
    <3>6. inner' \in DOMAIN streams' /\ reading' \in DOMAIN streams'
      BY <3>1, <3>3, <3>4, <3>5
    <3> QED BY <3>3, <3>6 DEF Shape
  <2> QED BY <2>1, <2>2
<1>11. CASE ConsumerFails
  BY <1>1, <1>2, <1>11 DEF ConsumerFails
<1>12. CASE Expire \/ TaskOver \/ End
  BY <1>2, <1>12 DEF Expire, TaskOver, ToClosing, End, Cancelled
<1>14. CASE CloseReturns \/ Finalize
  BY <1>1, <1>14 DEF CloseReturns, Finalize
<1>15. CASE Interrupt
  BY <1>1, <1>2, <1>15 DEF Interrupt, ToClosing, Cancelled
<1>13. CASE UNCHANGED vars
  BY <1>1, <1>13 DEF vars
<1> QED BY <1>3, <1>4, <1>5, <1>6, <1>7, <1>8, <1>9, <1>10, <1>11, <1>12, <1>13, <1>14, <1>15
        DEF Next, Reader, Consumer, Run, Ended
-----------------------------------------------------------------------------
LEMMA OnlyAcceptRemembers ==
    ASSUME [Next]_vars
    PROVE  Accept \/ UNCHANGED memory
BY DEF Next, vars, Reader, Consumer, Run, Ended, Drop, Send, ConnectSucceeds, ConnectFails, Wake,
       Skip, Garbled, EndOfStream, Consumed, Discovered, ConsumerLosesConnection, ConsumerFails,
       Expire, CloseReturns, TaskOver, Interrupt, Finalize, End, memory

LEMMA AcceptInv ==
    ASSUME IInv, Accept
    PROVE  Remembers' /\ Timed' /\ AtMostOnce' /\ InOrder'
<1> DEFINE event == Normalize(Message)
           n == Len(handled)
           m == Len(seen)
           ids == {e.id : e \in Events}
<1>1. event \in Events
  BY TakenShape DEF IInv, Accept, Events
<1>2. /\ handled' = Append(handled, event)
      /\ ~Known(event) /\ ~Late(event)
      /\ seen' = IF m = Capacity THEN Append(Tail(seen), event.id) ELSE Append(seen, event.id)
      /\ times' = [times EXCEPT ![Key(event)] = event.at]
  BY DEF Accept, Remember
<1>3. event.id \in ids /\ Key(event) \in Keys /\ event.at \in Nat
  BY <1>1, EventHasKey
<1> HIDE DEF event, ids
<1>4. /\ handled \in Seq(Events) /\ seen \in Seq(ids) /\ n \in Nat /\ m \in Nat
      /\ Capacity \in Nat \ {0}
      /\ m = IF n < Capacity THEN n ELSE Capacity
      /\ \A i \in 1 .. m : seen[i] = handled[n - m + i].id
  BY FeedAssumption DEF IInv, Remembers, ids
<1>5. /\ handled' \in Seq(Events) /\ Len(handled') = n + 1
      /\ DOMAIN handled = 1 .. n /\ DOMAIN handled' = 1 .. n + 1
      /\ handled'[n + 1] = event /\ \A i \in 1 .. n : handled'[i] = handled[i]
  BY <1>1, <1>2, <1>4
<1>6. Remembers'
  <2>1. CASE m = Capacity
    <3>1. seen' = Append(Tail(seen), event.id) /\ n >= Capacity /\ m >= 1
      BY <1>2, <1>4, <2>1
    <3>2. /\ Tail(seen) \in Seq(ids) /\ Len(Tail(seen)) = m - 1
          /\ \A i \in 1 .. m - 1 : Tail(seen)[i] = seen[i + 1]
      BY <1>4, <3>1
    <3>3. /\ seen' \in Seq(ids) /\ Len(seen') = m
          /\ seen'[m] = event.id
          /\ \A i \in 1 .. m - 1 : seen'[i] = seen[i + 1]
      BY <1>3, <1>4, <3>1, <3>2
    <3>4. \A i \in 1 .. m : seen'[i] = handled'[(n + 1) - m + i].id
      <4> HIDE DEF n, m
      <4> SUFFICES ASSUME NEW i \in 1 .. m PROVE seen'[i] = handled'[(n + 1) - m + i].id
        OBVIOUS
      <4>1. CASE i = m
        BY <1>4, <1>5, <3>3, <4>1
      <4>2. CASE i < m
        <5>1. i + 1 \in 1 .. m /\ n - m + (i + 1) \in 1 .. n /\ (n + 1) - m + i = n - m + (i + 1)
          BY <1>4, <3>1, <2>1, <4>2
        <5>2. seen'[i] = seen[i + 1]
          BY <1>4, <3>3, <4>2
        <5> QED BY <1>4, <1>5, <5>1, <5>2
      <4> QED BY <1>4, <4>1, <4>2
    <3>5. Len(seen') = IF Len(handled') < Capacity THEN Len(handled') ELSE Capacity
      <4> HIDE DEF n, m
      <4> QED BY <1>4, <1>5, <2>1, <3>1, <3>3
    <3>6. \A i \in 1 .. Len(seen') : seen'[i] = handled'[Len(handled') - Len(seen') + i].id
      <4> HIDE DEF n, m
      <4> QED BY <1>5, <3>3, <3>4
    <3> QED BY <1>5, <3>3, <3>5, <3>6 DEF Remembers, ids
  <2>2. CASE m # Capacity
    <3>1. seen' = Append(seen, event.id) /\ m = n /\ n < Capacity
      BY <1>2, <1>4, <2>2
    <3>2. /\ seen' \in Seq(ids) /\ Len(seen') = n + 1
          /\ seen'[n + 1] = event.id
          /\ \A i \in 1 .. n : seen'[i] = seen[i]
      BY <1>3, <1>4, <3>1
    <3>3. \A i \in 1 .. n + 1 : seen'[i] = handled'[(n + 1) - (n + 1) + i].id
      <4> SUFFICES ASSUME NEW i \in 1 .. n + 1
                   PROVE  seen'[i] = handled'[(n + 1) - (n + 1) + i].id
        OBVIOUS
      <4>1. (n + 1) - (n + 1) + i = i /\ n - m + i = i
        BY <1>4, <3>1
      <4>2. CASE i = n + 1
        BY <1>5, <3>2, <4>1, <4>2
      <4>3. CASE i \in 1 .. n
        BY <1>4, <1>5, <3>1, <3>2, <4>1, <4>3
      <4> QED BY <1>4, <4>2, <4>3
    <3> QED BY <1>4, <1>5, <3>1, <3>2, <3>3 DEF Remembers, ids
  <2> QED BY <2>1, <2>2
<1>7. Timed'
  <2>1. times \in [Keys -> Nat] /\ \A i \in 1 .. n : handled[i].at <= times[Key(handled[i])]
    BY <1>5 DEF IInv, Timed
  <2>2. times' \in [Keys -> Nat] /\ times'[Key(event)] = event.at
        /\ times[Key(event)] <= event.at
    BY <1>2, <1>3, <2>1 DEF Late
  <2>3. ASSUME NEW i \in 1 .. n
        PROVE  handled[i].at <= times'[Key(handled[i])]
    <3>1. Key(handled[i]) \in Keys /\ handled[i].at \in Nat
      BY <1>4, EventHasKey
    <3>2. CASE Key(handled[i]) = Key(event)
      BY <1>3, <2>1, <2>2, <3>1, <3>2
    <3>3. CASE Key(handled[i]) # Key(event)
      BY <1>2, <2>1, <3>1, <3>3
    <3> QED BY <3>2, <3>3
  <2>4. \A i \in 1 .. n + 1 : handled'[i].at <= times'[Key(handled'[i])]
    <3>1. handled'[n + 1].at <= times'[Key(handled'[n + 1])]
      BY <1>3, <1>5, <2>2
    <3>2. \A i \in 1 .. n : handled'[i].at <= times'[Key(handled'[i])]
      BY <1>5, <2>3
    <3> QED BY <1>4, <3>1, <3>2
  <2> QED BY <1>5, <2>2, <2>4 DEF Timed
<1>8. AtMostOnce'
  <2> SUFFICES ASSUME NEW i \in 1 .. n + 1, NEW j \in 1 .. n + 1, i < j,
                      handled'[i].id = handled'[j].id
               PROVE  j - i > Capacity
    BY <1>5 DEF AtMostOnce
  <2>1. CASE j \in 1 .. n
    <3>1. i \in 1 .. n
      BY <1>4, <2>1
    <3> QED BY <1>5, <2>1, <3>1 DEF IInv, AtMostOnce
  <2>2. CASE j = n + 1
    <3>1. i \in 1 .. n /\ handled[i].id = event.id
      BY <1>4, <1>5, <2>2
    <3>2. ASSUME i > n - m PROVE FALSE
      <4> HIDE DEF n, m
      <4>1. i - (n - m) \in 1 .. m /\ n - m + (i - (n - m)) = i
        BY <1>4, <3>1, <3>2
      <4>2. seen[i - (n - m)] = event.id
        BY <1>4, <3>1, <4>1
      <4>3. DOMAIN seen = 1 .. m
        BY <1>4 DEF m
      <4> QED BY <1>2, <4>1, <4>2, <4>3 DEF Known
    <3> QED BY <1>4, <2>2, <3>1, <3>2
  <2> QED BY <1>4, <2>1, <2>2
<1>9. InOrder'
  <2> SUFFICES ASSUME NEW i \in 1 .. n + 1, NEW j \in 1 .. n + 1, i < j,
                      Key(handled'[i]) = Key(handled'[j])
               PROVE  handled'[i].at <= handled'[j].at
    BY <1>5 DEF InOrder
  <2>1. i \in 1 .. n
    BY <1>4
  <2>2. CASE j \in 1 .. n
    BY <1>5, <2>1, <2>2 DEF IInv, InOrder
  <2>3. CASE j = n + 1
    <3>1. handled[i].at <= times[Key(event)] /\ Key(handled[i]) = Key(event)
      BY <1>5, <2>1, <2>3 DEF IInv, Timed
    <3>2. handled[i].at \in Nat /\ times[Key(event)] \in Nat
      BY <1>3, <1>4, <2>1, EventHasKey DEF IInv, Timed
    <3>3. times[Key(event)] <= event.at
      BY <1>2, <1>3, <3>2 DEF Late
    <3> QED BY <1>3, <1>5, <2>1, <2>3, <3>1, <3>2, <3>3
  <2> QED BY <1>4, <2>2, <2>3
<1> QED BY <1>6, <1>7, <1>8, <1>9

LEMMA NextInv ==
    ASSUME IInv, [Next]_vars
    PROVE  IInv'
<1>1. Shape'
  BY NextShape DEF IInv
<1>2. Remembers' /\ Timed' /\ AtMostOnce' /\ InOrder'
  <2>1. CASE Accept
    BY <2>1, AcceptInv
  <2>2. CASE UNCHANGED memory
    BY <2>2 DEF memory, IInv, Remembers, Timed, AtMostOnce, InOrder
  <2> QED BY <2>1, <2>2, OnlyAcceptRemembers
<1> QED BY <1>1, <1>2 DEF IInv

(* MarketStreamRunner._seen: within the memory no event is given to the    *)
(* consumer twice, across reconnections and exchanges of the symbols.      *)
THEOREM AtMostOnceHolds == Spec => []AtMostOnce
<1>1. IInv => AtMostOnce
  BY DEF IInv
<1> QED BY <1>1, InitInv, NextInv, PTL DEF Spec

(* MarketStreamRunner._last_timestamp: what the consumer is given of a     *)
(* symbol and kind goes forward in time.                                   *)
THEOREM InOrderHolds == Spec => []InOrder
<1>1. IInv => InOrder
  BY DEF IInv
<1> QED BY <1>1, InitInv, NextInv, PTL DEF Spec
-----------------------------------------------------------------------------
(* A run that was not interrupted waits for the reader before it closes. *)
Awaited ==
    /\ main \in {"closing", "over", "ended"} /\ ~interrupted => pc = "done"
    /\ main = "ended" => pc = "done"

(* After the report nothing was handled, or one event, at which the reader *)
(* ends.                                                                   *)
AfterReport ==
    \/ Len(handled) = report /\ pc # "handling"
    \/ interrupted /\ Len(handled) = report + 1 /\ pc \in {"handling", "done"}

Ending ==
    /\ report \in Nat \cup {NoReport}
    /\ Awaited
    /\ main = "closing" => stop
    /\ report # NoReport => stop /\ main \in {"over", "ended"} /\ AfterReport

(* The report and the run's state are left alone while the reader, the     *)
(* consumer and the exchange go on.                                        *)
LEMMA FeedKeepsEnding ==
    ASSUME Ending, Remembers, UNCHANGED <<stop, main, interrupted, report>>,
           \/ UNCHANGED <<pc, handled>>
           \/ pc # "done" /\ pc # "handling" /\ pc' # "handling" /\ UNCHANGED handled
           \/ Accept
           \/ Consumed
           \/ pc \in {"handling", "discovering"} /\ (stop => pc' = "done")
              /\ pc' # "handling" /\ UNCHANGED handled
    PROVE  Ending'
<1>1. pc = "done" => pc' = "done"
  BY DEF Accept, HasMessage, Consumed
<1>2. Awaited'
  BY <1>1 DEF Ending, Awaited
<1>3. ASSUME report # NoReport
      PROVE  AfterReport'
  <2>1. stop /\ main \in {"over", "ended"} /\ AfterReport /\ report \in Nat
    BY <1>3 DEF Ending
  <2>2. CASE Accept
    <3>1. pc = "reading" /\ pc' = "handling" /\ Len(handled') = Len(handled) + 1
      BY <2>2 DEF Accept, HasMessage, Remembers
    <3>2. interrupted /\ Len(handled) = report
      BY <2>1, <3>1 DEF Ending, Awaited, AfterReport
    <3> QED BY <3>1, <3>2 DEF AfterReport
  <2>3. CASE ~Accept
    BY <1>3, <2>1, <2>3 DEF AfterReport, Consumed, Logging
  <2> QED BY <2>2, <2>3
<1> QED BY <1>2, <1>3 DEF Ending

LEMMA NextEnding ==
    ASSUME Ending, Remembers, [Next]_vars
    PROVE  Ending'
<1>1. ASSUME UNCHANGED vars \/ (\E k \in DOMAIN streams : Drop(k) \/ \E raw \in Messages : Send(k, raw))
      PROVE  Ending'
  BY <1>1, FeedKeepsEnding DEF vars, Drop, Send, ending, memory
<1>2. CASE ConnectSucceeds \/ ConnectFails \/ Wake
  BY <1>2, FeedKeepsEnding DEF ConnectSucceeds, ConnectFails, Wake, Disconnected, ending, memory
<1>3. CASE Skip \/ Garbled \/ EndOfStream
  BY <1>3, FeedKeepsEnding DEF Skip, Garbled, EndOfStream, HasMessage, Disconnected, ending, memory
<1>4. CASE Accept
  BY <1>4, FeedKeepsEnding DEF Accept, ending
<1>5. CASE Consumed
  BY <1>5, FeedKeepsEnding DEF Consumed, ending, memory
<1>6. CASE \E symbols \in Selections : Discovered(symbols)
  BY <1>6, FeedKeepsEnding DEF Discovered, ending, memory
<1>7. CASE ConsumerLosesConnection \/ ConsumerFails
  BY <1>7, FeedKeepsEnding
     DEF ConsumerLosesConnection, ConsumerFails, Disconnected, ending, memory
<1>8. CASE Expire \/ CloseReturns
  BY <1>8 DEF Expire, CloseReturns, Ending, Awaited
<1>9. CASE TaskOver
  BY <1>9 DEF TaskOver, ToClosing, Ending, Awaited
<1>10. CASE Interrupt
  BY <1>10 DEF Interrupt, ToClosing, Cancelled, Ending, Awaited
<1>11. CASE Finalize
  <2>1. Len(handled) \in Nat
    BY DEF Remembers
  <2>2. report = NoReport /\ main = "closing" /\ pc # "handling" /\ main' = "over"
        /\ report' \in {Len(handled), NoReport}
        /\ UNCHANGED <<pc, stop, interrupted, handled>>
    BY <1>11 DEF Finalize, Turn, Ending, memory
  <2>3. Awaited'
    BY <2>2 DEF Ending, Awaited
  <2>4. stop
    BY <2>2 DEF Ending
  <2> QED BY <2>1, <2>2, <2>3, <2>4 DEF Ending, AfterReport
<1>12. CASE End
  BY <1>12 DEF End, Cancelled, Turn, Ending, Awaited, AfterReport, memory
<1> QED BY <1>1, <1>2, <1>3, <1>4, <1>5, <1>6, <1>7, <1>8, <1>9, <1>10, <1>11, <1>12
        DEF Next, Reader, Consumer, Run, Ended

(* Paper8HRunner.run: the timer and a failure await the reader before the  *)
(* report, and nothing is handled after it; an interrupt does not, and at  *)
(* most one event is handled that the report does not tell of.             *)
THEOREM ReportIsFinalHolds == Spec => []ReportIsFinal
<1>1. Init => Ending
  BY DEF Init, Ending, Awaited
<1>2. IInv /\ Ending /\ [Next]_vars => Ending'
  BY NextEnding DEF IInv
<1>3. Ending => ReportIsFinal
  BY DEF Ending, AfterReport, ReportIsFinal
<1> QED BY <1>1, <1>2, <1>3, InitInv, NextInv, PTL DEF Spec
-----------------------------------------------------------------------------
(* The historical replay.                                                  *)

(* What a filter and a sort return, if every rank belongs to one position. *)
LEMMA RankedIs ==
    ASSUME NEW X, NEW s \in Seq(X), NEW P \in SUBSET DOMAIN s, NEW O, Orders(O, P),
           NEW rank, rank = [i \in P |-> RankIn(i, O, P)]
    PROVE  /\ Ranked(s, rank) \in Seq(X) /\ Len(Ranked(s, rank)) = Cardinality(P)
           /\ Cardinality(P) \in Nat
           /\ \A i \in P : rank[i] \in 1 .. Cardinality(P) /\ Ranked(s, rank)[rank[i]] = s[i]
           /\ \A n \in 1 .. Cardinality(P) : \E i \in P : rank[i] = n
<1> DEFINE N == Cardinality(P)
           t == [n \in 1 .. N |-> s[CHOOSE i \in P : rank[i] = n]]
<1>1. IsFiniteSet(P) /\ N \in Nat
  <2>1. DOMAIN s = 1 .. Len(s) /\ Len(s) \in Nat
    OBVIOUS
  <2>2. IsFiniteSet(DOMAIN s)
    BY <2>1, FS_Interval
  <2> QED BY <2>2, FS_Subset, FS_CardinalityType
<1>2. /\ \A n \in 1 .. N : \E i \in P : rank[i] = n
      /\ \A i, j \in P : rank[i] = rank[j] => i = j
  BY <1>1, RankReaches
<1>3. \A i \in P : rank[i] \in 1 .. N
  BY <1>1, RankIsPlace
<1>4. \A n \in 1 .. N : (CHOOSE i \in P : rank[i] = n) \in P
  BY <1>2
<1>5. t \in Seq(X) /\ Len(t) = N
  <2>1. \A i \in DOMAIN s : s[i] \in X
    OBVIOUS
  <2>2. t \in [1 .. N -> X]
    BY <1>4, <2>1
  <2>3. t \in Seq(X)
    BY <1>1, <2>2, SeqDef
  <2>4. DOMAIN t = 1 .. N
    OBVIOUS
  <2> HIDE DEF t
  <2>5. Len(t) = N
    BY <1>1, <2>3, <2>4, LenProperties
  <2> QED BY <2>3, <2>5
<1>6. SubSeq(t, 1, N) = t
  BY <1>1, <1>5, SubSeqFull
<1>7. DOMAIN rank = P
  OBVIOUS
<1>8. Ranked(s, rank) = t
  BY <1>6, <1>7 DEF Ranked
<1>9. \A i \in P : t[rank[i]] = s[i]
  <2> TAKE i \in P
  <2>1. (CHOOSE j \in P : rank[j] = rank[i]) = i
    BY <1>2
  <2>2. t[rank[i]] = s[CHOOSE j \in P : rank[j] = rank[i]]
    BY <1>3
  <2> QED BY <2>1, <2>2
<1> QED BY <1>1, <1>2, <1>3, <1>5, <1>8, <1>9

(* A filter returns members at the positions it keeps, and the sequence    *)
(* itself if it keeps every position.                                      *)
LEMMA KeptIs ==
    ASSUME NEW X, NEW s \in Seq(X), NEW P \in SUBSET DOMAIN s
    PROVE  /\ Kept(s, P) \in Seq(X)
           /\ \A n \in DOMAIN Kept(s, P) : \E i \in P : Kept(s, P)[n] = s[i]
           /\ P = DOMAIN s => Kept(s, P) = s
<1> DEFINE O == {e \in P \X P : e[1] < e[2]}
           rank == [i \in P |-> RankIn(i, O, P)]
           r == Kept(s, P)
<1>1. P \subseteq Nat /\ DOMAIN s = 1 .. Len(s) /\ Len(s) \in Nat
  OBVIOUS
<1>0. IsFiniteSet(P)
  <2>1. IsFiniteSet(1 .. Len(s))
    BY <1>1, FS_Interval
  <2> QED BY <1>1, <2>1, FS_Subset
<1>2. Orders(O, P)
  BY <1>1 DEF Orders
<1>3. \A i \in P : Preceding(i, O, P) = {j \in P : j < i}
  BY DEF Preceding
<1>4. [i \in P |-> 1 + Cardinality({j \in P : j < i})] = rank
  <2>1. \A i \in P : 1 + Cardinality({j \in P : j < i}) = RankIn(i, O, P)
    <3> TAKE i \in P
    <3>1. Cardinality({j \in P : j < i}) = Cardinality(Preceding(i, O, P))
      BY <1>3
    <3>2. Cardinality(Preceding(i, O, P)) \in Nat
      BY <1>0, BelowIsFinite
    <3> QED BY <3>1, <3>2 DEF RankIn
  <2> QED BY <2>1
<1>5. r = Ranked(s, rank)
  BY <1>4 DEF Kept
<1> HIDE DEF O, r
<1>6. /\ r \in Seq(X) /\ Len(r) = Cardinality(P) /\ Cardinality(P) \in Nat
      /\ \A i \in P : rank[i] \in 1 .. Cardinality(P) /\ r[rank[i]] = s[i]
      /\ \A n \in 1 .. Cardinality(P) : \E i \in P : rank[i] = n
  BY <1>2, <1>5, RankedIs
<1>7. DOMAIN r = 1 .. Cardinality(P)
  BY <1>6
<1>8. \A n \in DOMAIN r : \E i \in P : r[n] = s[i]
  BY <1>6, <1>7
<1>9. ASSUME P = DOMAIN s
      PROVE  r = s
  <2>1. Cardinality(P) = Len(s)
    BY <1>1, <1>9, FS_Interval
  <2>2. \A i \in P : rank[i] = i
    <3> TAKE i \in P
    <3>1. i \in 1 .. Len(s)
      BY <1>1, <1>9
    <3>2. {j \in P : j < i} = 1 .. i - 1
      <4>1. P = 1 .. Len(s)
        BY <1>1, <1>9
      <4> QED BY <1>1, <3>1, <4>1
    <3>3. Cardinality(1 .. i - 1) = IF 1 > i - 1 THEN 0 ELSE i - 1 - 1 + 1
      <4>1. 1 \in Int /\ i - 1 \in Int
        BY <3>1
      <4> QED BY <4>1, FS_Interval
    <3>4. Cardinality(Preceding(i, O, P)) = i - 1
      <4>1. Cardinality(Preceding(i, O, P)) = Cardinality(1 .. i - 1)
        BY <1>3, <3>2
      <4> QED BY <1>1, <3>1, <3>3, <4>1
    <3> QED BY <1>1, <3>1, <3>4 DEF RankIn
  <2>3. \A i \in 1 .. Len(s) : r[i] = s[i]
    BY <1>1, <1>6, <1>9, <2>2
  <2> QED BY <1>6, <2>1, <2>3, SeqEqual
<1> QED BY <1>6, <1>8, <1>9 DEF r

(* A sort by a value returns the same members, those of a smaller value    *)
(* before those of a greater.                                              *)
LEMMA SortedIs ==
    ASSUME NEW X, NEW s \in Seq(X), NEW v \in [DOMAIN s -> Int]
    PROVE  /\ Sorted(s, v) \in Seq(X) /\ Len(Sorted(s, v)) = Len(s)
           /\ \A n \in DOMAIN Sorted(s, v) : \E i \in DOMAIN s : Sorted(s, v)[n] = s[i]
           /\ \A m, n \in DOMAIN Sorted(s, v) : m < n =>
                 \E i, j \in DOMAIN s : /\ Sorted(s, v)[m] = s[i] /\ Sorted(s, v)[n] = s[j]
                                        /\ v[i] <= v[j]
<1> DEFINE P == DOMAIN s
           O == {e \in P \X P : v[e[1]] < v[e[2]] \/ (v[e[1]] = v[e[2]] /\ e[1] < e[2])}
           rank == [i \in P |-> RankIn(i, O, P)]
           r == Sorted(s, v)
<1>1. P = 1 .. Len(s) /\ Len(s) \in Nat /\ IsFiniteSet(P) /\ Cardinality(P) = Len(s)
  <2>1. P = 1 .. Len(s) /\ Len(s) \in Nat
    OBVIOUS
  <2>2. IsFiniteSet(1 .. Len(s)) /\ Cardinality(1 .. Len(s)) = IF 1 > Len(s) THEN 0 ELSE Len(s) - 1 + 1
    BY <2>1, FS_Interval
  <2> QED BY <2>1, <2>2
<1>2. Orders(O, P)
  <2> HIDE DEF P
  <2>0. \A x \in P : x \in Int /\ v[x] \in Int
    BY <1>1
  <2>1. \A x \in P : <<x, x>> \notin O
    BY <2>0
  <2>2. \A x, y, z \in P : <<x, y>> \in O /\ <<y, z>> \in O => <<x, z>> \in O
    BY <2>0
  <2>3. \A x, y \in P : x # y => <<x, y>> \in O \/ <<y, x>> \in O
    BY <2>0
  <2> QED BY <2>1, <2>2, <2>3 DEF Orders
<1>3. \A i \in P : Preceding(i, O, P) = {j \in P : \/ v[j] < v[i]
                                               \/ (v[j] = v[i] /\ j < i)}
  BY DEF Preceding
<1>4. [i \in DOMAIN s |-> 1 + Cardinality({j \in DOMAIN s : \/ v[j] < v[i]
                                                              \/ (v[j] = v[i] /\ j < i)})] = rank
  <2>1. \A i \in P : 1 + Cardinality({j \in P : \/ v[j] < v[i]
                                                  \/ (v[j] = v[i] /\ j < i)}) = RankIn(i, O, P)
    <3> TAKE i \in P
    <3>1. Cardinality({j \in P : v[j] < v[i] \/ (v[j] = v[i] /\ j < i)}) = Cardinality(Preceding(i, O, P))
      BY <1>3
    <3>2. Cardinality(Preceding(i, O, P)) \in Nat
      BY <1>1, BelowIsFinite
    <3> QED BY <3>1, <3>2 DEF RankIn
  <2> QED BY <2>1
<1>5. r = Ranked(s, rank)
  BY <1>4 DEF Sorted
<1> HIDE DEF O, r
<1>6. /\ r \in Seq(X) /\ Len(r) = Cardinality(P)
      /\ \A i \in P : rank[i] \in 1 .. Cardinality(P) /\ r[rank[i]] = s[i]
      /\ \A n \in 1 .. Cardinality(P) : \E i \in P : rank[i] = n
  BY <1>2, <1>5, RankedIs
<1>7. DOMAIN r = P
  BY <1>1, <1>6
<1>8. \A n \in P : \E i \in P : rank[i] = n /\ r[n] = s[i]
  BY <1>1, <1>6
<1>9. ASSUME NEW i \in P, NEW j \in P, rank[i] < rank[j]
      PROVE  v[i] <= v[j]
  <2> SUFFICES ASSUME v[j] < v[i] PROVE FALSE
    BY <1>1
  <2>1. <<j, i>> \in O
    BY DEF O
  <2>2. RankIn(j, O, P) < RankIn(i, O, P)
    BY <1>1, <1>2, <2>1, RankGrows
  <2>3. rank[i] \in Int /\ rank[j] \in Int
    BY <1>1, <1>6
  <2> QED BY <1>9, <2>2, <2>3
<1>10. \A m, n \in P : m < n => \E i, j \in P : r[m] = s[i] /\ r[n] = s[j] /\ v[i] <= v[j]
  BY <1>8, <1>9
<1> QED BY <1>1, <1>6, <1>7, <1>8, <1>10 DEF r

HistoricalEvent ==
    [at : Nat, symbol : Symbols, kind : ToSet(Kinds), id : Nat, open : Nat, price : Nat]

Snapshot == [at : Nat, listed : SUBSET Symbols]

HistoricalCandle == [open : Nat, close : Nat, price : Nat]

CandleTables == UNION {[D -> Seq(HistoricalCandle)] : D \in SUBSET Symbols}

Dataset ==
    [events : Seq(HistoricalEvent), snapshots : Seq(Snapshot), candles : CandleTables,
     symbols : SUBSET Symbols]

InOrderOfTime(events) == \A i, j \in DOMAIN events : i < j => events[i].at <= events[j].at

(* A key is made of numbers.                                               *)
LEMMA SortKeyType ==
    ASSUME ReplayAssumption, NEW e \in HistoricalEvent
    PROVE  \A a \in 1 .. 4 : SortKey(e)[a] \in Int
<1>1. Place(e.symbol, Names) \in Int
  <2>1. Names \in Seq(Symbols) /\ e.symbol \in Symbols
    BY DEF ReplayAssumption, HistoricalEvent
  <2>2. \E i \in DOMAIN Names : Names[i] = e.symbol
    BY <2>1 DEF Symbols, ToSet
  <2>3. Place(e.symbol, Names) \in DOMAIN Names
    BY <2>2 DEF Place
  <2> QED BY <2>1, <2>3
<1>2. Place(e.kind, Kinds) \in Int
  <2>1. e.kind \in ToSet(Kinds)
    BY DEF HistoricalEvent
  <2>2. \E i \in DOMAIN Kinds : Kinds[i] = e.kind
    BY <2>1 DEF ToSet
  <2>3. Place(e.kind, Kinds) \in DOMAIN Kinds
    BY <2>2 DEF Place
  <2>4. DOMAIN Kinds = 1 .. 3
    BY DEF Kinds
  <2> QED BY <2>3, <2>4
<1>3. e.at \in Int /\ EventId(e) \in Int
  BY DEF HistoricalEvent, EventId, HashOf
<1> QED BY <1>1, <1>2, <1>3 DEF SortKey

(* The time comes first in the key of an event.                            *)
LEMMA SortEventsIs ==
    ASSUME ReplayAssumption, NEW events \in Seq(HistoricalEvent)
    PROVE  /\ SortEvents(events) \in Seq(HistoricalEvent)
           /\ Len(SortEvents(events)) = Len(events)
           /\ InOrderOfTime(SortEvents(events))
<1> DEFINE D == DOMAIN events
           key == [i \in D |-> SortKey(events[i])]
           Before(i) == {j \in D : Precedes(key[j], key[i])}
           v == [i \in D |-> Cardinality(Before(i))]
<1>1. D = 1 .. Len(events) /\ IsFiniteSet(D) /\ \A i \in D : events[i].at \in Nat
  <2>1. D = 1 .. Len(events) /\ Len(events) \in Nat
    OBVIOUS
  <2>2. IsFiniteSet(1 .. Len(events))
    <3>1. 1 \in Int /\ Len(events) \in Int
      BY <2>1
    <3> QED BY ONLY <3>1, FS_Interval
  <2>3. \A i \in D : events[i] \in HistoricalEvent
    OBVIOUS
  <2> QED BY <2>1, <2>2, <2>3 DEF HistoricalEvent
<1>2. \A i \in D : DOMAIN key[i] = 1 .. 4 /\ key[i][1] = events[i].at
  BY DEF SortKey
<1>3. \A i, j \in D : /\ Precedes(key[i], key[j]) => events[i].at <= events[j].at
                      /\ events[i].at < events[j].at => Precedes(key[i], key[j])
  <2> TAKE i, j \in D
  <2>1. Precedes(key[i], key[j]) <=>
          \E a \in 1 .. 4 : key[i][a] < key[j][a] /\ \A b \in 1 .. a - 1 : key[i][b] = key[j][b]
    BY <1>2 DEF Precedes
  <2>2. events[i].at \in Nat /\ events[j].at \in Nat
    BY <1>1
  <2>3. ASSUME Precedes(key[i], key[j])
        PROVE  events[i].at <= events[j].at
    <3>1. PICK a \in 1 .. 4 : key[i][a] < key[j][a] /\ \A b \in 1 .. a - 1 : key[i][b] = key[j][b]
      BY <2>1, <2>3
    <3>2. CASE a = 1
      BY <1>2, <2>2, <3>1, <3>2
    <3>3. CASE a # 1
      <4>1. 1 \in 1 .. a - 1
        BY <3>3
      <4>2. key[i][1] = key[j][1]
        BY <3>1, <4>1
      <4> QED BY <1>2, <2>2, <4>2
    <3> QED BY <3>2, <3>3
  <2>4. ASSUME events[i].at < events[j].at
        PROVE  Precedes(key[i], key[j])
    <3>1. key[i][1] < key[j][1] /\ \A b \in 1 .. 1 - 1 : key[i][b] = key[j][b]
      BY <1>2, <2>4
    <3> QED BY <2>1, <3>1
  <2> QED BY <2>3, <2>4
<1>4. \A i \in D : IsFiniteSet(Before(i)) /\ Cardinality(Before(i)) \in Nat
  BY <1>1, FS_Subset, FS_CardinalityType
<1>5. \A i \in D : v[i] = Cardinality(Before(i))
  OBVIOUS
<1>6. v \in [D -> Int]
  <2>1. \A i \in D : v[i] \in Int
    <3> HIDE DEF v, Before, D
    <3> QED BY <1>4, <1>5
  <2>2. v = [i \in D |-> v[i]]
    OBVIOUS
  <2> HIDE DEF v
  <2> QED BY <2>1, <2>2
<1>7. SortEvents(events) = Sorted(events, v)
  BY DEF SortEvents
<1>8. ASSUME NEW i \in D, NEW j \in D, v[i] <= v[j]
      PROVE  events[i].at <= events[j].at
  <2> SUFFICES ASSUME events[j].at < events[i].at PROVE FALSE
    BY <1>1
  <2>1. Before(j) \subseteq Before(i)
    <3> SUFFICES ASSUME NEW k \in D, Precedes(key[k], key[j])
                 PROVE  Precedes(key[k], key[i])
      OBVIOUS
    <3>1. events[k].at <= events[j].at
      BY <1>3
    <3>2. events[k].at < events[i].at
      BY <1>1, <3>1
    <3> QED BY <1>3, <3>2
  <2>2. j \in Before(i)
    BY <1>3
  <2>3. j \notin Before(j)
    <3> SUFFICES ASSUME Precedes(key[j], key[j]) PROVE FALSE
      OBVIOUS
    <3>1. PICK a \in DOMAIN key[j] : key[j][a] < key[j][a]
      BY DEF Precedes
    <3>2. events[j] \in HistoricalEvent
      OBVIOUS
    <3>3. \A b \in 1 .. 4 : key[j][b] \in Int
      BY <3>2, SortKeyType
    <3>4. key[j][a] \in Int
      BY <1>2, <3>1, <3>3
    <3> HIDE DEF key
    <3> QED BY <3>1, <3>4
  <2>4. /\ Cardinality(Before(j)) <= Cardinality(Before(i))
        /\ Cardinality(Before(j)) # Cardinality(Before(i))
    <3>1. Before(j) # Before(i)
      BY <2>2, <2>3
    <3>2. IsFiniteSet(Before(i)) /\ Before(j) \in SUBSET Before(i)
      BY <1>4, <2>1
    <3> HIDE DEF Before
    <3> QED BY <3>1, <3>2, FS_Subset
  <2>5. v[i] = Cardinality(Before(i)) /\ v[j] = Cardinality(Before(j))
    BY <1>5
  <2>6. Cardinality(Before(i)) \in Nat /\ Cardinality(Before(j)) \in Nat
    BY <1>4
  <2> HIDE DEF v, Before, D
  <2> QED BY <1>8, <2>4, <2>5, <2>6
<1> HIDE DEF D, v
<1>9. /\ Sorted(events, v) \in Seq(HistoricalEvent)
      /\ Len(Sorted(events, v)) = Len(events)
      /\ \A m, n \in DOMAIN Sorted(events, v) : m < n =>
            \E i, j \in D : /\ Sorted(events, v)[m] = events[i]
                            /\ Sorted(events, v)[n] = events[j] /\ v[i] <= v[j]
  BY <1>6, SortedIs DEF D
<1>10. InOrderOfTime(Sorted(events, v))
  <2> DEFINE r == Sorted(events, v)
  <2> SUFFICES ASSUME NEW m \in DOMAIN r, NEW n \in DOMAIN r, m < n
               PROVE  r[m].at <= r[n].at
    BY DEF InOrderOfTime
  <2>1. PICK i \in D, j \in D : r[m] = events[i] /\ r[n] = events[j] /\ v[i] <= v[j]
    BY <1>9
  <2> QED BY <1>8, <2>1
<1> QED BY <1>7, <1>9, <1>10

LEMMA ByValueIs ==
    ASSUME NEW X, NEW s \in Seq(X), NEW v \in [DOMAIN s -> Int]
    PROVE  Sorted(s, v) \in Seq(X)
BY SortedIs

LEMMA ByTimeIs ==
    ASSUME NEW s \in Seq(Snapshot)
    PROVE  ByTime(s) \in Seq(Snapshot)
<1> DEFINE v == [i \in DOMAIN s |-> s[i].at]
<1>1. v \in [DOMAIN s -> Int]
  <2>1. \A i \in DOMAIN s : s[i] \in Snapshot
    OBVIOUS
  <2> QED BY <2>1 DEF Snapshot
<1>2. ByTime(s) = Sorted(s, v)
  BY DEF ByTime
<1> HIDE DEF v
<1> QED BY <1>1, <1>2, ByValueIs

LEMMA ByOpeningIs ==
    ASSUME NEW s \in Seq(HistoricalCandle)
    PROVE  ByOpening(s) \in Seq(HistoricalCandle)
<1> DEFINE v == [i \in DOMAIN s |-> s[i].open]
<1>1. v \in [DOMAIN s -> Int]
  <2>1. \A i \in DOMAIN s : s[i] \in HistoricalCandle
    OBVIOUS
  <2> QED BY <2>1 DEF HistoricalCandle
<1>2. ByOpening(s) = Sorted(s, v)
  BY DEF ByOpening
<1> HIDE DEF v
<1> QED BY <1>1, <1>2, ByValueIs

(* What is read back is a dataset whose events are in the order of time.   *)
LEMMA ReadBackIs ==
    ASSUME ReplayAssumption, NEW d \in Datasets
    PROVE  /\ ReadBack(Written(d)) \in Dataset
           /\ InOrderOfTime(ReadBack(Written(d)).events)
<1> DEFINE sorted == SortEvents(d.events)
           events == [i \in DOMAIN sorted |-> [sorted[i] EXCEPT !.id = EventId(sorted[i])]]
           file == Written(d)
           read == ReadBack(file)
<1>1. /\ d.events \in Seq(HistoricalEvent) /\ d.snapshots \in Seq(Snapshot)
      /\ \A s \in DOMAIN d.candles : d.candles[s] \in Seq(HistoricalCandle)
      /\ d.symbols \in SUBSET Symbols /\ DOMAIN d.candles \in SUBSET Symbols
  BY DEF ReplayAssumption, HistoricalEvent, Snapshot, HistoricalCandle
<1>2. events \in Seq(HistoricalEvent)
  <2>1. sorted \in Seq(HistoricalEvent)
    BY <1>1, SortEventsIs
  <2> HIDE DEF sorted
  <2>2. \A i \in DOMAIN sorted : sorted[i] \in HistoricalEvent
    BY <2>1
  <2>3. \A i \in DOMAIN sorted : [sorted[i] EXCEPT !.id = EventId(sorted[i])] \in HistoricalEvent
    <3> TAKE i \in DOMAIN sorted
    <3>1. EventId(sorted[i]) \in Nat
      BY <2>2 DEF HistoricalEvent, EventId, HashOf
    <3> QED BY <2>2, <3>1 DEF HistoricalEvent
  <2>4. DOMAIN sorted = 1 .. Len(sorted) /\ Len(sorted) \in Nat
    BY <2>1
  <2>5. events \in [1 .. Len(sorted) -> HistoricalEvent]
    BY <2>3, <2>4
  <2> HIDE DEF events
  <2> QED BY <2>4, <2>5, SeqDef
<1>3. /\ file.events = events /\ file.snapshots = ByTime(d.snapshots)
      /\ file.candles = d.candles /\ file.symbols = d.symbols
  BY DEF Written
<1> HIDE DEF file, events
<1>4. /\ read.events = SortEvents(events) /\ read.snapshots = ByTime(ByTime(d.snapshots))
      /\ read.candles = [s \in {x \in DOMAIN d.candles : d.candles[x] # <<>>} |->
                            ByOpening(d.candles[s])]
      /\ read.symbols = d.symbols
      /\ read = [events |-> read.events, snapshots |-> read.snapshots, candles |-> read.candles,
                 symbols |-> read.symbols]
  BY <1>3 DEF ReadBack
<1> HIDE DEF read
<1>5. read.events \in Seq(HistoricalEvent) /\ InOrderOfTime(read.events)
  BY <1>2, <1>4, SortEventsIs
<1>6. read.snapshots \in Seq(Snapshot)
  BY <1>1, <1>4, ByTimeIs
<1>7. read.candles \in CandleTables
  <2> DEFINE told == {x \in DOMAIN d.candles : d.candles[x] # <<>>}
  <2>1. read.candles \in [told -> Seq(HistoricalCandle)]
    BY <1>1, <1>4, ByOpeningIs
  <2>2. told \in SUBSET Symbols
    BY <1>1
  <2> HIDE DEF told
  <2> QED BY <2>1, <2>2 DEF CandleTables
<1>8. read.symbols \in SUBSET Symbols
  BY <1>1, <1>4
<1>9. read \in Dataset
  BY <1>4, <1>5, <1>6, <1>7, <1>8 DEF Dataset
<1> QED BY <1>5, <1>9 DEF read, file

(* The clock starts no later than the first event.                         *)
LEMMA StartIs ==
    ASSUME NEW d \in Dataset, Valid(d)
    PROVE  Start(d) \in Nat /\ \A i \in DOMAIN d.events : Start(d) <= d.events[i].at
<1> DEFINE S == {d.events[i].at : i \in DOMAIN d.events}
                  \cup {d.snapshots[i].at : i \in DOMAIN d.snapshots}
<1>1. d.events \in Seq(HistoricalEvent) /\ d.snapshots \in Seq(Snapshot)
  BY DEF Dataset
<1>2. /\ \A i \in DOMAIN d.events : d.events[i] \in HistoricalEvent
      /\ \A i \in DOMAIN d.snapshots : d.snapshots[i] \in Snapshot
  BY <1>1
<1>3. S \subseteq Nat
  BY <1>2 DEF HistoricalEvent, Snapshot
<1>4. S # {}
  <2>1. d.events # <<>> \/ d.snapshots # <<>>
    BY DEF Valid
  <2>2. ASSUME NEW X, NEW s \in Seq(X), s # <<>>
        PROVE  1 \in DOMAIN s
    BY <2>2, EmptySeq, LenProperties
  <2> HIDE DEF S
  <2>3. 1 \in DOMAIN d.events \/ 1 \in DOMAIN d.snapshots
    BY <1>1, <2>1, <2>2
  <2> QED BY <2>3 DEF S
<1>5. Start(d) \in S /\ \A x \in S : Start(d) <= x
  <2>1. Start(d) = CHOOSE x \in S : \A y \in S : x <= y
    BY DEF Start, Min
  <2> HIDE DEF S
  <2>2. \E x \in S : \A y \in S : x <= y
    BY <1>3, <1>4, LeastNatural
  <2> QED BY <2>1, <2>2
<1> QED BY <1>3, <1>5

(* What is visible at a time does not depend on what comes after it.       *)
LEMMA PastShowsTheSame ==
    ASSUME NEW d \in Dataset, NEW t
    PROVE  Visible(Past(d, t), t) = Visible(d, t)
<1> DEFINE p == Past(d, t)
           Seen(s) == Kept(s, {i \in DOMAIN s : s[i].at <= t})
           ClosedBy(s) == Kept(s, {i \in DOMAIN s : s[i].close <= t})
<1>1. /\ p.snapshots = Seen(d.snapshots)
      /\ p.candles = [s \in DOMAIN d.candles |-> ClosedBy(d.candles[s])]
      /\ p.symbols = d.symbols
  BY DEF Past, Dataset
<1>2. Seen(Seen(d.snapshots)) = Seen(d.snapshots)
  <2> DEFINE s0 == d.snapshots
             P == {i \in DOMAIN s0 : s0[i].at <= t}
             r == Kept(s0, P)
             Q == {i \in DOMAIN r : r[i].at <= t}
  <2>1. s0 \in Seq(Snapshot)
    BY DEF Dataset
  <2> HIDE DEF s0
  <2>2. r \in Seq(Snapshot) /\ \A n \in DOMAIN r : \E i \in P : r[n] = s0[i]
    <3>1. P \in SUBSET DOMAIN s0
      OBVIOUS
    <3> HIDE DEF P
    <3> QED BY <2>1, <3>1, KeptIs
  <2>3. Seen(s0) = r /\ Seen(r) = Kept(r, Q)
    OBVIOUS
  <2> HIDE DEF r
  <2>4. Q = DOMAIN r
    BY <2>2
  <2>5. Kept(r, DOMAIN r) = r
    BY <2>2, KeptIs
  <2> HIDE DEF Q, Seen
  <2>6. Seen(Seen(s0)) = Seen(s0)
    BY <2>3, <2>4, <2>5
  <2> QED BY <2>6 DEF s0
<1>3. ASSUME NEW s \in DOMAIN d.candles
      PROVE  ClosedBy(ClosedBy(d.candles[s])) = ClosedBy(d.candles[s])
  <2> DEFINE s0 == d.candles[s]
             P == {i \in DOMAIN s0 : s0[i].close <= t}
             r == Kept(s0, P)
             Q == {i \in DOMAIN r : r[i].close <= t}
  <2>1. s0 \in Seq(HistoricalCandle)
    BY DEF Dataset, CandleTables
  <2> HIDE DEF s0
  <2>2. r \in Seq(HistoricalCandle) /\ \A n \in DOMAIN r : \E i \in P : r[n] = s0[i]
    <3>1. P \in SUBSET DOMAIN s0
      OBVIOUS
    <3> HIDE DEF P
    <3> QED BY <2>1, <3>1, KeptIs
  <2>3. ClosedBy(s0) = r /\ ClosedBy(r) = Kept(r, Q)
    OBVIOUS
  <2> HIDE DEF r
  <2>4. Q = DOMAIN r
    BY <2>2
  <2>5. Kept(r, DOMAIN r) = r
    BY <2>2, KeptIs
  <2> HIDE DEF Q, ClosedBy
  <2>6. ClosedBy(ClosedBy(s0)) = ClosedBy(s0)
    BY <2>3, <2>4, <2>5
  <2> QED BY <2>6 DEF s0
<1>4. /\ \A e : MetadataAt(e, t) = IF Seen(e.snapshots) = <<>> THEN {}
                                     ELSE Last(Seen(e.snapshots)).listed
      /\ \A e, s : CandlesAt(e, s, t) = IF s \in DOMAIN e.candles THEN ClosedBy(e.candles[s])
                                          ELSE <<>>
  BY DEF MetadataAt, CandlesAt
<1> HIDE DEF p, Seen, ClosedBy
<1>5. MetadataAt(p, t) = MetadataAt(d, t)
  BY <1>1, <1>2, <1>4
<1>6. \A s : CandlesAt(p, s, t) = CandlesAt(d, s, t)
  <2> TAKE s
  <2>1. CASE s \in DOMAIN d.candles
    BY <1>1, <1>3, <1>4, <2>1
  <2>2. CASE s \notin DOMAIN d.candles
    BY <1>1, <1>4, <2>2
  <2> QED BY <2>1, <2>2
<1>7. \A s : Ticker(p, s, t) = Ticker(d, s, t)
  <2> DEFINE Day24(c) == {i \in DOMAIN c : c[i].close > t - Day}
             T(c) == IF Len(Kept(c, Day24(c))) < 2 THEN None
                     ELSE <<Head(Kept(c, Day24(c))).price, Last(Kept(c, Day24(c))).price>>
  <2>1. \A e, s : Ticker(e, s, t) = T(CandlesAt(e, s, t))
    BY DEF Ticker
  <2> HIDE DEF T
  <2> QED BY <1>6, <2>1
<1>8. Visible(p, t) = Visible(d, t)
  BY <1>1, <1>5, <1>6, <1>7 DEF Visible
<1> QED BY <1>8 DEF p
-----------------------------------------------------------------------------
(* The trades of a symbol among the first n events, of those in T, and the *)
(* price of the last.                                                      *)
TradesOf(T, events, s, n) ==
    {i \in T : i <= n /\ events[i].symbol = s /\ events[i].kind = "trade"}

LastOf(T, events, s, n) ==
    LET trades == TradesOf(T, events, s, n)
    IN  IF trades = {} THEN 0 ELSE events[Max(trades)].price

LastTradeOf(s, n) == LastOf(ToSet(taken), data.events, s, n)

LEMMA LastTradeIs ==
    ASSUME NEW s, NEW n
    PROVE  LastTrade(s, n) = LastTradeOf(s, n)
BY DEF LastTrade, LastTradeOf, LastOf, TradesOf

(* An event that comes later, or is not a trade, changes no last trade.    *)
LEMMA LastOfStays ==
    ASSUME NEW T, NEW events, NEW s, NEW n \in Int, NEW k \in Int,
           n < k \/ events[k].kind # "trade" \/ events[k].symbol # s
    PROVE  LastOf(T \cup {k}, events, s, n) = LastOf(T, events, s, n)
<1>1. TradesOf(T \cup {k}, events, s, n) = TradesOf(T, events, s, n)
  BY DEF TradesOf
<1> QED BY <1>1 DEF LastOf

LEMMA LastOfTrade ==
    ASSUME NEW T, T \subseteq Int, NEW events, NEW s, NEW k \in Int, \A i \in T : i <= k,
           events[k].kind = "trade", events[k].symbol = s
    PROVE  LastOf(T \cup {k}, events, s, k) = events[k].price
<1> DEFINE S == TradesOf(T \cup {k}, events, s, k)
<1>1. k \in S /\ S \subseteq Int /\ \A i \in S : i <= k
  <2>1. S \subseteq T \cup {k}
    BY DEF TradesOf
  <2>2. k <= k
    OBVIOUS
  <2>3. k \in S
    BY <2>2 DEF TradesOf
  <2> HIDE DEF S
  <2> QED BY <2>1, <2>2, <2>3
<1> HIDE DEF S
<1>2. Max(S) = k
  <2>1. \E x \in S : \A y \in S : x >= y
    BY <1>1
  <2>2. Max(S) \in S /\ \A y \in S : Max(S) >= y
    BY <2>1 DEF Max
  <2>3. Max(S) \in Int /\ Max(S) >= k /\ Max(S) <= k
    BY <1>1, <2>2
  <2> HIDE DEF Max
  <2> QED BY <2>3
<1> QED BY <1>1, <1>2 DEF LastOf, S

LEMMA LastOfGrows ==
    ASSUME NEW T, T \subseteq Int, NEW events, NEW s, NEW n \in Int, \A i \in T : i <= n
    PROVE  LastOf(T, events, s, n + 1) = LastOf(T, events, s, n)
<1>1. \A i \in T : i <= n /\ i <= n + 1
  OBVIOUS
<1>2. TradesOf(T, events, s, n + 1) = TradesOf(T, events, s, n)
  BY <1>1, Zenon DEF TradesOf
<1> QED BY <1>2 DEF LastOf

LEMMA ToSetAppended ==
    ASSUME NEW X, NEW s \in Seq(X), NEW x \in X
    PROVE  /\ ToSet(Append(s, x)) = ToSet(s) \cup {x}
           /\ Append(s, x) \in Seq(X) /\ DOMAIN Append(s, x) = DOMAIN s \cup {Len(s) + 1}
           /\ Append(s, x)[Len(s) + 1] = x /\ \A i \in DOMAIN s : Append(s, x)[i] = s[i]
<1>1. /\ Append(s, x) \in Seq(X) /\ DOMAIN Append(s, x) = DOMAIN s \cup {Len(s) + 1}
      /\ Append(s, x)[Len(s) + 1] = x /\ \A i \in DOMAIN s : Append(s, x)[i] = s[i]
  BY AppendProperties
<1> QED BY <1>1 DEF ToSet
-----------------------------------------------------------------------------
(* The inductive invariant, part by part.                                  *)

Read == data \in Dataset /\ InOrderOfTime(data.events)

(* How far the stream is.                                                  *)
Progress ==
    /\ phase \in {"loaded", "refused", "running", "closing", "done", "failed"}
    /\ index \in 0 .. Len(data.events) /\ waiting \in BOOLEAN
    /\ waiting => phase = "running" /\ index > 0
    /\ phase \in {"loaded", "refused"} => index = 0 /\ view = None
    /\ phase \in {"closing", "done"} => index = Len(data.events)

(* The clock is at the event that was released last.                       *)
Clocked ==
    phase # "refused" =>
        /\ clock \in Nat
        /\ index > 0 => clock = data.events[index].at
        /\ index = 0 => \A i \in DOMAIN data.events : clock <= data.events[i].at

Shown == view.at \in Nat /\ view.at <= clock /\ view = Visible(data, view.at)

Informed == (view = None \/ Shown) /\ (phase = "running" => Shown)

(* The events that were handled are those that were released, less those   *)
(* that repeat one before.                                                 *)
Handled ==
    /\ taken \in Seq(Nat)
    /\ \A i \in DOMAIN taken : taken[i] \in 1 .. index /\ (waiting => taken[i] # index)
    /\ \A i, j \in DOMAIN taken : i < j => taken[i] < taken[j]
    /\ \A i, j \in DOMAIN taken :
          Identity(data.events[taken[i]]) = Identity(data.events[taken[j]]) => i = j
    /\ phase # "failed" => \A n \in 1 .. index :
          \/ waiting /\ n = index
          \/ \E i \in DOMAIN taken : Identity(data.events[taken[i]]) = Identity(data.events[n])

Priced ==
    /\ prices = [s \in Symbols |-> prices[s]]
    /\ phase # "failed" => \A s \in Symbols : prices[s] = LastTradeOf(s, index)

Ordered ==
    /\ order = [s \in Symbols |-> order[s]]
    /\ \A s \in Symbols : order[s] # None =>
          /\ order[s] = <<order[s][1], order[s][2]>>
          /\ order[s][2] \in 1 .. index /\ (waiting => order[s][2] # index)
          /\ order[s][1] = LastTradeOf(s, order[s][2])

Caused ==
    /\ held = [s \in Symbols |-> held[s]]
    /\ \A s \in Symbols : held[s] # None =>
          /\ held[s][2] \in 1 .. index /\ held[s][3] \in 1 .. index /\ held[s][2] < held[s][3]
          /\ held[s][1] = LastTradeOf(s, held[s][2])
          /\ data.events[held[s][3]].symbol = s /\ data.events[held[s][3]].kind = "trade"
          /\ data.events[held[s][3]].price <= held[s][1]

Followed ==
    /\ Read /\ Progress /\ Clocked /\ Informed
    /\ Handled /\ Priced /\ Ordered /\ Caused

LEMMA FollowedInit ==
    ASSUME ReplayAssumption, ReplayInit
    PROVE  Followed
<1>1. PICK d \in Datasets :
          /\ data = ReadBack(Written(d))
          /\ phase = IF Accepted(Written(d)) THEN "loaded" ELSE "refused"
  BY DEF ReplayInit
<1>2. /\ clock = IF phase = "loaded" THEN Start(data) ELSE 0
      /\ index = 0 /\ waiting = FALSE /\ taken = <<>> /\ view = None
      /\ prices = [s \in Symbols |-> 0]
      /\ order = [s \in Symbols |-> None] /\ held = [s \in Symbols |-> None]
  BY DEF ReplayInit
<1>3. Read
  BY <1>1, ReadBackIs DEF Read
<1>4. Progress
  <2>1. data.events \in Seq(HistoricalEvent)
    BY <1>3 DEF Read, Dataset
  <2>2. Len(data.events) \in Nat
    BY <2>1
  <2>3. phase \in {"loaded", "refused"}
    BY <1>1
  <2>4. index \in 0 .. Len(data.events) /\ waiting = FALSE
    BY <1>2, <2>2
  <2>5. ~(phase \in {"closing", "done"})
    BY <2>3
  <2> QED BY <1>2, <2>3, <2>4, <2>5, Zenon DEF Progress
<1>5. Clocked
  <2>1. phase = "loaded" => Valid(data)
    BY <1>1 DEF Accepted
  <2>2. phase = "loaded" => clock \in Nat /\ \A i \in DOMAIN data.events : clock <= data.events[i].at
    BY <1>2, <1>3, <2>1, StartIs DEF Read
  <2> QED BY <1>1, <1>2, <2>2 DEF Clocked
<1>6. Informed
  BY <1>1, <1>2 DEF Informed
<1>7. Handled
  BY <1>2 DEF Handled
<1>8. Priced
  <2>1. ToSet(taken) = {}
    BY <1>2 DEF ToSet
  <2>2. \A s : LastTradeOf(s, index) = 0
    BY <2>1 DEF LastTradeOf, LastOf, TradesOf
  <2> QED BY <1>2, <2>2 DEF Priced
<1>9. Ordered /\ Caused
  BY <1>2 DEF Ordered, Caused
<1> QED BY <1>3, <1>4, <1>5, <1>6, <1>7, <1>8, <1>9 DEF Followed

LEMMA FollowedFacts ==
    ASSUME Followed
    PROVE  /\ data.events \in Seq(HistoricalEvent) /\ Len(data.events) \in Nat
           /\ DOMAIN data.events = 1 .. Len(data.events)
           /\ \A i \in DOMAIN data.events :
                 /\ data.events[i] \in HistoricalEvent /\ data.events[i].at \in Nat
                 /\ data.events[i].symbol \in Symbols /\ data.events[i].price \in Nat
           /\ index \in Nat /\ (waiting => index \in DOMAIN data.events)
           /\ ToSet(taken) \subseteq Int /\ \A i \in ToSet(taken) : i <= index
<1>1. data.events \in Seq(HistoricalEvent)
  BY DEF Followed, Read, Dataset
<1>2. Len(data.events) \in Nat /\ DOMAIN data.events = 1 .. Len(data.events)
  BY <1>1
<1>3. \A i \in DOMAIN data.events : data.events[i] \in HistoricalEvent
  BY <1>1
<1>4. index \in Nat /\ (waiting => index \in DOMAIN data.events)
  <2>1. index \in 0 .. Len(data.events) /\ (waiting => index > 0)
    BY DEF Followed, Progress
  <2> QED BY <1>2, <2>1
<1>5. ToSet(taken) \subseteq Int /\ \A i \in ToSet(taken) : i <= index
  <2>1. \A i \in DOMAIN taken : taken[i] \in 1 .. index
    BY DEF Followed, Handled
  <2> QED BY <1>4, <2>1 DEF ToSet
<1> QED BY <1>1, <1>2, <1>3, <1>4, <1>5 DEF HistoricalEvent

(* What changes nothing but what discovery was shown, or the phase to one  *)
(* that is no more demanding, keeps the other parts.                       *)
LEMMA StreamStays ==
    ASSUME Followed, UNCHANGED <<data, clock, index, waiting, taken>>,
           phase # "refused", phase' # "failed" => phase # "failed"
    PROVE  Read' /\ Clocked' /\ Handled'
<1>1. Read'
  BY DEF Followed, Read
<1>2. Clocked'
  BY DEF Followed, Clocked
<1>3. Handled'
  BY DEF Followed, Handled
<1> QED BY <1>1, <1>2, <1>3

LEMMA TradingStays ==
    ASSUME Followed, UNCHANGED <<data, index, waiting, taken, prices, order, held>>,
           phase' # "failed" => phase # "failed"
    PROVE  Priced' /\ Ordered' /\ Caused'
<1>1. Priced'
  BY DEF Followed, Priced, LastTradeOf
<1>2. Ordered'
  BY DEF Followed, Ordered, LastTradeOf
<1>3. Caused'
  BY DEF Followed, Caused, LastTradeOf
<1> QED BY <1>1, <1>2, <1>3

LEMMA InformedStays ==
    ASSUME Followed, UNCHANGED <<data, clock, view>>, phase' = "running" => phase = "running"
    PROVE  Informed'
BY DEF Followed, Informed, Shown

LEMMA StartupKeeps ==
    ASSUME Followed, Startup
    PROVE  Followed'
<1>1. /\ phase = "loaded" /\ phase' = "running" /\ view' = Visible(data, clock)
      /\ UNCHANGED <<data, clock, index, waiting, taken, prices, order, held>>
  BY DEF Startup
<1>2. Read' /\ Clocked' /\ Handled' /\ Priced' /\ Ordered' /\ Caused'
  BY <1>1, StreamStays, TradingStays
<1>3. Progress'
  BY <1>1 DEF Followed, Progress
<1>4. Informed'
  <2>1. view'.at = clock
    BY <1>1 DEF Visible
  <2>2. clock \in Nat
    BY <1>1 DEF Followed, Clocked
  <2> QED BY <1>1, <2>1, <2>2 DEF Informed, Shown
<1> QED BY <1>2, <1>3, <1>4 DEF Followed

(* The steps that change the phase alone.                                  *)
LEMMA PhaseKeeps ==
    ASSUME Followed, StartupFails \/ StreamEnded \/ Report
    PROVE  Followed'
<1>1. /\ UNCHANGED <<data, clock, index, waiting, taken, prices, view, order, held>>
      /\ phase \notin {"refused", "failed"} /\ phase' # "running"
  BY DEF StartupFails, StreamEnded, Report, Idle
<1>2. Read' /\ Clocked' /\ Handled' /\ Priced' /\ Ordered' /\ Caused' /\ Informed'
  BY <1>1, StreamStays, TradingStays, InformedStays
<1>3. Progress'
  <2>1. CASE StartupFails
    BY <2>1 DEF Followed, Progress, StartupFails, Idle
  <2>2. CASE StreamEnded
    BY <2>2 DEF Followed, Progress, StreamEnded, Idle
  <2>3. CASE Report
    BY <2>3 DEF Followed, Progress, Report, Idle
  <2> QED BY <2>1, <2>2, <2>3
<1> QED BY <1>2, <1>3 DEF Followed

LEMMA ReleaseKeeps ==
    ASSUME Followed, Release
    PROVE  Followed'
<1>1. /\ phase = "running" /\ ~waiting /\ index < Len(data.events)
      /\ clock' = data.events[index + 1].at /\ index' = index + 1 /\ waiting' = TRUE
      /\ UNCHANGED <<phase, data, taken, prices, view, order, held>>
  BY DEF Release
<1>2. index + 1 \in DOMAIN data.events /\ index \in Nat
  BY <1>1, FollowedFacts
<1>3. Read' /\ Progress'
  <2>1. Read'
    BY <1>1 DEF Followed, Read
  <2>2. index' \in 0 .. Len(data.events)' /\ index' > 0
    BY <1>1, <1>2, FollowedFacts
  <2> QED BY <1>1, <2>1, <2>2 DEF Progress
<1>4. clock' \in Nat /\ clock <= clock'
  <2>1. clock' \in Nat
    BY <1>1, <1>2, FollowedFacts
  <2>2. /\ index > 0 => clock = data.events[index].at
        /\ index = 0 => \A i \in DOMAIN data.events : clock <= data.events[i].at
    BY <1>1 DEF Followed, Clocked
  <2>3. CASE index = 0
    BY <1>1, <1>2, <2>1, <2>2, <2>3
  <2>4. CASE index > 0
    <3>1. index \in DOMAIN data.events /\ index < index + 1
      BY <1>1, <2>4, FollowedFacts
    <3>2. data.events[index].at <= data.events[index + 1].at
      BY <1>2, <3>1 DEF Followed, Read, InOrderOfTime
    <3> QED BY <1>1, <2>1, <2>2, <2>4, <3>2
  <2> QED BY <1>2, <2>3, <2>4
<1>5. Clocked'
  BY <1>1, <1>2, <1>4 DEF Clocked
<1>6. Informed'
  <2>1. clock \in Nat /\ Shown
    BY <1>1 DEF Followed, Clocked, Informed
  <2>2. view.at <= clock'
    BY <1>4, <2>1 DEF Shown
  <2> QED BY <1>1, <2>1, <2>2 DEF Informed, Shown
<1>7. Handled'
  <2>1. \A i \in DOMAIN taken : taken[i] \in 1 .. index
    BY DEF Followed, Handled
  <2>2. \A i \in DOMAIN taken : taken[i] \in 1 .. index' /\ taken[i] # index'
    BY <1>1, <1>2, <2>1
  <2>3. \A n \in 1 .. index' : n \in 1 .. index \/ n = index'
    BY <1>1, <1>2
  <2> QED BY <1>1, <2>2, <2>3 DEF Followed, Handled
<1>8. Priced'
  <2>1. \A s : LastTradeOf(s, index)' = LastTradeOf(s, index)
    BY <1>1, <1>2, FollowedFacts, LastOfGrows DEF LastTradeOf
  <2> QED BY <1>1, <2>1 DEF Followed, Priced
<1>9. Ordered'
  <2>1. \A n \in 1 .. index : n \in 1 .. index' /\ n # index'
    BY <1>1, <1>2
  <2> QED BY <1>1, <2>1 DEF Followed, Ordered, LastTradeOf
<1>10. Caused'
  <2>1. \A n \in 1 .. index : n \in 1 .. index'
    BY <1>1, <1>2
  <2> QED BY <1>1, <2>1 DEF Followed, Caused, LastTradeOf
<1> QED BY <1>3, <1>5, <1>6, <1>7, <1>8, <1>9, <1>10 DEF Followed

(* An event that is handled is added to those taken, and no last trade     *)
(* before it changes.                                                      *)
LEMMA DoneIs ==
    ASSUME Followed, waiting, ~Repeated, Done, UNCHANGED phase
    PROVE  /\ Read' /\ Progress' /\ Clocked' /\ Handled'
           /\ ToSet(taken') = ToSet(taken) \cup {index}
           /\ \A s : \A n \in 1 .. index : n # index => LastTradeOf(s, n)' = LastTradeOf(s, n)
           /\ \A s : \/ data.events[index].kind # "trade"
                     \/ data.events[index].symbol # s
                     => LastOf(ToSet(taken'), data.events, s, index) = LastTradeOf(s, index)
<1>1. /\ waiting' = FALSE /\ taken' = Append(taken, index)
      /\ UNCHANGED <<data, clock, index, phase>> /\ phase = "running"
  BY DEF Done, Followed, Progress
<1>2. /\ taken \in Seq(Nat) /\ index \in Nat /\ index \in DOMAIN data.events
      /\ index \in 1 .. index
  <2>1. taken \in Seq(Nat) /\ index \in Nat /\ index \in DOMAIN data.events
    BY FollowedFacts DEF Followed, Handled
  <2>2. index > 0
    BY DEF Followed, Progress
  <2> QED BY <2>1, <2>2
<1>3. /\ ToSet(taken') = ToSet(taken) \cup {index}
      /\ taken' \in Seq(Nat) /\ DOMAIN taken' = DOMAIN taken \cup {Len(taken) + 1}
      /\ taken'[Len(taken) + 1] = index /\ \A i \in DOMAIN taken : taken'[i] = taken[i]
  BY <1>1, <1>2, ToSetAppended
<1>4. \A i \in DOMAIN taken : taken[i] \in 1 .. index /\ taken[i] < index
  <2>1. \A i \in DOMAIN taken : taken[i] \in 1 .. index /\ taken[i] # index
    BY DEF Followed, Handled
  <2> QED BY <1>2, <2>1
<1>5. \A i \in DOMAIN taken : Identity(data.events[taken[i]]) # Identity(data.events[index])
  BY DEF Repeated, Event, ToSet
<1>6. DOMAIN taken = 1 .. Len(taken) /\ Len(taken) \in Nat
  BY <1>2
<1>7. Read' /\ Progress' /\ Clocked'
  <2>1. Read' /\ Clocked'
    BY <1>1 DEF Followed, Read, Clocked
  <2>2. Progress'
    BY <1>1 DEF Followed, Progress
  <2> QED BY <2>1, <2>2
<1>8. Handled'
  <2>1. \A i \in DOMAIN taken' : taken'[i] \in 1 .. index
    BY <1>2, <1>3, <1>4
  <2>2. ASSUME NEW i \in DOMAIN taken', NEW j \in DOMAIN taken', i < j
        PROVE  taken'[i] < taken'[j]
    <3>1. i \in DOMAIN taken
      BY <1>3, <1>6, <2>2
    <3>2. CASE j \in DOMAIN taken
      BY <1>3, <2>2, <3>1, <3>2 DEF Followed, Handled
    <3>3. CASE j \notin DOMAIN taken
      BY <1>3, <1>4, <3>1, <3>3
    <3> QED BY <3>2, <3>3
  <2>3. ASSUME NEW i \in DOMAIN taken', NEW j \in DOMAIN taken',
               Identity(data.events[taken'[i]]) = Identity(data.events[taken'[j]])
        PROVE  i = j
    <3>1. CASE i \in DOMAIN taken /\ j \in DOMAIN taken
      BY <1>3, <2>3, <3>1 DEF Followed, Handled
    <3>2. CASE ~(i \in DOMAIN taken /\ j \in DOMAIN taken)
      BY <1>3, <1>5, <2>3, <3>2
    <3> QED BY <3>1, <3>2
  <2>4. ASSUME NEW n \in 1 .. index
        PROVE  \E i \in DOMAIN taken' :
                  Identity(data.events[taken'[i]]) = Identity(data.events[n])
    <3>1. CASE n = index
      BY <1>3, <3>1
    <3>2. CASE n # index
      <4>1. PICK i \in DOMAIN taken : Identity(data.events[taken[i]]) = Identity(data.events[n])
        BY <1>1, <3>2 DEF Followed, Handled
      <4> QED BY <1>3, <4>1
    <3> QED BY <3>1, <3>2
  <2> QED BY <1>1, <1>3, <2>1, <2>2, <2>3, <2>4 DEF Handled
<1>9. \A s : \A n \in 1 .. index : n # index => LastTradeOf(s, n)' = LastTradeOf(s, n)
  <2> TAKE s
  <2> TAKE n \in 1 .. index
  <2> SUFFICES ASSUME n # index PROVE LastTradeOf(s, n)' = LastTradeOf(s, n)
    OBVIOUS
  <2>1. n < index /\ n \in Int /\ index \in Int
    BY <1>2
  <2>2. LastTradeOf(s, n)' = LastOf(ToSet(taken) \cup {index}, data.events, s, n)
    BY <1>1, <1>3 DEF LastTradeOf
  <2>3. LastOf(ToSet(taken) \cup {index}, data.events, s, n)
          = LastOf(ToSet(taken), data.events, s, n)
    BY <2>1, LastOfStays
  <2> QED BY <2>2, <2>3 DEF LastTradeOf
<1>10. ASSUME NEW s, data.events[index].kind # "trade" \/ data.events[index].symbol # s
       PROVE  LastOf(ToSet(taken'), data.events, s, index) = LastTradeOf(s, index)
  BY <1>2, <1>3, <1>10, LastOfStays DEF LastTradeOf
<1> QED BY <1>3, <1>7, <1>8, <1>9, <1>10

(* So entries and positions that are left alone stay founded on it.        *)
LEMMA DoneKeepsEntries ==
    ASSUME Followed, waiting, ~Repeated, Done, UNCHANGED phase
    PROVE  /\ \A s \in Symbols : order[s] # None =>
                 /\ order[s] = <<order[s][1], order[s][2]>>
                 /\ order[s][2] \in 1 .. index /\ order[s][2] < index
                 /\ order[s][1] = LastOf(ToSet(taken'), data.events, s, order[s][2])
           /\ UNCHANGED held => Caused'
<1>1. /\ UNCHANGED <<data, index>> /\ index \in Nat
      /\ \A s : \A n \in 1 .. index :
            n # index => LastOf(ToSet(taken'), data.events, s, n) = LastTradeOf(s, n)
  BY DoneIs, FollowedFacts DEF Done, LastTradeOf
<1>2. ASSUME NEW s \in Symbols, order[s] # None
      PROVE  /\ order[s] = <<order[s][1], order[s][2]>>
             /\ order[s][2] \in 1 .. index /\ order[s][2] < index
             /\ order[s][1] = LastOf(ToSet(taken'), data.events, s, order[s][2])
  <2>1. /\ order[s] = <<order[s][1], order[s][2]>>
        /\ order[s][2] \in 1 .. index /\ order[s][2] # index
        /\ order[s][1] = LastTradeOf(s, order[s][2])
    BY <1>2 DEF Followed, Ordered
  <2> QED BY <1>1, <2>1
<1>3. ASSUME UNCHANGED held
      PROVE  Caused'
  <2>1. ASSUME NEW s \in Symbols, held[s] # None
        PROVE  /\ held[s][2] \in 1 .. index /\ held[s][3] \in 1 .. index /\ held[s][2] < held[s][3]
               /\ held[s][1] = LastOf(ToSet(taken'), data.events, s, held[s][2])
               /\ data.events[held[s][3]].symbol = s /\ data.events[held[s][3]].kind = "trade"
               /\ data.events[held[s][3]].price <= held[s][1]
    <3>1. /\ held[s][2] \in 1 .. index /\ held[s][3] \in 1 .. index /\ held[s][2] < held[s][3]
          /\ held[s][1] = LastTradeOf(s, held[s][2])
          /\ data.events[held[s][3]].symbol = s /\ data.events[held[s][3]].kind = "trade"
          /\ data.events[held[s][3]].price <= held[s][1]
      BY <2>1 DEF Followed, Caused
    <3>2. held[s][2] # index
      BY <1>1, <3>1
    <3> QED BY <1>1, <3>1, <3>2
  <2>2. held = [s \in Symbols |-> held[s]]
    BY DEF Followed, Caused
  <2> QED BY <1>1, <1>3, <2>1, <2>2 DEF Caused, LastTradeOf
<1> QED BY <1>2, <1>3

LEMMA DropRepeatedKeeps ==
    ASSUME Followed, DropRepeated
    PROVE  Followed'
<1>1. /\ waiting /\ Repeated /\ waiting' = FALSE
      /\ UNCHANGED <<phase, data, clock, index, taken, prices, view, order, held>>
  BY DEF DropRepeated
<1>2. Read' /\ Clocked' /\ Informed' /\ Progress'
  <2>1. Read' /\ Clocked' /\ Informed'
    BY <1>1 DEF Followed, Read, Clocked, Informed, Shown
  <2>2. Progress'
    BY <1>1 DEF Followed, Progress
  <2> QED BY <2>1, <2>2
<1>3. Handled'
  <2>1. PICK i \in DOMAIN taken : Identity(data.events[taken[i]]) = Identity(data.events[index])
    BY <1>1 DEF Repeated, Event, ToSet
  <2>2. \A n \in 1 .. index : \E j \in DOMAIN taken :
           Identity(data.events[taken[j]]) = Identity(data.events[n])
    <3> TAKE n \in 1 .. index
    <3>1. CASE n = index
      BY <2>1, <3>1
    <3>2. CASE n # index
      <4>1. phase # "failed"
        BY <1>1 DEF Followed, Progress
      <4> QED BY <3>2, <4>1 DEF Followed, Handled
    <3> QED BY <3>1, <3>2
  <2> QED BY <1>1, <2>2 DEF Followed, Handled
<1>4. Priced' /\ Ordered' /\ Caused'
  <2>1. Priced'
    BY <1>1 DEF Followed, Priced, LastTradeOf
  <2>2. Ordered'
    BY <1>1 DEF Followed, Ordered, LastTradeOf
  <2>3. Caused'
    BY <1>1 DEF Followed, Caused, LastTradeOf
  <2> QED BY <2>1, <2>2, <2>3
<1> QED BY <1>2, <1>3, <1>4 DEF Followed

(* An event that is shown to nobody.                                       *)
LEMMA QuietKeeps ==
    ASSUME Followed, HandleUpdate \/ CycleFails
    PROVE  Followed'
<1>1. /\ waiting /\ ~Repeated /\ Done /\ data.events[index].kind # "trade"
      /\ UNCHANGED <<phase, prices, view, order, held>>
      /\ UNCHANGED <<data, clock, index>>
  BY DEF HandleUpdate, CycleFails, Handles, Event, Done
<1>2. Read' /\ Progress' /\ Clocked' /\ Handled' /\ Caused'
  BY <1>1, DoneIs, DoneKeepsEntries
<1>3. Informed'
  BY <1>1, InformedStays
<1>4. Priced'
  <2>1. \A s : LastOf(ToSet(taken'), data.events, s, index) = LastTradeOf(s, index)
    BY <1>1, DoneIs
  <2> QED BY <1>1, <2>1 DEF Followed, Priced, LastTradeOf
<1>5. Ordered'
  <2>1. \A s \in Symbols : order[s] # None =>
           /\ order[s] = <<order[s][1], order[s][2]>>
           /\ order[s][2] \in 1 .. index
           /\ order[s][1] = LastOf(ToSet(taken'), data.events, s, order[s][2])
    BY <1>1, DoneKeepsEntries
  <2>2. order = [s \in Symbols |-> order[s]] /\ waiting' = FALSE
    BY <1>1 DEF Followed, Ordered, Done
  <2> QED BY <1>1, <2>1, <2>2 DEF Ordered, LastTradeOf
<1> QED BY <1>2, <1>3, <1>4, <1>5 DEF Followed

LEMMA AppendedPair ==
    ASSUME NEW a, NEW b, NEW c
    PROVE  Append(<<a, b>>, c) = <<a, b, c>>
<1> DEFINE X == {a, b, c}
           s == <<a, b>>
           t == <<a, b, c>>
<1>1. s \in Seq(X) /\ Len(s) = 2 /\ s[1] = a /\ s[2] = b /\ c \in X
  OBVIOUS
<1>2. t \in Seq(X) /\ Len(t) = 3 /\ t[1] = a /\ t[2] = b /\ t[3] = c
  OBVIOUS
<1> HIDE DEF X, s, t
<1>3. /\ Append(s, c) \in Seq(X) /\ Len(Append(s, c)) = 3 /\ Append(s, c)[1] = a
      /\ Append(s, c)[2] = b /\ Append(s, c)[3] = c
  <2>1. /\ Append(s, c) \in Seq(X) /\ Len(Append(s, c)) = Len(s) + 1
        /\ \A i \in 1 .. Len(s) : Append(s, c)[i] = s[i]
        /\ Append(s, c)[Len(s) + 1] = c
    <3>1. s \in Seq(X) /\ c \in X
      BY <1>1
    <3> QED BY ONLY <3>1, AppendProperties
  <2>2. 1 \in 1 .. Len(s) /\ 2 \in 1 .. Len(s) /\ Len(s) + 1 = 3
    BY <1>1
  <2> QED BY <1>1, <2>1, <2>2
<1>4. \A i \in 1 .. 3 : Append(s, c)[i] = t[i]
  <2>1. \A i \in 1 .. 3 : i = 1 \/ i = 2 \/ i = 3
    OBVIOUS
  <2> QED BY <1>2, <1>3, <2>1
<1>5. Append(s, c) = t
  BY <1>2, <1>3, <1>4, SeqEqual
<1> QED BY <1>5 DEF s, t

LEMMA HandleTradeKeeps ==
    ASSUME Followed, HandleTrade
    PROVE  Followed'
<1> DEFINE e == data.events[index]
<1>1. /\ waiting /\ ~Repeated /\ Done /\ e.kind = "trade"
      /\ prices' = [prices EXCEPT ![e.symbol] = e.price]
      /\ UNCHANGED <<phase, view, data, clock, index>> /\ waiting' = FALSE
  BY DEF HandleTrade, Handles, Event, Done, Quoted
<1>2. Read' /\ Progress' /\ Clocked' /\ Handled'
  BY <1>1, DoneIs
<1>3. Informed'
  BY <1>1, InformedStays
<1>4. /\ index \in Nat /\ index \in 1 .. index
      /\ e.symbol \in Symbols /\ e.price \in Nat
      /\ ToSet(taken) \subseteq Int /\ \A i \in ToSet(taken) : i <= index
  <2>1. index > 0
    BY <1>1 DEF Followed, Progress
  <2> QED BY <1>1, <2>1, FollowedFacts
<1>5. Priced'
  <2>1. ASSUME NEW s \in Symbols
        PROVE  prices'[s] = LastOf(ToSet(taken'), data.events, s, index)
    <3>1. prices = [x \in Symbols |-> prices[x]] /\ prices[s] = LastTradeOf(s, index)
      BY <1>1 DEF Followed, Priced, Progress
    <3>2. CASE s = e.symbol
      <4>1. LastOf(ToSet(taken) \cup {index}, data.events, s, index) = e.price
        BY <1>1, <1>4, <3>2, LastOfTrade
      <4>2. ToSet(taken') = ToSet(taken) \cup {index}
        BY <1>1, DoneIs
      <4>3. prices'[s] = e.price
        BY <1>1, <3>1, <3>2
      <4> QED BY <4>1, <4>2, <4>3
    <3>3. CASE s # e.symbol
      <4>1. LastOf(ToSet(taken'), data.events, s, index) = LastTradeOf(s, index)
        BY <1>1, <3>3, DoneIs
      <4>2. prices'[s] = prices[s]
        BY <1>1, <3>1, <3>3
      <4> QED BY <3>1, <4>1, <4>2
    <3> QED BY <3>2, <3>3
  <2>2. prices' = [s \in Symbols |-> prices'[s]]
    BY <1>1 DEF Followed, Priced
  <2> QED BY <1>1, <2>1, <2>2 DEF Priced, LastTradeOf
<1>6. /\ \A s \in Symbols : order[s] # None =>
            /\ order[s] = <<order[s][1], order[s][2]>>
            /\ order[s][2] \in 1 .. index /\ order[s][2] < index
            /\ order[s][1] = LastOf(ToSet(taken'), data.events, s, order[s][2])
      /\ UNCHANGED held => Caused'
  BY <1>1, DoneKeepsEntries
<1>7. order = [s \in Symbols |-> order[s]]
  BY DEF Followed, Ordered
<1>8. Ordered'
  <2>1. order' = order \/ order' = [order EXCEPT ![e.symbol] = None]
    BY DEF HandleTrade, Event
  <2>2. order' = [s \in Symbols |-> order'[s]]
    BY <1>7, <2>1
  <2>3. \A s \in Symbols : order'[s] = order[s] \/ order'[s] = None
    BY <1>7, <2>1
  <2>4. ASSUME NEW s \in Symbols, order'[s] # None
        PROVE  /\ order'[s] = <<order'[s][1], order'[s][2]>>
               /\ order'[s][2] \in 1 .. index
               /\ order'[s][1] = LastOf(ToSet(taken'), data.events, s, order'[s][2])
    <3>1. order'[s] = order[s] /\ order[s] # None
      BY <2>3, <2>4
    <3> QED BY <1>6, <3>1
  <2> QED BY <1>1, <2>2, <2>4 DEF Ordered, LastTradeOf
<1>9. Caused'
  <2>1. CASE UNCHANGED held
    BY <1>6, <2>1
  <2>2. CASE held' # held
    <3>1. /\ order[e.symbol] # None /\ e.price <= order[e.symbol][1]
          /\ held' = [held EXCEPT ![e.symbol] = Append(order[e.symbol], index)]
      BY <2>2 DEF HandleTrade, Event
    <3> DEFINE o == order[e.symbol]
    <3>2. /\ o = <<o[1], o[2]>> /\ o[2] \in 1 .. index /\ o[2] < index
          /\ o[1] = LastOf(ToSet(taken'), data.events, e.symbol, o[2])
      BY <1>4, <1>6, <3>1
    <3>3. Append(o, index) = <<o[1], o[2], index>>
      <4>1. Append(<<o[1], o[2]>>, index) = <<o[1], o[2], index>>
        BY AppendedPair
      <4> HIDE DEF o
      <4> QED BY <3>2, <4>1, Zenon
    <3>4. ASSUME NEW s \in Symbols, held'[s] # None
          PROVE  /\ held'[s][2] \in 1 .. index /\ held'[s][3] \in 1 .. index
                 /\ held'[s][2] < held'[s][3]
                 /\ held'[s][1] = LastOf(ToSet(taken'), data.events, s, held'[s][2])
                 /\ data.events[held'[s][3]].symbol = s /\ data.events[held'[s][3]].kind = "trade"
                 /\ data.events[held'[s][3]].price <= held'[s][1]
      <4>0. held = [x \in Symbols |-> held[x]]
        BY DEF Followed, Caused
      <4>1. CASE s = e.symbol
        <5>1. held'[s] = <<o[1], o[2], index>>
          BY <3>1, <3>3, <4>0, <4>1
        <5>2. held'[s][1] = o[1] /\ held'[s][2] = o[2] /\ held'[s][3] = index
          BY <5>1
        <5> QED BY <1>1, <1>4, <3>1, <3>2, <4>1, <5>2
      <4>2. CASE s # e.symbol
        <5>1. held'[s] = held[s]
          BY <3>1, <4>0, <4>2
        <5>2. /\ held[s][2] \in 1 .. index /\ held[s][3] \in 1 .. index /\ held[s][2] < held[s][3]
              /\ held[s][1] = LastTradeOf(s, held[s][2])
              /\ data.events[held[s][3]].symbol = s /\ data.events[held[s][3]].kind = "trade"
              /\ data.events[held[s][3]].price <= held[s][1]
          BY <3>4, <5>1 DEF Followed, Caused
        <5>3. held[s][1] = LastOf(ToSet(taken'), data.events, s, held[s][2])
          <6>1. held[s][2] # index
            BY <1>4, <5>2
          <6>2. LastTradeOf(s, held[s][2]) = LastOf(ToSet(taken'), data.events, s, held[s][2])
            <7>1. \A n \in 1 .. index : n # index => LastTradeOf(s, n)' = LastTradeOf(s, n)
              BY <1>1, DoneIs
            <7>2. \A n \in 1 .. index : n # index =>
                     LastOf(ToSet(taken'), data.events, s, n) = LastTradeOf(s, n)
              BY <1>1, <7>1 DEF LastTradeOf
            <7> QED BY <5>2, <6>1, <7>2
          <6> QED BY <5>2, <6>2
        <5> QED BY <5>1, <5>2, <5>3
      <4> QED BY <4>1, <4>2
    <3>5. held' = [s \in Symbols |-> held'[s]]
      BY <3>1 DEF Followed, Caused
    <3> QED BY <1>1, <3>4, <3>5 DEF Caused, LastTradeOf
  <2> QED BY <2>1, <2>2
<1> QED BY <1>2, <1>3, <1>5, <1>8, <1>9 DEF Followed

LEMMA FillRefusedKeeps ==
    ASSUME Followed, FillRefused
    PROVE  Followed'
<1> DEFINE e == data.events[index]
<1>1. /\ waiting /\ phase' = "failed" /\ waiting' = FALSE
      /\ prices' = [prices EXCEPT ![e.symbol] = e.price]
      /\ UNCHANGED <<data, clock, index, taken, view, order, held>>
      /\ phase # "refused"
  BY DEF FillRefused, Handles, Event, Quoted, Followed, Progress
<1>2. Read' /\ Clocked'
  BY <1>1 DEF Followed, Read, Clocked
<1>3. Progress'
  BY <1>1 DEF Followed, Progress
<1>4. Informed'
  BY <1>1, InformedStays
<1>5. Handled'
  BY <1>1 DEF Followed, Handled
<1>6. Priced'
  BY <1>1 DEF Followed, Priced
<1>7. Ordered'
  BY <1>1 DEF Followed, Ordered, LastTradeOf
<1>8. Caused'
  BY <1>1 DEF Followed, Caused, LastTradeOf
<1> QED BY <1>2, <1>3, <1>4, <1>5, <1>6, <1>7, <1>8 DEF Followed

LEMMA HandleCloseKeeps ==
    ASSUME Followed, HandleClose
    PROVE  Followed'
<1>1. /\ waiting /\ ~Repeated /\ Done /\ data.events[index].kind # "trade"
      /\ view' = Answer /\ waiting' = FALSE /\ phase = "running"
      /\ UNCHANGED <<phase, prices, held, data, clock, index>>
  BY DEF HandleClose, Handles, Event, Done, Followed, Progress
<1>2. Read' /\ Progress' /\ Clocked' /\ Handled' /\ Caused'
  BY <1>1, DoneIs, DoneKeepsEntries
<1>3. Informed'
  <2>1. Shown /\ clock \in Nat
    BY <1>1 DEF Followed, Informed, Clocked
  <2>2. CASE view' = view
    BY <1>1, <2>1, <2>2 DEF Informed, Shown
  <2>3. CASE view' = Visible(data, clock)
    <3>1. view'.at = clock
      BY <2>3 DEF Visible
    <3>2. clock <= clock
      BY <2>1
    <3> QED BY <1>1, <2>1, <2>3, <3>1, <3>2 DEF Informed, Shown
  <2> QED BY <1>1, <2>2, <2>3 DEF Answer
<1>4. \A s \in Symbols : prices[s] = LastOf(ToSet(taken'), data.events, s, index)
  <2>1. \A s : LastOf(ToSet(taken'), data.events, s, index) = LastTradeOf(s, index)
    BY <1>1, DoneIs
  <2>2. \A s \in Symbols : prices[s] = LastTradeOf(s, index)
    BY <1>1 DEF Followed, Priced
  <2> QED BY <2>1, <2>2
<1>5. Priced'
  <2>1. prices = [s \in Symbols |-> prices[s]]
    BY DEF Followed, Priced
  <2> QED BY <1>1, <1>4, <2>1 DEF Priced, LastTradeOf
<1>6. Ordered'
  <2>1. PICK chosen, price :
           /\ \A s \in chosen : price[s] \in EntryPrices(s)
           /\ order' = [s \in Symbols |-> IF s \in chosen THEN <<price[s], index>> ELSE order[s]]
    BY DEF HandleClose
  <2>2. ASSUME NEW s \in Symbols, order'[s] # None
        PROVE  /\ order'[s] = <<order'[s][1], order'[s][2]>>
               /\ order'[s][2] \in 1 .. index
               /\ order'[s][1] = LastOf(ToSet(taken'), data.events, s, order'[s][2])
    <3>1. CASE s \in chosen
      <4>1. order'[s] = <<prices[s], index>>
        BY <2>1, <3>1 DEF EntryPrices
      <4>2. order'[s][1] = prices[s] /\ order'[s][2] = index
        BY <4>1
      <4>3. index \in 1 .. index
        BY <1>1, FollowedFacts DEF Followed, Progress
      <4> QED BY <1>4, <4>1, <4>2, <4>3
    <3>2. CASE s \notin chosen
      <4>1. order'[s] = order[s]
        BY <2>1, <3>2
      <4> QED BY <1>1, <2>2, <4>1, DoneKeepsEntries
    <3> QED BY <3>1, <3>2
  <2>3. order' = [s \in Symbols |-> order'[s]]
    BY <2>1
  <2> QED BY <1>1, <2>2, <2>3 DEF Ordered, LastTradeOf
<1> QED BY <1>2, <1>3, <1>5, <1>6 DEF Followed

LEMMA ClosePositionKeeps ==
    ASSUME Followed, NEW s \in Symbols, ClosePosition(s)
    PROVE  Followed'
<1>1. /\ held' = [held EXCEPT ![s] = None] /\ phase # "refused"
      /\ UNCHANGED <<phase, data, clock, index, waiting, taken, prices, view, order>>
  BY DEF ClosePosition
<1>2. Read' /\ Clocked' /\ Handled' /\ Informed'
  BY <1>1, StreamStays, InformedStays
<1>3. Progress'
  BY <1>1 DEF Followed, Progress
<1>4. Priced' /\ Ordered'
  <2>1. Priced'
    BY <1>1 DEF Followed, Priced, LastTradeOf
  <2>2. Ordered'
    BY <1>1 DEF Followed, Ordered, LastTradeOf
  <2> QED BY <2>1, <2>2
<1>5. Caused'
  <2>1. \A x \in Symbols : held'[x] # None => held'[x] = held[x]
    BY <1>1 DEF Followed, Caused
  <2>2. held' = [x \in Symbols |-> held'[x]]
    BY <1>1 DEF Followed, Caused
  <2> QED BY <1>1, <2>1, <2>2 DEF Followed, Caused, LastTradeOf
<1> QED BY <1>2, <1>3, <1>4, <1>5 DEF Followed

LEMMA FollowedNext ==
    ASSUME Followed, [ReplayNext]_replayVars
    PROVE  Followed'
<1>1. CASE Startup
  BY <1>1, StartupKeeps
<1>2. CASE StartupFails \/ StreamEnded \/ Report
  BY <1>2, PhaseKeeps
<1>3. CASE Release
  BY <1>3, ReleaseKeeps
<1>4. CASE DropRepeated
  BY <1>4, DropRepeatedKeeps
<1>5. CASE HandleUpdate \/ CycleFails
  BY <1>5, QuietKeeps
<1>6. CASE HandleTrade
  BY <1>6, HandleTradeKeeps
<1>7. CASE FillRefused
  BY <1>7, FillRefusedKeeps
<1>8. CASE HandleClose
  BY <1>8, HandleCloseKeeps
<1>9. ASSUME NEW s \in Symbols, ClosePosition(s)
      PROVE  Followed'
  BY <1>9, ClosePositionKeeps
<1>10. CASE UNCHANGED replayVars
  <2>1. UNCHANGED <<phase, data, clock, index, waiting, taken, prices, view, order, held>>
    BY <1>10 DEF replayVars
  <2>2. Read' /\ Progress' /\ Clocked' /\ Informed' /\ Handled'
    BY <2>1 DEF Followed, Read, Progress, Clocked, Informed, Shown, Handled
  <2>3. Priced' /\ Ordered' /\ Caused'
    BY <2>1, TradingStays
  <2> QED BY <2>2, <2>3 DEF Followed
<1> QED BY <1>1, <1>2, <1>3, <1>4, <1>5, <1>6, <1>7, <1>8, <1>9, <1>10 DEF ReplayNext
-----------------------------------------------------------------------------
(* HistoricalOpportunitySource: what discovery was shown last is of a time *)
(* the clock has reached, and is what a dataset would show that ends       *)
(* there.                                                                  *)
THEOREM NoLookAheadHolds ==
    ASSUME ReplayAssumption
    PROVE  ReplaySpec => []NoLookAhead
<1>1. Followed => NoLookAhead
  <2> SUFFICES ASSUME Followed, view # None
               PROVE  view.at <= clock /\ view = Visible(Past(data, view.at), view.at)
    BY DEF NoLookAhead
  <2>1. Shown /\ data \in Dataset
    BY DEF Followed, Informed, Read
  <2> QED BY <2>1, PastShowsTheSame DEF Shown
<1> QED BY <1>1, FollowedInit, FollowedNext, PTL DEF ReplaySpec

(* PaperRealtimeRunner on a replay: a position was entered with the last   *)
(* trade before the decision, and filled by a later trade at that price or *)
(* a better one.                                                           *)
THEOREM FillsAreCausalHolds ==
    ASSUME ReplayAssumption
    PROVE  ReplaySpec => []FillsAreCausal
<1>1. Followed => FillsAreCausal
  BY LastTradeIs DEF Followed, Caused, FillsAreCausal
<1> QED BY <1>1, FollowedInit, FollowedNext, PTL DEF ReplaySpec

(* events() and is_duplicate: at the end of the stream every event of the  *)
(* dataset was handled, a repeated one once, in the order of time.         *)
THEOREM HandledOnceHolds ==
    ASSUME ReplayAssumption
    PROVE  ReplaySpec => []HandledOnce
<1>1. Followed => HandledOnce
  <2> SUFFICES ASSUME Followed, phase \in {"closing", "done"}
               PROVE  EachOnce
    BY DEF HandledOnce
  <2> DEFINE ids == [i \in DOMAIN taken |-> Identity(data.events[taken[i]])]
  <2>1. /\ ~waiting /\ index = Len(data.events) /\ phase # "failed"
        /\ DOMAIN data.events = 1 .. index
    BY FollowedFacts DEF Followed, Progress
  <2>2. /\ \A i \in DOMAIN taken : taken[i] \in DOMAIN data.events
        /\ \A n \in DOMAIN data.events : \E i \in DOMAIN taken :
              Identity(data.events[taken[i]]) = Identity(data.events[n])
    BY <2>1 DEF Followed, Handled
  <2>3. ToSet(ids) = {Identity(data.events[i]) : i \in DOMAIN data.events}
    BY <2>2 DEF ToSet
  <2>4. IsInjective(ids)
    BY DEF Followed, Handled, IsInjective
  <2>5. ASSUME NEW i \in DOMAIN taken, i > 1
        PROVE  /\ taken[i - 1] < taken[i]
               /\ data.events[taken[i - 1]].at <= data.events[taken[i]].at
    <3>1. i - 1 \in DOMAIN taken /\ i - 1 < i
      BY <2>5 DEF Followed, Handled
    <3>2. taken[i - 1] < taken[i]
      BY <3>1 DEF Followed, Handled
    <3> QED BY <2>2, <3>1, <3>2 DEF Followed, Read, InOrderOfTime
  <2> QED BY <2>3, <2>4, <2>5 DEF EachOnce
<1> QED BY <1>1, FollowedInit, FollowedNext, PTL DEF ReplaySpec
=============================================================================
