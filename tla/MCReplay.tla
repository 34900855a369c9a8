------------------------------- MODULE MCReplay -------------------------------
(***************************************************************************)
(* Replay of datasets of up to seven events on two symbols: the events are  *)
(* given out of order, a trade may be repeated, one may lack the id of its *)
(* source, and a symbol may be listed late, have a candle that closes after *)
(* the last event or rows that are out of order.                           *)
(***************************************************************************)
EXTENDS Replay

MCNames == <<"ADA", "BTC">>

Trade(at, symbol, id, price) ==
    [at |-> at, symbol |-> symbol, kind |-> "trade", id |-> id, open |-> 0, price |-> price]

Candle(at, symbol, kind, open) ==
    [at |-> at, symbol |-> symbol, kind |-> kind, id |-> 9, open |-> open, price |-> 0]

MCEvents ==
    {<<Candle(4, "ADA", "candle_close", 2), Trade(3, "ADA", 1, p), Trade(5, "ADA", i, q),
       Trade(4, "BTC", 1, 5), Candle(5, "BTC", "candle_close", 4), Trade(6, "BTC", 2, r)>> :
          p \in {5, 6}, q \in {5, 6, 7}, r \in {4, 5, 6}, i \in {NoId, 1, 2}}
    \cup {<<Trade(3, "BTC", 1, p), Trade(2, "ADA", 1, 6), Candle(3, "ADA", k, 2),
            Candle(4, "BTC", "candle_close", 3), Trade(4, "BTC", 2, 5), Trade(5, "ADA", 2, q),
            Trade(6, "BTC", i, 6)>> :
          p \in {5, 6}, q \in {5, 6, 7}, i \in {1, 3}, k \in {"candle_close", "candle_update"}}

Row(open, close, price) == [open |-> open, close |-> close, price |-> price]

MCCandles ==
    {[s \in {"ADA", "BTC"} |-> <<Row(0, 1, 5), Row(1, 2, 6), Row(2, 3, 5), Row(3, 7, 6)>>],
     [s \in {"ADA"} |-> <<Row(1, 2, 5), Row(0, 1, 6)>>],
     [s \in {"ADA", "BTC"} |-> IF s = "ADA" THEN <<Row(0, 1, 5)>> ELSE <<>>],
     [s \in {"BTC"} |-> <<Row(0, 1, 5), Row(1, 2, 6), Row(2, 4, 6)>>]}

MCSnapshots ==
    {<<[at |-> 4, listed |-> {"ADA", "BTC"}], [at |-> 2, listed |-> x]>> :
        x \in {{"ADA"}, {"ADA", "BTC"}}}

MCDatasets ==
    {[events |-> e, snapshots |-> m, candles |-> c, symbols |-> x] :
        e \in MCEvents, m \in MCSnapshots, c \in MCCandles,
        x \in {{"ADA"}, {"ADA", "BTC"}}}
=============================================================================
