----------------------------- MODULE MCDiscovery -----------------------------
(***************************************************************************)
(* Discovery over four symbols, of which two are active: what is known of  *)
(* a symbol is good with one of two scores a hysteresis apart, too thin,   *)
(* or without a book and then without history; a chart has a breakout, or  *)
(* a trend whose entry is not timed, or cannot be read.                    *)
(***************************************************************************)
EXTENDS Discovery

MCNames == <<"ADA", "BTC", "ETH", "XRP">>

MCUniverses == {Symbols}

Quality(volume, momentum) ==
    [volume |-> volume, spread |-> 10, volatility |-> 300, trend |-> 60, persistence |-> 70,
     momentum |-> momentum, structure |-> 50, change |-> -momentum]

Row(ticker, book, history, quality) ==
    [ticker |-> ticker, book |-> book, history |-> history, quality |-> quality]

MCRows ==
    {Row("good", "tight", "full", Quality(60, 80)), Row("good", "tight", "enough", Quality(65, 70)),
     Row("low", "tight", "raises", Quality(10, 0)), Row("good", "none", "timeout", Quality(60, 0))}

(* Trend and momentum are as strong as their directions.                   *)
Frame(strength, to) ==
    [regime |-> 50, trend |-> Max({to, -to}), trendTo |-> to, momentum |-> Max({to, -to}),
     momentumTo |-> to, acceleration |-> strength, volume |-> strength, range |-> strength,
     structure |-> strength]

Chart(h4, h1, m15) ==
    [d1 |-> Frame(60, 60), h4 |-> h4, h1 |-> h1, m15 |-> m15, exact |-> TRUE]

(* The last two go down by LongMin and by a little less.                   *)
MCCharts ==
    {Chart(Frame(80, 80), Frame(90, 90), Frame(m, m)) : m \in {45, 80}}
        \cup {Chart(Frame(60, to), Frame(90, 0), Frame(100, 0)) : to \in {-60, -59}}
=============================================================================
