-------------------------------- MODULE MCFeed --------------------------------
(* Two symbols; trades that are told twice and in any order, a candle that  *)
(* is open and one that closes, a message that is not supported and text    *)
(* that is not JSON.                                                        *)
EXTENDS MarketFeed

Raw(e, s, at, id, x) == [e |-> e, s |-> s, E |-> at, id |-> id, x |-> x]

MCMessages == {Raw("trade", "A", 1, 1, FALSE), Raw("trade", "A", 2, 2, FALSE),
               Raw("trade", "B", 1, 1, FALSE), Raw("kline", "A", 1, 1, FALSE),
               Raw("kline", "A", 2, 1, TRUE), Raw("unknown", "A", 1, 1, FALSE),
               Raw("garbled", "A", 1, 1, FALSE)}

MCSelections == {{"A"}, {"A", "B"}}
MCFirst == {"A"}
=============================================================================
