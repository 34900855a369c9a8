------------------------------- MODULE MCScan -------------------------------
(* Two symbols in batches of up to two, in two timeframes, and what an      *)
(* exchange may tell of them: strong markets, a flat one, a young one, one  *)
(* that has run hot, and frames with a defect.                              *)
EXTENDS ScanPipeline, TLC

CONSTANTS A, B

MCSymbols == {A, B}
MCTimeframes == <<"4h", "1h">>
MCQuantities == {NaN, 0, 2}

Up == [close |-> 150, ema_9 |-> 140, ema_20 |-> 130, ema_50 |-> 128, ema_100 |-> 126,
       ema_200 |-> 100, slope |-> 3, rsi_14 |-> 75, adx_14 |-> 60, momentum |-> 200,
       macd |-> 1, mfi_14 |-> 60, atr |-> 100, swing_low |-> 110,
       dc_lower |-> 112, swing_high |-> 151, dc_upper |-> 151]

Down == [close |-> 100, ema_9 |-> 110, ema_20 |-> 120, ema_50 |-> 122, ema_100 |-> 130,
         ema_200 |-> 140, slope |-> -3, rsi_14 |-> 25, adx_14 |-> 30, momentum |-> -100,
         macd |-> -1, mfi_14 |-> 25, atr |-> 200, swing_low |-> 99,
         dc_lower |-> 99, swing_high |-> 128, dc_upper |-> 130]

Hot == [Up EXCEPT !.rsi_14 = 100, !.adx_14 = 100]

Flat == [Up EXCEPT !.close = 100, !.ema_9 = 100, !.ema_20 = 100, !.ema_50 = 100,
                   !.ema_100 = 100, !.slope = 0, !.rsi_14 = NaN, !.adx_14 = NaN,
                   !.momentum = 0, !.macd = 0, !.mfi_14 = NaN, !.atr = 0]

Told(rows, defect, row) == [rows |-> rows, defect |-> defect, row |-> row]

MCFrames == {Told(1000, "none", Up), Told(1000, "unsorted", Down), Told(1000, "none", Hot),
             Told(1000, "none", Flat), Told(150, "none", Up), Told(1000, "nan", Up), Told(1000, "negative_price", Up)}

Symmetry == Permutations(MCSymbols)
=============================================================================
