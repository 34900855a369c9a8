CONSTANTS
    A = A
    B = B
    NaN = NaN
    Blank = Blank
    NoResult = NoResult
    Symbols <- MCSymbols
    Timeframes <- MCTimeframes
    Quantities <- MCQuantities
    Frames <- MCFrames
    MaxClock = 2
    MaxBatch = 2
    MaxRuns = 2
    Window = 1
SYMMETRY Symmetry
SPECIFICATION Spec
INVARIANTS
    ScanNeverTrades
    ResultsBelong
    IntelligenceFailsClosed
    StoreHoldsLatest
