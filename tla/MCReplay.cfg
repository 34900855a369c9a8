SPECIFICATION ReplaySpec
CONSTANTS
    Names <- MCNames
    Datasets <- MCDatasets
    Day = 3
    Refresh = 2
INVARIANTS
    NoLookAhead
    FillsAreCausal
    HandledOnce
PROPERTY
    ReplayEnds
CHECK_DEADLOCK FALSE
