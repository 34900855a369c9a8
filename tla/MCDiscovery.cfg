SPECIFICATION Spec
CONSTANTS
    ActiveDelta = 100
    ActiveTop = 2
    BroadTop = 4
    CompositeTop = 3
    LaneTop = 1
    Names <- MCNames
    Universes <- MCUniverses
    Rows <- MCRows
    Charts <- MCCharts
INVARIANTS
    DailyCandlesAreFresh
    BestScoresAreActive
    EntriesAreBacked
CHECK_DEADLOCK FALSE
