CONSTANTS
    Messages <- MCMessages
    Selections <- MCSelections
    First <- MCFirst
    Capacity = 2
    Delays = 2
    MaxSent = 4
    MaxQueue = 2
    MaxStreams = 2
SPECIFICATION Spec
INVARIANTS
    AtMostOnce
    InOrder
    ReportIsFinal
PROPERTIES
    FeedReturns
    StopEnds
