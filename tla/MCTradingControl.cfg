SPECIFICATION Spec
CONSTANTS
  cli = cli
  gui = gui
  Operators <- MCOperators
  Runtime = Runtime
  MaxEntries = 2
SYMMETRY Symmetry
INVARIANT AtMostOneLateEntry
INVARIANT PauseIsRead
PROPERTY RunsOnlyOnRequest
