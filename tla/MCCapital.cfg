SPECIFICATION Spec
CONSTANTS
  btc = btc
  eth = eth
  sol = sol
  Symbols <- MCSymbols
  StartingCapital = 60
  Compounding = TRUE
  FixedAllocation = 20
  AllocationRate = 30
  MaxPositions = 2
  Minimums <- MCMinimums
  Results <- MCResults
  MaxJournal = 8
  NoSymbol = NoSymbol
  Raised = Raised
SYMMETRY Symmetry
INVARIANT EveryOrderReserved
INVARIANT BooksAgree
INVARIANT CapitalCovered
INVARIANT ConcurrencyCapped
INVARIANT RecoveryExact
PROPERTY ReservationsSettle
CHECK_DEADLOCK FALSE
