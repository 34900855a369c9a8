SPECIFICATION Spec
CONSTANTS
  btc = btc
  eth = eth
  sol = sol
  Symbols <- MCSymbols
  StartingCapital = 60
  Compounding = FALSE
  FixedAllocation = 20
  AllocationRate = 30
  MaxPositions = 0
  Minimums <- MCMinimums
  Results <- MCResults
  MaxJournal = 8
  NoSymbol = NoSymbol
  Raised = Raised
SYMMETRY Symmetry
INVARIANT RecoveryVerified
CHECK_DEADLOCK FALSE
