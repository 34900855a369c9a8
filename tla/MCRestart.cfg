SPECIFICATION RestartSpec
CONSTANTS
  btc = btc
  Symbols <- MCSymbols
  StartingCapital = 60
  Compounding = FALSE
  FixedAllocation = 20
  AllocationRate = 40
  MaxPositions = 0
  Minimums <- MCMinimums
  Results <- MCResults
  MaxJournal = 8
  NoSymbol = NoSymbol
  Raised = Raised
  MaxRestarts = 1
INVARIANT RestartServes
CHECK_DEADLOCK FALSE
