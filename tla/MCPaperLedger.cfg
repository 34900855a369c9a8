\* The account the runner can be given: fees that a sale always covers.
SPECIFICATION Spec
CONSTANTS
  btc = btc
  eth = eth
  Symbols <- MCSymbols
  StartingEquity = 60
  FeeRate = 10
  FeeMinimum = 2
  SlippageRate = 10
  Prices <- MCPrices
  Quantities <- MCQuantities
  Amounts <- MCAmounts
  MaxEvents = 15
SYMMETRY Symmetry
INVARIANT WalletReplayable
INVARIANT AccountingIdentity
INVARIANT CostsExplainCash
INVARIANT PositionsSound
CHECK_DEADLOCK FALSE
