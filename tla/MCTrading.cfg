SPECIFICATION Spec
CONSTANTS
  btc = btc
  trend = trend
  scalp = scalp
  e1 = e1
  e2 = e2
  Symbols <- MCSymbols
  StartingEquity = 25
  FeeRate = 0
  FeeMinimum = 0
  SlippageRate = 0
  MaxReprices = 0
  MaxDrift = 25
  MinChange = 10
  MaxDistance = 30
  Window = 2
  SignalLife = 2
  NoContext = 0
  NoSignal = NoSignal
  Intents <- MCIntents
  SymbolOf <- MCSymbolOf
  Offers <- MCOffers
  Times <- MCTimes
  Markets <- MCMarkets
  EventIds <- MCEventIds
  MaxOrders = 4
SYMMETRY Symmetry
INVARIANT BookMatchesOrders
INVARIANT HoldingsAgree
PROPERTY DeskSpec
CHECK_DEADLOCK FALSE
