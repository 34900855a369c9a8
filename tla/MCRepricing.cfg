SPECIFICATION Spec
CONSTANTS
  btc = btc
  entry = entry
  e1 = e1
  e2 = e2
  Symbols <- MCSymbols
  StartingEquity = 22
  FeeRate = 0
  FeeMinimum = 0
  SlippageRate = 0
  MaxReprices = 2
  MaxDrift = 25
  MinChange = 10
  MaxDistance = 30
  Window = 2
  SignalLife = 2
  NoContext = 0
  NoSignal = NoSignal
  Intents <- MCIntents
  SymbolOf <- MCSymbolOf
  Offers <- MCOffers
  Times <- MCTimes
  Markets <- MCMarkets
  EventIds <- MCEventIds
  MaxOrders = 3
SYMMETRY Symmetry
INVARIANT TypeOK
INVARIANT SingleIntent
INVARIANT BookFollowsSignal
PROPERTY EventsNeverReprice
PROPERTY OnlyLiveOrdersFill
CHECK_DEADLOCK FALSE
