\* All clients, formats and prices of the small world, and every change of one of them.
SPECIFICATION Spec
CONSTANTS
  FirstRecord <- Nothing
  Figures <- SomeFigures
  Prices <- SomePrices
  PaymentRate = 7
INVARIANT MonthsOffByLessThanOne
PROPERTIES
  EasierNeverHurts
  MovingErrsToOneSide
