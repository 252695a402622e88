\* Is the gap closed after months_to_target months?
SPECIFICATION Spec
CONSTANTS
  FirstRecord <- Nothing
  Figures <- SomeFigures
  Prices <- SomePrices
  PaymentRate = 7
INVARIANT SavedUpByThen
