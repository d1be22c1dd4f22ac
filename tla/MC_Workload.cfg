SPECIFICATION FairSpec
CONSTANTS
  FeeRate = 500
  FeeMinimum = 0
  RushRate <- RushRates
  Calls = {c1, c2}
  Keys = {k1}
  Details = {d1, d2}
  ProviderOf <- TwoProviders
  OptionOf <- OneRush
  SpeedOf <- Speeds
  Prices = {155}
  Limits = {1, 2}
  MaxOrders = 2
  MaxChanges = 1
  BatchSize = 2
  MaxStuck = 1
INVARIANTS RepeatsAgree
PROPERTIES WithinLimits ReviewsConclude
CHECK_DEADLOCK FALSE
