SPECIFICATION Spec
CONSTANTS
  a = a
  b = b
  Stock = {a, b}
  Config <- Configs
  Market <- Days
  Target <- Signalled
  Factor = {1, 2}
  Universe <- Members
  Horizon = 4
  Capital = 40
  LotSize = 2
  Whole = 2
  Part = 4
  NoBar = NoBar
  NoSignal = NoSignal
INVARIANTS
  DebtIsFromSales
  SignalIsOlder
  RebalanceIsComplete
  BoughtWithinTarget
  NothingGained
CHECK_DEADLOCK FALSE
