SPECIFICATION FairSpec
CONSTANTS
  Tab = {t1, t2}
  Session = {s1, s2}
  NoSession = NoSession
  MaxConnections = 1
  ReplayLimit = 1
  LogLimit = 3
  FaultBudget = 1
INVARIANTS
  WireContinues
  NoGapReported
  TerminalIsComplete
  ConnectionsBounded
PROPERTIES
  EveryTabSeesTheEnd
CHECK_DEADLOCK FALSE
