SPECIFICATION FairSpec
CONSTANTS
  Worker = {w1, w2}
  NoWorker = NoWorker
  MaxAttempts = 2
  NodeCount = 1
  EventLimit = 6
  Faults <- CrashAndErrors
PROPERTIES
  EventuallyTerminal
  CancelHonoured
  RefinesLifecycle
  RefinesEventLog
CHECK_DEADLOCK FALSE
