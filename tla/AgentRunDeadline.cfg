SPECIFICATION Spec
CONSTANTS
  Worker = {w1, w2}
  NoWorker = NoWorker
  MaxAttempts = 2
  NodeCount = 2
  EventLimit = 0
  Faults = {}
PROPERTIES
  NoCompletionAfterDeadline
CHECK_DEADLOCK FALSE
