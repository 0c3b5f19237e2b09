SPECIFICATION Spec
CONSTANTS
  Worker = {w1, w2}
  NoWorker = NoWorker
  MaxAttempts = 2
  NodeCount = 2
  EventLimit = 6
  Faults <- AllFaults
SYMMETRY WorkerSymmetry
INVARIANTS
  RowSatisfiesChecks
  OutcomeAgrees
  CheckpointTrailsSteps
  CompletionIsTotal
PROPERTIES
  CancelWins
  FinishedStepsFrozen
CHECK_DEADLOCK FALSE
