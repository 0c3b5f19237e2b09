SPECIFICATION FairSpec
CONSTANTS
  MaxAttempts = 2
  Reconciler = {r1}
  Api = api
  Slot = {s1, s2}
  NoSlot = NoSlot
  JobAttempts = 2
  MaxStalled = 1
  FaultBudget = 1
PROPERTIES
  AbandonedRunIsTakenOver
  EndedRunLeavesQueue
  OverdueRunEnds
