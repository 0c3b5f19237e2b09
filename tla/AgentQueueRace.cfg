SPECIFICATION FairSpec
CONSTANTS
  MaxAttempts = 1
  Reconciler = {r1, r2}
  Api = api
  Slot = {s1}
  NoSlot = NoSlot
  JobAttempts = 1
  MaxStalled = 0
  FaultBudget = 1
INVARIANTS
  DeadIsFinal
  PublishedIsQueued
PROPERTIES
  QueuedRunIsServed
