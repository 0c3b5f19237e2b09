SPECIFICATION FairSpec
CONSTANTS
  Slot = {s1, s2}
  NoSlot = NoSlot
  Reconciler = {r1}
  Kinds = {"IN_APP", "WEBHOOK"}
  MaxAttempts = 2
  MaxStalled = 1
  UserBudget = 1
  FaultBudget = 2
INVARIANTS
  SendsAreCounted
  NotifiedOnce
  OutcomeIsAudited
PROPERTIES
  AttemptIsRecordedOnce
  ClaimableIsClaimed
CHECK_DEADLOCK FALSE
