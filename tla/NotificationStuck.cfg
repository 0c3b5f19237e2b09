SPECIFICATION FairSpec
CONSTANTS
  Slot = {s1}
  NoSlot = NoSlot
  Reconciler = {r1}
  Kinds = {"IN_APP"}
  MaxAttempts = 1
  MaxStalled = 1
  UserBudget = 1
  FaultBudget = 1
PROPERTY EveryDeliveryEnds
CHECK_DEADLOCK FALSE
