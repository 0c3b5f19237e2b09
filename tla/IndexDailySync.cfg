SPECIFICATION FairSpec
CONSTANTS
  Round = {r1}
  Retrier = {t1}
  NoOwner = NoOwner
  Interval = 2
  MaxRetries = 1
  RowLimit = 1
  LastDate = 2
  FaultBudget = 1
INVARIANTS
  SucceededIsStored
  GapIsKnown
  CheckpointIsSolid
PROPERTIES
  RowSettles
