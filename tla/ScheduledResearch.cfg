SPECIFICATION FairSpec
CONSTANTS
  s1 = s1
  s2 = s2
  Scanner <- Scanners
  Api = api
  Requester <- Requesters
  NoRequester = NoRequester
  Request <- Requests
  Deployment <- Pairs
  MaxActiveRunsPerUser = 1
  Horizon = 1
  MaxVersion = 2
  RunEnds = {"COMPLETED"}
  FaultBudget = 1
INVARIANTS
  QuotaHolds
PROPERTIES
  DecisionIsFinal
  OnlyDueTimesMove
  DueTimePasses
  LinkedExecutionSettles
CHECK_DEADLOCK FALSE
