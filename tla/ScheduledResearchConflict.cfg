SPECIFICATION Spec
CONSTANTS
  s1 = s1
  s2 = s2
  Scanner <- Scanners
  Api = api
  Requester <- Requesters
  NoRequester = NoRequester
  Request <- Requests
  MaxActiveRunsPerUser = 1
  Deployment <- TwoScanners
  Horizon = 1
  MaxVersion = 1
  RunEnds = {"COMPLETED"}
  FaultBudget = 0
INVARIANTS
  RunOfExecutionIsKnown
CHECK_DEADLOCK FALSE
