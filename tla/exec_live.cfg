CONSTANTS
  Executions = {e1, e2}
  Stops = {e1}
  MaxRuns <- Two
  Limit = 1
  MaxRestarts = 0
  NoRun = NoRun
SPECIFICATION FairSpec
INVARIANTS TypeOK CapacityAccounts WorkConserving RunningIsCarriedOut
PROPERTIES ThrottledProceeds
CHECK_DEADLOCK FALSE
