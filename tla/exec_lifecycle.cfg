CONSTANTS
  Executions = {e1, e2}
  Stops = {}
  MaxRuns <- ThreeOfOne
  Limit = 1
  MaxRestarts = 1
  NoRun = NoRun
SPECIFICATION Spec
INVARIANTS LimitRespected OneRunAtATime
PROPERTIES ShutdownHoldsQueue
CHECK_DEADLOCK FALSE
