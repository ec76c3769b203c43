CONSTANTS
  Executions = {e1}
  MaxJobs = 2
  Mains = {m1}
  NoMain = NoMain
  NoJob = NoJob
  Timeout = TRUE
  MaxUpsets = 1
SPECIFICATION FairSpec
INVARIANTS TypeOK OneWorkerPerExecution
PROPERTIES EveryJobSettles EveryExecutionEnds
CHECK_DEADLOCK FALSE
