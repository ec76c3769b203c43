CONSTANTS
  Executions = {e1}
  MaxJobs = 1
  Mains = {m1}
  NoMain = NoMain
  NoJob = NoJob
  Timeout = FALSE
  MaxUpsets = 0
SPECIFICATION FairSpec
PROPERTIES RecoveryMarksInProgress
CHECK_DEADLOCK FALSE
