CONSTANTS
  Nodes <- FiveNodes
  Start = 1
  Outputs <- TwoOutputs
  Workflows <- AllWorkflows
  Positions <- TopDown
  Required <- OneInput
  Nothing = Nothing
  Trigger = Trigger
  MaxRuns = 4
  MaxWaits = 1
SPECIFICATION Spec
INVARIANTS EverythingArrives
CHECK_DEADLOCK FALSE
