SPECIFICATION FairSpec
CONSTANTS
  r1 = r1
  r2 = r2
  q1 = q1
  q2 = q2
  NoRequest = NoRequest
  NoTask = NoTask
  Runners = {r1}
  Launchers = {}
  Requests = {q1, q2}
  TypeOf <- OneType
  MaxConcurrency = 1
  MaxOffers = 2
  CallKinds = {}
  Mode = "external"
CHECK_DEADLOCK FALSE
INVARIANTS CapacityRespected ServedOnce
PROPERTIES EveryRequestSettles EveryTaskEnds EverySlotIsFreed
