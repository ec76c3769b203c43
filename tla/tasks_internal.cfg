SPECIFICATION Spec
CONSTANTS
  r1 = r1
  r2 = r2
  q1 = q1
  q2 = q2
  NoRequest = NoRequest
  NoTask = NoTask
  Runners = {r1, r2}
  Launchers = {}
  Requests = {q1}
  TypeOf <- TwoTypes
  MaxConcurrency = 1
  MaxOffers = 1
  CallKinds = {"data", "rpc"}
  Mode = "internal"
CHECK_DEADLOCK FALSE
INVARIANTS ActiveTaskEnds NoLostCall
