CONSTANTS
  Mains = {m1, m2}
  NoMain = NoMain
  TTL = 5
  Interval = 1
  Latency = 2
  CommandTimeout = 2
  Lateness = 0
  Slow = {m2}
  MaxFaults = 0
  MaxStops = 1
  MaxRestarts = 0
SPECIFICATION Spec
INVARIANT FollowersDoNotServe
