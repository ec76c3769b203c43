CONSTANTS
  Mains = {m1, m2}
  NoMain = NoMain
  TTL = 5
  Interval = 1
  Latency = 1
  CommandTimeout = 2
  Lateness = 3
  Slow = {m2}
  MaxFaults = 1
  MaxStops = 1
  MaxRestarts = 1
SPECIFICATION FairSpec
INVARIANTS TypeOK AssertsHold ServicesFollowRole
PROPERTIES ImplementsLease OneLeaderInTheEnd
