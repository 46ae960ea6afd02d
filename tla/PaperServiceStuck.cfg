SPECIFICATION FairSpec
CONSTANTS
  Strategies = {s1}
  OrderIds = {o1, o2}
  PositionIds = {p1}
  LossLevels = {"none", "severe"}
  Latency = 1
  Ttl = 1
  OverdueAfter = 2
  MaxFaults = 1
  MaxRestarts = 0
  None = None
PROPERTY HeldPositionCloses
