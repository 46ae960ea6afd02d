SPECIFICATION Spec
CONSTANTS
  Strategies = {s1, s2}
  OrderIds = {o1, o2, o3}
  PositionIds = {p1, p2}
  LossLevels = {"none", "severe"}
  Latency = 1
  Ttl = 1
  OverdueAfter = 2
  MaxFaults = 0
  MaxRestarts = 0
  None = None
INVARIANT DeadIsUnwound
