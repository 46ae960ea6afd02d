SPECIFICATION FairSpec
CONSTANTS
  Strategies = {s1}
  OrderIds = {o1, o2}
  PositionIds = {p1}
  LossLevels = {"none", "severe"}
  Latency = 1
  Ttl = 3
  OverdueAfter = 2
  MaxFaults = 0
  MaxRestarts = 1
  None = None
PROPERTIES
  IntentResolves
  HeldPositionCloses
  EmergencyFlattens
