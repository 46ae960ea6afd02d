SPECIFICATION Spec
CONSTANTS
  Strategies = {s1, s2}
  OrderIds = {o1, o2, o3}
  PositionIds = {p1, p2}
  LossLevels = {"none", "severe"}
  Latency = 1
  Ttl = 1
  OverdueAfter = 2
  MaxFaults = 1
  MaxRestarts = 1
  None = None
SYMMETRY Symmetry
INVARIANTS
  TypeOK
  SlotExclusion
  DurableMirror
  EntryAuthority
PROPERTY LifecycleSpec
