CONSTANTS
  Procs = {p1, p2, p3, p4}
  Attempts = 2
SPECIFICATION Spec
SYMMETRY Symmetry
INVARIANT ExclusiveUnlessOvertaken
PROPERTY LoneIsServed
CHECK_DEADLOCK FALSE
