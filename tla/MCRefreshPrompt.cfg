SPECIFICATION Spec
CONSTANTS
  Workers = {w1, w2}
  Projects = {p1, p2}
  MaxJobs = 3
  MaxTime = 6
  RebuildInterval = 2
  BusyRebuildInterval = 4
  Slow = FALSE
  NoProject = NoProject
  Never = Never
  NoBracket = NoBracket
SYMMETRY Alike
INVARIANTS
  RebuildsAreInTime
CHECK_DEADLOCK FALSE
