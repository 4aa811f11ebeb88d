SPECIFICATION FairSpec
CONSTANTS
  Workers = {w1, w2}
  Projects = {p1}
  MaxJobs = 3
  MaxTime = 5
  RebuildInterval = 2
  BusyRebuildInterval = 3
  Slow = TRUE
  NoProject = NoProject
  Never = Never
  NoBracket = NoBracket
INVARIANTS
  TypeOK
  RunningJobsAreBracketed
  EveryJobIsCoveredOnce
PROPERTIES
  RebuildsAreSpaced
  RefresherStops
CHECK_DEADLOCK FALSE
