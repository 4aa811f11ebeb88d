SPECIFICATION Spec
CONSTANTS
  Workers = {w1, w2}
  Projects = {p1}
  Sizes = {10}
  Budgets = {1}
  MaxJobs = 3
  MaxQueued = 2
  MaxSnapshotBytes = 100
  MaxJobBytes = 20
  MaxId = 10
  Webhook = TRUE
  NoJob = NoJob
  NoFault = NoFault
SYMMETRY WorkerSymmetry
INVARIANTS
  TypeOK
  NotifiedJobsAreFinal
  DispatchIsCommitted
  ClaimsAreExclusive
  NoJobIsStranded
PROPERTIES
  FailsClosed
  OneLaunchPerStart
