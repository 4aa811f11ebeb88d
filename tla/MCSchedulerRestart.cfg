SPECIFICATION Spec
CONSTANTS
  Workers = {w1}
  Projects = {p1}
  Sizes = {10}
  Budgets = {1}
  MaxJobs = 2
  MaxQueued = 1
  MaxSnapshotBytes = 100
  MaxJobBytes = 20
  MaxId = 10
  Webhook = TRUE
  NoJob = NoJob
  NoFault = NoFault
INVARIANTS
  RestartIsAccepted
