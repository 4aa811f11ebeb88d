SPECIFICATION FairSpec
CONSTANTS
  Workers = {w1, w2}
  Projects = {p1}
  Sizes = {10, 12}
  Budgets = {1}
  MaxJobs = 2
  MaxQueued = 2
  MaxSnapshotBytes = 38
  MaxJobBytes = 20
  MaxId = 10
  Webhook = TRUE
  NoJob = NoJob
  NoFault = NoFault
INVARIANTS
  SnapshotStaysReadable
  AckedJobsSurvive
PROPERTIES
  ImplementsLedger
  ShutdownCompletes
  AcknowledgedJobsSettle
