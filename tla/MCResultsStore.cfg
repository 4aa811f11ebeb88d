SPECIFICATION FairSpec
CONSTANTS
  Procs = {p1, p2, p3}
  Reporters = {p3}
  Deferred = {p1}
  s1 = s1
  Sigs = {s1}
  Sig <- SameSig
  Names <- MCNames
  Targets <- AnyTarget
  MaxOrdinal = 3
  MaxProducers = 1
  MaxFailures = 1
  Absent = Absent
  Corrupt = Corrupt
INVARIANTS
  TypeOK
  
  EvidenceSurvives
  FindingsAreExclusive
  
  
  ProducersAreKept
  
PROPERTIES
  CommandsEnd
