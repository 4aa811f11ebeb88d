SPECIFICATION Spec
CONSTANTS
  Procs = {p1, p2}
  Reporters = {}
  Deferred = {p1, p2}
  s1 = s1
  Sigs = {s1}
  Sig <- SameSig
  Names <- MCNames
  Targets <- EmptyTarget
  MaxOrdinal = 3
  MaxProducers = 1
  MaxFailures = 0
  Absent = Absent
  Corrupt = Corrupt
INVARIANTS
  PeersAreBenign
