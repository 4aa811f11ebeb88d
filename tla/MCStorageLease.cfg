SPECIFICATION FairSpec
CONSTANTS
  Schedulers = {s1, s2, s3}
  Window = 2
  ForkTime = 1
  Nobody = Nobody
  NoCopy = NoCopy
INVARIANTS
  OneOwner
  RefusalsAreReal
PROPERTIES
  AcquireReturns
CHECK_DEADLOCK FALSE
