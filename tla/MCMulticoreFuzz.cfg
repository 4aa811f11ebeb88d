SPECIFICATION FairSpec
CONSTANTS
  Workers = {0, 1}
  Findings = {1, 2, 3}
  Home <- MCHome
  Keys <- MCKeys
  Files = {"testcase"}
  Record = "record"
  Ids <- MCIds
  MaxFaults = 1
  Absent = Absent
  Empty = Empty
  Torn = Torn
  Emitted = Emitted
  Foreign = Foreign
  Nothing = Nothing
INVARIANTS
  TypeOK
  CommittedFindingsAreWhole
  NothingIsLost
  CrashesAreMergedOnce
PROPERTIES
  FindingsSettle
