SPECIFICATION FairSpec
CONSTANTS
  p1 = p1
  p2 = p2
  n1 = n1
  n2 = n2
  Procs <- TwoInstances
  OtherKeys = {"k"}
  Names <- TwoNames
  Junk = Junk
  None = None
  Absent = Absent
  Torn = Torn
  OldDocs <- EarlierRuns
  MaxDeaths = 2
INVARIANTS
  NameIsTheStoredOne
PROPERTIES
  ActsAsAMap
  EveryStartReturns
CHECK_DEADLOCK FALSE
