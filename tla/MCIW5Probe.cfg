SPECIFICATION FairSpec5
CONSTANTS
  W = W
  Q = Q
  Ctrl = Ctrl
  C = C
  Missing = Missing
  Order <- MCOrder
  Triggers = {}
  Keys <- MCKeys
  Binds <- MCBinds
  DefaultBind <- MCDefaultBind
  XUSER_MAX_COUNT = 1
  Threshold = 1
  MaxEdits = 2
INVARIANTS
  NothingElseIsDown
PROPERTIES
  BothThreadsSettle
CHECK_DEADLOCK FALSE
