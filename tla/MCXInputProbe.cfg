SPECIFICATION FairSpec
CONSTANTS
  stick = stick
  face = face
  rt = rt
  W = W
  Q = Q
  Ctrl = Ctrl
  C = C
  Missing = Missing
  Order <- MCOrder
  Triggers <- MCTriggers
  Keys <- MCKeys
  Binds <- MCBinds
  DefaultBind <- MCDefaultBind
  XUSER_MAX_COUNT = 2
  Threshold = 2
  MaxEdits = 1
INVARIANTS
  NoStuckKeys
  HeldKeysAreDown
  SettingsAreTheFiles
PROPERTIES
  OnePressOneMeaning
  BackgroundReleases
CHECK_DEADLOCK FALSE
