SPECIFICATION FairLoaderSpec
CONSTANTS
  splasher = splasher
  luaHook = luaHook
  pointers = pointers
  unpack = unpack
  dedicated = dedicated
  t1 = t1
  t2 = t2
  Registered <- MCRegistered
  Priority <- MCPriority
  Type <- MCType
  Unpacker = unpack
  Splasher = splasher
  Threads <- MCThreads
  Outcomes = {"ok", "throws"}
INVARIANTS
  PhasesFollowTheOrder
  PhasesFollowEachOther
  NobodyPassesEarly
PROPERTIES
  HookReturns
CHECK_DEADLOCK FALSE
