SPECIFICATION FairSpec
CONSTANTS
  main = main
  async = async
  frame = frame
  frame2 = frame2
  thread = thread
  tOnce = tOnce
  tLoop = tLoop
  tUntil = tUntil
  tAsync = tAsync
  NoDriver = NoDriver
  NoTask = NoTask
  AsyncThread = thread
  Tasks <- MCTasks
  Pipelines <- MCPipelines
  Drivers <- MCDrivers
  Feeds <- MCFeeds
  PipelineOf <- MCPipelineOf
  Verdicts <- MCVerdicts
  Interval <- MCInterval
INVARIANTS
  NothingLostOrDoubled
PROPERTIES
  PassWalksASnapshot
  KeepsPromise
  EveryTaskIsCalled
  UnloadFinishes
