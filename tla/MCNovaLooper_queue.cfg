CONSTANTS
  Main = "main"
  Render = "render"
  Workers = {"w"}
  Callbacks = {"r1", "r2"}
  Tasks = {"f"}
  Delays = {0, 1}
  MaxPool = 1
  DrainLimit = 2
  MaxPosts = 2
  MaxTasks = 1
  MaxTime = 1
  MaxDepth = 2
SPECIFICATION FairSpec
INVARIANTS TypeOK OwnedOnce LooperRestored
PROPERTIES QueueIsTimed HeadIsHanded FrameEnds EveryTaskRuns
