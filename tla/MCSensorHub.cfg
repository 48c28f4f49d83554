SPECIFICATION FairSpec
CONSTANTS
  Cap = 2
  SensorIds = {1}
  MaxFrames = 5
  MaxStarts = 3
INVARIANTS TypeOK NothingLost InOrder StopNeverHangs BoundedDrain OneWorker
PROPERTIES StopReturns FirstSessionServes
CHECK_DEADLOCK FALSE
