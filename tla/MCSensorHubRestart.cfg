SPECIFICATION Spec
CONSTANTS
  Cap = 2
  SensorIds = {1}
  MaxFrames = 3
  MaxStarts = 2
INVARIANT WorkerServesWhileRunning
CHECK_DEADLOCK FALSE
