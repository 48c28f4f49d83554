SPECIFICATION Spec
CONSTANTS
  Cap = 1
  SensorIds = {1, 2}
  MaxFrames = 3
  MaxEvents = 1
CHECK_DEADLOCK FALSE
INVARIANT NoAlertLost
