SPECIFICATION FairSpec
CONSTANTS
  Attempts = 2
  Length = 3
  Room = 4
  MaxSessions = 2
INVARIANTS
  TypeOK
  ScheduleArrives
  MasterOwned
PROPERTIES
  ShutdownEnds
  EveryChannelFlows
