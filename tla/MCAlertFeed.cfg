SPECIFICATION FeedSpec
CONSTANTS
  Sensors = {1, 2, 3}
  MaxEvents = 2
  MaxLag = 2
  Configs <- MCConfigs
INVARIANTS
  FeedTypeOK
  Agreement
  TableAgrees
  EntriesAgree
PROPERTY FollowsLifecycle
