SPECIFICATION Spec
CONSTANTS
  Topic <- MCTopic
  RateTopics <- MCRateTopics
  JoinTime = 2
  HzTime = 3
  ListTime = 1
  SleepTime = 1
INVARIANTS
  TypeOK
  SnapshotConsistent
  RatesRecent
  RateNotLost
