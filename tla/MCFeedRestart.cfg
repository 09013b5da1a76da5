CONSTANTS
  Roots = {1, 2}
  Candidates = {1, 2}
  Required <- MCRequired
  Freeze <- MCFreeze
  Stale <- MCStale
  OpenAt <- MCOpenAt
  Day <- MCDay
  Contract <- MCContract
  Unsafe = {0}
  HardCap = 6
  SafetyCeiling = 5
  Reserve = 2
  LastMinute = 5
  MaxUpdates = 2
  Markets <- MCMarkets
  MaxLag = 1
  NoBeat = NoBeat
SPECIFICATION FeedSpec
CHECK_DEADLOCK FALSE
INVARIANT SchedulingSurvivesRestart
