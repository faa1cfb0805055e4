CONSTANTS
  Requests = {c1}
  Workers = {k1}
  Batch = 2
  MaxVersion = 3
  Noted = {1, 2}
  MaxFaults = 1
SPECIFICATION FollowFairSpec
CHECK_DEADLOCK FALSE
PROPERTIES ToldOnce EveryEventTold
