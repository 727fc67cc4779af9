CONSTANTS
  NumStops = 3
  W = 4096
  MAX_WALK_DIST_M = 500
  Feeds <- LastFirstOnly
  MaxRuns = 1
  MaxStarts = 1
SPECIFICATION FeedSpec
INVARIANT FootpathsJoinNeighbours
CHECK_DEADLOCK FALSE
