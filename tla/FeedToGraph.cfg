CONSTANTS
  NumStops = 3
  W = 4096
  MAX_WALK_DIST_M = 500
  Feeds <- SortedFeeds
  MaxRuns = 2
  MaxStarts = 1
SPECIFICATION FeedSpec
INVARIANTS IndexIsFaithful IndexIsAGraph ServesTheFeed
CHECK_DEADLOCK FALSE
