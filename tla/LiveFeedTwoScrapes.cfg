CONSTANTS
  c1 = c1
  c2 = c2
  s1 = s1
  s2 = s2
  Clients = {c1, c2}
  Stalling = {}
  Scrapes = {s1, s2}
  MaxTurns = 1
  LatencyBuckets <- TwoBuckets
  MaxLatencies = 1
  Queries <- OneQuery
SPECIFICATION Spec
PROPERTY NothingOutdatedIsReported
CHECK_DEADLOCK FALSE
