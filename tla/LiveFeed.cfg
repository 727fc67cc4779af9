CONSTANTS
  c1 = c1
  c2 = c2
  s1 = s1
  s2 = s2
  Clients = {c1, c2}
  Stalling = {c1}
  Scrapes = {s1}
  MaxTurns = 2
  LatencyBuckets <- TwoBuckets
  MaxLatencies = 1
  Queries <- OneQuery
SPECIFICATION FairSpec
INVARIANTS ListedAreHandled PositionsOnlyAdvance BroadcastSkipsNobody
PROPERTIES ReportsAddUp BroadcastEnds DeadConnectionsLeave
CHECK_DEADLOCK FALSE
