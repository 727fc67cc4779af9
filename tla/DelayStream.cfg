CONSTANTS
  MaxBackoff = 1
  MaxPayloads = 2
  MaxResends = 1
  Messages = {1, 2}
SPECIFICATION FairStream
INVARIANTS AppliedNoMoreThanSent NothingSkipped ContextIsLive ConnectionsAreClosed
PROPERTIES StopReturns Resubscribes
CHECK_DEADLOCK FALSE
