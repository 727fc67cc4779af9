CONSTANTS
  c1 = c1
  c2 = c2
  Clients = {c1, c2}
  Request <- OnePart
  Answer <- TwoParts
  Leaving = {c1}
  MaxFailures = 1
SPECIFICATION FairSpec
INVARIANT RelayIsTransparent
PROPERTIES AnswersArrive HangUpsArePassedOn
CHECK_DEADLOCK FALSE
