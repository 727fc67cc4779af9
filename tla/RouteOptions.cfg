CONSTANTS
  NumStops = 4
  W = 1000000001
  Days <- MCDays
  Departures = {0, 65, 590}
  Wishes = {0, 1, 9}
SPECIFICATION RouteSpec
INVARIANT PlanCanBeRidden
INVARIANT OptionsAdvance
INVARIANT ShownLegsFit
INVARIANT NothingIsLeftOut
PROPERTY KeepsPromise
CHECK_DEADLOCK FALSE
