CONSTANTS
  Feeds <- MCFeeds
  Instants <- MCInstants
  DelayChoices <- MCDelays
  ShapePoints = 4
  BoardLimit = 2
SPECIFICATION DaySpec
INVARIANTS FleetIsOnSchedule BoardIsComplete SimulatedAsScheduled FeedsAgree
PROPERTY VehiclesOnlyAdvance
CHECK_DEADLOCK FALSE
