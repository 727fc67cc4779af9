CONSTANTS
  NumStops = 4
  W = 1000000001
  Days <- OtherBuses
  Departures = {0, 65, 590}
  Wishes = {0, 1, 9}
SPECIFICATION RouteSpec
CHECK_DEADLOCK FALSE
INVARIANT StayOnBusIsTheSameBus
