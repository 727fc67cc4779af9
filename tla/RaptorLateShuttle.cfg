CONSTANTS
  NumStops = 4
  W = 64
  Graphs <- LateShuttleOnly
  Departures = {0, 2}
SPECIFICATION Spec
INVARIANT ItineraryIsComplete
