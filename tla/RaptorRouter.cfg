CONSTANTS
  NumStops = 6
  W = 64
  Graphs <- Awkward
  Departures = {1, 62}
SPECIFICATION FairSpec
INVARIANTS SearchInvariant FifoCatchesEarliestTrip
INVARIANTS ItineraryIsRideable OrderlyArrivalIsEarliest ForwardItineraryIsComplete
PROPERTIES KeepsPromise EveryRequestIsAnswered
