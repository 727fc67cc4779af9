------------------------- MODULE RaptorRouterProofs -------------------------
(***************************************************************************)
(* Proofs about RaptorRouter, for every timetable, whether or not its      *)
(* times run forward: the search keeps its types, its labels stay          *)
(* justified, and the itinerary of a reply is one a passenger can ride;    *)
(* where time runs forward it leads from the source to the target; and     *)
(* where, besides, trips of a route do not overtake each other and         *)
(* footpaths are closed under walking on, it arrives as early as one can.  *)
(***************************************************************************)
EXTENDS RaptorRouter, EarliestArrivalProofs, TLAPS
LOCAL INSTANCE FiniteSetsExt

USE NumStopsAssumption, WordAssumption DEF Stops, Time, INF, FOOTPATH_ROUTE_ID, NoTrip

(* What a graph assumed to be well formed gives, field by field.           *)
LEMMA GraphFields ==
  ASSUME NEW g, IsGraph(g)
  PROVE  /\ Len(g.routes) \in 0 .. FOOTPATH_ROUTE_ID - 1
         /\ DOMAIN g.routes = 1 .. Len(g.routes)
         /\ \A u \in Stops : /\ DOMAIN g.walk[u] \subseteq Stops \ {u}
                             /\ \A v \in DOMAIN g.walk[u] : g.walk[u][v] \in Time
         /\ \A r \in 1 .. Len(g.routes) :
              /\ g.routes[r].stops \in Seq(Stops)
              /\ DOMAIN g.routes[r].stops = 1 .. Len(g.routes[r].stops)
              /\ Len(g.routes[r].stops) \in Nat
              /\ DOMAIN g.routes[r].trips = 1 .. Len(g.routes[r].trips)
              /\ Len(g.routes[r].trips) \in Nat
              /\ \A i \in DOMAIN g.routes[r].stops : g.routes[r].stops[i] \in Stops
              /\ \A t \in DOMAIN g.routes[r].trips : \A i \in DOMAIN g.routes[r].stops :
                   /\ g.routes[r].trips[t][i].arr_sec \in Time
                   /\ g.routes[r].trips[t][i].dep_sec \in Time
<1>1. /\ Len(g.routes) \in 0 .. FOOTPATH_ROUTE_ID - 1
      /\ DOMAIN g.routes = 1 .. Len(g.routes)
  BY DEF IsGraph
<1>2. \A u \in Stops : /\ DOMAIN g.walk[u] \subseteq Stops \ {u}
                        /\ \A v \in DOMAIN g.walk[u] : g.walk[u][v] \in Time
  BY DEF IsGraph
<1>3. ASSUME NEW r \in 1 .. Len(g.routes)
      PROVE  /\ g.routes[r].stops \in Seq(Stops)
             /\ g.routes[r].trips \in Seq([DOMAIN g.routes[r].stops -> StopTime])
  BY DEF IsGraph, IsRoute
<1>4. ASSUME NEW r \in 1 .. Len(g.routes)
      PROVE  /\ DOMAIN g.routes[r].stops = 1 .. Len(g.routes[r].stops)
             /\ Len(g.routes[r].stops) \in Nat
             /\ \A i \in DOMAIN g.routes[r].stops : g.routes[r].stops[i] \in Stops
  <2> DEFINE stops == g.routes[r].stops
  <2>1. stops \in Seq(Stops)
    BY <1>3
  <2> HIDE DEF stops
  <2>2. /\ DOMAIN stops = 1 .. Len(stops)
        /\ Len(stops) \in Nat
        /\ \A i \in DOMAIN stops : stops[i] \in Stops
    BY <2>1
  <2> QED
    BY <2>2 DEF stops
<1>5. ASSUME NEW r \in 1 .. Len(g.routes)
      PROVE  /\ DOMAIN g.routes[r].trips = 1 .. Len(g.routes[r].trips)
             /\ Len(g.routes[r].trips) \in Nat
             /\ \A t \in DOMAIN g.routes[r].trips :
                  g.routes[r].trips[t] \in [DOMAIN g.routes[r].stops -> StopTime]
  <2> DEFINE trips == g.routes[r].trips
             Trips == [DOMAIN g.routes[r].stops -> StopTime]
  <2>1. trips \in Seq(Trips)
    BY <1>3
  <2> HIDE DEF trips, Trips
  <2>2. /\ DOMAIN trips = 1 .. Len(trips)
        /\ Len(trips) \in Nat
        /\ \A t \in DOMAIN trips : trips[t] \in Trips
    BY <2>1
  <2> QED
    BY <2>2 DEF trips, Trips
<1>6. ASSUME NEW r \in 1 .. Len(g.routes), NEW t \in DOMAIN g.routes[r].trips,
             NEW i \in DOMAIN g.routes[r].stops
      PROVE  /\ g.routes[r].trips[t][i].arr_sec \in Time
             /\ g.routes[r].trips[t][i].dep_sec \in Time
  <2>1. g.routes[r].trips[t][i] \in StopTime
    BY <1>5
  <2> QED
    BY <2>1 DEF StopTime
<1> QED
  BY <1>1, <1>2, <1>3, <1>4, <1>5, <1>6

LEMMA InitTypeOK == Init => TypeOK
<1> SUFFICES ASSUME Init PROVE TypeOK
  OBVIOUS
<1>1. IsGraph(graph)
  BY GraphsAssumption DEF Init
<1>2. <<>> \in Seq(Leg)
  OBVIOUS
<1>3. Len(routes) \in Nat
  BY <1>1, GraphFields DEF routes
<1>4. RequestTypeOK /\ RoundTypeOK
  BY DEF Init, RequestTypeOK, RoundTypeOK, MAX_ROUNDS
<1>5. LabelTypeOK
  BY DEF Init, LabelTypeOK, Parents, NoParent
<1>6. ScanTypeOK
  BY <1>3 DEF Init, ScanTypeOK
<1>7. TraceTypeOK
  BY <1>2 DEF Init, TraceTypeOK, NoResponse
<1> QED
  BY <1>1, <1>4, <1>5, <1>6, <1>7 DEF TypeOK

-----------------------------------------------------------------------------
(* The fields of the graph the query runs on, in the router's terms.       *)
LEMMA RouteFields ==
  ASSUME IsGraph(graph)
  PROVE  /\ Len(routes) \in Nat /\ Len(routes) < FOOTPATH_ROUTE_ID
         /\ \A u \in Stops : /\ DOMAIN graph.walk[u] \subseteq Stops \ {u}
                             /\ \A v \in DOMAIN graph.walk[u] : graph.walk[u][v] \in Time
         /\ \A r \in 1 .. Len(routes) :
              /\ DOMAIN stopsOf(r) = 1 .. Len(stopsOf(r))
              /\ Len(stopsOf(r)) \in Nat
              /\ DOMAIN tripsOf(r) = 1 .. Len(tripsOf(r))
              /\ Len(tripsOf(r)) \in Nat
              /\ \A i \in DOMAIN stopsOf(r) : stopsOf(r)[i] \in Stops
              /\ \A t \in DOMAIN tripsOf(r) : \A i \in DOMAIN stopsOf(r) :
                   /\ tripsOf(r)[t][i].arr_sec \in Time
                   /\ tripsOf(r)[t][i].dep_sec \in Time
<1>1. /\ Len(routes) \in Nat /\ Len(routes) < FOOTPATH_ROUTE_ID
      /\ \A u \in Stops : /\ DOMAIN graph.walk[u] \subseteq Stops \ {u}
                          /\ \A v \in DOMAIN graph.walk[u] : graph.walk[u][v] \in Time
  <2>1. Len(graph.routes) \in 0 .. FOOTPATH_ROUTE_ID - 1
    BY GraphFields, Zenon
  <2>2. \A u \in Stops : /\ DOMAIN graph.walk[u] \subseteq Stops \ {u}
                         /\ \A v \in DOMAIN graph.walk[u] : graph.walk[u][v] \in Time
    BY GraphFields, Zenon
  <2>3. FOOTPATH_ROUTE_ID \in Nat
    BY WordAssumption DEF FOOTPATH_ROUTE_ID
  <2> QED
    BY <2>1, <2>2, <2>3 DEF routes
<1>2. ASSUME NEW r \in 1 .. Len(routes)
      PROVE  /\ DOMAIN stopsOf(r) = 1 .. Len(stopsOf(r))
             /\ Len(stopsOf(r)) \in Nat
             /\ DOMAIN tripsOf(r) = 1 .. Len(tripsOf(r))
             /\ Len(tripsOf(r)) \in Nat
             /\ \A i \in DOMAIN stopsOf(r) : stopsOf(r)[i] \in Stops
  BY GraphFields, Zenon DEF routes, stopsOf, tripsOf
<1>3. ASSUME NEW r \in 1 .. Len(routes),
             NEW t \in DOMAIN tripsOf(r), NEW i \in DOMAIN stopsOf(r)
      PROVE  /\ tripsOf(r)[t][i].arr_sec \in Time
             /\ tripsOf(r)[t][i].dep_sec \in Time
  BY GraphFields, Zenon DEF routes, stopsOf, tripsOf
<1> QED
  BY <1>1, <1>2, <1>3

(* Where the scan is, in the types of the graph.                           *)
LEMMA ScanFields ==
  ASSUME TypeOK, pc \in {"alight", "board", "search"}
  PROVE  /\ r_id \in 1 .. Len(routes) /\ Len(routes) \in Nat /\ r_id \in Time
         /\ DOMAIN stopsOf(r_id) = 1 .. Len(stopsOf(r_id))
         /\ Len(stopsOf(r_id)) \in Nat
         /\ p \in 1 .. Len(stopsOf(r_id))
         /\ Here \in Stops
         /\ DOMAIN tripsOf(r_id) = 1 .. Len(tripsOf(r_id))
         /\ Len(tripsOf(r_id)) \in Nat
         /\ current_trip \in 0 .. Len(tripsOf(r_id))
         /\ current_trip # NoTrip => ArrivalHere \in Time
         /\ \A t \in DOMAIN tripsOf(r_id) : DepartureHere(t) \in Time
<1>1. /\ r_id \in 1 .. Len(routes)
      /\ p \in DOMAIN stopsOf(r_id)
      /\ current_trip \in {NoTrip} \cup DOMAIN tripsOf(r_id)
  BY DEF TypeOK, ScanTypeOK
<1>2. IsGraph(graph)
  BY DEF TypeOK
<1> QED
  BY SMTT(30), <1>1, <1>2, RouteFields DEF Here, ArrivalHere, DepartureHere

(* The sum of a label and a walk is a uint32_t.                            *)
LEMMA WalkArrivalType ==
  ASSUME TypeOK, NEW u \in Stops, NEW v \in DOMAIN graph.walk[u]
  PROVE  WalkArrival(u, v) \in Time
<1>1. graph.walk[u][v] \in Nat
  BY RouteFields DEF TypeOK
<1>2. earliest_arrival[u] \in Nat
  BY DEF TypeOK, LabelTypeOK
<1>3. \A n \in Nat : n % W \in Time
  OBVIOUS
<1> DEFINE sum == earliest_arrival[u] + graph.walk[u][v]
<1>4. sum \in Nat
  BY <1>1, <1>2
<1> HIDE DEF sum
<1>5. sum % W \in Time
  BY <1>3, <1>4
<1> QED
  BY <1>5 DEF WalkArrival, sum

(* A walk's labels and parents are labels and parents.                     *)
LEMMA WalkTypes ==
  ASSUME TypeOK, NEW u \in Stops, WalkFrom(u)
  PROVE  /\ LabelTypeOK'
         /\ WalkImproves(u) \subseteq Stops
<1>1. \A v \in WalkImproves(u) : v \in Stops /\ WalkArrival(u, v) \in Time
  BY RouteFields, WalkArrivalType DEF WalkImproves, TypeOK
<1>2. earliest_arrival \in [Stops -> Time] /\ parent \in [Stops -> Parents]
  BY DEF TypeOK, LabelTypeOK
<1>3. earliest_arrival' \in [Stops -> Time]
  BY <1>1, <1>2 DEF WalkFrom
<1>4. \A v \in WalkImproves(u) :
        [stop |-> u, route |-> FOOTPATH_ROUTE_ID,
         board |-> earliest_arrival[u], alight |-> WalkArrival(u, v)] \in Parents
  BY <1>1, <1>2 DEF Parents
<1>5. parent' \in [Stops -> Parents]
  BY <1>2, <1>4 DEF WalkFrom
<1> QED
  BY <1>1, <1>3, <1>5 DEF LabelTypeOK

(* Moving on from a position of the scan.                                  *)
LEMMA NextPositionTypes ==
  ASSUME TypeOK, pc \in {"board", "search"}, NextPosition, UNCHANGED graph,
         current_trip' \in 0 .. Len(tripsOf(r_id)),
         board_stop_id' \in Time, current_board_time' \in Time
  PROVE  /\ pc' \in {"alight", "route"}
         /\ ScanTypeOK'
         /\ pc' = "alight" => r_id' = r_id /\ p' = p + 1
<1>1. /\ routes' = routes
      /\ \A r : stopsOf(r)' = stopsOf(r) /\ tripsOf(r)' = tripsOf(r)
  BY DEF routes, stopsOf, tripsOf
<1>2. CASE p < Len(stopsOf(r_id))
  <2>1. /\ r_id' = r_id /\ p' = p + 1 /\ pc' = "alight"
    BY <1>2 DEF NextPosition
  <2>2. /\ stopsOf(r_id)' = stopsOf(r_id) /\ tripsOf(r_id)' = tripsOf(r_id)
    BY <1>1, <2>1 DEF stopsOf, tripsOf
  <2>3. /\ r_id \in 1 .. Len(routes) /\ r_id \in 1 .. Len(routes) + 1
        /\ p + 1 \in DOMAIN stopsOf(r_id)
        /\ current_trip' \in {NoTrip} \cup DOMAIN tripsOf(r_id)
    BY SMTT(30), <1>2, ScanFields DEF NoTrip
  <2>4. ScanTypeOK'
    BY <1>1, <2>1, <2>2, <2>3 DEF ScanTypeOK
  <2> QED
    BY <2>1, <2>4
<1>3. CASE ~(p < Len(stopsOf(r_id)))
  BY SMTT(30), <1>1, <1>3, ScanFields DEF NextPosition, ScanTypeOK
<1> QED
  BY <1>2, <1>3

-----------------------------------------------------------------------------
(* The types of every request are kept by every step.  That the walk back  *)
(* stays among the stops needs the labels to be justified.                 *)
LEMMA RequestTypes ==
  ASSUME TypeOK, NEW s \in StopIds, NEW t \in StopIds, NEW d \in Departures,
         Receive(s, t, d),
         earliest_arrival' \in [Stops -> Time], marked_stops' \subseteq Stops,
         response' \in [success : BOOLEAN, itinerary : Seq(Leg)],
         pc' = "done" \/ (pc' = "init_walks" /\ s \in Stops /\ t \in Stops)
  PROVE  TypeOK'
<1>1. IsGraph(graph)'
  BY DEF Receive, TypeOK, IsGraph
<1>2. RequestTypeOK'
  BY DeparturesAssumption DEF Receive, RequestTypeOK, StopIds
<1>3. LabelTypeOK'
  BY DEF Receive, LabelTypeOK, Parents, NoParent
<1>4. RoundTypeOK'
  BY DEF Receive, RoundTypeOK, MAX_ROUNDS
<1>5. ScanTypeOK'
  BY SMTT(30), RouteFields DEF Receive, TypeOK, ScanTypeOK, routes
<1>6. TraceTypeOK'
  BY DEF Receive, TraceTypeOK
<1> QED
  BY <1>1, <1>2, <1>3, <1>4, <1>5, <1>6 DEF TypeOK

LEMMA StepRequestTypes == TypeOK /\ Step => IsGraph(graph)' /\ RequestTypeOK'
<1> SUFFICES ASSUME TypeOK, Step PROVE IsGraph(graph)' /\ RequestTypeOK'
  OBVIOUS
<1>1. /\ UNCHANGED <<graph, request>>
      /\ pc \notin {"idle", "done"}
      /\ pc' \in {"done", "round", "route", "alight", "board", "search", "walk",
                  "end_round", "reply", "trace"}
  BY Zenon DEF Step, InitialWalks, BeginRound, SkipRoute, ScanRoute, Alight, PassBy,
     BeginTripSearch, TripSearchStep, EndTripSearch, CollectAlighted, RelaxFootpaths,
     FootpathsDone, EndRound, ReplyUnreachable, BeginTrace, TraceLeg, ReplyItinerary,
     NextPosition
<1>2. UNCHANGED <<source_stop, target_stop, departure_time>>
  BY <1>1 DEF request
<1> QED
  BY <1>1, <1>2 DEF TypeOK, RequestTypeOK, IsGraph

LEMMA StepLabelTypes == TypeOK /\ Step => LabelTypeOK'
<1> SUFFICES ASSUME TypeOK, Step PROVE LabelTypeOK'
  OBVIOUS
<1>1. CASE InitialWalks
  <2>1. source_stop \in Stops /\ WalkFrom(source_stop)
    BY <1>1 DEF InitialWalks, TypeOK, RequestTypeOK
  <2> QED
    BY <2>1, WalkTypes
<1>2. CASE RelaxFootpaths
  <2>1. PICK u \in bus_alighted_stops : WalkFrom(u)
    BY <1>2 DEF RelaxFootpaths
  <2>2. u \in Stops
    BY DEF TypeOK, RoundTypeOK
  <2> QED
    BY <2>1, <2>2, WalkTypes
<1>3. CASE Alight
  <2>1. CASE UNCHANGED labels
    BY <2>1 DEF labels, TypeOK, LabelTypeOK
  <2>2. CASE /\ current_trip # NoTrip
             /\ earliest_arrival' = [earliest_arrival EXCEPT ![Here] = ArrivalHere]
             /\ parent' = [parent EXCEPT ![Here] =
                    [stop |-> board_stop_id, route |-> r_id,
                     board |-> current_board_time, alight |-> ArrivalHere]]
    <3>1. /\ Here \in Stops /\ ArrivalHere \in Time /\ r_id \in Time
      BY <1>3, <2>2, ScanFields DEF Alight
    <3>2. [stop |-> board_stop_id, route |-> r_id,
           board |-> current_board_time, alight |-> ArrivalHere] \in Parents
      BY <3>1 DEF TypeOK, ScanTypeOK, Parents
    <3> QED
      BY <2>2, <3>1, <3>2 DEF TypeOK, LabelTypeOK
  <2> QED
    BY <1>3, <2>1, <2>2 DEF Alight
<1>4. CASE UNCHANGED labels
  BY <1>4 DEF labels, TypeOK, LabelTypeOK
<1> QED
  BY <1>1, <1>2, <1>3, <1>4, Zenon
     DEF Step, BeginRound, SkipRoute, ScanRoute, PassBy, BeginTripSearch, TripSearchStep,
         EndTripSearch, CollectAlighted, FootpathsDone, EndRound, ReplyUnreachable,
         BeginTrace, TraceLeg, ReplyItinerary

LEMMA StepRoundTypes == TypeOK /\ Step => RoundTypeOK'
<1> SUFFICES ASSUME TypeOK, Step PROVE RoundTypeOK'
  OBVIOUS
<1> USE DEF RoundTypeOK, MAX_ROUNDS
<1>1. RoundTypeOK /\ LabelTypeOK
  BY DEF TypeOK
<1>2. CASE InitialWalks
  <2>1. source_stop \in Stops /\ WalkFrom(source_stop)
    BY <1>2 DEF InitialWalks, TypeOK, RequestTypeOK
  <2>2. WalkImproves(source_stop) \subseteq Stops
    BY <2>1, WalkTypes
  <2> QED
    BY <1>1, <1>2, <2>2 DEF InitialWalks
<1>3. CASE BeginRound
  BY <1>1, <1>3 DEF BeginRound, LabelTypeOK
<1>4. CASE SkipRoute \/ ScanRoute
  BY <1>1, <1>4 DEF SkipRoute, ScanRoute, round
<1>5. CASE Alight
  <2>1. Here \in Stops
    BY <1>5, ScanFields DEF Alight
  <2> QED
    BY <1>1, <1>5, <2>1 DEF Alight, round
<1>6. CASE PassBy \/ EndTripSearch
  BY <1>1, <1>6 DEF PassBy, EndTripSearch, NextPosition, round
<1>7. CASE BeginTripSearch \/ TripSearchStep
  BY <1>1, <1>7 DEF BeginTripSearch, TripSearchStep, round
<1>8. CASE CollectAlighted \/ FootpathsDone
  BY <1>1, <1>8 DEF CollectAlighted, FootpathsDone, round
<1>9. CASE RelaxFootpaths
  <2>1. PICK u \in bus_alighted_stops :
          /\ WalkFrom(u)
          /\ next_marked' = next_marked \cup WalkImproves(u)
          /\ bus_alighted_stops' = bus_alighted_stops \ {u}
    BY <1>9 DEF RelaxFootpaths
  <2>2. WalkImproves(u) \subseteq Stops
    BY <1>1, <2>1, WalkTypes
  <2> QED
    BY <1>1, <1>9, <2>1, <2>2 DEF RelaxFootpaths, round
<1>10. CASE EndRound
  <2>1. k \in 0 .. MAX_ROUNDS - 1
    BY <1>1, <1>10 DEF EndRound
  <2>2. CASE next_marked = {}
    BY <1>1, <1>10, <2>2 DEF EndRound
  <2>3. CASE next_marked # {}
    <3>1. k' = k + 1 /\ marked_stops' = next_marked
      BY <1>10, <2>3 DEF EndRound
    <3>2. pc' = (IF k' < MAX_ROUNDS THEN "round" ELSE "reply")
      BY <1>10, <2>3, <3>1 DEF EndRound
    <3> QED
      BY <1>1, <1>10, <2>1, <3>1, <3>2 DEF EndRound
  <2> QED
    BY <2>2, <2>3
<1>11. CASE ReplyUnreachable \/ BeginTrace \/ TraceLeg \/ ReplyItinerary
  BY <1>1, <1>11 DEF ReplyUnreachable, BeginTrace, TraceLeg, ReplyItinerary, round
<1> QED
  BY <1>2, <1>3, <1>4, <1>5, <1>6, <1>7, <1>8, <1>9, <1>10, <1>11, Zenon DEF Step

LEMMA StepScanTypes == TypeOK /\ Step => ScanTypeOK'
<1> SUFFICES ASSUME TypeOK, Step PROVE ScanTypeOK'
  OBVIOUS
<1>1. ScanTypeOK /\ IsGraph(graph)
  BY DEF TypeOK
<1>2. graph' = graph
  BY Zenon DEF Step, InitialWalks, BeginRound, SkipRoute, ScanRoute, Alight, PassBy,
     BeginTripSearch, TripSearchStep, EndTripSearch, CollectAlighted, RelaxFootpaths,
     FootpathsDone, EndRound, ReplyUnreachable, BeginTrace, TraceLeg, ReplyItinerary
<1>3. /\ routes' = routes
      /\ r_id' = r_id => /\ stopsOf(r_id)' = stopsOf(r_id)
                         /\ tripsOf(r_id)' = tripsOf(r_id)
  BY <1>2 DEF routes, stopsOf, tripsOf
<1>4. Len(routes) \in Nat
  BY <1>1, RouteFields
<1>5. CASE /\ UNCHANGED <<r_id, p, ride, search>>
           /\ pc' \in {"alight", "board", "search"} => pc \in {"alight", "board", "search"}
           /\ pc' = "search" => pc = "search"
  BY <1>1, <1>3, <1>5 DEF ScanTypeOK, ride, search
<1>6. CASE BeginRound
  BY <1>1, <1>3, <1>4, <1>6 DEF BeginRound, ScanTypeOK, ride, search
<1>7. CASE SkipRoute
  BY <1>1, <1>3, <1>4, <1>7 DEF SkipRoute, ScanTypeOK, ride, search
<1>8. CASE ScanRoute
  <2>1. p' \in DOMAIN stopsOf(r_id)
    BY <1>8 DEF ScanRoute, BoardingPositions
  <2> QED
    BY <1>1, <1>3, <1>4, <1>8, <2>1 DEF ScanRoute, ScanTypeOK
<1>9. CASE PassBy
  BY <1>1, <1>9, NextPositionTypes, ScanFields DEF PassBy, ScanTypeOK, ride
<1>10. CASE BeginTripSearch
  <2>1. high' \in 0 .. Len(tripsOf(r_id))
    BY <1>10, ScanFields DEF BeginTripSearch
  <2> QED
    BY <1>1, <1>3, <1>10, <2>1, ScanFields DEF BeginTripSearch, ScanTypeOK, ride
<1>11. CASE TripSearchStep
  <2>1. /\ low \in 1 .. Len(tripsOf(r_id)) + 1 /\ high \in 0 .. Len(tripsOf(r_id))
        /\ low <= high
        /\ best_t \in {NoTrip} \cup DOMAIN tripsOf(r_id)
    BY <1>1, <1>11 DEF TripSearchStep, ScanTypeOK
  <2>2. Mid \in low .. high
    BY <2>1 DEF Mid
  <2>3. /\ low' \in 1 .. Len(tripsOf(r_id)) + 1
        /\ high' \in 0 .. Len(tripsOf(r_id))
        /\ best_t' \in {NoTrip} \cup DOMAIN tripsOf(r_id)
    <3> DEFINE n == Len(tripsOf(r_id))
    <3>1. n \in Nat /\ DOMAIN tripsOf(r_id) = 1 .. n
      BY <1>11, ScanFields DEF TripSearchStep
    <3> HIDE DEF n
    <3>2. low \in 1 .. n + 1 /\ high \in 0 .. n /\ best_t \in {NoTrip} \cup 1 .. n
      BY <2>1, <3>1 DEF n
    <3>3. \/ best_t' = Mid /\ high' = Mid - 1 /\ low' = low
          \/ low' = Mid + 1 /\ high' = high /\ best_t' = best_t
      BY <1>11 DEF TripSearchStep
    <3>4. low' \in 1 .. n + 1 /\ high' \in 0 .. n /\ best_t' \in {NoTrip} \cup 1 .. n
      BY <2>1, <2>2, <3>1, <3>2, <3>3
    <3> QED
      BY <3>1, <3>4 DEF n
  <2> QED
    BY <1>1, <1>3, <1>11, <2>3 DEF TripSearchStep, ScanTypeOK, ride
<1>12. CASE EndTripSearch
  <2>1. best_t \in 0 .. Len(tripsOf(r_id))
    BY SMTT(30), <1>1, <1>12, ScanFields DEF EndTripSearch, ScanTypeOK
  <2>2. /\ current_trip' \in 0 .. Len(tripsOf(r_id))
        /\ board_stop_id' \in Time /\ current_board_time' \in Time
    <3>1. CASE best_t # NoTrip
      <4>1. best_t \in DOMAIN tripsOf(r_id) /\ Here \in Stops
        BY <1>12, <2>1, <3>1, ScanFields DEF EndTripSearch
      <4>2. DepartureHere(best_t) \in Time
        BY <1>12, <4>1, ScanFields DEF EndTripSearch
      <4> QED
        BY <1>12, <2>1, <3>1, <4>1, <4>2 DEF EndTripSearch
    <3>2. CASE best_t = NoTrip
      BY <1>1, <1>12, <3>2, ScanFields DEF EndTripSearch, ScanTypeOK, ride
    <3> QED
      BY <3>1, <3>2
  <2> QED
    BY <1>12, <2>2, NextPositionTypes DEF EndTripSearch
<1> QED
  BY <1>5, <1>6, <1>7, <1>8, <1>9, <1>10, <1>11, <1>12
     DEF Step, InitialWalks, Alight, CollectAlighted, RelaxFootpaths,
         FootpathsDone, EndRound, ReplyUnreachable, BeginTrace, TraceLeg, ReplyItinerary

LEMMA StepTraceTypes == TypeOK /\ LabelsAreJustified /\ Step => TraceTypeOK'
<1> SUFFICES ASSUME TypeOK, LabelsAreJustified, Step PROVE TraceTypeOK'
  OBVIOUS
<1>1. TraceTypeOK
  BY DEF TypeOK
<1>2. CASE BeginTrace
  BY <1>1, <1>2 DEF BeginTrace, TraceTypeOK, TypeOK, RequestTypeOK
<1>3. CASE TraceLeg
  <2>1. curr \in Stops /\ parent[curr] \in Parents /\ parent[curr].stop # INF
    BY <1>1, <1>3 DEF TraceLeg, TraceGoesOn, TraceTypeOK, TypeOK, LabelTypeOK
  <2>2. parent[curr].stop \in Stops
    BY <2>1 DEF LabelsAreJustified, LegIsJustified, NoParent
  <2>3. LegTo(curr) \in Leg
    BY <2>1, <2>2 DEF LegTo, Leg, Parents
  <2>4. path' \in Seq(Leg)
    BY <1>1, <1>3, <2>3 DEF TraceLeg, TraceTypeOK
  <2> QED
    BY <1>1, <1>3, <2>1, <2>2, <2>4 DEF TraceLeg, TraceTypeOK
<1>4. CASE ReplyUnreachable
  BY <1>1, <1>4 DEF ReplyUnreachable, TraceTypeOK, NoResponse, trace
<1>5. CASE ReplyItinerary
  BY <1>1, <1>5 DEF ReplyItinerary, TraceTypeOK, trace
<1>6. CASE UNCHANGED <<trace, response>> /\ pc' # "trace"
  BY <1>1, <1>6 DEF TraceTypeOK, trace
<1> QED
  BY <1>2, <1>3, <1>4, <1>5, <1>6
     DEF Step, InitialWalks, BeginRound, SkipRoute, ScanRoute, Alight, PassBy,
     BeginTripSearch, TripSearchStep, EndTripSearch, CollectAlighted, RelaxFootpaths,
     FootpathsDone, EndRound, NextPosition

LEMMA TypeOKStep == TypeOK /\ LabelsAreJustified /\ [Next]_vars => TypeOK'
<1> SUFFICES ASSUME TypeOK, LabelsAreJustified, [Next]_vars PROVE TypeOK'
  OBVIOUS
<1>1. CASE Step
  BY <1>1, StepRequestTypes, StepLabelTypes, StepRoundTypes, StepScanTypes, StepTraceTypes
     DEF TypeOK
<1>2. /\ NoResponse \in [success : BOOLEAN, itinerary : Seq(Leg)]
      /\ [x \in Stops |-> INF] \in [Stops -> Time]
  BY DEF NoResponse
<1>3. ASSUME NEW s \in StopIds, NEW t \in StopIds, NEW d \in Departures,
             RejectRequest(s, t, d)
      PROVE  TypeOK'
  BY <1>2, <1>3, RequestTypes DEF RejectRequest
<1>4. ASSUME NEW s \in StopIds, NEW t \in StopIds, NEW d \in Departures,
             AnswerHere(s, t, d)
      PROVE  TypeOK'
  BY <1>2, <1>4, RequestTypes DEF AnswerHere
<1>5. ASSUME NEW s \in StopIds, NEW t \in StopIds, NEW d \in Departures,
             StartSearch(s, t, d)
      PROVE  TypeOK'
  BY <1>2, <1>5, RequestTypes, DeparturesAssumption DEF StartSearch
<1>6. CASE UNCHANGED vars
  BY <1>6 DEF vars, request, labels, round, ride, search, trace, TypeOK, RequestTypeOK,
     LabelTypeOK, RoundTypeOK, ScanTypeOK, TraceTypeOK, routes, stopsOf, tripsOf
<1> QED
  BY <1>1, <1>3, <1>4, <1>5, <1>6 DEF Next, Request

-----------------------------------------------------------------------------
(* LabelSearch's names for the timetable stand for the same things.        *)
LEMMA SameTerms ==
  /\ Promise!Stops = Stops /\ Promise!Time = Time /\ Promise!INF = INF
  /\ Promise!Parents = Parents /\ Promise!NoParent = NoParent
  /\ \A g, leg : Promise!IsLeg(g, leg) <=> IsLeg(g, leg)
<1>1. /\ Promise!Stops = Stops /\ Promise!Time = Time /\ Promise!INF = INF
  BY DEF Promise!Stops, Promise!Time, Promise!INF
<1>2. Promise!Parents = Parents /\ Promise!NoParent = NoParent
  BY <1>1 DEF Promise!Parents, Parents, Promise!NoParent, NoParent
<1>3. ASSUME NEW g, NEW leg PROVE Promise!IsLeg(g, leg) <=> IsLeg(g, leg)
  BY DEF Promise!IsLeg, Promise!IsBusLeg, Promise!IsWalkLeg, IsLeg, IsBusLeg, IsWalkLeg,
         Promise!FOOTPATH_ROUTE_ID
<1> QED
  BY <1>1, <1>2, <1>3

(* What a step of the search does to the label of a stop: it keeps it, or  *)
(* lowers it by a leg that can be caught.                                  *)
LEMMA WalkLowers ==
  ASSUME TypeOK, NEW u \in Stops, WalkFrom(u), NEW s \in Stops
  PROVE  Promise!Lowers(s) \/ Promise!Keeps(s)
<1>1. CASE s \notin WalkImproves(u)
  BY <1>1 DEF WalkFrom, Promise!Keeps
<1>2. CASE s \in WalkImproves(u)
  <2>1. /\ earliest_arrival'[s] = WalkArrival(u, s)
        /\ parent'[s] = [stop |-> u, route |-> FOOTPATH_ROUTE_ID,
                         board |-> earliest_arrival[u], alight |-> WalkArrival(u, s)]
    BY <1>2 DEF WalkFrom
  <2>2. s \in DOMAIN graph.walk[u] /\ WalkArrival(u, s) < earliest_arrival[s]
    BY <1>2 DEF WalkImproves
  <2>3. parent'[s] \in Parents /\ earliest_arrival[u] \in Time
    BY WalkTypes DEF LabelTypeOK, TypeOK
  <2>4. IsWalkLeg(graph, Promise!LegTo(parent', s))
    BY <2>1, <2>2 DEF IsWalkLeg, Promise!LegTo, WalkArrival
  <2>5. /\ parent'[s] \in Promise!Parents
        /\ parent'[s].stop \in Promise!Stops
        /\ earliest_arrival[parent'[s].stop] <= parent'[s].board
    BY <2>1, <2>3, SameTerms
  <2>6. Promise!IsLeg(graph, Promise!LegTo(parent', s))
    BY <2>4, SameTerms, Zenon DEF IsLeg
  <2> QED
    BY <2>1, <2>2, <2>3, <2>5, <2>6 DEF Promise!Lowers
<1> QED
  BY <1>1, <1>2

LEMMA AlightLowers ==
  ASSUME TypeOK, RideIsCaught, Alight, NEW s \in Stops
  PROVE  Promise!Lowers(s) \/ Promise!Keeps(s)
<1>1. CASE UNCHANGED labels
  BY <1>1 DEF labels, Promise!Keeps
<1>2. CASE /\ current_trip # NoTrip /\ ArrivalHere < earliest_arrival[Here]
           /\ earliest_arrival' = [earliest_arrival EXCEPT ![Here] = ArrivalHere]
           /\ parent' = [parent EXCEPT ![Here] =
                  [stop |-> board_stop_id, route |-> r_id,
                   board |-> current_board_time, alight |-> ArrivalHere]]
  <2>1. /\ earliest_arrival \in [Stops -> Time] /\ parent \in [Stops -> Parents]
        /\ parent' \in [Stops -> Parents]
    BY StepLabelTypes DEF TypeOK, LabelTypeOK, Step
  <2>2. CASE s # Here
    BY <1>2, <2>1, <2>2 DEF Promise!Keeps
  <2>3. CASE s = Here
    <3>1. /\ earliest_arrival'[s] = ArrivalHere
          /\ parent'[s] = [stop |-> board_stop_id, route |-> r_id,
                           board |-> current_board_time, alight |-> ArrivalHere]
      BY <1>2, <2>1, <2>3
    <3>2. /\ board_stop_id \in Stops
          /\ earliest_arrival[board_stop_id] <= current_board_time
      BY <1>2 DEF Alight, RideIsCaught
    <3>3. PICK i \in DOMAIN stopsOf(r_id) :
            /\ i < p
            /\ stopsOf(r_id)[i] = board_stop_id
            /\ tripsOf(r_id)[current_trip][i].dep_sec = current_board_time
      BY <1>2 DEF Alight, RideIsCaught
    <3>4. /\ r_id \in 1 .. Len(routes) /\ p \in DOMAIN stopsOf(r_id)
          /\ current_trip \in DOMAIN tripsOf(r_id)
      BY <1>2, ScanFields DEF Alight
    <3>5. IsBusLeg(graph, Promise!LegTo(parent', s))
      <4> DEFINE leg == Promise!LegTo(parent', s)
      <4>1. /\ leg.route_id = r_id /\ leg.board_stop = board_stop_id
            /\ leg.alight_stop = Here
            /\ leg.board_time = current_board_time /\ leg.alight_time = ArrivalHere
        BY <2>3, <3>1 DEF Promise!LegTo
      <4> HIDE DEF leg
      <4>2. IsBusLeg(graph, leg)
        BY <3>3, <3>4, <4>1, i < p
           DEF IsBusLeg, Here, ArrivalHere, stopsOf, tripsOf, routes
      <4> QED
        BY <4>2 DEF leg
    <3> QED
      BY <1>2, <2>1, <2>3, <3>1, <3>2, <3>5, SameTerms DEF Promise!Lowers, IsLeg
  <2> QED
    BY <2>2, <2>3
<1> QED
  BY <1>1, <1>2 DEF Alight

LEMMA StepLowersOrKeeps ==
  ASSUME TypeOK, RideIsCaught, Step
  PROVE  \A s \in Stops : Promise!Lowers(s) \/ Promise!Keeps(s)
<1>1. CASE InitialWalks
  <2>1. source_stop \in Stops /\ WalkFrom(source_stop)
    BY <1>1 DEF InitialWalks, TypeOK, RequestTypeOK
  <2> QED
    BY <2>1, WalkLowers
<1>2. CASE RelaxFootpaths
  <2>1. PICK u \in bus_alighted_stops : WalkFrom(u)
    BY <1>2 DEF RelaxFootpaths
  <2>2. u \in Stops
    BY DEF TypeOK, RoundTypeOK
  <2> QED
    BY <2>1, <2>2, WalkLowers
<1>3. CASE Alight
  BY <1>3, AlightLowers
<1>4. CASE UNCHANGED labels
  BY <1>4 DEF labels, Promise!Keeps
<1> QED
  BY <1>1, <1>2, <1>3, <1>4, Zenon
     DEF Step, BeginRound, SkipRoute, ScanRoute, PassBy, BeginTripSearch, TripSearchStep,
         EndTripSearch, CollectAlighted, FootpathsDone, EndRound, ReplyUnreachable,
         BeginTrace, TraceLeg, ReplyItinerary

(* So no label rises in a step of the search.                              *)
LEMMA LabelsFall ==
  ASSUME TypeOK, RideIsCaught, Step, NEW s \in Stops
  PROVE  /\ earliest_arrival[s] \in Time /\ earliest_arrival'[s] \in Time
         /\ earliest_arrival'[s] <= earliest_arrival[s]
<1>1. earliest_arrival[s] \in Time /\ earliest_arrival'[s] \in Time
  BY StepLabelTypes DEF TypeOK, LabelTypeOK
<1>2. Promise!Lowers(s) \/ Promise!Keeps(s)
  BY StepLowersOrKeeps
<1> QED
  BY <1>1, <1>2 DEF Promise!Lowers, Promise!Keeps

LEMMA StepJustified ==
  ASSUME TypeOK, LabelsAreJustified, RideIsCaught, Step
  PROVE  LabelsAreJustified'
<1> SUFFICES ASSUME NEW s \in Stops, parent'[s] # NoParent
             PROVE  LegIsJustified(s)'
  BY DEF LabelsAreJustified
<1>1. graph' = graph
  BY Zenon DEF Step, InitialWalks, BeginRound, SkipRoute, ScanRoute, Alight, PassBy,
     BeginTripSearch, TripSearchStep, EndTripSearch, CollectAlighted, RelaxFootpaths,
     FootpathsDone, EndRound, ReplyUnreachable, BeginTrace, TraceLeg, ReplyItinerary
<1>2. \A leg : IsLeg(graph', leg) <=> IsLeg(graph, leg)
  BY <1>1 DEF IsLeg, IsBusLeg, IsWalkLeg
<1>3. parent'[s].stop \in Stops => earliest_arrival'[parent'[s].stop] \in Time
                                 /\ earliest_arrival[parent'[s].stop] \in Time
        /\ earliest_arrival'[parent'[s].stop] <= earliest_arrival[parent'[s].stop]
  BY LabelsFall
<1>4. parent'[s] \in Parents
  BY StepLabelTypes DEF LabelTypeOK
<1>5. CASE Promise!Lowers(s)
  <2>1. /\ parent'[s].stop \in Stops
        /\ IsLeg(graph, Promise!LegTo(parent', s))
        /\ earliest_arrival'[s] = parent'[s].alight
        /\ earliest_arrival[parent'[s].stop] <= parent'[s].board
    BY <1>5, SameTerms DEF Promise!Lowers
  <2>2. LegTo(s)' = Promise!LegTo(parent', s)
    BY DEF LegTo, Promise!LegTo
  <2>3. earliest_arrival'[parent'[s].stop] <= parent'[s].board
    BY <1>3, <1>4, <2>1 DEF Parents
  <2> QED
    BY <1>2, <2>1, <2>2, <2>3 DEF LegIsJustified
<1>6. CASE Promise!Keeps(s)
  <2>1. LegIsJustified(s)
    BY <1>6 DEF Promise!Keeps, LabelsAreJustified
  <2>2. parent'[s] = parent[s] /\ earliest_arrival'[s] = earliest_arrival[s]
    BY <1>6 DEF Promise!Keeps
  <2>3. LegTo(s)' = LegTo(s)
    BY <2>2 DEF LegTo
  <2>4. earliest_arrival'[parent'[s].stop] <= parent'[s].board
    BY <1>3, <1>4, <2>1, <2>2 DEF Parents, LegIsJustified
  <2> QED
    BY <1>2, <2>1, <2>2, <2>3, <2>4 DEF LegIsJustified
<1> QED
  BY <1>5, <1>6, StepLowersOrKeeps

(* A round only lowers labels below those it began with.                   *)
LEMMA StepOnlyFall ==
  ASSUME TypeOK, LabelsOnlyFall, RideIsCaught, Step
  PROVE  LabelsOnlyFall'
<1> SUFFICES ASSUME pc' \in {"route", "alight", "board", "search"}, NEW s \in Stops
             PROVE  earliest_arrival'[s] <= prev_arrival'[s]
  BY DEF LabelsOnlyFall
<1>1. /\ earliest_arrival[s] \in Time /\ earliest_arrival'[s] \in Time
      /\ earliest_arrival'[s] <= earliest_arrival[s]
  BY LabelsFall
<1>2. CASE BeginRound
  BY <1>1, <1>2 DEF BeginRound, labels
<1>3. CASE pc \in {"route", "alight", "board", "search"} /\ prev_arrival' = prev_arrival
  <2>1. earliest_arrival[s] <= prev_arrival[s] /\ prev_arrival[s] \in Time
    BY <1>3 DEF LabelsOnlyFall, TypeOK, RoundTypeOK
  <2> QED
    BY <1>1, <1>3, <2>1
<1> QED
  BY <1>2, <1>3
     DEF Step, InitialWalks, SkipRoute, ScanRoute, Alight, PassBy, BeginTripSearch,
         TripSearchStep, EndTripSearch, CollectAlighted, RelaxFootpaths, FootpathsDone,
         EndRound, ReplyUnreachable, BeginTrace, TraceLeg, ReplyItinerary, round

(* The bus stays caught while the scan stays on it.                        *)
LEMMA RideCarriedOn ==
  ASSUME TypeOK, RideIsCaught, Step,
         pc \in {"alight", "board", "search"},
         UNCHANGED <<graph, r_id, ride>>, p' \in {p, p + 1}
  PROVE  RideIsCaught'
<1> SUFFICES ASSUME current_trip' # NoTrip
             PROVE  /\ board_stop_id' \in Stops
                    /\ earliest_arrival'[board_stop_id'] <= current_board_time'
                    /\ \E i \in DOMAIN stopsOf(r_id)' :
                         /\ i < p'
                         /\ stopsOf(r_id)'[i] = board_stop_id'
                         /\ tripsOf(r_id)'[current_trip'][i].dep_sec = current_board_time'
  BY DEF RideIsCaught
<1>1. /\ current_trip' = current_trip /\ board_stop_id' = board_stop_id
      /\ current_board_time' = current_board_time
      /\ stopsOf(r_id)' = stopsOf(r_id) /\ tripsOf(r_id)' = tripsOf(r_id)
  BY DEF ride, stopsOf, tripsOf, routes
<1>2. /\ board_stop_id \in Stops
      /\ earliest_arrival[board_stop_id] <= current_board_time
      /\ current_board_time \in Time
  BY <1>1 DEF RideIsCaught, TypeOK, ScanTypeOK
<1>3. PICK i \in DOMAIN stopsOf(r_id) :
        /\ i < p
        /\ stopsOf(r_id)[i] = board_stop_id
        /\ tripsOf(r_id)[current_trip][i].dep_sec = current_board_time
  BY <1>1 DEF RideIsCaught
<1>4. i < p'
  BY <1>3, ScanFields
<1>5. earliest_arrival'[board_stop_id] <= current_board_time
  BY <1>2, LabelsFall
<1> QED
  BY <1>1, <1>2, <1>3, <1>4, <1>5

LEMMA StepRide ==
  ASSUME TypeOK, LabelsOnlyFall, RideIsCaught, SearchIsSound, Step
  PROVE  RideIsCaught'
<1>1. CASE pc' \notin {"alight", "board", "search"} \/ current_trip' = NoTrip
  BY <1>1 DEF RideIsCaught
<1>2. CASE ScanRoute
  BY <1>2 DEF ScanRoute, RideIsCaught
<1>3. CASE Alight \/ BeginTripSearch \/ TripSearchStep
  BY <1>3, RideCarriedOn DEF Alight, BeginTripSearch, TripSearchStep
<1>4. CASE PassBy /\ pc' = "alight"
  BY <1>4, RideCarriedOn, NextPositionTypes, ScanFields
     DEF PassBy, NextPosition
<1>5. CASE EndTripSearch /\ pc' = "alight"
  <2>1. r_id' = r_id /\ p' = p + 1 /\ graph' = graph
    BY <1>5 DEF EndTripSearch, NextPosition
  <2>2. CASE best_t = NoTrip
    BY <1>5, <2>1, <2>2, RideCarriedOn DEF EndTripSearch
  <2>3. CASE best_t # NoTrip
    <3>1. /\ current_trip' = best_t /\ board_stop_id' = Here
          /\ current_board_time' = DepartureHere(best_t)
          /\ earliest_arrival' = earliest_arrival
      BY <1>5, <2>3 DEF EndTripSearch, labels
    <3>2. Here \in Stops /\ p \in DOMAIN stopsOf(r_id) /\ p < p + 1
      BY <1>5, ScanFields DEF EndTripSearch
    <3>3. earliest_arrival[Here] <= DepartureHere(best_t)
      <4>1. /\ earliest_arrival[Here] <= prev_arrival[Here]
            /\ DepartureHere(best_t) >= prev_arrival[Here]
        BY <1>5, <2>3, <3>2 DEF EndTripSearch, LabelsOnlyFall, SearchIsSound, Catchable
      <4>2. best_t \in DOMAIN tripsOf(r_id)
        BY <1>5, <2>3 DEF EndTripSearch, TypeOK, ScanTypeOK
      <4>3. /\ earliest_arrival[Here] \in Time /\ prev_arrival[Here] \in Time
            /\ DepartureHere(best_t) \in Time
        BY <1>5, <3>2, <4>2, ScanFields
           DEF EndTripSearch, TypeOK, LabelTypeOK, RoundTypeOK
      <4> QED
        BY <4>1, <4>3
    <3>4. stopsOf(r_id)' = stopsOf(r_id) /\ tripsOf(r_id)' = tripsOf(r_id)
      BY <2>1 DEF stopsOf, tripsOf, routes
    <3> QED
      BY <2>1, <3>1, <3>2, <3>3, <3>4 DEF RideIsCaught, Here, DepartureHere
  <2> QED
    BY <2>2, <2>3
<1> QED
  BY <1>1, <1>2, <1>3, <1>4, <1>5
     DEF Step, InitialWalks, BeginRound, SkipRoute, PassBy, EndTripSearch, CollectAlighted,
         RelaxFootpaths, FootpathsDone, EndRound, ReplyUnreachable, BeginTrace, TraceLeg,
         ReplyItinerary, NextPosition

(* What the binary search has found can be caught.                         *)
LEMMA StepSearch ==
  ASSUME TypeOK, SearchIsSound, Step
  PROVE  SearchIsSound'
<1>1. CASE pc' # "search" \/ best_t' = NoTrip
  BY <1>1 DEF SearchIsSound
<1>2. CASE TripSearchStep
  <2>1. \A t : Catchable(t)' <=> Catchable(t)
    BY <1>2 DEF TripSearchStep, Catchable, DepartureHere, Here, tripsOf, stopsOf, routes, round
  <2> QED
    BY <1>2, <2>1 DEF TripSearchStep, SearchIsSound
<1> QED
  BY <1>1, <1>2
     DEF Step, InitialWalks, BeginRound, SkipRoute, ScanRoute, Alight, PassBy,
         BeginTripSearch, EndTripSearch, CollectAlighted, RelaxFootpaths, FootpathsDone,
         EndRound, ReplyUnreachable, BeginTrace, TraceLeg, ReplyItinerary, NextPosition

-----------------------------------------------------------------------------
(* A justified leg in front of a rideable path is a rideable path.         *)
LEMMA RideableOneMoreLeg ==
  ASSUME TypeOK, NEW legs \in Seq(Leg), NEW here \in Stops, Rideable(legs, here),
         LegIsJustified(here)
  PROVE  Rideable(<<LegTo(here)>> \o legs, parent[here].stop)
<1> DEFINE leg == LegTo(here)
           longer == <<leg>> \o legs
<1>1. /\ IsLeg(graph, leg)
      /\ leg.board_stop = parent[here].stop /\ leg.alight_stop = here
      /\ leg.alight_time = earliest_arrival[here]
      /\ earliest_arrival[leg.board_stop] <= leg.board_time
  BY DEF LegIsJustified, LegTo
<1> HIDE DEF leg
<1>2. /\ Len(longer) = Len(legs) + 1 /\ Len(legs) \in Nat
      /\ DOMAIN longer = 1 .. Len(legs) + 1 /\ DOMAIN legs = 1 .. Len(legs)
      /\ longer[1] = leg
      /\ \A n \in 1 .. Len(legs) : longer[n + 1] = legs[n]
  OBVIOUS
<1> HIDE DEF longer
<1>3. \A n \in DOMAIN longer : IsLeg(graph, longer[n])
  <2> SUFFICES ASSUME NEW n \in DOMAIN longer, n # 1 PROVE IsLeg(graph, longer[n])
    BY <1>1, <1>2
  <2>1. n - 1 \in DOMAIN legs /\ longer[n] = legs[n - 1]
    BY <1>2
  <2> QED
    BY <2>1 DEF Rideable
<1>4. ASSUME NEW n \in 1 .. Len(longer) - 1
      PROVE  /\ longer[n].alight_stop = longer[n + 1].board_stop
             /\ longer[n].alight_time <= longer[n + 1].board_time
  <2>1. n \in 1 .. Len(legs) /\ longer[n + 1] = legs[n]
    BY <1>2
  <2>2. CASE n = 1
    <3>1. legs # <<>>
      BY <1>2, <2>1
    <3>2. legs[1].board_stop = here /\ earliest_arrival[here] <= legs[1].board_time
      BY <3>1 DEF Rideable
    <3> QED
      BY <1>1, <1>2, <2>1, <2>2, <3>2
  <2>3. CASE n # 1
    <3>1. n - 1 \in 1 .. Len(legs) - 1 /\ longer[n] = legs[n - 1] /\ (n - 1) + 1 = n
      BY <1>2, <2>1, <2>3
    <3>2. /\ legs[n - 1].alight_stop = legs[(n - 1) + 1].board_stop
          /\ legs[n - 1].alight_time <= legs[(n - 1) + 1].board_time
      BY <3>1 DEF Rideable
    <3> QED
      BY <2>1, <3>1, <3>2
  <2> QED
    BY <2>2, <2>3
<1>5. /\ longer # <<>>
      /\ longer[1].board_stop = parent[here].stop
      /\ earliest_arrival[parent[here].stop] <= longer[1].board_time
  BY <1>1, <1>2
<1>6. /\ longer[Len(longer)].alight_stop = target_stop
      /\ longer[Len(longer)].alight_time = earliest_arrival[target_stop]
  <2>1. CASE legs = <<>>
    BY <1>1, <1>2, <2>1 DEF Rideable
  <2>2. CASE legs # <<>>
    <3>1. Len(legs) \in 1 .. Len(legs) /\ longer[Len(longer)] = legs[Len(legs)]
      BY <1>2, <2>2
    <3> QED
      BY <2>2, <3>1 DEF Rideable
  <2> QED
    BY <2>1, <2>2
<1> QED
  BY <1>3, <1>4, <1>5, <1>6, Zenon DEF Rideable, longer, leg

(* Whether a path can be ridden is a matter of the graph, the labels and   *)
(* the target.                                                             *)
LEMMA RideableStays ==
  ASSUME UNCHANGED <<graph, earliest_arrival, target_stop>>, NEW legs, NEW here,
         Rideable(legs, here)
  PROVE  /\ \A n \in DOMAIN legs : IsLeg(graph', legs[n])
         /\ \A n \in 1 .. Len(legs) - 1 :
              /\ legs[n].alight_stop = legs[n + 1].board_stop
              /\ legs[n].alight_time <= legs[n + 1].board_time
         /\ IF legs = <<>> THEN here = target_stop'
            ELSE /\ legs[1].board_stop = here
                 /\ earliest_arrival'[here] <= legs[1].board_time
                 /\ legs[Len(legs)].alight_stop = target_stop'
                 /\ legs[Len(legs)].alight_time = earliest_arrival'[target_stop']
BY DEF Rideable

LEMMA StepPath ==
  ASSUME TypeOK, LabelsAreJustified, PathIsRideable, Step
  PROVE  PathIsRideable'
<1>1. CASE pc' # "trace"
  BY <1>1 DEF PathIsRideable
<1>2. CASE BeginTrace
  BY <1>2 DEF BeginTrace, PathIsRideable, Rideable, request
<1>3. CASE TraceLeg
  <2>1. /\ curr \in Stops /\ path \in Seq(Leg) /\ Rideable(path, curr)
        /\ parent[curr].stop # INF
    BY <1>3 DEF TraceLeg, TraceGoesOn, TypeOK, TraceTypeOK, PathIsRideable
  <2>2. LegIsJustified(curr)
    BY <2>1 DEF LabelsAreJustified, NoParent
  <2>3. Rideable(path', curr')
    BY <1>3, <2>1, <2>2, RideableOneMoreLeg DEF TraceLeg
  <2>4. UNCHANGED <<graph, earliest_arrival, target_stop>>
    BY <1>3 DEF TraceLeg, labels, request
  <2> QED
    BY <2>3, <2>4, RideableStays, Zenon DEF PathIsRideable, Rideable
<1> QED
  BY <1>1, <1>2, <1>3
     DEF Step, InitialWalks, BeginRound, SkipRoute, ScanRoute, Alight, PassBy,
         BeginTripSearch, TripSearchStep, EndTripSearch, CollectAlighted, RelaxFootpaths,
         FootpathsDone, EndRound, ReplyUnreachable, ReplyItinerary, NextPosition

LEMMA StepItinerary ==
  ASSUME TypeOK, PathIsRideable, Step
  PROVE  ItineraryIsRideable'
<1>1. CASE pc' # "done" \/ ~response'.success
  BY <1>1 DEF ItineraryIsRideable, Answered
<1>2. CASE ReplyItinerary
  <2>1. Rideable(path, curr) /\ curr \in Stops
    BY <1>2 DEF ReplyItinerary, PathIsRideable, TypeOK, TraceTypeOK
  <2>2. response'.itinerary = path
    BY <1>2 DEF ReplyItinerary
  <2>3. UNCHANGED <<graph, earliest_arrival, target_stop>>
    BY <1>2 DEF ReplyItinerary, labels, request
  <2> QED
    BY <2>1, <2>2, <2>3, RideableStays, Zenon DEF ItineraryIsRideable, Rideable
<1> QED
  BY <1>1, <1>2
     DEF Step, InitialWalks, BeginRound, SkipRoute, ScanRoute, Alight, PassBy,
         BeginTripSearch, TripSearchStep, EndTripSearch, CollectAlighted, RelaxFootpaths,
         FootpathsDone, EndRound, ReplyUnreachable, NoResponse, BeginTrace, TraceLeg,
         NextPosition

-----------------------------------------------------------------------------
(* A new request has nothing to justify.                                   *)
LEMMA RequestSearch ==
  ASSUME NEW s \in StopIds, NEW t \in StopIds, NEW d \in Departures,
         RejectRequest(s, t, d) \/ AnswerHere(s, t, d) \/ StartSearch(s, t, d)
  PROVE  SearchInvariant' /\ ItineraryIsRideable'
<1>1. parent' = [x \in Stops |-> NoParent] /\ current_trip' = NoTrip /\ pc' \in {"done", "init_walks"}
  BY DEF RejectRequest, AnswerHere, StartSearch, Receive
<1>2. SearchInvariant'
  BY <1>1 DEF SearchInvariant, LabelsAreJustified, LabelsOnlyFall, RideIsCaught,
     SearchIsSound, PathIsRideable
<1>3. ~Answered'
  BY DEF RejectRequest, AnswerHere, StartSearch, Receive, NoResponse, Answered
<1> QED
  BY <1>2, <1>3 DEF ItineraryIsRideable

(* The inductive invariant.                                                *)
Inv == TypeOK /\ SearchInvariant /\ ItineraryIsRideable

LEMMA InitInv == Init => Inv
<1> SUFFICES ASSUME Init PROVE Inv
  OBVIOUS
<1>1. SearchInvariant
  BY DEF Init, SearchInvariant, LabelsAreJustified, LabelsOnlyFall, RideIsCaught,
     SearchIsSound, PathIsRideable
<1>2. ItineraryIsRideable
  BY DEF Init, ItineraryIsRideable, Answered
<1> QED
  BY <1>1, <1>2, InitTypeOK DEF Inv

LEMMA InvStep == Inv /\ [Next]_vars => Inv'
<1> SUFFICES ASSUME Inv, [Next]_vars PROVE Inv'
  OBVIOUS
<1>1. TypeOK'
  BY TypeOKStep DEF Inv, SearchInvariant
<1>2. CASE Step
  <2>1. ItineraryIsRideable'
    BY <1>2, StepItinerary DEF Inv, SearchInvariant
  <2>2. LabelsAreJustified' /\ PathIsRideable'
    BY <1>2, StepJustified, StepPath DEF Inv, SearchInvariant
  <2>3. LabelsOnlyFall' /\ RideIsCaught' /\ SearchIsSound'
    BY <1>2, StepOnlyFall, StepRide, StepSearch DEF Inv, SearchInvariant
  <2> QED
    BY <1>1, <2>1, <2>2, <2>3 DEF Inv, SearchInvariant
<1>3. CASE Request
  BY <1>1, <1>3, RequestSearch DEF Inv, Request
<1>4. CASE UNCHANGED vars
  <2>1. SearchInvariant'
    BY <1>4 DEF Inv, SearchInvariant, vars, request, labels, round, ride, search, trace,
       LabelsAreJustified, LegIsJustified, LegTo, LabelsOnlyFall, RideIsCaught,
       SearchIsSound, Catchable, DepartureHere, Here, PathIsRideable, Rideable,
       stopsOf, tripsOf, routes
  <2>2. ItineraryIsRideable'
    BY <1>4 DEF Inv, vars, request, labels, ItineraryIsRideable, Answered, Rideable
  <2> QED
    BY <1>1, <2>1, <2>2 DEF Inv
<1> QED
  BY <1>2, <1>3, <1>4 DEF Next

LEMMA Invariant == Spec => []Inv
<1> QED
  BY InitInv, InvStep, PTL DEF Spec

-----------------------------------------------------------------------------
(* Whatever the timetable holds and whatever is asked, every array index   *)
(* of the search is in range, every time is a uint32_t and every label     *)
(* that is kept is that of a stop (raptor_router.cpp:13-216).              *)
THEOREM TypeCorrect == Spec => []TypeOK
<1>1. Inv => TypeOK
  BY DEF Inv
<1> QED
  BY <1>1, Invariant, PTL

(* In every state of the search, every recorded leg is one of the          *)
(* timetable, gives its stop's label and can be caught by whoever is at    *)
(* its boarding stop, the bus the scan is on has been caught in time, and  *)
(* the part of the itinerary traced so far can be ridden.                  *)
THEOREM SearchIsJustified == Spec => []SearchInvariant
<1>1. Inv => SearchInvariant
  BY DEF Inv
<1> QED
  BY <1>1, Invariant, PTL

(* The itinerary of every successful reply is a connection a passenger can *)
(* make, leg by leg, up to the target at the time the search found, for    *)
(* every timetable, delayed or not (reconstruct_path,                      *)
(* raptor_router.cpp:187-216).                                             *)
THEOREM RepliesCanBeRidden == Spec => []ItineraryIsRideable
<1>1. Inv => ItineraryIsRideable
  BY DEF Inv
<1> QED
  BY <1>1, Invariant, PTL

(* The rounds, scans and walks are a label search: each step starts one,   *)
(* lowers labels by legs that can be caught, or does not touch the labels. *)
THEOREM RouterImplementsLabelSearch == Spec => KeepsPromise
<1>1. Init => Promise!Init
  BY SameTerms DEF Init, Promise!Init, Promise!Unreached, Promise!NoParents, NoParent,
     Promise!NoParent
<1>2. ASSUME Inv, Step PROVE [Promise!Next]_(Promise!vars)
  <2>1. \A s \in Stops : Promise!Lowers(s) \/ Promise!Keeps(s)
    BY <1>2, StepLowersOrKeeps DEF Inv, SearchInvariant
  <2>2. earliest_arrival' \in [Stops -> Time] /\ DOMAIN parent' = Stops
    BY <1>2, StepLabelTypes DEF Inv, LabelTypeOK
  <2>3. UNCHANGED <<graph, source_stop, departure_time>>
    BY <1>2, Zenon DEF Step, InitialWalks, BeginRound, SkipRoute, ScanRoute, Alight, PassBy,
       BeginTripSearch, TripSearchStep, EndTripSearch, CollectAlighted, RelaxFootpaths,
       FootpathsDone, EndRound, ReplyUnreachable, BeginTrace, TraceLeg, ReplyItinerary,
       request
  <2>4. Promise!Improve
    BY <2>1, <2>2, <2>3, SameTerms DEF Promise!Improve
  <2> QED
    BY <2>4 DEF Promise!Next
<1>3. ASSUME NEW s \in StopIds, NEW t \in StopIds, NEW d \in Departures,
             RejectRequest(s, t, d) \/ AnswerHere(s, t, d)
      PROVE  Promise!NoSearch
  BY <1>3, SameTerms DEF RejectRequest, AnswerHere, Receive, StopIds, Promise!NoSearch,
     Promise!Unreached, Promise!NoParents
<1>4. ASSUME NEW s \in StopIds, NEW t \in StopIds, NEW d \in Departures,
             StartSearch(s, t, d)
      PROVE  Promise!NewSearch
  BY <1>4, SameTerms DEF StartSearch, Receive, Promise!NewSearch,
     Promise!Unreached, Promise!NoParents
<1>5. UNCHANGED vars => UNCHANGED Promise!vars
  BY DEF vars, request, labels, Promise!vars
<1>6. Inv /\ [Next]_vars => [Promise!Next]_(Promise!vars)
  BY <1>2, <1>3, <1>4, <1>5 DEF Next, Request, Promise!Next, vars, request, labels, Promise!vars
<1> QED
  BY <1>1, <1>6, Invariant, PTL DEF Spec, KeepsPromise, Promise!Spec
-----------------------------------------------------------------------------
(* The binary search over the trips of a route.  Before low nothing can be *)
(* caught, and high is the end of the trips considered, until one is found *)
(* that can be caught, and then the trip before that.                      *)
SearchBracket ==
  pc = "search" /\ NoOvertaking(graph) =>
    /\ \A t \in DOMAIN tripsOf(r_id) : t < low => ~Catchable(t)
    /\ best_t # NoTrip => high = best_t - 1
    /\ best_t = NoTrip /\ current_trip = NoTrip => high = Len(tripsOf(r_id))
    /\ best_t = NoTrip /\ current_trip # NoTrip => high = current_trip - 1

LEMMA TripsInOrder ==
  ASSUME TypeOK, pc = "search", NoOvertaking(graph),
         NEW t \in DOMAIN tripsOf(r_id), NEW u \in DOMAIN tripsOf(r_id), t <= u
  PROVE  DepartureHere(t) <= DepartureHere(u)
<1>1. /\ r_id \in 1 .. Len(graph.routes) /\ p \in DOMAIN graph.routes[r_id].stops
      /\ t \in DOMAIN graph.routes[r_id].trips /\ u \in DOMAIN graph.routes[r_id].trips
      /\ t \in Nat /\ u \in Nat
      /\ DepartureHere(t) \in Time
  <2>1. r_id \in 1 .. Len(graph.routes) /\ p \in DOMAIN graph.routes[r_id].stops
    BY DEF TypeOK, ScanTypeOK, routes, stopsOf
  <2>2. t \in DOMAIN graph.routes[r_id].trips /\ u \in DOMAIN graph.routes[r_id].trips
    BY DEF routes, tripsOf
  <2>3. t \in Nat /\ u \in Nat /\ DepartureHere(t) \in Time
    BY ScanFields
  <2> QED
    BY <2>1, <2>2, <2>3
<1>2. CASE t = u
  BY <1>1, <1>2
<1>3. CASE t < u
  <2>1. graph.routes[r_id].trips[t][p].dep_sec <= graph.routes[r_id].trips[u][p].dep_sec
    BY <1>1, <1>3 DEF NoOvertaking
  <2> QED
    BY <2>1 DEF DepartureHere, tripsOf, routes
<1> QED
  BY <1>1, <1>2, <1>3

LEMMA StepBracket ==
  ASSUME TypeOK, SearchBracket, Step
  PROVE  SearchBracket'
<1>1. CASE BeginTripSearch
  <2>1. /\ low' = 1 /\ best_t' = NoTrip
        /\ high' = IF current_trip = NoTrip THEN Len(tripsOf(r_id)) ELSE current_trip - 1
        /\ UNCHANGED <<graph, r_id, current_trip>>
    BY <1>1 DEF BeginTripSearch, ride
  <2>2. tripsOf(r_id)' = tripsOf(r_id) /\ DOMAIN tripsOf(r_id) = 1 .. Len(tripsOf(r_id))
    BY <1>1, <2>1, ScanFields DEF BeginTripSearch, tripsOf, routes
  <2>3. \A t \in DOMAIN tripsOf(r_id)' : ~(t < low')
    BY <2>1, <2>2
  <2> QED
    BY <2>1, <2>2, <2>3 DEF SearchBracket
<1>2. CASE TripSearchStep
  <2> SUFFICES ASSUME NoOvertaking(graph)
               PROVE  SearchBracket'
    BY <1>2 DEF SearchBracket, TripSearchStep
  <2>1. /\ pc = "search" /\ low <= high
        /\ UNCHANGED <<graph, r_id, p, current_trip, prev_arrival>>
        /\ \/ Catchable(Mid) /\ best_t' = Mid /\ high' = Mid - 1 /\ low' = low
           \/ ~Catchable(Mid) /\ low' = Mid + 1 /\ high' = high /\ best_t' = best_t
    BY <1>2 DEF TripSearchStep, ride, round
  <2>2. /\ tripsOf(r_id)' = tripsOf(r_id)
        /\ \A t : Catchable(t)' <=> Catchable(t)
    BY <2>1 DEF tripsOf, routes, Catchable, DepartureHere, Here, stopsOf
  <2>3. /\ low \in Nat \ {0} /\ high \in 0 .. Len(tripsOf(r_id))
        /\ DOMAIN tripsOf(r_id) = 1 .. Len(tripsOf(r_id)) /\ Len(tripsOf(r_id)) \in Nat
    BY <2>1, ScanFields DEF TypeOK, ScanTypeOK
  <2>4. Mid \in DOMAIN tripsOf(r_id) /\ Mid \in Nat /\ Mid # 0
    BY <2>1, <2>3 DEF Mid
  <2>5. /\ \A t \in DOMAIN tripsOf(r_id) : t < low => ~Catchable(t)
        /\ best_t # NoTrip => high = best_t - 1
        /\ best_t = NoTrip /\ current_trip = NoTrip => high = Len(tripsOf(r_id))
        /\ best_t = NoTrip /\ current_trip # NoTrip => high = current_trip - 1
    BY <2>1 DEF SearchBracket
  <2>6. CASE Catchable(Mid)
    <3>1. best_t' = Mid /\ high' = Mid - 1 /\ low' = low
      BY <2>1, <2>6
    <3> QED
      BY <2>2, <2>4, <2>5, <3>1 DEF SearchBracket
  <2>7. CASE ~Catchable(Mid)
    <3>1. low' = Mid + 1 /\ high' = high /\ best_t' = best_t
      BY <2>1, <2>7
    <3>2. ASSUME NEW t \in DOMAIN tripsOf(r_id), t < Mid + 1
          PROVE  ~Catchable(t)
      <4>1. t \in Nat /\ t <= Mid
        BY <2>3, <2>4, <3>2
      <4>2. DepartureHere(t) <= DepartureHere(Mid)
        BY <2>1, <2>4, <4>1, TripsInOrder
      <4>3. /\ DepartureHere(t) \in Time /\ DepartureHere(Mid) \in Time
            /\ prev_arrival[Here] \in Time
        BY <2>1, <2>4, ScanFields DEF TypeOK, RoundTypeOK
      <4> QED
        BY <2>7, <4>2, <4>3 DEF Catchable
    <3> QED
      BY <2>1, <2>2, <2>5, <3>1, <3>2 DEF SearchBracket
  <2> QED
    BY <2>6, <2>7
<1>3. CASE pc' # "search"
  BY <1>3 DEF SearchBracket
<1> QED
  BY <1>1, <1>2, <1>3
     DEF Step, InitialWalks, BeginRound, SkipRoute, ScanRoute, Alight, PassBy, EndTripSearch,
         CollectAlighted, RelaxFootpaths, FootpathsDone, EndRound, ReplyUnreachable, BeginTrace,
         TraceLeg, ReplyItinerary, NextPosition

(* The trip the search ends at comes before every one that can be caught.  *)
LEMMA BracketCloses ==
  ASSUME TypeOK, SearchBracket, NoOvertaking(graph), pc = "search", low > high,
         NEW t \in DOMAIN tripsOf(r_id), Catchable(t)
  PROVE  TripAfterSearch \in DOMAIN tripsOf(r_id) /\ TripAfterSearch <= t
<1>1. /\ low \in Nat /\ high \in Nat
      /\ best_t \in 0 .. Len(tripsOf(r_id)) /\ current_trip \in 0 .. Len(tripsOf(r_id))
      /\ DOMAIN tripsOf(r_id) = 1 .. Len(tripsOf(r_id)) /\ Len(tripsOf(r_id)) \in Nat
  BY SMTT(30), ScanFields DEF TypeOK, ScanTypeOK
<1>2. t \in Nat /\ t <= Len(tripsOf(r_id))
  BY <1>1
<1>3. /\ ~(t < low)
      /\ best_t # NoTrip => high = best_t - 1
      /\ best_t = NoTrip /\ current_trip = NoTrip => high = Len(tripsOf(r_id))
      /\ best_t = NoTrip /\ current_trip # NoTrip => high = current_trip - 1
  BY DEF SearchBracket
<1> DEFINE n == Len(tripsOf(r_id))
<1> HIDE DEF n
<1>4. /\ low \in Nat /\ high \in Nat /\ n \in Nat /\ low > high /\ t <= n
      /\ best_t \in 0 .. n /\ current_trip \in 0 .. n
  BY <1>1, <1>2 DEF n
<1>5. TripAfterSearch \in 1 .. n /\ TripAfterSearch <= t
  BY <1>2, <1>3, <1>4 DEF TripAfterSearch, n
<1> QED
  BY <1>1, <1>5 DEF n

LEMMA BracketClosed ==
  ASSUME TypeOK, SearchBracket
  PROVE  FifoCatchesEarliestTrip
<1> SUFFICES ASSUME NoOvertaking(graph), pc = "search", low > high,
                    NEW t \in DOMAIN tripsOf(r_id), Catchable(t)
             PROVE  /\ TripAfterSearch # NoTrip
                    /\ DepartureHere(TripAfterSearch) <= DepartureHere(t)
  BY DEF FifoCatchesEarliestTrip, CatchesEarliestTrip
<1>1. TripAfterSearch \in DOMAIN tripsOf(r_id) /\ TripAfterSearch <= t
  BY BracketCloses
<1>2. DepartureHere(TripAfterSearch) <= DepartureHere(t)
  BY <1>1, TripsInOrder
<1>3. TripAfterSearch # NoTrip
  BY <1>1, ScanFields
<1> QED
  BY <1>2, <1>3

LEMMA BracketInvariant == Spec => []SearchBracket
<1>1. Init => SearchBracket
  BY DEF Init, SearchBracket
<1>2. TypeOK /\ SearchBracket /\ [Next]_vars => SearchBracket'
  <2> SUFFICES ASSUME TypeOK, SearchBracket, [Next]_vars PROVE SearchBracket'
    OBVIOUS
  <2>1. CASE Step
    BY <2>1, StepBracket
  <2>2. ASSUME NEW s \in StopIds, NEW t \in StopIds, NEW d \in Departures,
               RejectRequest(s, t, d) \/ AnswerHere(s, t, d) \/ StartSearch(s, t, d)
        PROVE  SearchBracket'
    BY <2>2 DEF RejectRequest, AnswerHere, StartSearch, SearchBracket
  <2>3. CASE UNCHANGED vars
    BY <2>3 DEF vars, round, ride, search, SearchBracket, tripsOf, routes, Catchable,
                DepartureHere, Here, stopsOf
  <2> QED
    BY <2>1, <2>2, <2>3 DEF Next, Request
<1> QED
  BY <1>1, <1>2, TypeCorrect, PTL DEF Spec

(* On routes whose trips do not overtake each other the binary search ends *)
(* at the earliest trip that can be caught at the stop, whatever their     *)
(* number and whichever trip the scan was on before                        *)
(* (raptor_router.cpp:113-136).                                            *)
THEOREM EarliestTripIsFound == Spec => []FifoCatchesEarliestTrip
BY BracketInvariant, BracketClosed, TypeCorrect, PTL

-----------------------------------------------------------------------------
(***************************************************************************)
(* Timetables in which time runs forward.                                  *)
(***************************************************************************)
Searching == pc \notin {"idle", "done"}

Reached(s) == earliest_arrival[s] # INF

(* A set of stops whose recorded legs all come from the set itself: the    *)
(* walk back from one of its stops would never leave it.                   *)
Circular(C) == \A s \in C : parent[s] # NoParent /\ parent[s].stop \in C

LegsLeadToTheSource ==
  /\ source_stop # target_stop
  /\ earliest_arrival[source_stop] = departure_time
  /\ parent[source_stop] = NoParent
  /\ \A s \in Stops : /\ departure_time <= earliest_arrival[s]
                      /\ s # source_stop /\ Reached(s) => parent[s] # NoParent
                      /\ parent[s] # NoParent => parent[s].board <= parent[s].alight
  /\ \A C \in SUBSET Stops : Circular(C) => C = {}

(* No walk out of u leads past the end of time.                            *)
WalksEnd(u) ==
  \A v \in DOMAIN graph.walk[u] : earliest_arrival[u] + graph.walk[u][v] < INF

WalkersArrived ==
  /\ pc \in {"route", "alight", "board", "search", "walk"} =>
       \A s \in next_marked : parent[s] # NoParent
  /\ pc = "walk" => \A u \in bus_alighted_stops : WalksEnd(u)

(* The path traced so far: whom it has visited, and where it goes on.      *)
Trail ==
  pc = "trace" =>
    /\ Reached(curr)
    /\ source_stop \notin visited
    /\ \A s \in visited : parent[s] # NoParent /\ parent[s].stop \in visited \cup {curr}
    /\ visited = {path[n].alight_stop : n \in DOMAIN path}
    /\ Len(path) = Cardinality(visited)
    /\ \A m, n \in DOMAIN path : m # n => path[m].alight_stop # path[n].alight_stop

ForwardSearch ==
  ForwardTimetable /\ Searching => LegsLeadToTheSource /\ WalkersArrived /\ Trail

-----------------------------------------------------------------------------
(* What a step of the search leaves alone.                                 *)
LEMMA StepKeepsRequest ==
  ASSUME Step
  PROVE  UNCHANGED <<graph, source_stop, target_stop, departure_time>>
<1>1. UNCHANGED <<graph, request>>
  BY Zenon DEF Step, InitialWalks, BeginRound, SkipRoute, ScanRoute, Alight, PassBy,
     BeginTripSearch, TripSearchStep, EndTripSearch, CollectAlighted, RelaxFootpaths,
     FootpathsDone, EndRound, ReplyUnreachable, BeginTrace, TraceLeg, ReplyItinerary
<1> QED
  BY <1>1 DEF request

(* No sum of a label and a walk is ever cut to its low bits.               *)
LEMMA WalkDoesNotWrap ==
  ASSUME TypeOK, NEW u \in Stops, NEW v \in DOMAIN graph.walk[u], WalksEnd(u)
  PROVE  /\ v \in Stops /\ v # u
         /\ graph.walk[u][v] \in Nat /\ earliest_arrival[u] \in Nat
         /\ WalkArrival(u, v) = earliest_arrival[u] + graph.walk[u][v]
         /\ WalkArrival(u, v) < INF
<1>1. v \in Stops /\ v # u /\ graph.walk[u][v] \in Nat
  BY RouteFields DEF TypeOK
<1>2. earliest_arrival[u] \in Nat
  BY DEF TypeOK, LabelTypeOK
<1> DEFINE sum == earliest_arrival[u] + graph.walk[u][v]
<1>3. sum \in Nat /\ sum < W - 1
  BY <1>1, <1>2 DEF WalksEnd
<1> HIDE DEF sum
<1>4. sum % W = sum
  BY <1>3
<1> QED
  BY <1>1, <1>2, <1>3, <1>4 DEF WalkArrival, sum

(* The search walks only from where the end of time is far.                *)
LEMMA SourceWalksEnd ==
  ASSUME TypeOK, ForwardTimetable, LegsLeadToTheSource, source_stop \in Stops
  PROVE  WalksEnd(source_stop)
BY DEF ForwardTimetable, TimesFit, LegsLeadToTheSource, WalksEnd

LEMMA BusArrivalWalksEnd ==
  ASSUME TypeOK, ForwardTimetable, LabelsAreJustified, NEW u \in Stops,
         parent[u] # NoParent, parent[u].route # FOOTPATH_ROUTE_ID
  PROVE  WalksEnd(u)
<1> DEFINE leg == LegTo(u)
<1>1. leg.route_id = parent[u].route /\ leg.alight_time = parent[u].alight
  BY DEF LegTo
<1>2. IsLeg(graph, leg) /\ earliest_arrival[u] = parent[u].alight
  BY DEF LabelsAreJustified, LegIsJustified
<1> HIDE DEF leg
<1>3. IsBusLeg(graph, leg)
  BY <1>1, <1>2 DEF IsLeg, IsWalkLeg
<1>4. PICK t \in DOMAIN graph.routes[leg.route_id].trips,
            j \in DOMAIN graph.routes[leg.route_id].stops :
        graph.routes[leg.route_id].trips[t][j].arr_sec = leg.alight_time
  BY <1>3 DEF IsBusLeg
<1>5. leg.route_id \in 1 .. Len(graph.routes)
  BY <1>3 DEF IsBusLeg
<1> QED
  BY <1>1, <1>2, <1>4, <1>5 DEF ForwardTimetable, TimesFit, WalksEnd

(* Whoever walks in a step has arrived and has time to.                    *)
LEMMA WalkersOfAStep ==
  ASSUME TypeOK, ForwardTimetable, LegsLeadToTheSource, WalkersArrived,
         InitialWalks \/ RelaxFootpaths
  PROVE  \E u \in Stops : WalkFrom(u) /\ WalksEnd(u)
<1>1. CASE InitialWalks
  <2>1. source_stop \in Stops /\ WalkFrom(source_stop)
    BY <1>1 DEF InitialWalks, TypeOK, RequestTypeOK
  <2> QED
    BY <2>1, SourceWalksEnd
<1>2. CASE RelaxFootpaths
  <2>1. PICK u \in bus_alighted_stops : WalkFrom(u)
    BY <1>2 DEF RelaxFootpaths
  <2>2. u \in Stops /\ WalksEnd(u)
    BY <1>2 DEF RelaxFootpaths, WalkersArrived, TypeOK, RoundTypeOK
  <2> QED
    BY <2>1, <2>2
<1> QED
  BY <1>1, <1>2

-----------------------------------------------------------------------------
(* A leg that lowers a label arrives no earlier than it leaves.            *)
LEMMA NewLegRunsForward ==
  ASSUME TypeOK, RideIsCaught, ForwardTimetable, LegsLeadToTheSource, WalkersArrived,
         Step, NEW s \in Stops, parent'[s] # parent[s]
  PROVE  parent'[s].board <= parent'[s].alight
<1>1. CASE InitialWalks \/ RelaxFootpaths
  <2>1. PICK u \in Stops : WalkFrom(u) /\ WalksEnd(u)
    BY <1>1, WalkersOfAStep
  <2>2. s \in WalkImproves(u)
    <3>1. parent'[s] = IF s \in WalkImproves(u)
                         THEN [stop |-> u, route |-> FOOTPATH_ROUTE_ID,
                               board |-> earliest_arrival[u], alight |-> WalkArrival(u, s)]
                         ELSE parent[s]
      BY <2>1 DEF WalkFrom
    <3> QED
      BY <3>1
  <2>3. /\ parent'[s].board = earliest_arrival[u]
        /\ parent'[s].alight = WalkArrival(u, s)
        /\ s \in DOMAIN graph.walk[u]
    BY <2>1, <2>2 DEF WalkFrom, WalkImproves
  <2> QED
    BY <2>1, <2>3, WalkDoesNotWrap
<1>2. CASE Alight
  <2>1. /\ current_trip # NoTrip
        /\ parent' = [parent EXCEPT ![Here] =
                    [stop |-> board_stop_id, route |-> r_id,
                     board |-> current_board_time, alight |-> ArrivalHere]]
    BY <1>2 DEF Alight, labels
  <2>2. parent \in [Stops -> Parents]
    BY DEF TypeOK, LabelTypeOK
  <2>3. parent'[s].board = current_board_time /\ parent'[s].alight = ArrivalHere
    BY <2>1, <2>2
  <2>4. PICK i \in DOMAIN stopsOf(r_id) :
          i < p /\ tripsOf(r_id)[current_trip][i].dep_sec = current_board_time
    BY <1>2, <2>1 DEF Alight, RideIsCaught
  <2>5. /\ r_id \in 1 .. Len(routes) /\ p \in DOMAIN stopsOf(r_id)
        /\ current_trip \in DOMAIN tripsOf(r_id)
    BY <1>2, <2>1, ScanFields DEF Alight
  <2>6. TripRunsForward(routes[r_id], current_trip)
    BY <2>5 DEF ForwardTimetable, RunsForward, routes, tripsOf
  <2> QED
    BY <2>3, <2>4, <2>5, <2>6 DEF TripRunsForward, ArrivalHere, stopsOf, tripsOf
<1>3. CASE UNCHANGED labels
  BY <1>3 DEF labels
<1> QED
  BY <1>1, <1>2, <1>3, Zenon
     DEF Step, BeginRound, SkipRoute, ScanRoute, PassBy, BeginTripSearch, TripSearchStep,
         EndTripSearch, CollectAlighted, FootpathsDone, EndRound, ReplyUnreachable,
         BeginTrace, TraceLeg, ReplyItinerary

(* The legs of a step's labels, old and new, run forward.                  *)
LEMMA LegsRunForward ==
  ASSUME TypeOK, RideIsCaught, ForwardTimetable, LegsLeadToTheSource, WalkersArrived,
         Step, NEW s \in Stops, parent'[s] # NoParent
  PROVE  parent'[s].board <= parent'[s].alight
BY NewLegRunsForward DEF LegsLeadToTheSource

(* A stop with a recorded leg, after a step: where the leg comes from, and *)
(* that the labels along it do not fall.                                   *)
LEMMA LegAfterStep ==
  ASSUME TypeOK, LabelsAreJustified, RideIsCaught, ForwardTimetable,
         LegsLeadToTheSource, WalkersArrived, Step, NEW s \in Stops, parent'[s] # NoParent
  PROVE  /\ parent'[s].stop \in Stops
         /\ earliest_arrival[parent'[s].stop] <= earliest_arrival'[s]
         /\ \/ Promise!Lowers(s)
            \/ Promise!Keeps(s)
<1>1. parent'[s].board <= parent'[s].alight
  BY LegsRunForward
<1>2. Promise!Lowers(s) \/ Promise!Keeps(s)
  BY StepLowersOrKeeps
<1>3. /\ parent'[s].stop \in Stops
      /\ earliest_arrival[parent'[s].stop] <= parent'[s].board
      /\ earliest_arrival'[s] = parent'[s].alight
  <2>1. CASE Promise!Lowers(s)
    BY <2>1, SameTerms DEF Promise!Lowers
  <2>2. CASE Promise!Keeps(s)
    BY <2>2 DEF Promise!Keeps, LabelsAreJustified, LegIsJustified
  <2> QED
    BY <1>2, <2>1, <2>2
<1>4. parent'[s] \in Parents /\ earliest_arrival[parent'[s].stop] \in Time
  BY <1>3, StepLabelTypes DEF TypeOK, LabelTypeOK
<1>5. earliest_arrival[parent'[s].stop] <= earliest_arrival'[s]
  <2>1. parent'[s].board \in Nat /\ parent'[s].alight \in Nat
    BY <1>4 DEF Parents
  <2> QED
    BY <1>1, <1>3, <1>4, <2>1
<1> QED
  BY <1>2, <1>3, <1>5

(* The heart of it: a step that closes a circle would have to lower a      *)
(* label on it, but on a circle along which no label falls all are equal.  *)
LEMMA NoCircleCloses ==
  ASSUME TypeOK, LabelsAreJustified, RideIsCaught, ForwardTimetable,
         LegsLeadToTheSource, WalkersArrived, Step,
         NEW C \in SUBSET Stops, Circular(C)'
  PROVE  C = {}
<1> SUFFICES ASSUME C # {} PROVE FALSE
  OBVIOUS
<1>1. \A s \in Stops : /\ earliest_arrival[s] \in Nat /\ earliest_arrival'[s] \in Nat
                       /\ earliest_arrival'[s] <= earliest_arrival[s]
  BY LabelsFall
<1>2. \A s \in C : /\ parent'[s] # NoParent /\ parent'[s].stop \in C
                   /\ earliest_arrival[parent'[s].stop] <= earliest_arrival'[s]
                   /\ Promise!Lowers(s) \/ Promise!Keeps(s)
  BY LegAfterStep DEF Circular
<1>3. PICK m \in {earliest_arrival'[s] : s \in C} :
        \A n \in {earliest_arrival'[s] : s \in C} : m <= n
  <2>1. {earliest_arrival'[s] : s \in C} \in SUBSET Nat
    BY <1>1
  <2>2. {earliest_arrival'[s] : s \in C} # {}
    OBVIOUS
  <2> QED
    BY <2>1, <2>2, NatMin
<1>4. m \in Nat /\ \A s \in C : m <= earliest_arrival'[s]
  BY <1>1, <1>3
<1> DEFINE D == {s \in C : earliest_arrival'[s] = m /\ earliest_arrival[s] = m}
<1>5. ASSUME NEW s \in C, earliest_arrival'[s] = m
      PROVE  parent'[s].stop \in D
  <2>1. parent'[s].stop \in C /\ parent'[s].stop \in Stops
    BY <1>2
  <2>2. earliest_arrival[parent'[s].stop] <= m
    BY <1>2, <1>5
  <2>3. m <= earliest_arrival'[parent'[s].stop]
    BY <1>4, <2>1
  <2> QED
    BY <1>1, <1>4, <2>1, <2>2, <2>3
<1>6. D # {} /\ D \in SUBSET Stops
  <2>1. PICK s \in C : earliest_arrival'[s] = m
    BY <1>3
  <2> QED
    BY <1>5, <2>1
<1>7. ASSUME NEW s \in D
      PROVE  parent[s] # NoParent /\ parent[s].stop \in D
  <2>1. s \in C /\ s \in Stops /\ earliest_arrival'[s] = m /\ earliest_arrival[s] = m
    OBVIOUS
  <2>2. ~ Promise!Lowers(s)
    BY <1>4, <2>1 DEF Promise!Lowers
  <2>3. parent'[s] = parent[s]
    BY <1>2, <2>1, <2>2 DEF Promise!Keeps
  <2> QED
    BY <1>2, <1>5, <2>1, <2>3
<1> HIDE DEF D
<1> QED
  BY <1>6, <1>7 DEF LegsLeadToTheSource, Circular

LEMMA LegsStillLead ==
  ASSUME TypeOK, LabelsAreJustified, RideIsCaught, ForwardTimetable,
         LegsLeadToTheSource, WalkersArrived, Step, Searching
  PROVE  LegsLeadToTheSource'
<1>1. UNCHANGED <<graph, source_stop, target_stop, departure_time>>
  BY StepKeepsRequest
<1>2. /\ source_stop \in Stops /\ departure_time \in Nat
      /\ \A s \in Stops : /\ earliest_arrival[s] \in Nat /\ earliest_arrival'[s] \in Nat
                          /\ earliest_arrival'[s] <= earliest_arrival[s]
                          /\ departure_time <= earliest_arrival[s]
                          /\ Promise!Lowers(s) \/ Promise!Keeps(s)
  BY LabelsFall, StepLowersOrKeeps DEF TypeOK, RequestTypeOK, Searching, LegsLeadToTheSource
<1>3. ASSUME NEW s \in Stops
      PROVE  departure_time <= earliest_arrival'[s]
  <2>1. CASE Promise!Keeps(s)
    BY <1>2, <2>1 DEF Promise!Keeps
  <2>2. CASE Promise!Lowers(s)
    <3>1. parent'[s] # NoParent
      BY <2>2, SameTerms DEF Promise!Lowers, NoParent
    <3>2. /\ parent'[s].stop \in Stops
          /\ earliest_arrival[parent'[s].stop] <= earliest_arrival'[s]
      BY <3>1, LegAfterStep
    <3> QED
      BY <1>2, <3>2
  <2> QED
    BY <1>2, <2>1, <2>2
<1>4. /\ earliest_arrival'[source_stop] = departure_time
      /\ parent'[source_stop] = NoParent
  <2>1. earliest_arrival[source_stop] = departure_time /\ parent[source_stop] = NoParent
    BY DEF LegsLeadToTheSource
  <2>2. ~Promise!Lowers(source_stop)
    BY <1>2, <1>3, <2>1 DEF Promise!Lowers
  <2> QED
    BY <1>2, <2>1, <2>2 DEF Promise!Keeps
<1>5. ASSUME NEW s \in Stops, s # source_stop, earliest_arrival'[s] # INF
      PROVE  parent'[s] # NoParent
  <2>1. CASE Promise!Keeps(s)
    BY <1>5, <2>1 DEF Promise!Keeps, LegsLeadToTheSource, Reached
  <2>2. CASE Promise!Lowers(s)
    BY <2>2, SameTerms DEF Promise!Lowers, NoParent
  <2> QED
    BY <1>2, <2>1, <2>2
<1>6. \A s \in Stops : parent'[s] # NoParent => parent'[s].board <= parent'[s].alight
  BY LegsRunForward
<1>7. source_stop # target_stop
  BY DEF LegsLeadToTheSource
<1>8. \A C \in SUBSET Stops : Circular(C)' => C = {}
  BY NoCircleCloses
<1> QED
  BY <1>1, <1>3, <1>4, <1>5, <1>6, <1>7, <1>8 DEF LegsLeadToTheSource, Reached, Circular

(* A stop that has a recorded leg never loses it.                          *)
LEMMA ParentsStay ==
  ASSUME TypeOK, RideIsCaught, Step, NEW s \in Stops
  PROVE  /\ parent[s] # NoParent => parent'[s] # NoParent
         /\ earliest_arrival'[s] # earliest_arrival[s] => parent'[s] # NoParent
         /\ parent'[s] # parent[s] => earliest_arrival'[s] < earliest_arrival[s]
<1>1. CASE Promise!Keeps(s)
  BY <1>1 DEF Promise!Keeps
<1>2. CASE Promise!Lowers(s)
  BY <1>2, SameTerms DEF Promise!Lowers, NoParent
<1> QED
  BY <1>1, <1>2, StepLowersOrKeeps

LEMMA WalkersStillArrived ==
  ASSUME TypeOK, LabelsAreJustified, RideIsCaught, ForwardTimetable,
         LegsLeadToTheSource, WalkersArrived, Step, Searching
  PROVE  WalkersArrived'
<1>1. \A s \in Stops : parent[s] # NoParent => parent'[s] # NoParent
  BY ParentsStay
<1>2. next_marked \subseteq Stops /\ bus_alighted_stops \subseteq Stops
  BY DEF TypeOK, RoundTypeOK
<1>3. graph' = graph
  BY StepKeepsRequest
<1>4. ASSUME NEW u \in Stops, WalksEnd(u)
      PROVE  WalksEnd(u)'
  <2> SUFFICES ASSUME NEW v \in DOMAIN graph.walk[u]
               PROVE  earliest_arrival'[u] + graph.walk[u][v] < INF
    BY <1>3 DEF WalksEnd
  <2>1. /\ earliest_arrival'[u] \in Nat /\ earliest_arrival[u] \in Nat
        /\ earliest_arrival'[u] <= earliest_arrival[u]
    BY LabelsFall
  <2>2. earliest_arrival[u] + graph.walk[u][v] < INF /\ graph.walk[u][v] \in Nat
    BY <1>4, WalkDoesNotWrap DEF WalksEnd
  <2> QED
    BY <2>1, <2>2
<1>5. CASE BeginRound \/ pc' \notin {"route", "alight", "board", "search", "walk"}
  BY <1>5 DEF BeginRound, WalkersArrived
<1>6. CASE /\ pc \in {"route", "alight", "board", "search", "walk"}
           /\ pc' \in {"route", "alight", "board", "search", "walk"}
           /\ pc' = "walk" => pc = "walk"
           /\ UNCHANGED <<next_marked, bus_alighted_stops>>
  BY <1>1, <1>2, <1>4, <1>6 DEF WalkersArrived
<1>7. CASE Alight
  <2>1. /\ pc = "alight" /\ pc' = "board" /\ Here \in Stops
        /\ \/ UNCHANGED <<labels, next_marked>>
           \/ /\ ArrivalHere < earliest_arrival[Here] /\ current_trip # NoTrip
              /\ earliest_arrival' = [earliest_arrival EXCEPT ![Here] = ArrivalHere]
              /\ next_marked' = next_marked \cup {Here}
    BY <1>7, ScanFields DEF Alight
  <2>2. CASE UNCHANGED <<labels, next_marked>>
    BY <1>1, <1>2, <2>1, <2>2 DEF WalkersArrived
  <2>3. CASE /\ ArrivalHere < earliest_arrival[Here] /\ current_trip # NoTrip
             /\ earliest_arrival' = [earliest_arrival EXCEPT ![Here] = ArrivalHere]
             /\ next_marked' = next_marked \cup {Here}
    <3>1. earliest_arrival'[Here] = ArrivalHere /\ earliest_arrival[Here] \in Nat
          /\ ArrivalHere \in Nat
      BY <1>7, <2>1, <2>3, ScanFields DEF TypeOK, LabelTypeOK
    <3>2. earliest_arrival'[Here] # earliest_arrival[Here]
      BY <2>3, <3>1
    <3>3. parent'[Here] # NoParent
      BY <2>1, <3>2, ParentsStay
    <3> QED
      BY <1>1, <1>2, <2>1, <2>3, <3>3 DEF WalkersArrived
  <2> QED
    BY <2>1, <2>2, <2>3
<1>8. CASE CollectAlighted
  <2>1. /\ pc = "route" /\ pc' = "walk" /\ UNCHANGED <<graph, labels, next_marked>>
        /\ bus_alighted_stops' = {s \in next_marked : parent[s].route # FOOTPATH_ROUTE_ID}
    BY <1>8 DEF CollectAlighted
  <2>2. \A s \in next_marked : parent[s] # NoParent
    BY <2>1 DEF WalkersArrived
  <2>3. \A u \in bus_alighted_stops' : u \in Stops /\ WalksEnd(u)
    BY <1>2, <2>1, <2>2, BusArrivalWalksEnd
  <2> QED
    BY <1>1, <1>2, <1>4, <2>1, <2>2, <2>3 DEF WalkersArrived
<1>9. CASE RelaxFootpaths
  <2>1. PICK u \in bus_alighted_stops :
          /\ WalkFrom(u)
          /\ next_marked' = next_marked \cup WalkImproves(u)
          /\ bus_alighted_stops' = bus_alighted_stops \ {u}
    BY <1>9 DEF RelaxFootpaths
  <2>2. pc = "walk" /\ pc' = pc
    BY <1>9 DEF RelaxFootpaths
  <2>3. ASSUME NEW s \in WalkImproves(u)
        PROVE  parent'[s] # NoParent
    <3>1. s \in Stops /\ u \in Stops
      BY <1>2, <2>1, WalkTypes
    <3>2. WalkArrival(u, s) < earliest_arrival[s] /\ s \in DOMAIN graph.walk[u]
      BY DEF WalkImproves
    <3>3. WalkArrival(u, s) \in Time /\ earliest_arrival[s] \in Time
      BY <3>1, <3>2, WalkArrivalType DEF TypeOK, LabelTypeOK
    <3>4. earliest_arrival'[s] = WalkArrival(u, s)
      BY <2>1, <3>1 DEF WalkFrom
    <3> QED
      BY <3>1, <3>2, <3>3, <3>4, ParentsStay
  <2> QED
    BY <1>1, <1>2, <1>4, <2>1, <2>2, <2>3 DEF WalkersArrived
<1> QED
  BY <1>5, <1>6, <1>7, <1>8, <1>9
     DEF Step, InitialWalks, SkipRoute, ScanRoute, PassBy, BeginTripSearch, TripSearchStep,
         EndTripSearch, FootpathsDone, EndRound, ReplyUnreachable, BeginTrace, TraceLeg,
         ReplyItinerary, NextPosition

-----------------------------------------------------------------------------
(* A reached stop other than the source has a leg to follow back, and no   *)
(* stop is come by twice.                                                  *)
LEMMA OnTheTrail ==
  ASSUME TypeOK, LabelsAreJustified, LegsLeadToTheSource, Trail, pc = "trace"
  PROVE  /\ curr \notin visited
         /\ Len(path) < NumStops
         /\ curr # source_stop => /\ parent[curr] # NoParent
                                  /\ parent[curr].stop \in Stops
                                  /\ parent[curr].route # INF
<1>1. /\ curr \in Stops /\ source_stop \in Stops /\ Reached(curr)
      /\ visited \in SUBSET Stops /\ source_stop \notin visited
      /\ \A s \in visited : parent[s] # NoParent /\ parent[s].stop \in visited \cup {curr}
  BY DEF TypeOK, TraceTypeOK, RequestTypeOK, Trail
<1>2. curr \notin visited
  <2> SUFFICES ASSUME curr \in visited PROVE FALSE
    OBVIOUS
  <2>1. visited \cup {curr} = visited
    OBVIOUS
  <2>2. Circular(visited)
    BY <1>1, <2>1 DEF Circular
  <2> QED
    BY <1>1, <2>2 DEF LegsLeadToTheSource
<1>3. Len(path) < NumStops
  <2>1. IsFiniteSet(Stops) /\ Cardinality(Stops) = NumStops
    BY FS_Interval
  <2>2. /\ IsFiniteSet(visited) /\ Cardinality(visited) <= NumStops
        /\ Cardinality(visited) = NumStops => visited = Stops
    <3>1. visited \in SUBSET Stops
      BY <1>1
    <3> HIDE DEF Stops
    <3> QED
      BY <2>1, <3>1, FS_Subset
  <2>3. Cardinality(visited) \in Nat /\ Cardinality(visited) # NumStops
    BY <1>1, <2>2, FS_CardinalityType
  <2> QED
    BY <2>2, <2>3 DEF Trail
<1>4. ASSUME curr # source_stop
      PROVE  /\ parent[curr] # NoParent
             /\ parent[curr].stop \in Stops
             /\ parent[curr].route # INF
  <2>1. parent[curr] # NoParent
    BY <1>1, <1>4 DEF LegsLeadToTheSource
  <2>2. parent[curr].stop \in Stops /\ IsLeg(graph, LegTo(curr))
    BY <1>1, <2>1 DEF LabelsAreJustified, LegIsJustified
  <2>3. LegTo(curr).route_id = parent[curr].route
    BY DEF LegTo
  <2>4. Len(graph.routes) \in Nat /\ Len(graph.routes) < FOOTPATH_ROUTE_ID
    BY RouteFields DEF TypeOK, routes
  <2>5. LegTo(curr).route_id \in 1 .. Len(graph.routes)
        \/ LegTo(curr).route_id = FOOTPATH_ROUTE_ID
    BY <2>2, Zenon DEF IsLeg, IsBusLeg, IsWalkLeg
  <2>6. parent[curr].route # INF
    BY <2>3, <2>4, <2>5
  <2> QED
    BY <2>1, <2>2, <2>6
<1> QED
  BY <1>2, <1>3, <1>4

LEMMA TrailGoesOn ==
  ASSUME TypeOK, LabelsAreJustified, RideIsCaught, ForwardTimetable,
         LegsLeadToTheSource, Trail, Step
  PROVE  Trail'
<1>1. CASE pc' # "trace"
  BY <1>1 DEF Trail
<1>2. CASE BeginTrace
  <2>1. /\ curr' = target_stop /\ visited' = {} /\ path' = <<>>
        /\ earliest_arrival[target_stop] # INF
        /\ UNCHANGED <<graph, request, labels>>
    BY <1>2 DEF BeginTrace
  <2>2. Cardinality({}) = 0
    BY FS_EmptySet
  <2> QED
    BY <2>1, <2>2 DEF Trail, Reached, request, labels
<1>3. CASE TraceLeg
  <2>1. /\ pc = "trace" /\ curr # source_stop
        /\ visited' = visited \cup {curr}
        /\ path' = <<LegTo(curr)>> \o path
        /\ curr' = parent[curr].stop
        /\ UNCHANGED <<graph, source_stop, departure_time, earliest_arrival, parent>>
    BY <1>3, StepKeepsRequest DEF TraceLeg, TraceGoesOn, labels
  <2>2. /\ curr \notin visited /\ parent[curr] # NoParent /\ parent[curr].stop \in Stops
    BY <2>1, OnTheTrail
  <2>3. /\ Reached(curr) /\ source_stop \notin visited
        /\ \A s \in visited : parent[s] # NoParent /\ parent[s].stop \in visited \cup {curr}
        /\ visited = {path[n].alight_stop : n \in DOMAIN path}
        /\ Len(path) = Cardinality(visited)
        /\ \A m, n \in DOMAIN path : m # n => path[m].alight_stop # path[n].alight_stop
    BY <2>1 DEF Trail
  <2>4. curr \in Stops /\ path \in Seq(Leg) /\ visited \in SUBSET Stops
    BY <2>1 DEF TypeOK, TraceTypeOK
  <2>5. earliest_arrival'[curr'] # INF
    <3>1. LegIsJustified(curr) /\ parent[curr].board <= parent[curr].alight
      BY <2>2, <2>4 DEF LabelsAreJustified, LegsLeadToTheSource
    <3>2. /\ earliest_arrival[curr] = parent[curr].alight
          /\ earliest_arrival[parent[curr].stop] <= parent[curr].board
      BY <3>1 DEF LegIsJustified
    <3>3. /\ earliest_arrival[curr] \in Time /\ earliest_arrival[parent[curr].stop] \in Time
          /\ parent[curr] \in Parents
      BY <2>2, <2>4 DEF TypeOK, LabelTypeOK
    <3>4. parent[curr].board \in Time /\ parent[curr].alight \in Time
      BY <3>3 DEF Parents
    <3> QED
      BY <2>1, <2>3, <3>1, <3>2, <3>3, <3>4 DEF Reached
  <2> DEFINE leg == LegTo(curr)
  <2>6. leg.alight_stop = curr
    BY DEF LegTo
  <2> HIDE DEF leg
  <2>7. /\ DOMAIN path' = 1 .. Len(path) + 1 /\ DOMAIN path = 1 .. Len(path)
        /\ Len(path') = Len(path) + 1 /\ Len(path) \in Nat
        /\ path'[1] = leg
        /\ \A n \in 1 .. Len(path) : path'[n + 1] = path[n]
    BY <2>1, <2>4 DEF leg
  <2>8. \A n \in DOMAIN path' : n = 1 \/ (n - 1 \in DOMAIN path /\ path'[n] = path[n - 1])
    BY <2>7
  <2>9. visited' = {path'[n].alight_stop : n \in DOMAIN path'}
    <3>1. ASSUME NEW s \in visited PROVE \E n \in DOMAIN path' : s = path'[n].alight_stop
      <4>1. PICK n \in DOMAIN path : s = path[n].alight_stop
        BY <2>3
      <4>2. n + 1 \in DOMAIN path' /\ path'[n + 1] = path[n]
        BY <2>7
      <4> QED
        BY <4>1, <4>2
    <3>2. 1 \in DOMAIN path'
      BY <2>7
    <3>3. ASSUME NEW n \in DOMAIN path' PROVE path'[n].alight_stop \in visited \cup {curr}
      BY <2>3, <2>6, <2>7, <2>8
    <3> QED
      BY <2>1, <2>6, <2>7, <3>1, <3>2, <3>3
  <2>10. Len(path') = Cardinality(visited')
    <3>1. IsFiniteSet(visited)
      <4>1. IsFiniteSet(Stops)
        BY FS_Interval
      <4> HIDE DEF Stops
      <4> QED
        BY <2>4, <4>1, FS_Subset
    <3>2. Cardinality(visited \cup {curr}) = Cardinality(visited) + 1
      BY <2>2, <3>1, FS_AddElement
    <3> QED
      BY <2>1, <2>3, <2>7, <3>2
  <2>11. ASSUME NEW m \in DOMAIN path', NEW n \in DOMAIN path', m # n
         PROVE  path'[m].alight_stop # path'[n].alight_stop
    <3>1. \A i \in DOMAIN path : path[i].alight_stop # curr
      BY <2>2, <2>3
    <3>2. CASE m = 1
      BY <2>6, <2>7, <2>8, <2>11, <3>1, <3>2
    <3>3. CASE n = 1
      BY <2>6, <2>7, <2>8, <2>11, <3>1, <3>3
    <3>4. CASE m # 1 /\ n # 1
      <4>1. /\ m - 1 \in DOMAIN path /\ path'[m] = path[m - 1]
            /\ n - 1 \in DOMAIN path /\ path'[n] = path[n - 1]
            /\ m - 1 # n - 1
        BY <2>7, <2>8, <2>11, <3>4
      <4> QED
        BY <2>3, <4>1
    <3> QED
      BY <3>2, <3>3, <3>4
  <2>12. \A s \in visited' :
           parent'[s] # NoParent /\ parent'[s].stop \in visited' \cup {curr'}
    BY <2>1, <2>2, <2>3
  <2>13. source_stop' \notin visited'
    BY <2>1, <2>3
  <2> QED
    BY <2>5, <2>9, <2>10, <2>11, <2>12, <2>13 DEF Trail, Reached
<1> QED
  BY <1>1, <1>2, <1>3
     DEF Step, InitialWalks, BeginRound, SkipRoute, ScanRoute, Alight, PassBy,
         BeginTripSearch, TripSearchStep, EndTripSearch, CollectAlighted, RelaxFootpaths,
         FootpathsDone, EndRound, ReplyUnreachable, ReplyItinerary, NextPosition

(* When the walk back ends, it ends at the source.                         *)
LEMMA ReplyIsComplete ==
  ASSUME Inv, ForwardTimetable, LegsLeadToTheSource, Trail, ReplyItinerary
  PROVE  ItineraryIsComplete'
<1>1. /\ pc = "trace" /\ ~TraceGoesOn
      /\ response'.itinerary = path
      /\ UNCHANGED <<graph, source_stop, target_stop, departure_time>>
  BY StepKeepsRequest DEF ReplyItinerary, Step
<1>2. curr = source_stop
  <2>1. /\ curr \notin visited /\ Len(path) < NumStops
        /\ curr # source_stop => parent[curr].stop \in Stops /\ parent[curr].route # INF
    BY <1>1, OnTheTrail DEF Inv, SearchInvariant
  <2> QED
    BY <1>1, <2>1 DEF TraceGoesOn
<1>3. Rideable(path, source_stop)
  BY <1>1, <1>2 DEF Inv, SearchInvariant, PathIsRideable
<1>4. /\ path # <<>>
      /\ path[1].board_stop = source_stop
      /\ earliest_arrival[source_stop] <= path[1].board_time
  BY <1>3 DEF Rideable, LegsLeadToTheSource
<1>5. path[1].board_time >= departure_time
  <2>1. path[1] \in Leg
    <3>1. path \in Seq(Leg)
      BY DEF Inv, TypeOK, TraceTypeOK
    <3>2. 1 \in DOMAIN path
      BY <1>4, <3>1
    <3> QED
      BY <3>1, <3>2
  <2>2. path[1].board_time \in Nat
    BY <2>1 DEF Leg
  <2>3. earliest_arrival[source_stop] = departure_time /\ departure_time \in Nat
    BY DEF Inv, TypeOK, RequestTypeOK, LegsLeadToTheSource
  <2> QED
    BY <1>4, <2>2, <2>3
<1>6. \A m, n \in DOMAIN path : m # n => path[m].alight_stop # path[n].alight_stop
  BY <1>1 DEF Trail
<1> QED
  BY <1>1, <1>4, <1>5, <1>6 DEF ItineraryIsComplete

-----------------------------------------------------------------------------
LEMMA ForwardSearchStep ==
  ASSUME Inv, ForwardSearch, ForwardItineraryIsComplete, [Next]_vars
  PROVE  ForwardSearch' /\ ForwardItineraryIsComplete'
<1>1. TypeOK /\ LabelsAreJustified /\ RideIsCaught
  BY DEF Inv, SearchInvariant
<1>2. CASE Step
  <2> SUFFICES ASSUME ForwardTimetable PROVE ForwardSearch' /\ ForwardItineraryIsComplete'
    BY <1>2, StepKeepsRequest DEF ForwardTimetable, ForwardSearch, ForwardItineraryIsComplete
  <2>1. Searching
    BY <1>2, Zenon
       DEF Searching, Step, InitialWalks, BeginRound, SkipRoute, ScanRoute, Alight, PassBy,
           BeginTripSearch, TripSearchStep, EndTripSearch, CollectAlighted, RelaxFootpaths,
           FootpathsDone, EndRound, ReplyUnreachable, BeginTrace, TraceLeg, ReplyItinerary
  <2>2. LegsLeadToTheSource /\ WalkersArrived /\ Trail
    BY <2>1 DEF ForwardSearch
  <2>3. ForwardSearch'
    BY <1>1, <1>2, <2>1, <2>2, LegsStillLead, WalkersStillArrived, TrailGoesOn DEF ForwardSearch
  <2>4. CASE ReplyItinerary
    BY <2>2, <2>3, <2>4, ReplyIsComplete DEF ForwardItineraryIsComplete
  <2>5. CASE ~ReplyItinerary
    <3>1. ~Answered'
      BY <1>2, <2>5
         DEF Answered, NoResponse, Step, InitialWalks, BeginRound, SkipRoute, ScanRoute, Alight,
             PassBy, BeginTripSearch, TripSearchStep, EndTripSearch, CollectAlighted,
             RelaxFootpaths, FootpathsDone, EndRound, ReplyUnreachable, BeginTrace, TraceLeg,
             NextPosition
    <3> QED
      BY <2>3, <3>1 DEF ForwardItineraryIsComplete, ItineraryIsComplete
  <2> QED
    BY <2>4, <2>5, <2>3
<1>3. ASSUME NEW s \in StopIds, NEW t \in StopIds, NEW d \in Departures,
             RejectRequest(s, t, d) \/ AnswerHere(s, t, d)
      PROVE  ForwardSearch' /\ ForwardItineraryIsComplete'
  BY <1>3 DEF RejectRequest, AnswerHere, Receive, NoResponse, ForwardSearch, Searching, Answered,
              ForwardItineraryIsComplete, ItineraryIsComplete
<1>4. ASSUME NEW s \in StopIds, NEW t \in StopIds, NEW d \in Departures,
             StartSearch(s, t, d)
      PROVE  ForwardSearch' /\ ForwardItineraryIsComplete'
  <2>1. /\ source_stop' = s /\ target_stop' = t /\ departure_time' = d
        /\ s \in Stops /\ s # t
        /\ earliest_arrival' = [[x \in Stops |-> INF] EXCEPT ![s] = d]
        /\ parent' = [x \in Stops |-> NoParent]
        /\ pc' = "init_walks"
    BY <1>4 DEF StartSearch, Receive
  <2>2. d \in Time
    BY DeparturesAssumption
  <2>3. LegsLeadToTheSource'
    BY <2>1, <2>2 DEF LegsLeadToTheSource, Reached, Circular
  <2> QED
    BY <2>1, <2>3 DEF ForwardSearch, WalkersArrived, Trail, ForwardItineraryIsComplete,
                      ItineraryIsComplete, Answered
<1>5. CASE UNCHANGED vars
  <2>1. UNCHANGED <<graph, pc, source_stop, target_stop, departure_time, earliest_arrival, parent,
                    next_marked, bus_alighted_stops, curr, visited, path, response>>
    BY <1>5 DEF vars, request, labels, trace
  <2>2. (LegsLeadToTheSource => LegsLeadToTheSource') /\ (WalkersArrived => WalkersArrived')
    BY <2>1 DEF LegsLeadToTheSource, Reached, Circular, WalkersArrived, WalksEnd
  <2>3. (Trail => Trail') /\ ForwardTimetable' = ForwardTimetable
    <3>1. Trail => Trail'
      BY <2>1 DEF Trail, Reached
    <3>2. ForwardTimetable' = ForwardTimetable
      BY <2>1, Zenon DEF ForwardTimetable
    <3> QED
      BY <3>1, <3>2
  <2>4. ForwardSearch'
    BY <2>1, <2>2, <2>3 DEF ForwardSearch, Searching
  <2>5. ItineraryIsComplete => ItineraryIsComplete'
    BY <2>1 DEF ItineraryIsComplete, Answered
  <2> QED
    BY <2>3, <2>4, <2>5 DEF ForwardItineraryIsComplete
<1> QED
  BY <1>2, <1>3, <1>4, <1>5 DEF Next, Request

LEMMA ForwardInvariant == Spec => [](ForwardSearch /\ ForwardItineraryIsComplete)
<1>1. Init => ForwardSearch /\ ForwardItineraryIsComplete
  BY DEF Init, ForwardSearch, Searching, ForwardItineraryIsComplete, ItineraryIsComplete, Answered
<1>2. Inv /\ ForwardSearch /\ ForwardItineraryIsComplete /\ [Next]_vars
        => ForwardSearch' /\ ForwardItineraryIsComplete'
  BY ForwardSearchStep
<1> QED
  BY <1>1, <1>2, Invariant, PTL DEF Spec

(* On a timetable in which time runs forward the walk back through the     *)
(* parents ends at the source, whatever the timetable and the request: no  *)
(* label that is overwritten later makes it run in a circle, stop short or *)
(* hit the cap on its length (reconstruct_path, raptor_router.cpp:187-216).*)
THEOREM RepliesAreComplete == Spec => []ForwardItineraryIsComplete
BY ForwardInvariant, PTL

-----------------------------------------------------------------------------
(***************************************************************************)
(* Orderly timetables: the search finds the earliest arrivals              *)
(* (EarliestArrival).                                                      *)
(***************************************************************************)
(***************************************************************************)
(* The inductive invariant.                                                *)
(***************************************************************************)
BestWith(n) == Best(graph, source_stop, departure_time)[n]

BeforeRound ==
  /\ pc = "init_walks" =>
       /\ k = 0
       /\ earliest_arrival = [s \in Stops |-> IF s = source_stop THEN departure_time ELSE INF]
       /\ marked_stops = {source_stop}
  /\ pc = "round" =>
       /\ earliest_arrival = BestWith(k)
       /\ WalkedOut(graph, earliest_arrival)
       /\ OthersCount(graph, marked_stops, earliest_arrival, earliest_arrival)

InRound == pc \in {"route", "alight", "board", "search", "walk", "end_round"}
InScan == pc \in {"alight", "board", "search"}

RoundIsSound ==
  InRound =>
    /\ prev_arrival = BestWith(k)
    /\ WalkedOut(graph, prev_arrival)
    /\ \A s \in Stops : /\ earliest_arrival[s] <= prev_arrival[s]
                        /\ s \in next_marked <=> earliest_arrival[s] # prev_arrival[s]
                        /\ IsExplained(graph, s, prev_arrival, earliest_arrival)
    /\ OthersCount(graph, marked_stops, prev_arrival, earliest_arrival)

(* Rides of scanned routes count, and of this one up to the position p.    *)
IsScanned(x) ==
  \/ x.r < r_id
  \/ InScan /\ x.r = r_id /\ x.j < p
  \/ pc \in {"board", "search"} /\ x.r = r_id /\ x.j = p

ScansCount ==
  pc = "route" \/ InScan =>
    /\ \A s \in next_marked : parent[s].route # FOOTPATH_ROUTE_ID
    /\ \A x \in Rides(graph) :
         IsScanned(x) /\ Caught(graph, x, prev_arrival) /\ BoardedAt(graph, x) \in marked_stops =>
           RideCounts(graph, x, earliest_arrival)

(* The scan is on a bus that can be caught, and on none later than it      *)
(* might be.                                                               *)
ScanIsOnTime ==
  InScan =>
    /\ current_trip # NoTrip =>
         \E x \in Rides(graph) : /\ x.r = r_id /\ x.t = current_trip /\ x.j = p
                          /\ Caught(graph, x, prev_arrival)
    /\ \A i \in 1 .. p - 1 : \A t \in DOMAIN tripsOf(r_id) :
         /\ stopsOf(r_id)[i] \in marked_stops
         /\ prev_arrival[stopsOf(r_id)[i]] # INF
         /\ prev_arrival[stopsOf(r_id)[i]] <= tripsOf(r_id)[t][i].dep_sec
         => current_trip # NoTrip /\ current_trip <= t
    /\ pc = "search" =>
         /\ CanBoardHere
         /\ current_trip # NoTrip => high < current_trip /\ best_t < current_trip

WalksGoOn ==
  pc = "walk" =>
    /\ bus_alighted_stops \subseteq next_marked
    /\ \A x \in Rides(graph) : Caught(graph, x, prev_arrival) =>
         /\ RideCounts(graph, x, earliest_arrival)
         /\ LeftAt(graph, x) \notin bus_alighted_stops => WalksCount(graph, x, earliest_arrival)

RoundIsOver == pc = "end_round" => OneMoreBus(graph, prev_arrival, earliest_arrival)

SearchIsOver == pc \in {"reply", "trace"} => earliest_arrival = BestWith(MAX_ROUNDS)

Orderly == ForwardTimetable /\ NoOvertaking(graph) /\ WalksClosed(graph)

OrderlySearch ==
  Orderly /\ Searching =>
    /\ BeforeRound
    /\ RoundIsSound
    /\ ScansCount
    /\ ScanIsOnTime
    /\ WalksGoOn
    /\ RoundIsOver
    /\ SearchIsOver

-----------------------------------------------------------------------------
(***************************************************************************)
(* The reference, in the router's terms.                                   *)
(***************************************************************************)
LEMMA GraphIsATimetable == IsGraph(graph) => IsTimetable(graph)
<1> SUFFICES ASSUME IsGraph(graph) PROVE IsTimetable(graph)
  OBVIOUS
<1>1. Len(graph.routes) \in Nat
  BY GraphFields
<1>2. \A u \in Stops : /\ DOMAIN graph.walk[u] \subseteq Stops \ {u}
                       /\ \A v \in DOMAIN graph.walk[u] : graph.walk[u][v] \in Nat
  BY GraphFields
<1>3. \A r \in 1 .. Len(graph.routes) :
        /\ DOMAIN graph.routes[r].stops = 1 .. Len(graph.routes[r].stops)
        /\ Len(graph.routes[r].stops) \in Nat
        /\ DOMAIN graph.routes[r].trips = 1 .. Len(graph.routes[r].trips)
        /\ Len(graph.routes[r].trips) \in Nat
        /\ \A i \in DOMAIN graph.routes[r].stops : graph.routes[r].stops[i] \in Stops
        /\ \A t \in DOMAIN graph.routes[r].trips : \A i \in DOMAIN graph.routes[r].stops :
             /\ graph.routes[r].trips[t][i].arr_sec \in Time
             /\ graph.routes[r].trips[t][i].dep_sec \in Time
  BY GraphFields, Zenon
<1> QED
  BY <1>1, <1>2, <1>3, Zenon DEF IsTimetable

LEMMA GraphRide ==
  ASSUME IsGraph(graph), NEW x \in Rides(graph)
  PROVE  /\ x.r \in 1 .. Len(routes)
         /\ x.t \in DOMAIN tripsOf(x.r)
         /\ x.i \in DOMAIN stopsOf(x.r) /\ x.j \in DOMAIN stopsOf(x.r)
         /\ x.i \in Nat /\ x.j \in Nat /\ x.t \in Nat /\ x.i < x.j
         /\ BoardedAt(graph, x) \in Stops /\ LeftAt(graph, x) \in Stops
         /\ DepartureOf(graph, x) \in Time /\ ArrivalOf(graph, x) \in Time
BY GraphIsATimetable, RideFields DEF routes, tripsOf, stopsOf

LEMMA IsGraphRide ==
  ASSUME IsGraph(graph), NEW r \in 1 .. Len(routes), NEW t \in DOMAIN tripsOf(r),
         NEW i \in DOMAIN stopsOf(r), NEW j \in DOMAIN stopsOf(r), i < j
  PROVE  \E x \in Rides(graph) : x.r = r /\ x.t = t /\ x.i = i /\ x.j = j
BY GraphIsATimetable, IsRide DEF routes, tripsOf, stopsOf

LEMMA BestWithOneMore == \A n \in 0 .. 3 : BestWith(n + 1) = Later(graph, BestWith(n))
BY BestOneMore, Zenon DEF BestWith

(* When one more bus brings nothing, no number of buses does.              *)
LEMMA BestWithStays ==
  ASSUME NEW n \in 0 .. 3, BestWith(n + 1) = BestWith(n)
  PROVE  BestWith(4) = BestWith(n)
<1>1. /\ Best(graph, source_stop, departure_time)[n + 1] = Best(graph, source_stop, departure_time)[n]
      /\ n \in 0 .. 3
  BY DEF BestWith
<1>2. Best(graph, source_stop, departure_time)[4] = Best(graph, source_stop, departure_time)[n]
  BY <1>1, BestStays
<1> QED
  BY <1>2 DEF BestWith

(***************************************************************************)
(* The steps of the search.                                                *)
(***************************************************************************)
(* What every step may rely on.                                            *)
Ready ==
  /\ TypeOK /\ SearchInvariant /\ SearchBracket
  /\ Orderly /\ LegsLeadToTheSource /\ WalkersArrived

(* The walks out of the source give the reference's first labels.          *)
LEMMA FirstWalks ==
  ASSUME Ready, BeforeRound, InitialWalks
  PROVE  /\ earliest_arrival' = BestWith(0)
         /\ WalkedOut(graph, earliest_arrival')
         /\ OthersCount(graph, marked_stops', earliest_arrival', earliest_arrival')
<1> DEFINE d == departure_time
           w == graph.walk[source_stop]
           new == earliest_arrival'
<1>1. /\ source_stop \in Stops /\ d \in Time
      /\ earliest_arrival = StartingAt(source_stop, d)
      /\ WalkFrom(source_stop)
      /\ marked_stops' = {source_stop} \cup WalkImproves(source_stop)
      /\ IsGraph(graph)
  BY DEF InitialWalks, BeforeRound, Ready, TypeOK, RequestTypeOK, StartingAt
<1>2. ASSUME NEW v \in DOMAIN w
      PROVE  /\ v \in Stops /\ v # source_stop /\ w[v] \in Nat /\ d + w[v] < INF
             /\ WalkArrival(source_stop, v) = d + w[v]
  <2>1. WalksEnd(source_stop)
    BY <1>1, SourceWalksEnd DEF Ready, Orderly
  <2>2. earliest_arrival[source_stop] = d
    BY <1>1 DEF StartingAt
  <2> QED
    BY <1>1, <2>1, <2>2, WalkDoesNotWrap DEF Ready
<1>3. WalkImproves(source_stop) = DOMAIN w
  <2>1. \A v \in DOMAIN w : earliest_arrival[v] = INF
    BY <1>1, <1>2 DEF StartingAt
  <2> QED
    BY <1>2, <2>1 DEF WalkImproves
<1>4. ASSUME NEW s \in Stops
      PROVE  new[s] = IF s = source_stop THEN d ELSE IF s \in DOMAIN w THEN d + w[s] ELSE INF
  <2>1. new[s] = IF s \in DOMAIN w THEN WalkArrival(source_stop, s) ELSE earliest_arrival[s]
    BY <1>1, <1>3 DEF WalkFrom
  <2> QED
    BY <1>1, <1>2, <2>1 DEF StartingAt
<1>5. new \in [Stops -> Time]
  BY <1>1, WalkTypes DEF Ready, LabelTypeOK
<1> DEFINE start == StartingAt(source_stop, d)
           walked == Walked(graph, start)
<1>6. start \in [Stops -> Time]
  BY <1>1 DEF StartingAt
<1>7. \A s \in Stops : start[s] = IF s = source_stop THEN d ELSE INF
  BY DEF StartingAt
<1> HIDE DEF start, new
<1>8. ASSUME NEW s \in Stops
      PROVE  walked[s] = new[s]
  <2>1. /\ walked[s] \in Nat /\ walked[s] <= start[s]
        /\ \A u \in Stops : s \in DOMAIN graph.walk[u] /\ start[u] # INF =>
             walked[s] <= start[u] + graph.walk[u][s]
        /\ walked[s] # start[s] =>
             \E u \in Stops : /\ s \in DOMAIN graph.walk[u] /\ start[u] # INF
                              /\ walked[s] = start[u] + graph.walk[u][s]
    BY <1>1, <1>6, WalkedIs, GraphIsATimetable
  <2> HIDE DEF walked
  <2>2. \A u \in Stops : start[u] # INF => u = source_stop /\ start[u] = d
    BY <1>7
  <2>3. walked[s] # start[s] => s \in DOMAIN w /\ walked[s] = d + w[s]
    BY <2>1, <2>2
  <2>4. s \in DOMAIN w => walked[s] <= d + w[s]
    BY <1>1, <1>2, <1>7, <2>1
  <2>5. CASE s \in DOMAIN w
    BY <1>1, <1>2, <1>4, <1>7, <2>3, <2>4, <2>5
  <2>6. CASE s \notin DOMAIN w
    BY <1>4, <1>7, <2>3, <2>6
  <2> QED
    BY <2>5, <2>6
<1>9. new = BestWith(0)
  <2>1. walked = [s \in Stops |-> Min({start[s]} \cup WalksTo(graph, start, s))]
    BY ComputedIsIt DEF Walked
  <2>2. BestWith(0) = walked
    BY BestIsUnfolded, Zenon DEF BestWith, start
  <2> HIDE DEF walked
  <2> QED
    BY <1>5, <1>8, <2>1, <2>2
<1>10. WalkedOut(graph, new)
  <2> SUFFICES ASSUME NEW u \in Stops, NEW v \in DOMAIN graph.walk[u]
               PROVE  new[v] <= new[u] + graph.walk[u][v]
    BY DEF WalkedOut
  <2>1. v \in Stops /\ v # u /\ graph.walk[u][v] \in Nat /\ new[v] \in Time /\ new[u] \in Time
    BY <1>1, <1>5, RouteFields
  <2>2. CASE u = source_stop
    BY <1>1, <1>2, <1>4, <2>1, <2>2
  <2>3. CASE u # source_stop /\ u \notin DOMAIN w
    <3>1. new[u] = INF
      BY <1>4, <2>3
    <3> QED
      BY <2>1, <3>1
  <2>4. CASE u # source_stop /\ u \in DOMAIN w /\ v = source_stop
    BY <1>1, <1>2, <1>4, <2>1, <2>4
  <2>5. CASE u # source_stop /\ u \in DOMAIN w /\ v # source_stop
    <3>1. v \in DOMAIN w /\ w[v] <= w[u] + graph.walk[u][v]
      BY <1>1, <2>5 DEF Ready, Orderly, WalksClosed
    <3>2. new[u] = d + w[u] /\ new[v] = d + w[v] /\ w[u] \in Nat /\ w[v] \in Nat
      BY <1>2, <1>4, <2>1, <2>5, <3>1
    <3> QED
      BY <1>1, <2>1, <3>1, <3>2
  <2> QED
    BY <2>2, <2>3, <2>4, <2>5
<1>11. OthersCount(graph, marked_stops', new, new)
  <2>1. ASSUME NEW x \in Rides(graph), Caught(graph, x, new)
        PROVE  BoardedAt(graph, x) \in marked_stops'
    <3>1. BoardedAt(graph, x) \in Stops /\ new[BoardedAt(graph, x)] # INF
      BY <1>1, <2>1, GraphRide DEF Caught
    <3> QED
      BY <1>1, <1>3, <1>4, <3>1
  <2> QED
    BY <2>1 DEF OthersCount
<1> QED
  BY <1>9, <1>10, <1>11 DEF new

(* The labels of a step of the search, before and after.                   *)
LEMMA LabelsOfAStep ==
  ASSUME Ready, Step
  PROVE  /\ earliest_arrival \in [Stops -> Time] /\ earliest_arrival' \in [Stops -> Time]
         /\ prev_arrival \in [Stops -> Time]
         /\ \A s \in Stops : earliest_arrival'[s] <= earliest_arrival[s]
         /\ IsGraph(graph)
         /\ UNCHANGED <<graph, source_stop, departure_time>>
         /\ \A n : BestWith(n)' = BestWith(n)
<1>1. UNCHANGED <<graph, source_stop, departure_time>>
  BY StepKeepsRequest
<1>2. \A n : BestWith(n)' = BestWith(n)
  BY <1>1 DEF BestWith
<1>3. /\ earliest_arrival \in [Stops -> Time] /\ earliest_arrival' \in [Stops -> Time]
      /\ prev_arrival \in [Stops -> Time]
      /\ IsGraph(graph)
  BY StepLabelTypes DEF Ready, TypeOK, LabelTypeOK, RoundTypeOK
<1>4. \A s \in Stops : earliest_arrival'[s] <= earliest_arrival[s]
  BY LabelsFall DEF Ready, SearchInvariant
<1> QED
  BY <1>1, <1>2, <1>3, <1>4

(* What counts goes on counting, and what is explained stays so while it   *)
(* does not change.                                                        *)
LEMMA CountingOn ==
  ASSUME IsGraph(graph), NEW old \in [Stops -> Time],
         NEW a \in [Stops -> Time], NEW b \in [Stops -> Time], \A s \in Stops : b[s] <= a[s]
  PROVE  /\ \A x \in Rides(graph) : /\ RideCounts(graph, x, a) => RideCounts(graph, x, b)
                                    /\ WalksCount(graph, x, a) => WalksCount(graph, x, b)
         /\ \A s \in Stops : IsExplained(graph, s, old, a) /\ b[s] = a[s] =>
              IsExplained(graph, s, old, b)
         /\ \A marked : OthersCount(graph, marked, old, a) => OthersCount(graph, marked, old, b)
BY GraphIsATimetable, FallingLabelsCount

(* What the walks out of u do to the labels.                               *)
LEMMA WalksOfAStep ==
  ASSUME TypeOK, NEW u \in Stops, WalkFrom(u), WalksEnd(u)
  PROVE  /\ \A s \in Stops : earliest_arrival'[s] # earliest_arrival[s] => s \in WalkImproves(u)
         /\ \A s \in WalkImproves(u) :
              /\ s \in DOMAIN graph.walk[u]
              /\ earliest_arrival'[s] = earliest_arrival[u] + graph.walk[u][s]
              /\ earliest_arrival'[s] < earliest_arrival[s]
         /\ \A v \in DOMAIN graph.walk[u] :
              earliest_arrival'[v] <= earliest_arrival[u] + graph.walk[u][v]
         /\ earliest_arrival'[u] = earliest_arrival[u]
<1>1. \A v \in DOMAIN graph.walk[u] :
        /\ v \in Stops /\ v # u
        /\ WalkArrival(u, v) = earliest_arrival[u] + graph.walk[u][v]
        /\ WalkArrival(u, v) \in Nat /\ earliest_arrival[v] \in Nat
  <2> SUFFICES ASSUME NEW v \in DOMAIN graph.walk[u]
               PROVE  /\ v \in Stops /\ v # u
                      /\ WalkArrival(u, v) = earliest_arrival[u] + graph.walk[u][v]
                      /\ WalkArrival(u, v) \in Nat /\ earliest_arrival[v] \in Nat
    OBVIOUS
  <2>1. /\ v \in Stops /\ v # u /\ earliest_arrival[u] \in Nat /\ graph.walk[u][v] \in Nat
        /\ WalkArrival(u, v) = earliest_arrival[u] + graph.walk[u][v]
    BY WalkDoesNotWrap
  <2>2. earliest_arrival[v] \in Nat
    BY <2>1 DEF TypeOK, LabelTypeOK
  <2>3. earliest_arrival[u] + graph.walk[u][v] \in Nat
    BY <2>1
  <2> QED
    BY <2>1, <2>2, <2>3
<1>2. \A s \in Stops : earliest_arrival'[s] =
        IF s \in WalkImproves(u) THEN WalkArrival(u, s) ELSE earliest_arrival[s]
  BY DEF WalkFrom
<1>3. \A v \in DOMAIN graph.walk[u] :
        v \in WalkImproves(u) <=> WalkArrival(u, v) < earliest_arrival[v]
  BY DEF WalkImproves
<1>4. WalkImproves(u) \subseteq DOMAIN graph.walk[u]
  BY DEF WalkImproves
<1> QED
  BY <1>1, <1>2, <1>3, <1>4

(* An improvement by foot is explained by the ride its walker came by.     *)
LEMMA WalkIsExplained ==
  ASSUME Ready, RoundIsSound, WalksGoOn, Step, pc = "walk",
         NEW u \in bus_alighted_stops, WalkFrom(u), NEW s \in WalkImproves(u)
  PROVE  IsExplained(graph, s, prev_arrival, earliest_arrival')
<1>1. /\ u \in Stops /\ WalksEnd(u) /\ TypeOK /\ WalksClosed(graph)
      /\ u \in next_marked /\ InRound
  BY DEF Ready, Orderly, TypeOK, RoundTypeOK, WalkersArrived, WalksGoOn, InRound
<1>2. /\ IsExplained(graph, u, prev_arrival, earliest_arrival)
      /\ earliest_arrival[u] # prev_arrival[u]
  BY <1>1 DEF RoundIsSound
<1>3. /\ s \in DOMAIN graph.walk[u] /\ s \in Stops
      /\ earliest_arrival'[s] = earliest_arrival[u] + graph.walk[u][s]
      /\ earliest_arrival'[s] < earliest_arrival[s]
      /\ \A v \in DOMAIN graph.walk[u] :
           earliest_arrival'[v] <= earliest_arrival[u] + graph.walk[u][v]
      /\ earliest_arrival'[u] = earliest_arrival[u]
  BY <1>1, WalksOfAStep, RouteFields DEF TypeOK
<1>4. /\ earliest_arrival \in [Stops -> Time] /\ earliest_arrival' \in [Stops -> Time]
      /\ IsGraph(graph)
  BY LabelsOfAStep
<1> QED
  BY <1>1, <1>2, <1>3, <1>4, FootIsExplained, GraphIsATimetable

(* An improvement by bus is explained by the ride the scan is on.          *)
LEMMA AlightIsExplained ==
  ASSUME Ready, ScanIsOnTime, pc = "alight", current_trip # NoTrip
  PROVE  \E x \in Rides(graph) : /\ Caught(graph, x, prev_arrival)
                                 /\ LeftAt(graph, x) = Here
                                 /\ ArrivalOf(graph, x) = ArrivalHere
                                 /\ x.r = r_id /\ x.t = current_trip /\ x.j = p
<1>1. PICK x \in Rides(graph) : /\ x.r = r_id /\ x.t = current_trip /\ x.j = p
                                /\ Caught(graph, x, prev_arrival)
  BY DEF ScanIsOnTime, InScan
<1> QED
  BY <1>1 DEF LeftAt, ArrivalOf, Here, ArrivalHere, stopsOf, tripsOf, routes

LEMMA RoundGoesOnSoundly ==
  ASSUME Ready, RoundIsSound, Step, InRound,
         UNCHANGED <<k, prev_arrival, marked_stops>>,
         \A s \in Stops :
           \/ /\ earliest_arrival'[s] = earliest_arrival[s]
              /\ s \in next_marked' <=> s \in next_marked
           \/ /\ earliest_arrival'[s] < earliest_arrival[s] /\ s \in next_marked'
              /\ IsExplained(graph, s, prev_arrival, earliest_arrival')
  PROVE  RoundIsSound'
<1>1. /\ earliest_arrival \in [Stops -> Time] /\ earliest_arrival' \in [Stops -> Time]
      /\ prev_arrival \in [Stops -> Time]
      /\ \A s \in Stops : earliest_arrival'[s] <= earliest_arrival[s]
      /\ IsGraph(graph) /\ graph' = graph
      /\ \A n : BestWith(n)' = BestWith(n)
  BY LabelsOfAStep, Zenon
<1>2. /\ prev_arrival = BestWith(k)
      /\ WalkedOut(graph, prev_arrival)
      /\ \A s \in Stops : /\ earliest_arrival[s] <= prev_arrival[s]
                          /\ s \in next_marked <=> earliest_arrival[s] # prev_arrival[s]
                          /\ IsExplained(graph, s, prev_arrival, earliest_arrival)
      /\ OthersCount(graph, marked_stops, prev_arrival, earliest_arrival)
  BY DEF RoundIsSound
<1>3. OthersCount(graph, marked_stops, prev_arrival, earliest_arrival')
  BY <1>1, <1>2, CountingOn, Zenon
<1>4. ASSUME NEW s \in Stops
      PROVE  /\ earliest_arrival'[s] <= prev_arrival[s]
             /\ s \in next_marked' <=> earliest_arrival'[s] # prev_arrival[s]
             /\ IsExplained(graph, s, prev_arrival, earliest_arrival')
  <2>1. /\ earliest_arrival[s] \in Nat /\ earliest_arrival'[s] \in Nat /\ prev_arrival[s] \in Nat
        /\ earliest_arrival[s] <= prev_arrival[s]
        /\ s \in next_marked <=> earliest_arrival[s] # prev_arrival[s]
        /\ IsExplained(graph, s, prev_arrival, earliest_arrival)
    BY <1>1, <1>2
  <2>2. CASE /\ earliest_arrival'[s] = earliest_arrival[s]
             /\ s \in next_marked' <=> s \in next_marked
    <3>1. IsExplained(graph, s, prev_arrival, earliest_arrival')
      BY <1>1, <2>1, <2>2, CountingOn, Zenon
    <3> QED
      BY <2>1, <2>2, <3>1
  <2>3. CASE /\ earliest_arrival'[s] < earliest_arrival[s] /\ s \in next_marked'
             /\ IsExplained(graph, s, prev_arrival, earliest_arrival')
    BY <2>1, <2>3
  <2> QED
    BY <2>2, <2>3
<1>5. BestWith(k)' = BestWith(k)
  BY <1>1 DEF BestWith
<1> QED
  BY <1>1, <1>2, <1>3, <1>4, <1>5, Zenon DEF RoundIsSound

LEMMA StepRoundIsSound ==
  ASSUME Ready, BeforeRound, RoundIsSound, ScanIsOnTime, WalksGoOn, Step
  PROVE  RoundIsSound'
<1>1. CASE ~InRound'
  BY <1>1 DEF RoundIsSound
<1>2. CASE BeginRound
  <2>1. /\ pc = "round" /\ prev_arrival' = earliest_arrival /\ next_marked' = {}
        /\ UNCHANGED <<graph, earliest_arrival, k, marked_stops>>
    BY <1>2 DEF BeginRound, labels
  <2>2. /\ earliest_arrival = BestWith(k)
        /\ WalkedOut(graph, earliest_arrival)
        /\ OthersCount(graph, marked_stops, earliest_arrival, earliest_arrival)
    BY <2>1 DEF BeforeRound
  <2>3. /\ \A s \in Stops : earliest_arrival[s] \in Nat
        /\ BestWith(k)' = BestWith(k)
    BY <2>1, LabelsOfAStep DEF BestWith
  <2>4. \A s \in Stops : IsExplained(graph, s, earliest_arrival, earliest_arrival)
    BY DEF IsExplained
  <2>5. \A s \in Stops : earliest_arrival[s] <= earliest_arrival[s]
    BY <2>3
  <2> QED
    BY <2>1, <2>2, <2>3, <2>4, <2>5 DEF RoundIsSound
<1>3. CASE /\ InRound /\ UNCHANGED <<k, prev_arrival, marked_stops>>
           /\ UNCHANGED <<earliest_arrival, next_marked>>
  BY <1>3, RoundGoesOnSoundly
<1>4. CASE Alight
  <2>1. /\ InRound /\ Here \in Stops /\ pc = "alight"
        /\ UNCHANGED <<k, prev_arrival, marked_stops>>
    BY <1>4, ScanFields DEF Alight, InRound, round, Ready
  <2>2. CASE UNCHANGED <<earliest_arrival, next_marked>>
    BY <2>1, <2>2, RoundGoesOnSoundly
  <2>3. CASE /\ current_trip # NoTrip /\ ArrivalHere < earliest_arrival[Here]
             /\ earliest_arrival' = [earliest_arrival EXCEPT ![Here] = ArrivalHere]
             /\ next_marked' = next_marked \cup {Here}
    <3>1. earliest_arrival \in [Stops -> Time]
      BY LabelsOfAStep
    <3>2. earliest_arrival'[Here] = ArrivalHere
      BY <2>1, <2>3, <3>1
    <3>3. IsExplained(graph, Here, prev_arrival, earliest_arrival')
      BY <2>1, <2>3, <3>2, AlightIsExplained DEF IsExplained, CameBy
    <3>4. \A s \in Stops \ {Here} : /\ earliest_arrival'[s] = earliest_arrival[s]
                                    /\ s \in next_marked' <=> s \in next_marked
      BY <2>3, <3>1
    <3>5. earliest_arrival'[Here] < earliest_arrival[Here] /\ Here \in next_marked'
      BY <2>3, <3>2
    <3> QED
      BY <2>1, <3>3, <3>4, <3>5, RoundGoesOnSoundly
  <2> QED
    BY <1>4, <2>2, <2>3 DEF Alight, labels
<1>5. CASE RelaxFootpaths
  <2>1. PICK u \in bus_alighted_stops :
          WalkFrom(u) /\ next_marked' = next_marked \cup WalkImproves(u)
    BY <1>5 DEF RelaxFootpaths
  <2>2. /\ InRound /\ pc = "walk" /\ UNCHANGED <<k, prev_arrival, marked_stops>>
    BY <1>5 DEF RelaxFootpaths, InRound, round
  <2>3. u \in Stops /\ WalksEnd(u)
    BY <2>2 DEF Ready, TypeOK, RoundTypeOK, WalkersArrived
  <2>4. /\ \A s \in Stops : earliest_arrival'[s] # earliest_arrival[s] => s \in WalkImproves(u)
        /\ \A s \in WalkImproves(u) : earliest_arrival'[s] < earliest_arrival[s]
    BY <2>1, <2>3, WalksOfAStep DEF Ready
  <2>5. \A s \in WalkImproves(u) : IsExplained(graph, s, prev_arrival, earliest_arrival')
    BY <2>1, <2>2, WalkIsExplained
  <2>6. \A s \in Stops :
           \/ /\ earliest_arrival'[s] = earliest_arrival[s]
              /\ s \in next_marked' <=> s \in next_marked
           \/ /\ earliest_arrival'[s] < earliest_arrival[s] /\ s \in next_marked'
              /\ IsExplained(graph, s, prev_arrival, earliest_arrival')
    BY <2>1, <2>4, <2>5
  <2> QED
    BY <2>2, <2>6, RoundGoesOnSoundly
<1> QED
  BY <1>1, <1>2, <1>3, <1>4, <1>5, Zenon
     DEF Step, InitialWalks, SkipRoute, ScanRoute, PassBy, BeginTripSearch, TripSearchStep,
         EndTripSearch, CollectAlighted, FootpathsDone, EndRound, ReplyUnreachable, BeginTrace,
         TraceLeg, ReplyItinerary, NextPosition, InRound, round, labels

-----------------------------------------------------------------------------
(* A route is boarded no later than where it first comes by a marked stop. *)
LEMMA FirstBoarding ==
  ASSUME TypeOK, NEW r \in 1 .. Len(routes), NEW i \in DOMAIN stopsOf(r),
         stopsOf(r)[i] \in marked_stops
  PROVE  \E j \in BoardingPositions(r) : j \in Nat /\ j <= i
<1> DEFINE P == {j \in DOMAIN stopsOf(r) : stopsOf(r)[j] = stopsOf(r)[i]}
<1>1. DOMAIN stopsOf(r) = 1 .. Len(stopsOf(r)) /\ Len(stopsOf(r)) \in Nat
  BY RouteFields DEF TypeOK
<1>2. P \in SUBSET Nat /\ P # {}
  BY <1>1
<1>3. PICK m \in P : \A n \in P : m <= n
  <2> HIDE DEF P
  <2> QED
    BY <1>2, NatMin
<1>4. m \in Nat /\ m <= i /\ m \in DOMAIN stopsOf(r) /\ stopsOf(r)[m] = stopsOf(r)[i]
  BY <1>2, <1>3
<1>5. ASSUME NEW j \in 1 .. m - 1
      PROVE  stopsOf(r)[j] # stopsOf(r)[m]
  <2>1. j \in DOMAIN stopsOf(r) /\ ~(m <= j)
    BY <1>1, <1>4
  <2> QED
    BY <1>3, <1>4, <2>1
<1>6. m \in BoardingPositions(r)
  BY <1>4, <1>5 DEF BoardingPositions
<1> QED
  BY <1>4, <1>6

(* Which rides have been scanned after a step, if the step moves on.       *)
LEMMA ScannedNext ==
  ASSUME TypeOK, pc \in {"board", "search"}, NextPosition,
         NEW x \in Rides(graph), IsScanned(x)'
  PROVE  IsScanned(x)
<1>1. /\ x.r \in 1 .. Len(routes) /\ x.r \in Nat /\ x.j \in Nat
      /\ x.j \in DOMAIN stopsOf(x.r)
      /\ DOMAIN stopsOf(x.r) = 1 .. Len(stopsOf(x.r)) /\ Len(stopsOf(x.r)) \in Nat
  BY GraphRide, RouteFields DEF TypeOK
<1>2. r_id \in Nat /\ p \in Nat
  BY ScanFields
<1>3. CASE p < Len(stopsOf(r_id))
  BY <1>1, <1>2, <1>3 DEF NextPosition, IsScanned, InScan
<1>4. CASE ~(p < Len(stopsOf(r_id)))
  <2>1. r_id' = r_id + 1 /\ pc' = "route" /\ p' = p
    BY <1>4 DEF NextPosition
  <2>2. x.r < r_id + 1
    BY <2>1 DEF IsScanned, InScan
  <2>3. CASE x.r < r_id
    BY <2>3 DEF IsScanned
  <2>4. CASE x.r = r_id
    <3>1. x.j <= p
      BY <1>1, <1>2, <1>4, <2>4, ScanFields
    <3>2. x.j < p \/ x.j = p
      BY <1>1, <1>2, <3>1
    <3> QED
      BY <2>4, <3>2 DEF IsScanned, InScan
  <2> QED
    BY <1>1, <1>2, <2>2, <2>3, <2>4
<1> QED
  BY <1>3, <1>4

LEMMA ScansGoOnCounting ==
  ASSUME Ready, ScansCount, Step, pc = "route" \/ InScan,
         UNCHANGED <<graph, earliest_arrival, parent, next_marked, prev_arrival, marked_stops>>,
         \A x \in Rides(graph) : /\ IsScanned(x)' /\ BoardedAt(graph, x) \in marked_stops
                                 => IsScanned(x)
  PROVE  ScansCount'
<1>1. /\ \A s \in next_marked : parent[s].route # FOOTPATH_ROUTE_ID
      /\ \A x \in Rides(graph) :
         IsScanned(x) /\ Caught(graph, x, prev_arrival) /\ BoardedAt(graph, x) \in marked_stops =>
           RideCounts(graph, x, earliest_arrival)
  BY DEF ScansCount
<1>2. ASSUME NEW x \in Rides(graph), IsScanned(x)', Caught(graph, x, prev_arrival),
             BoardedAt(graph, x) \in marked_stops
      PROVE  RideCounts(graph, x, earliest_arrival)
  BY <1>1, <1>2
<1> QED
  BY <1>1, <1>2, Zenon DEF ScansCount

LEMMA StepScansCount ==
  ASSUME Ready, RoundIsSound, ScansCount, ScanIsOnTime, Step
  PROVE  ScansCount'
<1>1. CASE ~(pc' = "route" \/ InScan')
  BY <1>1 DEF ScansCount
<1>2. CASE BeginRound
  <2>1. r_id' = 1 /\ pc' = "route" /\ next_marked' = {} /\ graph' = graph
    BY <1>2 DEF BeginRound
  <2>2. ASSUME NEW x \in Rides(graph) PROVE ~IsScanned(x)'
    <3>1. x.r \in 1 .. Len(routes)
      BY GraphRide DEF Ready, TypeOK
    <3> QED
      BY <2>1, <3>1 DEF IsScanned, InScan
  <2> QED
    BY <2>1, <2>2 DEF ScansCount
<1>3. CASE SkipRoute
  <2>1. /\ pc = "route" /\ BoardingPositions(r_id) = {} /\ r_id' = r_id + 1 /\ pc' = pc
        /\ r_id \in 1 .. Len(routes)
        /\ UNCHANGED <<graph, earliest_arrival, parent, next_marked, prev_arrival, marked_stops>>
    BY <1>3 DEF SkipRoute, labels, round, Ready, TypeOK, ScanTypeOK
  <2>2. ASSUME NEW x \in Rides(graph), IsScanned(x)', BoardedAt(graph, x) \in marked_stops
        PROVE  IsScanned(x)
    <3>1. /\ x.r \in 1 .. Len(routes) /\ x.i \in DOMAIN stopsOf(x.r)
      BY GraphRide DEF Ready, TypeOK
    <3>2. x.r # r_id
      BY <2>1, <2>2, <3>1, FirstBoarding DEF BoardedAt, stopsOf, routes, Ready
    <3>3. x.r < r_id + 1
      BY <2>1, <2>2 DEF IsScanned, InScan
    <3> QED
      BY <2>1, <3>1, <3>2, <3>3 DEF IsScanned
  <2> QED
    BY <2>1, <2>2, ScansGoOnCounting
<1>4. CASE ScanRoute
  <2>1. /\ pc = "route" /\ r_id' = r_id /\ pc' = "alight"
        /\ r_id \in 1 .. Len(routes)
        /\ UNCHANGED <<graph, earliest_arrival, parent, next_marked, prev_arrival, marked_stops>>
    BY <1>4 DEF ScanRoute, labels, round, Ready, TypeOK, ScanTypeOK
  <2>2. /\ p' \in BoardingPositions(r_id) /\ \A j \in BoardingPositions(r_id) : p' <= j
        /\ p' \in Nat
    <3>1. p' \in BoardingPositions(r_id) /\ \A j \in BoardingPositions(r_id) : p' <= j
      BY <1>4 DEF ScanRoute
    <3>2. DOMAIN stopsOf(r_id) = 1 .. Len(stopsOf(r_id))
      BY <2>1, RouteFields DEF Ready, TypeOK
    <3> QED
      BY <3>1, <3>2 DEF BoardingPositions
  <2>3. ASSUME NEW x \in Rides(graph), IsScanned(x)', BoardedAt(graph, x) \in marked_stops
        PROVE  IsScanned(x)
    <3>1. /\ x.r \in 1 .. Len(routes) /\ x.i \in DOMAIN stopsOf(x.r)
          /\ x.i \in Nat /\ x.j \in Nat /\ x.i < x.j
      BY GraphRide DEF Ready, TypeOK
    <3>2. ASSUME x.r = r_id PROVE p' <= x.i
      <4>1. stopsOf(r_id)[x.i] \in marked_stops /\ x.i \in DOMAIN stopsOf(r_id)
        BY <2>3, <3>1, <3>2 DEF BoardedAt, stopsOf, routes
      <4>2. PICK j \in BoardingPositions(r_id) : j \in Nat /\ j <= x.i
        BY <2>1, <4>1, FirstBoarding DEF Ready
      <4> QED
        BY <2>2, <3>1, <4>2
    <3>3. x.r < r_id \/ (x.r = r_id /\ x.j < p')
      BY <2>1, <2>3 DEF IsScanned, InScan
    <3> QED
      BY <2>2, <3>1, <3>2, <3>3 DEF IsScanned
  <2> QED
    BY <2>1, <2>3, ScansGoOnCounting
<1>5. CASE (PassBy \/ EndTripSearch)
  <2>1. /\ pc \in {"board", "search"} /\ NextPosition /\ InScan
        /\ UNCHANGED <<graph, earliest_arrival, parent, next_marked, prev_arrival, marked_stops>>
    BY <1>5 DEF PassBy, EndTripSearch, labels, round, InScan
  <2>2. \A x \in Rides(graph) : IsScanned(x)' => IsScanned(x)
    BY <2>1, ScannedNext DEF Ready
  <2> QED
    BY <2>1, <2>2, ScansGoOnCounting
<1>6. CASE BeginTripSearch \/ TripSearchStep
  <2>1. /\ pc \in {"board", "search"} /\ pc' = "search" /\ InScan
        /\ UNCHANGED <<graph, earliest_arrival, parent, next_marked, prev_arrival, marked_stops, r_id, p>>
    BY <1>6 DEF BeginTripSearch, TripSearchStep, labels, round, InScan
  <2>2. \A x \in Rides(graph) : IsScanned(x)' => IsScanned(x)
    BY <2>1 DEF IsScanned, InScan
  <2> QED
    BY <2>1, <2>2, ScansGoOnCounting
<1>7. CASE Alight
  <2>1. /\ pc = "alight" /\ pc' = "board" /\ InScan /\ InRound
        /\ UNCHANGED <<graph, prev_arrival, marked_stops, r_id, p, current_trip>>
    BY <1>7 DEF Alight, round, ride, InScan, InRound
  <2>2. /\ earliest_arrival \in [Stops -> Time] /\ earliest_arrival' \in [Stops -> Time]
        /\ prev_arrival \in [Stops -> Time]
        /\ \A s \in Stops : earliest_arrival'[s] <= earliest_arrival[s]
        /\ IsGraph(graph)
    BY LabelsOfAStep
  <2>3. \A x \in Rides(graph) :
          RideCounts(graph, x, earliest_arrival) => RideCounts(graph, x, earliest_arrival')
    BY <2>2, CountingOn, Zenon
  <2>4. \A s \in next_marked' : parent'[s].route # FOOTPATH_ROUTE_ID
    <3>1. /\ \A s \in next_marked : parent[s].route # FOOTPATH_ROUTE_ID
          /\ next_marked \subseteq Stops /\ parent \in [Stops -> Parents]
      BY <2>1 DEF ScansCount, Ready, TypeOK, RoundTypeOK, LabelTypeOK
    <3>2. CASE UNCHANGED <<labels, next_marked>>
      BY <3>1, <3>2 DEF labels
    <3>3. CASE /\ parent' = [parent EXCEPT ![Here] =
                     [stop |-> board_stop_id, route |-> r_id,
                      board |-> current_board_time, alight |-> ArrivalHere]]
               /\ next_marked' = next_marked \cup {Here}
      <4>1. Here \in Stops /\ r_id \in 1 .. Len(routes) /\ Len(routes) < FOOTPATH_ROUTE_ID
            /\ Len(routes) \in Nat
        BY <2>1, ScanFields, RouteFields DEF Ready, TypeOK
      <4>2. parent'[Here].route = r_id /\ r_id # FOOTPATH_ROUTE_ID
        BY <3>1, <3>3, <4>1
      <4>3. \A s \in Stops \ {Here} : parent'[s] = parent[s]
        BY <3>1, <3>3
      <4> QED
        BY <3>1, <3>3, <4>2, <4>3
    <3> QED
      BY <1>7, <3>2, <3>3 DEF Alight
  <2>5. ASSUME NEW x \in Rides(graph), x.r = r_id, x.j = p, Caught(graph, x, prev_arrival),
               BoardedAt(graph, x) \in marked_stops
        PROVE  RideCounts(graph, x, earliest_arrival')
    <3>1. /\ x.r \in 1 .. Len(routes) /\ x.i \in Nat /\ x.i < p /\ x.t \in DOMAIN tripsOf(r_id)
          /\ x.i \in DOMAIN stopsOf(r_id) /\ x.j \in DOMAIN stopsOf(r_id) /\ x.t \in Nat
          /\ ArrivalOf(graph, x) \in Time
      BY <2>5, <2>2, GraphRide
    <3>2. p \in Nat /\ x.i \in 1 .. p - 1
      BY <2>1, <3>1, ScanFields DEF Ready
    <3>3. /\ stopsOf(r_id)[x.i] \in marked_stops
          /\ prev_arrival[stopsOf(r_id)[x.i]] # INF
          /\ prev_arrival[stopsOf(r_id)[x.i]] <= tripsOf(r_id)[x.t][x.i].dep_sec
      BY <2>5 DEF Caught, BoardedAt, DepartureOf, stopsOf, tripsOf, routes
    <3>4. current_trip # NoTrip /\ current_trip <= x.t
      BY <2>1, <3>1, <3>2, <3>3, Zenon DEF ScanIsOnTime
    <3>5. current_trip \in DOMAIN tripsOf(r_id) /\ current_trip \in Nat /\ ArrivalHere \in Time
          /\ Here \in Stops
      BY <2>1, <3>4, ScanFields DEF Ready
    <3>6. ArrivalHere <= ArrivalOf(graph, x)
      <4>1. CASE current_trip = x.t
        <5>1. ArrivalHere = ArrivalOf(graph, x)
          BY <2>5, <4>1 DEF ArrivalHere, ArrivalOf, tripsOf, routes
        <5> QED
          BY <3>1, <5>1
      <4>2. CASE current_trip < x.t
        BY <2>5, <3>1, <3>5, <4>2
           DEF Ready, Orderly, NoOvertaking, ArrivalHere, ArrivalOf, tripsOf, stopsOf, routes
      <4> QED
        BY <3>1, <3>4, <3>5, <4>1, <4>2
    <3>7. earliest_arrival'[Here] <= ArrivalHere
      <4>1. CASE ArrivalHere < earliest_arrival[Here]
        BY <1>7, <2>2, <3>4, <3>5, <4>1 DEF Alight
      <4>2. CASE ~(ArrivalHere < earliest_arrival[Here])
        BY <2>2, <3>5, <4>2
      <4> QED
        BY <4>1, <4>2
    <3>8. LeftAt(graph, x) = Here
      BY <2>5 DEF LeftAt, Here, stopsOf, routes
    <3> QED
      BY <2>2, <3>1, <3>5, <3>6, <3>7, <3>8 DEF RideCounts
  <2>6. ASSUME NEW x \in Rides(graph), IsScanned(x)', Caught(graph, x, prev_arrival),
               BoardedAt(graph, x) \in marked_stops
        PROVE  RideCounts(graph, x, earliest_arrival')
    <3>1. CASE IsScanned(x)
      BY <2>1, <2>3, <2>6, <3>1 DEF ScansCount
    <3>2. CASE x.r = r_id /\ x.j = p
      BY <2>5, <2>6, <3>2
    <3> QED
      BY <2>1, <2>6, <3>1, <3>2 DEF IsScanned, InScan
  <2> QED
    BY <2>1, <2>4, <2>6, Zenon DEF ScansCount
<1> QED
  BY <1>1, <1>2, <1>3, <1>4, <1>5, <1>6, <1>7
     DEF Step, InitialWalks, CollectAlighted, RelaxFootpaths, FootpathsDone, EndRound,
         ReplyUnreachable, BeginTrace, TraceLeg, ReplyItinerary, InScan

-----------------------------------------------------------------------------
(* The trips that could be caught at the positions before p.               *)
NoneMissed(pos, trip) ==
  \A i \in 1 .. pos - 1 : \A t \in DOMAIN tripsOf(r_id) :
    /\ stopsOf(r_id)[i] \in marked_stops
    /\ prev_arrival[stopsOf(r_id)[i]] # INF
    /\ prev_arrival[stopsOf(r_id)[i]] <= tripsOf(r_id)[t][i].dep_sec
    => trip # NoTrip /\ trip <= t

IsCaughtBy(pos, trip) ==
  trip # NoTrip =>
    \E x \in Rides(graph) : /\ x.r = r_id /\ x.t = trip /\ x.j = pos
                            /\ Caught(graph, x, prev_arrival)

LEMMA ScanIsOnTimeIs ==
  ScanIsOnTime <=>
    (InScan => /\ IsCaughtBy(p, current_trip) /\ NoneMissed(p, current_trip)
               /\ pc = "search" =>
                    /\ CanBoardHere
                    /\ current_trip # NoTrip => high < current_trip /\ best_t < current_trip)
BY Zenon DEF ScanIsOnTime, IsCaughtBy, NoneMissed

(* Who is on a bus at a position is on it at the next one.                 *)
LEMMA CaughtFurther ==
  ASSUME TypeOK, InScan, IsCaughtBy(p, current_trip), p < Len(stopsOf(r_id))
  PROVE  IsCaughtBy(p + 1, current_trip)
<1> SUFFICES ASSUME current_trip # NoTrip
             PROVE  \E x \in Rides(graph) :
                      /\ x.r = r_id /\ x.t = current_trip /\ x.j = p + 1
                      /\ Caught(graph, x, prev_arrival)
  BY DEF IsCaughtBy
<1>1. PICK x \in Rides(graph) : /\ x.r = r_id /\ x.t = current_trip /\ x.j = p
                                /\ Caught(graph, x, prev_arrival)
  BY DEF IsCaughtBy
<1>2. /\ r_id \in 1 .. Len(routes) /\ current_trip \in DOMAIN tripsOf(r_id)
      /\ x.i \in DOMAIN stopsOf(r_id) /\ x.i \in Nat /\ x.i < p
  BY <1>1, GraphRide DEF TypeOK
<1>3. p \in Nat /\ p + 1 \in DOMAIN stopsOf(r_id) /\ x.i < p + 1
  BY <1>2, ScanFields DEF InScan
<1>4. PICK y \in Rides(graph) : y.r = r_id /\ y.t = current_trip /\ y.i = x.i /\ y.j = p + 1
  BY <1>2, <1>3, IsGraphRide DEF TypeOK
<1>5. Caught(graph, y, prev_arrival)
  BY <1>1, <1>4 DEF Caught, BoardedAt, DepartureOf
<1> QED
  BY <1>4, <1>5

(* Who boards a trip here is on it at the next position.                   *)
LEMMA CaughtHere ==
  ASSUME TypeOK, InScan, CanBoardHere, NEW t \in DOMAIN tripsOf(r_id), Catchable(t),
         p < Len(stopsOf(r_id))
  PROVE  IsCaughtBy(p + 1, t)
<1>1. /\ r_id \in 1 .. Len(routes) /\ p \in Nat
      /\ p \in DOMAIN stopsOf(r_id) /\ p + 1 \in DOMAIN stopsOf(r_id) /\ p < p + 1
      /\ Here \in Stops /\ DepartureHere(t) \in Time
  BY ScanFields DEF InScan
<1>2. PICK y \in Rides(graph) : y.r = r_id /\ y.t = t /\ y.i = p /\ y.j = p + 1
  BY <1>1, IsGraphRide DEF TypeOK
<1>3. BoardedAt(graph, y) = Here /\ DepartureOf(graph, y) = DepartureHere(t)
  BY <1>2 DEF BoardedAt, DepartureOf, Here, DepartureHere, stopsOf, tripsOf, routes
<1>4. prev_arrival[Here] \in Time
  BY <1>1 DEF TypeOK, RoundTypeOK
<1>5. Caught(graph, y, prev_arrival)
  BY <1>1, <1>3, <1>4 DEF Caught, CanBoardHere, Catchable
<1> QED
  BY <1>2, <1>5 DEF IsCaughtBy

(* Where nobody can board, none is missed.                                 *)
LEMMA NoneMissedFurther ==
  ASSUME TypeOK, InScan, NEW trip \in Nat, NoneMissed(p, trip),
         \A t \in DOMAIN tripsOf(r_id) :
           CanBoardHere /\ Catchable(t) => trip # NoTrip /\ trip <= t
  PROVE  NoneMissed(p + 1, trip)
<1> SUFFICES ASSUME NEW i \in 1 .. (p + 1) - 1, NEW t \in DOMAIN tripsOf(r_id),
                    stopsOf(r_id)[i] \in marked_stops,
                    prev_arrival[stopsOf(r_id)[i]] # INF,
                    prev_arrival[stopsOf(r_id)[i]] <= tripsOf(r_id)[t][i].dep_sec
             PROVE  trip # NoTrip /\ trip <= t
  BY DEF NoneMissed
<1>1. p \in Nat /\ Here \in Stops /\ DepartureHere(t) \in Time
  BY ScanFields DEF InScan
<1>2. CASE i = p
  <2>1. prev_arrival[Here] \in Time
    BY <1>1 DEF TypeOK, RoundTypeOK
  <2>2. CanBoardHere /\ Catchable(t)
    BY <1>1, <1>2, <2>1 DEF CanBoardHere, Catchable, Here, DepartureHere
  <2> QED
    BY <2>2
<1>3. CASE i # p
  <2>1. i \in 1 .. p - 1
    BY <1>1, <1>3
  <2> QED
    BY <2>1 DEF NoneMissed
<1> QED
  BY <1>2, <1>3

(* ... nor where a trip is boarded that is the earliest there and earlier  *)
(* than the one before.                                                    *)
LEMMA NoneMissedBefore ==
  ASSUME NEW trip \in Nat, NEW earlier \in Nat, NEW pos, NoneMissed(pos, trip),
         earlier # NoTrip, trip # NoTrip => earlier <= trip,
         \A t \in DOMAIN tripsOf(r_id) : t \in Nat
  PROVE  NoneMissed(pos, earlier)
BY DEF NoneMissed

(* What a step has to show of the scan after it.                           *)
LEMMA OnTimeNext ==
  ASSUME UNCHANGED <<graph, r_id, prev_arrival, marked_stops>>,
         IsCaughtBy(p', current_trip'), NoneMissed(p', current_trip'),
         pc' = "search" =>
           CanBoardHere' /\ (current_trip' # NoTrip => high' < current_trip' /\ best_t' < current_trip')
  PROVE  ScanIsOnTime'
<1>1. /\ stopsOf(r_id)' = stopsOf(r_id) /\ tripsOf(r_id)' = tripsOf(r_id)
      /\ Rides(graph)' = Rides(graph)
  BY DEF stopsOf, tripsOf, routes
<1> QED
  BY <1>1, Zenon DEF ScanIsOnTime, IsCaughtBy, NoneMissed

(* Where the binary search has closed, the scan goes on with the earliest  *)
(* trip it could have caught here or before.                               *)
LEMMA SearchEndsOnTime ==
  ASSUME Ready, ScanIsOnTime, EndTripSearch, p < Len(stopsOf(r_id))
  PROVE  IsCaughtBy(p + 1, TripAfterSearch) /\ NoneMissed(p + 1, TripAfterSearch)
<1>1. /\ pc = "search" /\ low > high /\ InScan
      /\ TypeOK /\ SearchBracket /\ NoOvertaking(graph) /\ SearchIsSound
  BY DEF EndTripSearch, InScan, Ready, Orderly, SearchInvariant
<1>2. /\ IsCaughtBy(p, current_trip) /\ NoneMissed(p, current_trip) /\ CanBoardHere
      /\ current_trip # NoTrip => high < current_trip /\ best_t < current_trip
  BY <1>1, ScanIsOnTimeIs
<1>3. /\ current_trip \in Nat
      /\ best_t \in {NoTrip} \cup DOMAIN tripsOf(r_id)
      /\ DOMAIN tripsOf(r_id) = 1 .. Len(tripsOf(r_id))
      /\ \A t \in DOMAIN tripsOf(r_id) : t \in Nat
  <2>1. current_trip \in Nat /\ DOMAIN tripsOf(r_id) = 1 .. Len(tripsOf(r_id))
    BY <1>1, ScanFields
  <2>2. best_t \in {NoTrip} \cup DOMAIN tripsOf(r_id)
    BY <1>1 DEF TypeOK, ScanTypeOK
  <2>3. \A t \in DOMAIN tripsOf(r_id) : t \in Nat
    BY <2>1
  <2> QED
    BY <2>1, <2>2, <2>3
<1>4. \A t \in DOMAIN tripsOf(r_id) : Catchable(t) =>
        TripAfterSearch \in DOMAIN tripsOf(r_id) /\ TripAfterSearch <= t
  BY <1>1, BracketCloses
<1>5. CASE best_t = NoTrip
  <2>1. TripAfterSearch = current_trip
    BY <1>5 DEF TripAfterSearch
  <2>2. \A t \in DOMAIN tripsOf(r_id) : Catchable(t) => current_trip # NoTrip /\ current_trip <= t
    BY <1>3, <1>4, <2>1
  <2> QED
    BY <1>1, <1>2, <1>3, <2>1, <2>2, CaughtFurther, NoneMissedFurther
<1>6. CASE best_t # NoTrip
  <2>1. /\ TripAfterSearch = best_t /\ best_t \in DOMAIN tripsOf(r_id) /\ best_t \in Nat
        /\ Catchable(best_t)
    BY <1>1, <1>3, <1>6 DEF TripAfterSearch, SearchIsSound
  <2>2. IsCaughtBy(p + 1, best_t)
    BY <1>1, <1>2, <2>1, CaughtHere
  <2>3. current_trip # NoTrip => best_t <= current_trip
    BY <1>2, <1>3, <2>1
  <2>4. NoneMissed(p, best_t)
    BY <1>2, <1>3, <1>6, <2>1, <2>3, NoneMissedBefore
  <2>5. \A t \in DOMAIN tripsOf(r_id) : Catchable(t) => best_t # NoTrip /\ best_t <= t
    BY <1>4, <1>6, <2>1
  <2>6. NoneMissed(p + 1, best_t)
    BY <1>1, <2>1, <2>4, <2>5, NoneMissedFurther
  <2> QED
    BY <2>1, <2>2, <2>6
<1> QED
  BY <1>5, <1>6

LEMMA StepScanIsOnTime ==
  ASSUME Ready, ScanIsOnTime, Step
  PROVE  ScanIsOnTime'
<1>0. TypeOK
  BY DEF Ready
<1>1. CASE ~InScan'
  BY <1>1 DEF ScanIsOnTime
<1>2. CASE ScanRoute
  <2>1. /\ pc = "route" /\ pc' = "alight" /\ r_id \in 1 .. Len(routes)
        /\ UNCHANGED <<graph, r_id, prev_arrival, marked_stops>>
        /\ current_trip' = NoTrip
        /\ p' \in BoardingPositions(r_id) /\ \A j \in BoardingPositions(r_id) : p' <= j
    BY <1>0, <1>2 DEF ScanRoute, round, TypeOK, ScanTypeOK
  <2>2. DOMAIN stopsOf(r_id) = 1 .. Len(stopsOf(r_id)) /\ Len(stopsOf(r_id)) \in Nat
    BY <1>0, <2>1, RouteFields DEF TypeOK
  <2>3. p' \in DOMAIN stopsOf(r_id)
    BY <2>1 DEF BoardingPositions
  <2>4. ASSUME NEW i \in 1 .. p' - 1, stopsOf(r_id)[i] \in marked_stops
        PROVE  FALSE
    <3>1. i \in DOMAIN stopsOf(r_id) /\ i \in Nat /\ p' \in Nat /\ i < p'
      BY <2>2, <2>3
    <3>2. PICK j \in BoardingPositions(r_id) : j \in Nat /\ j <= i
      BY <1>0, <2>1, <2>4, <3>1, FirstBoarding
    <3> QED
      BY <2>1, <3>1, <3>2
  <2>5. NoneMissed(p', current_trip') /\ IsCaughtBy(p', current_trip')
    BY <2>1, <2>4 DEF NoneMissed, IsCaughtBy
  <2> QED
    BY <2>1, <2>5, OnTimeNext
<1>3. CASE Alight
  <2>1. /\ pc = "alight" /\ pc' = "board" /\ InScan
        /\ UNCHANGED <<graph, r_id, prev_arrival, marked_stops, p, current_trip>>
    BY <1>3 DEF Alight, round, ride, InScan
  <2>2. IsCaughtBy(p, current_trip) /\ NoneMissed(p, current_trip)
    BY <2>1, ScanIsOnTimeIs
  <2> QED
    BY <2>1, <2>2, OnTimeNext
<1>4. CASE BeginTripSearch \/ TripSearchStep
  <2>1. /\ pc \in {"board", "search"} /\ pc' = "search" /\ InScan
        /\ UNCHANGED <<graph, r_id, prev_arrival, marked_stops, p, current_trip>>
    BY <1>4 DEF BeginTripSearch, TripSearchStep, round, ride, InScan
  <2>2. IsCaughtBy(p, current_trip) /\ NoneMissed(p, current_trip)
    BY <2>1, ScanIsOnTimeIs
  <2>3. CanBoardHere
    BY <1>4, <2>1, ScanIsOnTimeIs DEF BeginTripSearch, TripSearchStep
  <2>4. CanBoardHere'
    BY <2>1, <2>3 DEF CanBoardHere, Here, stopsOf, routes
  <2>5. ASSUME current_trip # NoTrip PROVE high' < current_trip /\ best_t' < current_trip
    <3>1. current_trip \in Nat /\ current_trip > 0
      BY <1>0, <2>1, <2>5, ScanFields DEF InScan
    <3>2. CASE BeginTripSearch
      BY <2>5, <3>1, <3>2 DEF BeginTripSearch
    <3>3. CASE TripSearchStep
      <4>1. high < current_trip /\ best_t < current_trip
        BY <2>1, <2>5, <3>3, ScanIsOnTimeIs DEF TripSearchStep
      <4>2. low \in Nat /\ high \in Nat /\ low <= high
        BY <1>0, <3>3, ScanFields DEF TripSearchStep, TypeOK, ScanTypeOK
      <4>3. Mid \in Nat /\ Mid <= high
        BY <4>2 DEF Mid
      <4> QED
        BY <3>1, <3>3, <4>1, <4>2, <4>3 DEF TripSearchStep
    <3> QED
      BY <1>4, <3>2, <3>3
  <2> QED
    BY <2>1, <2>2, <2>4, <2>5, OnTimeNext
<1>5. CASE PassBy /\ InScan'
  <2>1. /\ pc = "board" /\ pc' = "alight" /\ InScan /\ ~CanBoardHere
        /\ p < Len(stopsOf(r_id)) /\ p' = p + 1
        /\ UNCHANGED <<graph, r_id, prev_arrival, marked_stops, current_trip>>
    BY <1>5 DEF PassBy, NextPosition, round, ride, InScan
  <2>2. IsCaughtBy(p, current_trip) /\ NoneMissed(p, current_trip) /\ current_trip \in Nat
    BY <1>0, <2>1, ScanIsOnTimeIs, ScanFields
  <2>3. IsCaughtBy(p + 1, current_trip) /\ NoneMissed(p + 1, current_trip)
    BY <1>0, <2>1, <2>2, CaughtFurther, NoneMissedFurther
  <2> QED
    BY <2>1, <2>3, OnTimeNext
<1>6. CASE EndTripSearch /\ InScan'
  <2>1. /\ pc' = "alight" /\ p < Len(stopsOf(r_id)) /\ p' = p + 1
        /\ UNCHANGED <<graph, r_id, prev_arrival, marked_stops>>
        /\ current_trip' = TripAfterSearch
    BY <1>6 DEF EndTripSearch, NextPosition, round, ride, InScan, TripAfterSearch
  <2>2. IsCaughtBy(p + 1, TripAfterSearch) /\ NoneMissed(p + 1, TripAfterSearch)
    BY <1>6, <2>1, SearchEndsOnTime
  <2> QED
    BY <2>1, <2>2, OnTimeNext
<1> QED
  BY <1>1, <1>2, <1>3, <1>4, <1>5, <1>6
     DEF Step, InitialWalks, BeginRound, SkipRoute, CollectAlighted, RelaxFootpaths, FootpathsDone,
         EndRound, ReplyUnreachable, BeginTrace, TraceLeg, ReplyItinerary, InScan

-----------------------------------------------------------------------------
(* A finished round has computed what the reference has with one more bus. *)
LEMMA RoundAddsOneBus ==
  ASSUME Ready, RoundIsSound, RoundIsOver, EndRound
  PROVE  /\ k \in 0 .. 3
         /\ earliest_arrival = BestWith(k + 1)
         /\ next_marked = {} => earliest_arrival = BestWith(k)
         /\ WalkedOut(graph, earliest_arrival)
         /\ OthersCount(graph, next_marked, earliest_arrival, earliest_arrival)
<1>1. /\ pc = "end_round" /\ InRound /\ k \in 0 .. 3
      /\ earliest_arrival \in [Stops -> Time] /\ prev_arrival \in [Stops -> Time]
      /\ IsGraph(graph) /\ WalksClosed(graph)
  BY DEF EndRound, InRound, Ready, TypeOK, RoundTypeOK, LabelTypeOK, Orderly, MAX_ROUNDS
<1>2. /\ prev_arrival = BestWith(k)
      /\ WalkedOut(graph, prev_arrival)
      /\ \A s \in Stops : s \in next_marked <=> earliest_arrival[s] # prev_arrival[s]
      /\ OneMoreBus(graph, prev_arrival, earliest_arrival)
  BY <1>1 DEF RoundIsSound, RoundIsOver
<1>3. earliest_arrival = BestWith(k + 1)
  <2>1. earliest_arrival = Later(graph, prev_arrival)
    BY <1>1, <1>2, OneMoreBusIsLater, GraphIsATimetable
  <2>2. BestWith(k + 1) = Later(graph, BestWith(k))
    BY <1>1, BestWithOneMore
  <2> QED
    BY <1>2, <2>1, <2>2
<1>4. next_marked = {} => earliest_arrival = BestWith(k)
  <2> SUFFICES ASSUME next_marked = {} PROVE earliest_arrival = prev_arrival
    BY <1>2
  <2>1. \A s \in Stops : earliest_arrival[s] = prev_arrival[s]
    BY <1>2
  <2> QED
    BY <1>1, <2>1
<1>5. WalkedOut(graph, earliest_arrival)
  BY <1>1, <1>2, OneMoreBusIsWalkedOut, GraphIsATimetable
<1>6. OthersCount(graph, next_marked, earliest_arrival, earliest_arrival)
  BY <1>1, <1>2, OthersCountOn, GraphIsATimetable
<1> QED
  BY <1>1, <1>3, <1>4, <1>5, <1>6

LEMMA StepBeforeRound ==
  ASSUME Ready, BeforeRound, RoundIsSound, RoundIsOver, Step
  PROVE  BeforeRound'
<1>1. graph' = graph /\ \A n : BestWith(n)' = BestWith(n)
  BY LabelsOfAStep
<1>2. CASE pc' \notin {"init_walks", "round"}
  BY <1>2 DEF BeforeRound
<1>3. CASE InitialWalks
  <2>1. pc' = "round" /\ k' = 0
    BY <1>3 DEF InitialWalks, BeforeRound
  <2>2. /\ earliest_arrival' = BestWith(0)
        /\ WalkedOut(graph, earliest_arrival')
        /\ OthersCount(graph, marked_stops', earliest_arrival', earliest_arrival')
    BY <1>3, FirstWalks
  <2>3. BestWith(k)' = BestWith(0)
    BY <1>1, <2>1 DEF BestWith
  <2> QED
    BY <1>1, <2>1, <2>2, <2>3 DEF BeforeRound
<1>4. CASE EndRound /\ pc' = "round"
  <2>1. k' = k + 1 /\ marked_stops' = next_marked /\ earliest_arrival' = earliest_arrival
    BY <1>4 DEF EndRound, labels
  <2>2. /\ earliest_arrival = BestWith(k + 1)
        /\ WalkedOut(graph, earliest_arrival)
        /\ OthersCount(graph, next_marked, earliest_arrival, earliest_arrival)
    BY <1>4, RoundAddsOneBus
  <2>3. BestWith(k)' = BestWith(k + 1)
    <3>1. UNCHANGED <<source_stop, departure_time>>
      BY <1>4, StepKeepsRequest
    <3> QED
      BY <1>1, <2>1, <3>1 DEF BestWith
  <2> QED
    BY <1>1, <1>4, <2>1, <2>2, <2>3 DEF BeforeRound
<1> QED
  BY <1>2, <1>3, <1>4
     DEF Step, BeginRound, SkipRoute, ScanRoute, Alight, PassBy, BeginTripSearch, TripSearchStep,
         EndTripSearch, NextPosition, CollectAlighted, RelaxFootpaths, FootpathsDone, EndRound,
         ReplyUnreachable, BeginTrace, TraceLeg, ReplyItinerary

(* After the last route every ride counts.                                 *)
LEMMA AllRidesCount ==
  ASSUME Ready, RoundIsSound, ScansCount, CollectAlighted,
         NEW x \in Rides(graph), Caught(graph, x, prev_arrival)
  PROVE  RideCounts(graph, x, earliest_arrival)
<1>1. /\ pc = "route" /\ InRound /\ r_id > Len(routes) /\ r_id \in Nat
  BY DEF CollectAlighted, InRound, Ready, TypeOK, ScanTypeOK
<1>2. /\ x.r \in 1 .. Len(routes) /\ Len(routes) \in Nat
  BY GraphRide, RouteFields DEF Ready, TypeOK
<1>3. IsScanned(x)
  BY <1>1, <1>2 DEF IsScanned
<1> QED
  BY <1>1, <1>3 DEF ScansCount, RoundIsSound, OthersCount

LEMMA StepWalksGoOn ==
  ASSUME Ready, RoundIsSound, ScansCount, WalksGoOn, Step
  PROVE  WalksGoOn'
<1>1. /\ earliest_arrival \in [Stops -> Time] /\ earliest_arrival' \in [Stops -> Time]
      /\ prev_arrival \in [Stops -> Time]
      /\ \A s \in Stops : earliest_arrival'[s] <= earliest_arrival[s]
      /\ IsGraph(graph) /\ graph' = graph
  BY LabelsOfAStep
<1>2. CASE pc' # "walk"
  BY <1>2 DEF WalksGoOn
<1>3. CASE CollectAlighted
  <2>1. /\ pc = "route" /\ InRound
        /\ bus_alighted_stops' = next_marked
        /\ UNCHANGED <<earliest_arrival, prev_arrival, next_marked>>
    <3>1. pc = "route" /\ \A s \in next_marked : parent[s].route # FOOTPATH_ROUTE_ID
      BY <1>3 DEF CollectAlighted, ScansCount
    <3> QED
      BY <1>3, <3>1 DEF CollectAlighted, InRound, labels, round
  <2>2. ASSUME NEW x \in Rides(graph), Caught(graph, x, prev_arrival)
        PROVE  RideCounts(graph, x, earliest_arrival)
    BY <1>3, <2>2, AllRidesCount
  <2>3. ASSUME NEW x \in Rides(graph), Caught(graph, x, prev_arrival),
               LeftAt(graph, x) \notin next_marked
        PROVE  WalksCount(graph, x, earliest_arrival)
    <3>1. RideCounts(graph, x, earliest_arrival)
      BY <2>2, <2>3
    <3>2. earliest_arrival[LeftAt(graph, x)] = prev_arrival[LeftAt(graph, x)]
      BY <1>1, <2>1, <2>3, GraphRide DEF RoundIsSound
    <3>3. WalkedOut(graph, prev_arrival) /\ \A s \in Stops : earliest_arrival[s] <= prev_arrival[s]
      BY <2>1 DEF RoundIsSound
    <3> QED
      BY <1>1, <3>1, <3>2, <3>3, OldWalksCount, GraphIsATimetable
  <2> QED
    BY <1>1, <2>1, <2>2, <2>3 DEF WalksGoOn
<1>4. CASE RelaxFootpaths
  <2>1. PICK u \in bus_alighted_stops :
          /\ WalkFrom(u)
          /\ next_marked' = next_marked \cup WalkImproves(u)
          /\ bus_alighted_stops' = bus_alighted_stops \ {u}
    BY <1>4 DEF RelaxFootpaths
  <2>2. /\ pc = "walk" /\ prev_arrival' = prev_arrival
    BY <1>4 DEF RelaxFootpaths, round
  <2>3. /\ bus_alighted_stops \subseteq next_marked
        /\ \A x \in Rides(graph) : Caught(graph, x, prev_arrival) =>
             /\ RideCounts(graph, x, earliest_arrival)
             /\ LeftAt(graph, x) \notin bus_alighted_stops => WalksCount(graph, x, earliest_arrival)
    BY <2>2 DEF WalksGoOn
  <2>4. u \in Stops /\ WalksEnd(u)
    BY <2>2 DEF Ready, TypeOK, RoundTypeOK, WalkersArrived
  <2>5. \A v \in DOMAIN graph.walk[u] :
          earliest_arrival'[v] <= earliest_arrival[u] + graph.walk[u][v]
    BY <2>1, <2>4, WalksOfAStep DEF Ready
  <2>6. ASSUME NEW x \in Rides(graph), Caught(graph, x, prev_arrival)
        PROVE  /\ RideCounts(graph, x, earliest_arrival')
               /\ WalksCount(graph, x, earliest_arrival) => WalksCount(graph, x, earliest_arrival')
    BY <1>1, <2>3, <2>6, CountingOn, Zenon
  <2>7. ASSUME NEW x \in Rides(graph), Caught(graph, x, prev_arrival), LeftAt(graph, x) = u
        PROVE  WalksCount(graph, x, earliest_arrival')
    <3>1. RideCounts(graph, x, earliest_arrival)
      BY <2>3, <2>7
    <3> QED
      BY <1>1, <2>4, <2>5, <2>7, <3>1, NewWalksCount, GraphIsATimetable
  <2>8. \A x \in Rides(graph) : Caught(graph, x, prev_arrival) =>
          /\ RideCounts(graph, x, earliest_arrival')
          /\ LeftAt(graph, x) \notin bus_alighted_stops' => WalksCount(graph, x, earliest_arrival')
    BY <2>1, <2>3, <2>6, <2>7
  <2>9. bus_alighted_stops' \subseteq next_marked'
    BY <2>1, <2>3
  <2> QED
    BY <1>1, <2>2, <2>8, <2>9, Zenon DEF WalksGoOn
<1> QED
  BY <1>2, <1>3, <1>4
     DEF Step, InitialWalks, BeginRound, SkipRoute, ScanRoute, Alight, PassBy, BeginTripSearch,
         TripSearchStep, EndTripSearch, NextPosition, FootpathsDone, EndRound, ReplyUnreachable,
         BeginTrace, TraceLeg, ReplyItinerary

LEMMA StepRoundIsOver ==
  ASSUME Ready, RoundIsSound, WalksGoOn, Step
  PROVE  RoundIsOver'
<1>1. CASE pc' # "end_round"
  BY <1>1 DEF RoundIsOver
<1>2. CASE FootpathsDone
  <2>1. /\ pc = "walk" /\ InRound /\ bus_alighted_stops = {}
        /\ UNCHANGED <<graph, earliest_arrival, prev_arrival>>
    BY <1>2 DEF FootpathsDone, InRound, labels, round
  <2>2. OneMoreBus(graph, prev_arrival, earliest_arrival)
    BY <2>1 DEF RoundIsSound, WalksGoOn, OneMoreBus
  <2> QED
    BY <2>1, <2>2 DEF RoundIsOver
<1> QED
  BY <1>1, <1>2
     DEF Step, InitialWalks, BeginRound, SkipRoute, ScanRoute, Alight, PassBy, BeginTripSearch,
         TripSearchStep, EndTripSearch, NextPosition, CollectAlighted, RelaxFootpaths, EndRound,
         ReplyUnreachable, BeginTrace, TraceLeg, ReplyItinerary

LEMMA StepSearchIsOver ==
  ASSUME Ready, RoundIsSound, RoundIsOver, SearchIsOver, Step
  PROVE  SearchIsOver'
<1>1. \A n : BestWith(n)' = BestWith(n)
  BY LabelsOfAStep
<1>2. CASE pc' \notin {"reply", "trace"}
  BY <1>2 DEF SearchIsOver
<1>3. CASE BeginTrace \/ TraceLeg
  <2>1. pc \in {"reply", "trace"} /\ earliest_arrival' = earliest_arrival
    BY <1>3 DEF BeginTrace, TraceLeg, labels
  <2> QED
    BY <1>1, <2>1 DEF SearchIsOver, MAX_ROUNDS
<1>4. CASE EndRound /\ pc' = "reply"
  <2>1. earliest_arrival' = earliest_arrival /\ (next_marked = {} \/ ~(k + 1 < 4))
    BY <1>4 DEF EndRound, labels, MAX_ROUNDS
  <2>2. /\ k \in 0 .. 3
        /\ earliest_arrival = BestWith(k + 1)
        /\ next_marked = {} => earliest_arrival = BestWith(k)
    BY <1>4, RoundAddsOneBus
  <2>3. CASE next_marked = {}
    <3>1. BestWith(4) = BestWith(k)
      BY <2>2, <2>3, BestWithStays
    <3> QED
      BY <1>1, <2>1, <2>2, <2>3, <3>1 DEF SearchIsOver, MAX_ROUNDS
  <2>4. CASE ~(k + 1 < 4)
    <3>1. k + 1 = 4
      BY <2>2, <2>4
    <3> QED
      BY <1>1, <2>1, <2>2, <3>1 DEF SearchIsOver, MAX_ROUNDS
  <2> QED
    BY <2>1, <2>3, <2>4
<1> QED
  BY <1>2, <1>3, <1>4
     DEF Step, InitialWalks, BeginRound, SkipRoute, ScanRoute, Alight, PassBy, BeginTripSearch,
         TripSearchStep, EndTripSearch, NextPosition, CollectAlighted, RelaxFootpaths,
         FootpathsDone, EndRound, ReplyUnreachable, ReplyItinerary

-----------------------------------------------------------------------------
LEMMA ReplyIsEarliest ==
  ASSUME SearchIsOver, ReplyUnreachable \/ ReplyItinerary, Step
  PROVE  ArrivalIsEarliest'
<1>1. earliest_arrival = BestWith(MAX_ROUNDS)
  BY DEF SearchIsOver, ReplyUnreachable, ReplyItinerary
<1>2. UNCHANGED <<graph, source_stop, target_stop, departure_time, earliest_arrival>>
  BY StepKeepsRequest DEF ReplyUnreachable, ReplyItinerary, labels
<1> QED
  BY <1>1, <1>2 DEF ArrivalIsEarliest, BestWith, MAX_ROUNDS

LEMMA OrderlySearchStep ==
  ASSUME Inv, ForwardSearch, SearchBracket, OrderlySearch, OrderlyArrivalIsEarliest, [Next]_vars
  PROVE  OrderlySearch' /\ OrderlyArrivalIsEarliest'
<1>1. CASE Step
  <2> SUFFICES ASSUME Orderly PROVE OrderlySearch' /\ OrderlyArrivalIsEarliest'
    BY <1>1, StepKeepsRequest
       DEF Orderly, ForwardTimetable, OrderlySearch, OrderlyArrivalIsEarliest
  <2>1. Searching
    BY <1>1, Zenon
       DEF Searching, Step, InitialWalks, BeginRound, SkipRoute, ScanRoute, Alight, PassBy,
           BeginTripSearch, TripSearchStep, EndTripSearch, CollectAlighted, RelaxFootpaths,
           FootpathsDone, EndRound, ReplyUnreachable, BeginTrace, TraceLeg, ReplyItinerary
  <2>2. /\ BeforeRound /\ RoundIsSound /\ ScansCount /\ ScanIsOnTime
        /\ WalksGoOn /\ RoundIsOver /\ SearchIsOver
    BY <2>1 DEF OrderlySearch
  <2>3. Ready
    BY <2>1 DEF Ready, Inv, ForwardSearch, Orderly
  <2>4. OrderlySearch'
    BY <1>1, <2>2, <2>3, StepBeforeRound, StepRoundIsSound, StepScansCount, StepScanIsOnTime,
       StepWalksGoOn, StepRoundIsOver, StepSearchIsOver, Zenon DEF OrderlySearch
  <2>5. CASE ReplyUnreachable \/ ReplyItinerary
    BY <1>1, <2>2, <2>4, <2>5, ReplyIsEarliest DEF OrderlyArrivalIsEarliest
  <2>6. CASE ~(ReplyUnreachable \/ ReplyItinerary)
    <3>1. pc' # "done"
      BY <1>1, <2>6
         DEF Step, InitialWalks, BeginRound, SkipRoute, ScanRoute, Alight, PassBy,
             BeginTripSearch, TripSearchStep, EndTripSearch, CollectAlighted, RelaxFootpaths,
             FootpathsDone, EndRound, BeginTrace, TraceLeg, NextPosition
    <3> QED
      BY <2>4, <3>1 DEF OrderlyArrivalIsEarliest, ArrivalIsEarliest
  <2> QED
    BY <2>5, <2>6
<1>2. ASSUME NEW s \in StopIds, NEW t \in StopIds, NEW d \in Departures,
             RejectRequest(s, t, d) \/ AnswerHere(s, t, d)
      PROVE  OrderlySearch' /\ OrderlyArrivalIsEarliest'
  BY <1>2 DEF RejectRequest, AnswerHere, Receive, OrderlySearch, Searching,
              OrderlyArrivalIsEarliest, ArrivalIsEarliest
<1>3. ASSUME NEW s \in StopIds, NEW t \in StopIds, NEW d \in Departures,
             StartSearch(s, t, d)
      PROVE  OrderlySearch' /\ OrderlyArrivalIsEarliest'
  <2>1. /\ pc' = "init_walks" /\ k' = 0 /\ source_stop' = s /\ departure_time' = d
        /\ earliest_arrival' = [x \in Stops |-> IF x = s THEN d ELSE INF]
        /\ marked_stops' = {s}
    BY <1>3 DEF StartSearch, Receive
  <2>2. BeforeRound'
    BY <2>1 DEF BeforeRound
  <2> QED
    BY <2>1, <2>2 DEF OrderlySearch, RoundIsSound, InRound, ScansCount, InScan, ScanIsOnTime,
       WalksGoOn, RoundIsOver, SearchIsOver, OrderlyArrivalIsEarliest, ArrivalIsEarliest
<1>4. CASE UNCHANGED vars
  <2>1. UNCHANGED <<graph, pc, source_stop, target_stop, departure_time, earliest_arrival, parent,
                    k, prev_arrival, marked_stops, next_marked, r_id, p, current_trip, high,
                    best_t, bus_alighted_stops>>
    BY <1>4 DEF vars, request, labels, round, ride, search
  <2>2. (OrderlySearch' <=> OrderlySearch)
    BY <2>1 DEF OrderlySearch, Orderly, ForwardTimetable, Searching, BeforeRound, RoundIsSound, InRound,
       ScansCount, IsScanned, InScan, ScanIsOnTime, CanBoardHere, Here, stopsOf, tripsOf, routes,
       WalksGoOn, RoundIsOver, SearchIsOver, BestWith, MAX_ROUNDS
  <2>3. OrderlyArrivalIsEarliest' <=> OrderlyArrivalIsEarliest
    BY <2>1 DEF OrderlyArrivalIsEarliest, ForwardTimetable, ArrivalIsEarliest, MAX_ROUNDS
  <2> QED
    BY <2>2, <2>3
<1> QED
  BY <1>1, <1>2, <1>3, <1>4 DEF Next, Request

(* On timetables in which time runs forward, trips of a pattern do not     *)
(* overtake each other and footpaths are closed, the time the search       *)
(* answers is that of the best journey with at most MAX_ROUNDS buses, and  *)
(* no time exactly where there is none, however many stops, routes, trips  *)
(* and walks there are: marking only what a round improved, scanning a     *)
(* route from its first marked stop on one bus at a time, and walking only *)
(* from where a bus was left lose nothing (find_earliest_arrival,          *)
(* raptor_router.cpp:13-185).                                              *)
THEOREM SearchFindsTheEarliest == Spec => []OrderlyArrivalIsEarliest
<1>1. Init => OrderlySearch /\ OrderlyArrivalIsEarliest
  BY DEF Init, OrderlySearch, Searching, OrderlyArrivalIsEarliest, ArrivalIsEarliest
<1>2. Inv /\ ForwardSearch /\ SearchBracket /\ OrderlySearch /\ OrderlyArrivalIsEarliest /\ [Next]_vars
        => OrderlySearch' /\ OrderlyArrivalIsEarliest'
  BY OrderlySearchStep
<1> QED
  BY <1>1, <1>2, Invariant, ForwardInvariant, BracketInvariant, PTL DEF Spec
=============================================================================
