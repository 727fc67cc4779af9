----------------------------- MODULE GraphIndex -----------------------------
(***************************************************************************)
(* RaptorGraph::build_index: what the engine makes of the two files it     *)
(* loads.  Stop times are sorted and grouped into trips, trips with the    *)
(* same stops into routes; routes, the routes of each stop and the         *)
(* footpaths of each stop are laid out one after another in flat arrays    *)
(* and found by their offsets.                                             *)
(*                                                                         *)
(* Offsets count from 0 as in the source, sequences from 1: the entry at   *)
(* offset o is the one at o + 1.  A place is a point on a line, in metres; *)
(* haversine_meters is the distance of two.                                *)
(***************************************************************************)
EXTENDS Timetable, FiniteSets, SequencesExt

CONSTANT MAX_WALK_DIST_M

ASSUME WalkAssumption ==     \* who walks that far is still on time
  MAX_WALK_DIST_M \in Nat /\ (4 * MAX_WALK_DIST_M) \div 5 \in Time

VARIABLES
  ipc,                 \* idle, trips, routes, stop_routes, offsets, walks, ready
  stops,               \* a sequence of PackedStop
  raw_stop_times,      \* a sequence of PackedStopTime
  trip_stoptimes,      \* trip -> its stop times in order
  remaining,           \* the patterns of sequence_to_trips still to be laid out
  routes, route_stops, stop_times,
  stop_to_routes, stop_routes, stop_routes_offsets,
  footpaths, footpath_offsets,
  next, position       \* the route or stop a loop is at, and the position in the route

inputs == <<stops, raw_stop_times>>
layout == <<routes, route_stops, stop_times>>
byStop == <<stop_routes, stop_routes_offsets>>
walks  == <<footpaths, footpath_offsets>>

indexVars == <<ipc, inputs, trip_stoptimes, remaining, layout, stop_to_routes,
               byStop, walks, next, position>>

NumberOfStops == Len(stops)

IndexInit ==
  /\ ipc = "idle"
  /\ stops = <<>> /\ raw_stop_times = <<>>
  /\ trip_stoptimes = <<>> /\ remaining = {}
  /\ routes = <<>> /\ route_stops = <<>> /\ stop_times = <<>>
  /\ stop_to_routes = <<>> /\ stop_routes = <<>> /\ stop_routes_offsets = <<>>
  /\ footpaths = <<>> /\ footpath_offsets = <<>>
  /\ next = 1 /\ position = 1

(* main() calls it with what it has loaded.                                *)
BuildIndex(raw_stops, raw_times) ==
  /\ ipc' = "trips"
  /\ stops' = raw_stops /\ raw_stop_times' = raw_times
  /\ routes' = <<>> /\ route_stops' = <<>> /\ stop_times' = <<>>
  /\ stop_routes' = <<>> /\ stop_routes_offsets' = <<>>
  /\ footpaths' = <<>> /\ footpath_offsets' = <<>>
  /\ UNCHANGED <<trip_stoptimes, remaining, stop_to_routes, next, position>>

(***************************************************************************)
(* Trips and patterns.                                                     *)
(***************************************************************************)
Trips == {st.trip_id : st \in Range(raw_stop_times)}

(* std::sort is free to order equals as it likes.                          *)
InOrder(seq, key) == \A m, n \in DOMAIN seq : m < n => key[seq[m]] <= key[seq[n]]
Sortings(S, key) == {seq \in SetToSeqs(S) : InOrder(seq, key)}

TripOrders(t) ==
  LET rows == {n \in DOMAIN raw_stop_times : raw_stop_times[n].trip_id = t}
  IN {[i \in DOMAIN order |-> raw_stop_times[order[i]]] :
        order \in Sortings(rows, [n \in rows |-> raw_stop_times[n].stop_sequence])}

StopsOf(times) == [i \in DOMAIN times |-> times[i].stop_id]

GroupTrips ==
  /\ ipc = "trips"
  /\ trip_stoptimes' \in {f \in [Trips -> UNION {TripOrders(t) : t \in Trips}] :
                            \A t \in Trips : f[t] \in TripOrders(t)}
  /\ remaining' = {StopsOf(trip_stoptimes'[t]) : t \in Trips}
  /\ ipc' = "routes"
  /\ UNCHANGED <<inputs, layout, stop_to_routes, byStop, walks, next, position>>

(***************************************************************************)
(* One route for each pattern, in the order of std::map.                   *)
(***************************************************************************)
Precedes(a, b) ==
  \/ IsStrictPrefix(a, b)
  \/ \E i \in DOMAIN a \cap DOMAIN b :
       a[i] < b[i] /\ \A j \in 1 .. i - 1 : a[j] = b[j]

LastTripWith(seq) ==         \* a mutant of the next one: = instead of push_back
  {CHOOSE t \in DOMAIN trip_stoptimes :
     /\ StopsOf(trip_stoptimes[t]) = seq
     /\ \A u \in DOMAIN trip_stoptimes : StopsOf(trip_stoptimes[u]) = seq => u <= t}
TripsWith(seq) == {t \in DOMAIN trip_stoptimes : StopsOf(trip_stoptimes[t]) = seq}

FirstDeparture == [t \in DOMAIN trip_stoptimes |-> trip_stoptimes[t][1].dep_sec]

TripIds(seq) == Sortings(TripsWith(seq), FirstDeparture)

(* The rows of these trips one after another, length rows each.            *)
TripRows(trip_ids, length) ==
  [m \in 1 .. Len(trip_ids) * length |->
     trip_stoptimes[trip_ids[((m - 1) \div length) + 1]][((m - 1) % length) + 1]]

RouteId == Len(routes)
TimesOffset == Len(stop_times)

AppendRoute ==
  /\ ipc = "routes"
  /\ \E seq \in remaining :
       /\ \A other \in remaining \ {seq} : Precedes(seq, other)
       /\ \E trip_ids \in TripIds(seq) :
            /\ routes' = Append(routes,
                 [id |-> RouteId, num_stops |-> Len(seq), num_trips |-> Len(trip_ids),
                  route_stops_offset |-> Len(route_stops),
                  stop_times_offset |-> TimesOffset])
            /\ route_stops' = route_stops \o seq
            /\ stop_times' = stop_times \o TripRows(trip_ids, Len(seq))
       /\ remaining' = remaining \ {seq}
  /\ UNCHANGED <<ipc, inputs, trip_stoptimes, stop_to_routes, byStop, walks, next, position>>

RoutesDone ==
  /\ ipc = "routes" /\ remaining = {}
  /\ stop_to_routes' = [s \in 0 .. NumberOfStops - 1 |-> <<>>]
  /\ next' = 1 /\ position' = 1
  /\ ipc' = "stop_routes"
  /\ UNCHANGED <<inputs, trip_stoptimes, remaining, layout, byStop, walks>>

(***************************************************************************)
(* The routes of each stop.  A stop id that is no stop is passed over here *)
(* and stays in route_stops.                                               *)
(***************************************************************************)
PatternOf(r) == SubSeq(route_stops, r.route_stops_offset + 1,
                       r.route_stops_offset + r.num_stops)

AlreadyListed(list, id) == list # <<>> /\ Last(list) = id

AddRoute(lists, stop_id, id) ==
  IF stop_id \in DOMAIN lists /\ ~AlreadyListed(lists[stop_id], id)
    THEN [lists EXCEPT ![stop_id] = Append(@, id)]
    ELSE lists

ListStop ==
  /\ ipc = "stop_routes" /\ next <= Len(routes)
  /\ LET r == routes[next]
         stop_id == route_stops[r.route_stops_offset + position]
     IN /\ stop_to_routes' = AddRoute(stop_to_routes, stop_id, r.id)
        /\ IF position < r.num_stops
             THEN position' = position + 1 /\ UNCHANGED next
             ELSE position' = 1 /\ next' = next + 1
  /\ UNCHANGED <<ipc, inputs, trip_stoptimes, remaining, layout, byStop, walks>>

ListsDone ==
  /\ ipc = "stop_routes" /\ next > Len(routes)
  /\ next' = 1
  /\ ipc' = "offsets"
  /\ UNCHANGED <<inputs, trip_stoptimes, remaining, layout, stop_to_routes, byStop, walks,
                 position>>

FlattenStop ==
  /\ ipc = "offsets"
  /\ stop_routes_offsets' = Append(stop_routes_offsets, Len(stop_routes))
  /\ IF next <= NumberOfStops
       THEN /\ stop_routes' = stop_routes \o stop_to_routes[next - 1]
            /\ next' = next + 1
            /\ UNCHANGED ipc
       ELSE /\ next' = 1
            /\ ipc' = "walks"
            /\ UNCHANGED stop_routes
  /\ UNCHANGED <<inputs, trip_stoptimes, remaining, layout, stop_to_routes, walks, position>>

(***************************************************************************)
(* Footpaths: between the stops at two positions, whatever their ids.      *)
(***************************************************************************)
Distance(a, b) == IF a < b THEN b - a ELSE a - b

WalkableToItself(i, j) ==    \* a mutant of Walkable: i == j too
  Distance(stops[i].place, stops[j].place) <= MAX_WALK_DIST_M
Walkable(i, j) ==
  i # j /\ Distance(stops[i].place, stops[j].place) <= MAX_WALK_DIST_M

Footpath(i, j) ==
  [to_stop |-> j - 1, duration_sec |-> (4 * Distance(stops[i].place, stops[j].place)) \div 5]

(* The footpaths of i, j counting up.                                      *)
FootpathsFrom(i) ==
  {[n \in DOMAIN near |-> Footpath(i, near[n])] :
     near \in Sortings({j \in DOMAIN stops : Walkable(i, j)}, [j \in DOMAIN stops |-> j])}

AddFootpaths ==
  /\ ipc = "walks"
  /\ footpath_offsets' = Append(footpath_offsets, Len(footpaths))
  /\ IF next <= NumberOfStops
       THEN /\ \E list \in FootpathsFrom(next) : footpaths' = footpaths \o list
            /\ next' = next + 1
            /\ UNCHANGED ipc
       ELSE /\ ipc' = "ready"
            /\ UNCHANGED <<footpaths, next>>
  /\ UNCHANGED <<inputs, trip_stoptimes, remaining, layout, stop_to_routes, byStop, position>>

IndexStep ==
  \/ GroupTrips \/ AppendRoute \/ RoutesDone \/ ListStop \/ ListsDone
  \/ FlattenStop \/ AddFootpaths

-----------------------------------------------------------------------------
(***************************************************************************)
(* What the search reads.                                                  *)
(***************************************************************************)
RowOf(r, t, i) == stop_times[r.stop_times_offset + (t - 1) * r.num_stops + i]
TripOf(r, t) == [i \in 1 .. r.num_stops |-> RowOf(r, t, i)]

RoutesOfStop(s) == SubSeq(stop_routes, stop_routes_offsets[s + 1] + 1,
                          stop_routes_offsets[s + 2])
FootpathsOfStop(s) == SubSeq(footpaths, footpath_offsets[s + 1] + 1,
                             footpath_offsets[s + 2])

(* The row the search computes for a trip and a position is there, is a    *)
(* row of that trip at the stop of that position: the two arrays and their *)
(* offsets belong together, also after routes of different lengths.        *)
RowsMatchPattern ==
  \A n \in DOMAIN routes :
    LET r == routes[n] IN
    /\ r.id = n - 1
    /\ r.stop_times_offset + r.num_trips * r.num_stops <= Len(stop_times)
    /\ \A t \in 1 .. r.num_trips : \A i \in 1 .. r.num_stops :
         /\ RowOf(r, t, i).stop_id = PatternOf(r)[i]
         /\ RowOf(r, t, i).trip_id = RowOf(r, t, 1).trip_id

(* No trip is lost, doubled or cut: as many rows as the file had, in as    *)
(* many trips as it named, each with all of its rows.  And each is boarded *)
(* in the order it runs: along a trip stop_sequence never falls, and trips *)
(* are ordered by first departure.                                         *)
TripsArePreserved ==
  ipc = "ready" =>
    /\ Len(stop_times) = Len(raw_stop_times)
    /\ \A id \in Trips : \E n \in DOMAIN routes : \E t \in 1 .. routes[n].num_trips :
         /\ RowOf(routes[n], t, 1).trip_id = id
         /\ Range(TripOf(routes[n], t)) =
              {st \in Range(raw_stop_times) : st.trip_id = id}
    /\ \A n \in DOMAIN routes : \A t \in 1 .. routes[n].num_trips :
         /\ \A i, j \in 1 .. routes[n].num_stops : i < j =>
              RowOf(routes[n], t, i).stop_sequence <= RowOf(routes[n], t, j).stop_sequence
         /\ \A u \in 1 .. t : RowOf(routes[n], u, 1).dep_sec <= RowOf(routes[n], t, 1).dep_sec

(* The search looks up the routes of a stop instead of going through all   *)
(* of them: it finds each that stops there, once, and no other.            *)
StopRoutesAreExact ==
  ipc = "ready" =>
    \A s \in 0 .. NumberOfStops - 1 :
      /\ Range(RoutesOfStop(s)) =
           {r.id : r \in {x \in Range(routes) : s \in Range(PatternOf(x))}}
      /\ Len(RoutesOfStop(s)) = Cardinality(Range(RoutesOfStop(s)))

(* The graph as the search sees it, for IsGraph.                           *)
Graph ==
  [routes |-> [n \in DOMAIN routes |->
     [stops |-> PatternOf(routes[n]),
      trips |-> [t \in 1 .. routes[n].num_trips |->
         [i \in 1 .. routes[n].num_stops |->
            [trip_id |-> RowOf(routes[n], t, i).trip_id,
             stop_sequence |-> RowOf(routes[n], t, i).stop_sequence,
             arr_sec |-> RowOf(routes[n], t, i).arr_sec,
             dep_sec |-> RowOf(routes[n], t, i).dep_sec]]]]],
   walk |-> [s \in 0 .. NumberOfStops - 1 |->
     [v \in {f.to_stop : f \in Range(FootpathsOfStop(s))} |->
        (CHOOSE f \in Range(FootpathsOfStop(s)) : f.to_stop = v).duration_sec]]]

(* What RaptorRouter assumes of its graph holds of every index, provided   *)
(* the stop ids of the stop times are those of stops.                      *)
IdsAreStops == \A st \in Range(raw_stop_times) : st.stop_id < NumberOfStops

IndexIsAGraph ==
  ipc = "ready" /\ NumberOfStops = NumStops /\ IdsAreStops => IsGraph(Graph)

(* A footpath joins the two stops its ids name, and they are near: holds   *)
(* if stop i of the file has the id i.                                     *)
PlaceOf(id) == (CHOOSE s \in Range(stops) : s.id = id).place

FootpathsJoinNeighbours ==
  ipc = "ready" =>
    \A s \in 0 .. NumberOfStops - 1 : \A f \in Range(FootpathsOfStop(s)) :
      Distance(PlaceOf(s), PlaceOf(f.to_stop)) <= MAX_WALK_DIST_M

(* ... and then every two stops that are near have one.                    *)
OrderedStopsHaveTheirFootpaths ==
  ipc = "ready" /\ (\A i \in DOMAIN stops : stops[i].id = i - 1) =>
    \A u, v \in 0 .. NumberOfStops - 1 :
      (\E f \in Range(FootpathsOfStop(u)) : f.to_stop = v) <=>
        u # v /\ Distance(PlaceOf(u), PlaceOf(v)) <= MAX_WALK_DIST_M

(* The index says what the stop times say: rows and offsets belong         *)
(* together, no trip is lost, a stop knows exactly its routes and, where   *)
(* the file has the stops in the order of their ids, its footpaths.        *)
IndexIsFaithful ==
  /\ RowsMatchPattern
  /\ TripsArePreserved
  /\ StopRoutesAreExact
  /\ OrderedStopsHaveTheirFootpaths
==============================================================================
