---------------------------- MODULE RaptorRouter ----------------------------
(***************************************************************************)
(* One gRPC request served by core/src/raptor_router.cpp: the rounds of    *)
(* find_earliest_arrival, statement group by statement group, and          *)
(* reconstruct_path, which reads the parent arrays back.  The shared lock  *)
(* is held throughout the search, so graph does not change under it        *)
(* (GraphLock is about that lock).                                         *)
(*                                                                         *)
(* pc names the statement the request is at:                               *)
(*   idle, done   before the call and after the reply                      *)
(*   init_walks   the footpaths out of the source                          *)
(*   round        the top of the loop over rounds                          *)
(*   route        the top of the loop over routes                          *)
(*   alight       a position of the route: leave the bus here?             *)
(*   board        ... or board an earlier one?                             *)
(*   search       the binary search for that trip                          *)
(*   walk         the footpaths out of the stops a bus reached             *)
(*   end_round    is anything marked?                                      *)
(*   reply, trace the test of the result and the walk back                 *)
(***************************************************************************)
EXTENDS EarliestArrival

CONSTANTS Graphs, Departures

ASSUME GraphsAssumption == \A g \in Graphs : IsGraph(g)
ASSUME DeparturesAssumption == Departures \subseteq Time

MAX_ROUNDS == 4

VARIABLES
  graph,                                        \* graph_
  pc,
  source_stop, target_stop, departure_time,     \* the request
  earliest_arrival,
  parent,       \* parent_stop_, parent_route_, board_time_, alight_time_
  k, prev_arrival, marked_stops, next_marked,   \* a round
  r_id, p,                                      \* where its scan is
  current_trip, board_stop_id, current_board_time,  \* the bus it is on
  low, high, best_t,                            \* the binary search
  bus_alighted_stops,                           \* still to be walked from
  curr, visited, path,                          \* reconstruct_path
  response                                      \* RouteResponse

request == <<source_stop, target_stop, departure_time>>
labels  == <<earliest_arrival, parent>>
round   == <<k, prev_arrival, marked_stops>>
ride    == <<current_trip, board_stop_id, current_board_time>>
search  == <<low, high, best_t>>
trace   == <<curr, visited, path>>

vars == <<graph, pc, request, labels, round, next_marked, r_id, p, ride,
          search, bus_alighted_stops, trace, response>>

(* A request may name any uint32; one value past the last stop is enough.  *)
StopIds == 0 .. NumStops

NoParent == [stop |-> INF, route |-> INF, board |-> 0, alight |-> 0]
Parents == [stop : Time, route : Time, board : Time, alight : Time]

NoTrip == 0
NoResponse == [success |-> FALSE, itinerary |-> <<>>]

routes == graph.routes
stopsOf(r) == routes[r].stops
tripsOf(r) == routes[r].trips

(***************************************************************************)
(* The request arrives: a new router, its arrays reset.                    *)
(***************************************************************************)
Init ==
  /\ graph \in Graphs
  /\ pc = "idle"
  /\ source_stop = INF /\ target_stop = INF /\ departure_time = 0
  /\ earliest_arrival = [s \in Stops |-> INF]
  /\ parent = [s \in Stops |-> NoParent]
  /\ k = 0 /\ prev_arrival = earliest_arrival
  /\ marked_stops = {} /\ next_marked = {}
  /\ r_id = 1 /\ p = 1
  /\ current_trip = NoTrip /\ board_stop_id = INF /\ current_board_time = 0
  /\ low = 1 /\ high = 0 /\ best_t = NoTrip
  /\ bus_alighted_stops = {}
  /\ curr = INF /\ visited = {} /\ path = <<>>
  /\ response = NoResponse

(* What every request does first: nothing is left of an earlier one.       *)
Receive(s, t, d) ==
  /\ pc \in {"idle", "done"}
  /\ source_stop' = s /\ target_stop' = t /\ departure_time' = d
  /\ parent' = [x \in Stops |-> NoParent]
  /\ k' = 0 /\ prev_arrival' = [x \in Stops |-> INF]
  /\ next_marked' = {}
  /\ r_id' = 1 /\ p' = 1
  /\ current_trip' = NoTrip /\ board_stop_id' = INF /\ current_board_time' = 0
  /\ low' = 1 /\ high' = 0 /\ best_t' = NoTrip
  /\ bus_alighted_stops' = {}
  /\ curr' = INF /\ visited' = {} /\ path' = <<>>
  /\ UNCHANGED graph

(* A stop out of range: the arrival is INF, the reply is a failure.        *)
RejectRequest(s, t, d) ==
  /\ Receive(s, t, d)
  /\ s \notin Stops \/ t \notin Stops
  /\ earliest_arrival' = [x \in Stops |-> INF]
  /\ marked_stops' = {}
  /\ response' = NoResponse
  /\ pc' = "done"

(* Already there: a success without legs, unless the time is INF itself.   *)
AnswerHere(s, t, d) ==
  /\ Receive(s, t, d)
  /\ s \in Stops /\ s = t
  /\ earliest_arrival' = [x \in Stops |-> INF]
  /\ marked_stops' = {}
  /\ response' = [success |-> d # INF, itinerary |-> <<>>]
  /\ pc' = "done"

StartSearch(s, t, d) ==
  /\ Receive(s, t, d)
  /\ s \in Stops /\ t \in Stops /\ s # t
  /\ earliest_arrival' = [[x \in Stops |-> INF] EXCEPT ![s] = d]
  /\ marked_stops' = {s}
  /\ response' = NoResponse
  /\ pc' = "init_walks"

(***************************************************************************)
(* The footpaths out of u: the stops they improve, and the labels after.   *)
(* No footpath ends where it starts and no two end at the same stop, so    *)
(* the loop over them is one simultaneous assignment.                      *)
(***************************************************************************)
WalkArrival(u, v) == (earliest_arrival[u] + graph.walk[u][v]) % W

WalkDoesNotDelay(u) ==      \* a mutant of the next one
  {v \in DOMAIN graph.walk[u] : WalkArrival(u, v) <= earliest_arrival[v]}
WalkChanges(u) ==           \* a mutant of the next one
  {v \in DOMAIN graph.walk[u] : WalkArrival(u, v) # earliest_arrival[v]}
WalkImproves(u) ==
  {v \in DOMAIN graph.walk[u] : WalkArrival(u, v) < earliest_arrival[v]}

WalkFrom(u) ==
  /\ earliest_arrival' = [s \in Stops |->
       IF s \in WalkImproves(u) THEN WalkArrival(u, s) ELSE earliest_arrival[s]]
  /\ parent' = [s \in Stops |->
       IF s \in WalkImproves(u)
         THEN [stop |-> u, route |-> FOOTPATH_ROUTE_ID,
               board |-> earliest_arrival[u], alight |-> WalkArrival(u, s)]
         ELSE parent[s]]

InitialWalks ==
  /\ pc = "init_walks"
  /\ WalkFrom(source_stop)
  /\ marked_stops' = marked_stops \cup WalkImproves(source_stop)
  /\ pc' = "round"
  /\ UNCHANGED <<graph, request, k, prev_arrival, next_marked, r_id, p, ride,
                 search, bus_alighted_stops, trace, response>>

(***************************************************************************)
(* A round: which routes pass a marked stop, and where first.              *)
(***************************************************************************)
BeginRound ==
  /\ pc = "round"
  /\ prev_arrival' = earliest_arrival
  /\ next_marked' = {}
  /\ r_id' = 1
  /\ pc' = "route"
  /\ UNCHANGED <<graph, request, labels, k, marked_stops, p, ride, search,
                 bus_alighted_stops, trace, response>>

(* The first position of each marked stop the route serves.                *)
BoardingPositions(r) ==
  {i \in DOMAIN stopsOf(r) : /\ stopsOf(r)[i] \in marked_stops
                             /\ \A j \in 1 .. i - 1 : stopsOf(r)[j] # stopsOf(r)[i]}

SkipRoute ==
  /\ pc = "route" /\ r_id <= Len(routes)
  /\ BoardingPositions(r_id) = {}
  /\ r_id' = r_id + 1
  /\ UNCHANGED <<graph, pc, request, labels, round, next_marked, p, ride,
                 search, bus_alighted_stops, trace, response>>

ScanRoute ==
  /\ pc = "route" /\ r_id <= Len(routes)
  /\ \E i \in BoardingPositions(r_id) :
       /\ \A j \in BoardingPositions(r_id) : i <= j
       /\ p' = i
  /\ current_trip' = NoTrip /\ board_stop_id' = INF /\ current_board_time' = 0
  /\ pc' = "alight"
  /\ UNCHANGED <<graph, request, labels, round, next_marked, r_id, search,
                 bus_alighted_stops, trace, response>>

(***************************************************************************)
(* A position of the scan.  First the bus the scan is on may bring the     *)
(* stop forward ...                                                        *)
(***************************************************************************)
Here == stopsOf(r_id)[p]
ArrivalHere == tripsOf(r_id)[current_trip][p].arr_sec

Alight ==
  /\ pc = "alight"
  /\ IF current_trip # NoTrip /\ ArrivalHere < earliest_arrival[Here]
       THEN /\ earliest_arrival' = [earliest_arrival EXCEPT ![Here] = ArrivalHere]
            /\ parent' = [parent EXCEPT ![Here] =
                 [stop |-> board_stop_id, route |-> r_id,
                  board |-> current_board_time, alight |-> ArrivalHere]]
            /\ next_marked' = next_marked \cup {Here}
       ELSE UNCHANGED <<labels, next_marked>>
  /\ pc' = "board"
  /\ UNCHANGED <<graph, request, round, r_id, p, ride, search,
                 bus_alighted_stops, trace, response>>

(* ... then, where the stop was marked, an earlier trip may be caught.     *)
CanBoardHere == Here \in marked_stops /\ prev_arrival[Here] # INF

NextPositionAroundAgain ==   \* a mutant of the next one
  /\ p' = IF p < Len(stopsOf(r_id)) THEN p + 1 ELSE 1
  /\ pc' = "alight" /\ UNCHANGED r_id
NextPosition ==
  IF p < Len(stopsOf(r_id))
    THEN p' = p + 1 /\ pc' = "alight" /\ UNCHANGED r_id
    ELSE r_id' = r_id + 1 /\ pc' = "route" /\ UNCHANGED p

PassBy ==
  /\ pc = "board"
  /\ ~CanBoardHere
  /\ NextPosition
  /\ UNCHANGED <<graph, request, labels, round, next_marked, ride, search,
                 bus_alighted_stops, trace, response>>

BeginTripSearch ==
  /\ pc = "board"
  /\ CanBoardHere
  /\ low' = 1
  /\ high' = IF current_trip = NoTrip THEN Len(tripsOf(r_id)) ELSE current_trip - 1
  /\ best_t' = NoTrip
  /\ pc' = "search"
  /\ UNCHANGED <<graph, request, labels, round, next_marked, r_id, p, ride,
                 bus_alighted_stops, trace, response>>

(* The source counts trips from 0, so its mid is one less than this.       *)
Mid == low + (high - low) \div 2
DepartureOfTrip(t) == tripsOf(r_id)[t][1].dep_sec    \* a mutant of the next one
DepartureHere(t) == tripsOf(r_id)[t][p].dep_sec
Catchable(t) == DepartureHere(t) >= prev_arrival[Here]

TripSearchStepUp ==          \* a mutant of the next one: the wrong half
  /\ pc = "search" /\ low <= high
  /\ IF Catchable(Mid)
       THEN best_t' = Mid /\ low' = Mid + 1 /\ UNCHANGED high
       ELSE high' = Mid - 1 /\ UNCHANGED <<low, best_t>>
  /\ UNCHANGED <<graph, pc, request, labels, round, next_marked, r_id, p, ride,
                 bus_alighted_stops, trace, response>>

TripSearchStep ==
  /\ pc = "search" /\ low <= high
  /\ IF Catchable(Mid)
       THEN best_t' = Mid /\ high' = Mid - 1 /\ UNCHANGED low
       ELSE low' = Mid + 1 /\ UNCHANGED <<high, best_t>>
  /\ UNCHANGED <<graph, pc, request, labels, round, next_marked, r_id, p, ride,
                 bus_alighted_stops, trace, response>>

EndTripSearch ==
  /\ pc = "search" /\ low > high
  /\ IF best_t # NoTrip
       THEN /\ current_trip' = best_t
            /\ board_stop_id' = Here
            /\ current_board_time' = DepartureHere(best_t)
       ELSE UNCHANGED ride
  /\ NextPosition
  /\ UNCHANGED <<graph, request, labels, round, next_marked, search,
                 bus_alighted_stops, trace, response>>

(***************************************************************************)
(* Footpaths out of the stops a bus reached in this round, by stop id.     *)
(***************************************************************************)
CollectAlighted ==
  /\ pc = "route" /\ r_id > Len(routes)
  /\ bus_alighted_stops' =
       {s \in next_marked : parent[s].route # FOOTPATH_ROUTE_ID}
  /\ pc' = "walk"
  /\ UNCHANGED <<graph, request, labels, round, next_marked, r_id, p, ride,
                 search, trace, response>>

RelaxFootpaths ==
  /\ pc = "walk"
  /\ \E u \in bus_alighted_stops :
       /\ \A v \in bus_alighted_stops : u <= v
       /\ WalkFrom(u)
       /\ next_marked' = next_marked \cup WalkImproves(u)
       /\ bus_alighted_stops' = bus_alighted_stops \ {u}
  /\ UNCHANGED <<graph, pc, request, round, r_id, p, ride, search, trace,
                 response>>

FootpathsDone ==
  /\ pc = "walk" /\ bus_alighted_stops = {}
  /\ pc' = "end_round"
  /\ UNCHANGED <<graph, request, labels, round, next_marked, r_id, p, ride,
                 search, bus_alighted_stops, trace, response>>

EndRoundOneMore ==           \* a mutant of the next one: k <= MAX_ROUNDS
  /\ pc = "end_round"
  /\ IF next_marked = {}
       THEN pc' = "reply" /\ UNCHANGED <<k, marked_stops>>
       ELSE /\ marked_stops' = next_marked
            /\ k' = k + 1
            /\ pc' = IF k + 1 <= MAX_ROUNDS THEN "round" ELSE "reply"
  /\ UNCHANGED <<graph, request, labels, prev_arrival, next_marked, r_id, p,
                 ride, search, bus_alighted_stops, trace, response>>

EndRound ==
  /\ pc = "end_round"
  /\ IF next_marked = {}
       THEN pc' = "reply" /\ UNCHANGED <<k, marked_stops>>
       ELSE /\ marked_stops' = next_marked
            /\ k' = k + 1
            /\ pc' = IF k + 1 < MAX_ROUNDS THEN "round" ELSE "reply"
  /\ UNCHANGED <<graph, request, labels, prev_arrival, next_marked, r_id, p,
                 ride, search, bus_alighted_stops, trace, response>>

(***************************************************************************)
(* The reply: INF is a failure, anything else is read back leg by leg.     *)
(***************************************************************************)
ReplyUnreachable ==
  /\ pc = "reply"
  /\ earliest_arrival[target_stop] = INF
  /\ response' = NoResponse
  /\ pc' = "done"
  /\ UNCHANGED <<graph, request, labels, round, next_marked, r_id, p, ride,
                 search, bus_alighted_stops, trace>>

BeginTrace ==
  /\ pc = "reply"
  /\ earliest_arrival[target_stop] # INF
  /\ curr' = target_stop /\ visited' = {} /\ path' = <<>>
  /\ pc' = "trace"
  /\ UNCHANGED <<graph, request, labels, round, next_marked, r_id, p, ride,
                 search, bus_alighted_stops, response>>

LegTo(s) ==
  [board_stop |-> parent[s].stop, alight_stop |-> s, route_id |-> parent[s].route,
   board_time |-> parent[s].board, alight_time |-> parent[s].alight]

TraceGoesOn ==
  /\ curr # source_stop
  /\ parent[curr].stop # INF /\ parent[curr].route # INF
  /\ Len(path) < NumStops
  /\ curr \notin visited

(* The legs are collected backwards and reversed; here each goes in front. *)
TraceLeg ==
  /\ pc = "trace" /\ TraceGoesOn
  /\ visited' = visited \cup {curr}
  /\ path' = <<LegTo(curr)>> \o path
  /\ curr' = parent[curr].stop
  /\ UNCHANGED <<graph, pc, request, labels, round, next_marked, r_id, p, ride,
                 search, bus_alighted_stops, response>>

ReplyItinerary ==
  /\ pc = "trace" /\ ~TraceGoesOn
  /\ response' = [success |-> TRUE, itinerary |-> path]
  /\ pc' = "done"
  /\ UNCHANGED <<graph, request, labels, round, next_marked, r_id, p, ride,
                 search, bus_alighted_stops, trace>>

-----------------------------------------------------------------------------
Request ==
  \E s, t \in StopIds, d \in Departures :
    RejectRequest(s, t, d) \/ AnswerHere(s, t, d) \/ StartSearch(s, t, d)

Step ==
  \/ InitialWalks \/ BeginRound \/ SkipRoute \/ ScanRoute \/ Alight \/ PassBy
  \/ BeginTripSearch \/ TripSearchStep \/ EndTripSearch \/ CollectAlighted
  \/ RelaxFootpaths \/ FootpathsDone \/ EndRound
  \/ ReplyUnreachable \/ BeginTrace \/ TraceLeg \/ ReplyItinerary

Next == Request \/ Step

Spec == Init /\ [][Next]_vars

(* A request that has begun is carried on; none need arrive.               *)
FairSpec == Spec /\ WF_vars(Step)

-----------------------------------------------------------------------------
(***************************************************************************)
(* What a request may rely on.                                             *)
(***************************************************************************)
RequestTypeOK ==
  /\ pc \in {"idle", "done", "init_walks", "round", "route", "alight", "board",
             "search", "walk", "end_round", "reply", "trace"}
  /\ source_stop \in Nat /\ target_stop \in Nat /\ departure_time \in Time
  /\ pc \notin {"idle", "done"} => source_stop \in Stops /\ target_stop \in Stops

LabelTypeOK ==
  /\ earliest_arrival \in [Stops -> Time]
  /\ parent \in [Stops -> Parents]

RoundTypeOK ==
  /\ k \in 0 .. MAX_ROUNDS
  /\ pc \in {"init_walks", "round", "route", "alight", "board", "search", "walk",
             "end_round"} => k < MAX_ROUNDS
  /\ prev_arrival \in [Stops -> Time]
  /\ marked_stops \subseteq Stops /\ next_marked \subseteq Stops
  /\ bus_alighted_stops \subseteq Stops

ScanTypeOK ==
  /\ r_id \in 1 .. Len(routes) + 1
  /\ board_stop_id \in Time /\ current_board_time \in Time
  /\ pc \in {"alight", "board", "search"} =>
       /\ r_id \in 1 .. Len(routes)
       /\ p \in DOMAIN stopsOf(r_id)
       /\ current_trip \in {NoTrip} \cup DOMAIN tripsOf(r_id)
  /\ pc = "search" => /\ low \in 1 .. Len(tripsOf(r_id)) + 1
                      /\ high \in 0 .. Len(tripsOf(r_id))
                      /\ best_t \in {NoTrip} \cup DOMAIN tripsOf(r_id)

TraceTypeOK ==
  /\ pc = "trace" => curr \in Stops
  /\ visited \subseteq Stops
  /\ path \in Seq(Leg)
  /\ response \in [success : BOOLEAN, itinerary : Seq(Leg)]

TypeOK ==
  /\ IsGraph(graph)
  /\ RequestTypeOK
  /\ LabelTypeOK
  /\ RoundTypeOK
  /\ ScanTypeOK
  /\ TraceTypeOK

Answered == pc = "done" /\ response.success /\ source_stop # target_stop

(***************************************************************************)
(* Why it is: the part of the state every step of the search keeps right.  *)
(***************************************************************************)
(* A recorded leg is in the timetable, gives its stop's label, and leaves  *)
(* no earlier than the label of the stop it leaves from.                   *)
LegIsJustified(s) ==
  /\ parent[s].stop \in Stops
  /\ IsLeg(graph, LegTo(s))
  /\ earliest_arrival[s] = parent[s].alight
  /\ earliest_arrival[parent[s].stop] <= parent[s].board

LabelsAreJustified == \A s \in Stops : parent[s] # NoParent => LegIsJustified(s)

(* A label never rises while a round goes on.                              *)
LabelsOnlyFall ==
  pc \in {"route", "alight", "board", "search"} =>
    \A s \in Stops : earliest_arrival[s] <= prev_arrival[s]

(* The bus the scan is on was boarded at an earlier position, at a time a  *)
(* passenger can be there.                                                 *)
RideIsCaught ==
  pc \in {"alight", "board", "search"} /\ current_trip # NoTrip =>
    /\ board_stop_id \in Stops
    /\ earliest_arrival[board_stop_id] <= current_board_time
    /\ \E i \in DOMAIN stopsOf(r_id) :
         /\ i < p
         /\ stopsOf(r_id)[i] = board_stop_id
         /\ tripsOf(r_id)[current_trip][i].dep_sec = current_board_time

SearchIsSound == pc = "search" /\ best_t # NoTrip => Catchable(best_t)

(* legs is a way from here to the target that can be caught.               *)
Rideable(legs, here) ==
  /\ \A n \in DOMAIN legs : IsLeg(graph, legs[n])
  /\ \A n \in 1 .. Len(legs) - 1 :
       /\ legs[n].alight_stop = legs[n + 1].board_stop
       /\ legs[n].alight_time <= legs[n + 1].board_time
  /\ IF legs = <<>> THEN here = target_stop
     ELSE /\ legs[1].board_stop = here
          /\ earliest_arrival[here] <= legs[1].board_time
          /\ legs[Len(legs)].alight_stop = target_stop
          /\ legs[Len(legs)].alight_time = earliest_arrival[target_stop]

PathIsRideable == pc = "trace" => Rideable(path, curr)

SearchInvariant ==
  /\ LabelsAreJustified
  /\ LabelsOnlyFall
  /\ RideIsCaught
  /\ SearchIsSound
  /\ PathIsRideable

(* The itinerary of a reply is a connection a passenger can make: every    *)
(* leg is a ride or a footpath of the timetable, each one starts where and *)
(* not before the last one ended, and the final one ends at the target at  *)
(* the time the search found.  Whatever the timetable looks like: this is  *)
(* about labels that are overwritten after a leg was built on them.        *)
ItineraryIsRideable ==
  Answered => \E here \in Stops : Rideable(response.itinerary, here)

(* The walk back through the parents ends at the source: the itinerary     *)
(* begins there, not before the requested time, and comes by no stop       *)
(* twice.                                                                  *)
ItineraryIsComplete ==
  Answered =>
    LET legs == response.itinerary IN
    /\ legs # <<>>
    /\ legs[1].board_stop = source_stop
    /\ legs[1].board_time >= departure_time
    /\ \A m, n \in DOMAIN legs : m # n => legs[m].alight_stop # legs[n].alight_stop

(* ... which needs a timetable in which time runs forward along a trip.    *)
ForwardTimetable ==
  RunsForward(graph) /\ TimesFit(graph, departure_time)

ForwardItineraryIsComplete == ForwardTimetable => ItineraryIsComplete

(* After the binary search no catchable trip leaves this stop earlier than *)
(* the one the scan is on.                                                 *)
TripAfterSearch == IF best_t # NoTrip THEN best_t ELSE current_trip

CatchesEarliestTrip ==
  pc = "search" /\ low > high =>
    \A t \in DOMAIN tripsOf(r_id) : Catchable(t) =>
      /\ TripAfterSearch # NoTrip
      /\ DepartureHere(TripAfterSearch) <= DepartureHere(t)

(* ... which needs trips that do not overtake each other.                  *)
FifoCatchesEarliestTrip == NoOvertaking(graph) => CatchesEarliestTrip

(* The time found is the best of all journeys with at most MAX_ROUNDS      *)
(* buses, and no time is found only where no such journey exists.          *)
ArrivalIsEarliest ==
  pc = "done" /\ source_stop \in Stops /\ target_stop \in Stops \ {source_stop} =>
    earliest_arrival[target_stop] =
      Best(graph, source_stop, departure_time)[MAX_ROUNDS][target_stop]

(* ... which needs all three: time running forward, no overtaking, and     *)
(* footpaths that are closed under walking on.                             *)
OrderlyArrivalIsEarliest ==
  ForwardTimetable /\ NoOvertaking(graph) /\ WalksClosed(graph) => ArrivalIsEarliest

(* Every request that begins is answered, whatever the timetable.          *)
EveryRequestIsAnswered == pc = "init_walks" ~> pc = "done"

(* The query is a label search: see LabelSearch.                           *)
Promise == INSTANCE LabelSearch WITH
  source <- source_stop, departure <- departure_time, label <- earliest_arrival

KeepsPromise == Promise!Spec
==============================================================================
