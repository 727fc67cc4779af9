---------------------------- MODULE RaptorEngine ----------------------------
(***************************************************************************)
(* plan_route of gateway/raptor_engine.py, the search behind /api/route: a *)
(* second implementation of what RaptorRouter models, on a timetable that  *)
(* never changes.  What differs: labels are integers that do not wrap, and *)
(* marked stops, and with them the routes of a round, come in the order a  *)
(* set yields them, any order here.                                        *)
(*                                                                         *)
(* INF is 10**9, FOOTPATH_ROUTE_ID stands for "WALK" and NoTrip for None.  *)
(* Nothing else reads what a call is working on: a route is scanned in one *)
(* step, and so are the footpaths of one stop.                             *)
(***************************************************************************)
EXTENDS EngineIndex

CONSTANT Days

ASSUME DaysAssumption ==
  \A day \in Days :
    /\ day.stop_times \in
         Seq([trip_id : Nat, stop_id : Stops, stop_sequence : Nat, arr_sec : Time, dep_sec : Time])
    /\ Len(day.stop_times) < FOOTPATH_ROUTE_ID
    /\ day.place \in [Stops -> Nat]

Graphs == {Indexed(day) : day \in Days}

VARIABLES
  graph,          \* the index, built once
  pc,             \* idle, first_walks, round, routes, walks, trace, done
  source_stop, target_stop, departure_time,
  labels,         \* per stop earliest_arrival and the leg it came by; next_marked
  k, prev_arrival, marked_stops,
  todo,           \* routes still to be scanned, then stops to be walked from
  plan            \* what is returned: a sequence of legs, or None

call == <<graph, source_stop, target_stop, departure_time>>
engineVars == <<call, pc, labels, k, prev_arrival, marked_stops, todo, plan>>

MAX_ROUNDS == 4
NoTrip == 0
NoLeg == <<>>
None == <<>>

stopsOf(r) == graph.routes[r].stops
tripsOf(r) == graph.routes[r].trips

Unlabelled ==
  [earliest_arrival |-> [s \in Stops |-> INF], leg |-> [s \in Stops |-> NoLeg],
   next_marked |-> {}]

EngineInit ==
  /\ graph \in Graphs
  /\ pc = "idle"
  /\ source_stop = INF /\ target_stop = INF /\ departure_time = 0
  /\ labels = Unlabelled
  /\ k = 0 /\ prev_arrival = Unlabelled.earliest_arrival
  /\ marked_stops = {} /\ todo = {} /\ plan = None

(* A leg that gets to its stop earlier than the label says becomes the     *)
(* parent_stop, parent_route, parent_trip_idx, board_time and alight_time. *)
ImprovesOrEquals(lab, leg) ==      \* a mutant of the next one
  leg.alight_time <= lab.earliest_arrival[leg.alight_stop]
Improves(lab, leg) == leg.alight_time < lab.earliest_arrival[leg.alight_stop]

(* The labels after legs to different stops.                               *)
Lowered(lab, legs) ==
  LET better(s) == {leg \in legs : leg.alight_stop = s /\ Improves(lab, leg)}
      lowered == {s \in Stops : better(s) # {}}
      by(s) == CHOOSE leg \in better(s) : TRUE
  IN [earliest_arrival |-> [s \in Stops |-> IF s \in lowered THEN by(s).alight_time
                                                            ELSE lab.earliest_arrival[s]],
      leg |-> [s \in Stops |-> IF s \in lowered THEN by(s) ELSE lab.leg[s]],
      next_marked |-> lab.next_marked \cup lowered]

WithWalksFrom(lab, u) ==
  Lowered(lab, {[board_stop |-> u, alight_stop |-> v, route_id |-> FOOTPATH_ROUTE_ID,
                 board_time |-> lab.earliest_arrival[u],
                 alight_time |-> lab.earliest_arrival[u] + graph.walk[u][v],
                 trip_idx |-> NoTrip] : v \in DOMAIN graph.walk[u]})

(* plan_route is called; there may be nothing to plan.                     *)
PlanRoute(s, t, d) ==
  LET refused == s = t \/ s \notin Stops \/ t \notin Stops IN
  /\ pc \in {"idle", "done"}
  /\ source_stop' = s /\ target_stop' = t /\ departure_time' = d
  /\ labels' = IF refused THEN Unlabelled
                          ELSE [Unlabelled EXCEPT !.earliest_arrival[s] = d]
  /\ k' = 0 /\ plan' = None
  /\ pc' = IF refused THEN "done" ELSE "first_walks"
  /\ UNCHANGED <<graph, prev_arrival, marked_stops, todo>>

FirstWalks ==
  /\ pc = "first_walks"
  /\ labels' = WithWalksFrom(labels, source_stop)
  /\ marked_stops' = {source_stop} \cup labels'.next_marked
  /\ pc' = "round"
  /\ UNCHANGED <<call, k, prev_arrival, todo, plan>>

BeginRound ==
  /\ pc = "round"
  /\ prev_arrival' = labels.earliest_arrival
  /\ labels' = [labels EXCEPT !.next_marked = {}]
  /\ todo' = UNION {graph.stop_to_routes[s] : s \in marked_stops}
  /\ pc' = "routes"
  /\ UNCHANGED <<call, k, marked_stops, plan>>

(***************************************************************************)
(* The scan of a route: the trip the passenger is on, and where and when   *)
(* it was boarded.                                                         *)
(***************************************************************************)
Catchable(r, i, t) == tripsOf(r)[t][i].dep_sec >= prev_arrival[stopsOf(r)[i]]

(* The binary search among the trips before the one it is on; it has       *)
(* closed after so many turns.                                             *)
Halved(range, r, i) ==
  LET mid == (range.low + range.high) \div 2 IN
  IF range.low > range.high THEN range
  ELSE IF Catchable(r, i, mid) THEN [range EXCEPT !.high = mid - 1, !.best_t = mid]
                               ELSE [range EXCEPT !.low = mid + 1]

TripFound(r, i, last) ==
  LET range[n \in 0 .. last] ==
        IF n = 0 THEN [low |-> 1, high |-> last, best_t |-> NoTrip]
                 ELSE Halved(range[n - 1], r, i)
  IN range[last].best_t

Alighted(scan, r, i) ==
  IF scan.trip = NoTrip THEN scan
  ELSE [scan EXCEPT !.labels = Lowered(@,
          {[board_stop |-> scan.stop, alight_stop |-> stopsOf(r)[i], route_id |-> r,
            board_time |-> scan.time, alight_time |-> tripsOf(r)[scan.trip][i].arr_sec,
            trip_idx |-> scan.trip]})]

Boarded(scan, r, i) ==
  LET s == stopsOf(r)[i]
      t == IF s \in marked_stops /\ prev_arrival[s] # INF
             THEN TripFound(r, i, IF scan.trip = NoTrip THEN Len(tripsOf(r)) ELSE scan.trip - 1)
             ELSE NoTrip
  IN IF t = NoTrip THEN scan
     ELSE [scan EXCEPT !.trip = t, !.stop = s, !.time = tripsOf(r)[t][i].dep_sec]

(* The scan of r up to its i-th stop.                                      *)
Scanned(r) ==
  LET scan[i \in 0 .. Len(stopsOf(r))] ==
        IF i = 0 THEN [trip |-> NoTrip, stop |-> INF, time |-> 0, labels |-> labels]
                 ELSE Boarded(Alighted(scan[i - 1], r, i), r, i)
  IN scan

ScanRoute ==
  /\ pc = "routes"
  /\ \E r \in todo : /\ todo' = todo \ {r}
                     /\ labels' = Scanned(r)[Len(stopsOf(r))].labels
  /\ UNCHANGED <<call, pc, k, prev_arrival, marked_stops, plan>>

RoutesDone ==
  /\ pc = "routes" /\ todo = {}
  /\ todo' = {s \in labels.next_marked : labels.leg[s].route_id # FOOTPATH_ROUTE_ID}
  /\ pc' = "walks"
  /\ UNCHANGED <<call, labels, k, prev_arrival, marked_stops, plan>>

WalkOn ==
  /\ pc = "walks"
  /\ \E u \in todo : labels' = WithWalksFrom(labels, u) /\ todo' = todo \ {u}
  /\ UNCHANGED <<call, pc, k, prev_arrival, marked_stops, plan>>

EndRound ==
  /\ pc = "walks" /\ todo = {}
  /\ marked_stops' = labels.next_marked
  /\ k' = k + 1
  /\ pc' = IF labels.next_marked = {} \/ k' = MAX_ROUNDS THEN "trace" ELSE "round"
  /\ UNCHANGED <<call, labels, prev_arrival, todo, plan>>

(* The legs, from the target back to the source, to a stop nothing leads   *)
(* to or to one seen before, so that every turn is at another stop.        *)
WalkedBack(back) ==
  LET curr == back.curr IN
  IF curr = source_stop \/ labels.leg[curr] = NoLeg \/ curr \in back.visited THEN back
  ELSE [curr |-> labels.leg[curr].board_stop, visited |-> back.visited \cup {curr},
        path |-> <<labels.leg[curr]>> \o back.path]

PathTo(s) ==
  LET back[n \in 0 .. NumStops] ==
        IF n = 0 THEN [curr |-> s, visited |-> {}, path |-> <<>>] ELSE WalkedBack(back[n - 1])
  IN back[NumStops].path

ReturnPlan ==
  /\ pc = "trace"
  /\ plan' = IF labels.earliest_arrival[target_stop] = INF THEN None ELSE PathTo(target_stop)
  /\ pc' = "done"
  /\ UNCHANGED <<call, labels, k, prev_arrival, marked_stops, todo>>

EngineStep ==
  \/ FirstWalks \/ BeginRound \/ ScanRoute \/ RoutesDone
  \/ WalkOn \/ EndRound \/ ReturnPlan

-----------------------------------------------------------------------------
(* A plan can be ridden: each leg is a ride the rows of one trip have, or  *)
(* a walk within reach, and starts where and not before the last one       *)
(* ended; the final one ends at the target at the time of its label.  If   *)
(* time runs forward the first starts at the source, not before the        *)
(* departure.  The order of the sets does not matter.                      *)
PlanCanBeRidden ==
  pc = "done" /\ plan # None =>
    /\ \A n \in DOMAIN plan :
         IF plan[n].route_id = FOOTPATH_ROUTE_ID THEN InReach(graph.day, plan[n])
                                                 ELSE RunsOn(graph.day, plan[n])
    /\ \A n \in 1 .. Len(plan) - 1 :
         /\ plan[n].alight_stop = plan[n + 1].board_stop
         /\ plan[n].alight_time <= plan[n + 1].board_time
    /\ plan[Len(plan)].alight_stop = target_stop
    /\ plan[Len(plan)].alight_time = labels.earliest_arrival[target_stop]
    /\ RunsForward(graph) =>
         plan[1].board_stop = source_stop /\ plan[1].board_time >= departure_time

(* It is a label search, like the engine's own.                            *)
ParentOf(leg) ==
  IF leg = NoLeg THEN [stop |-> INF, route |-> INF, board |-> 0, alight |-> 0]
  ELSE [stop |-> leg.board_stop, route |-> leg.route_id,
        board |-> leg.board_time, alight |-> leg.alight_time]

Promise == INSTANCE LabelSearch WITH
  source <- source_stop, departure <- departure_time, label <- labels.earliest_arrival,
  parent <- [s \in Stops |-> ParentOf(labels.leg[s])], Departures <- Nat

KeepsPromise == Promise!Spec
=============================================================================
