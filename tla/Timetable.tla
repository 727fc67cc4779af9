------------------------------ MODULE Timetable ------------------------------
(***************************************************************************)
(* The data every part of the routing core shares: the records of          *)
(* transit_data.hpp, the indexed graph of raptor_graph.hpp (routes, their  *)
(* trips and the footpaths), what counts as a leg of a journey, and what a *)
(* delay message does to the stored times.                                 *)
(*                                                                         *)
(* The source keeps offsets into flat arrays (CSR); here a route carries   *)
(* its own stops and trips.  Positions and trips count from 1 instead of   *)
(* 0.  A uint32_t is a number below W (2^32 in the code).                  *)
(***************************************************************************)
EXTENDS Integers, Sequences

CONSTANTS NumStops,     \* stops.size()
          W             \* how many values a uint32_t has

ASSUME NumStopsAssumption == NumStops \in Nat \ {0}
ASSUME WordAssumption == W \in Nat /\ W > NumStops + 2

INF == W - 1
FOOTPATH_ROUTE_ID == W - 2

Stops == 0 .. NumStops - 1
Time == 0 .. W - 1

(* PackedStopTime, without the stop, which is the route's.                 *)
StopTime == [trip_id : Nat, stop_sequence : Nat, arr_sec : Time, dep_sec : Time]

(* A route: a stop pattern and the trips that follow it, each trip one     *)
(* stop time per position.                                                 *)
IsRoute(r) ==
  /\ r.stops \in Seq(Stops)
  /\ r.trips \in Seq([DOMAIN r.stops -> StopTime])

(* walk[u] is a partial function: the stops with a footpath from u, and    *)
(* the seconds each takes.                                                 *)
IsGraph(g) ==
  /\ DOMAIN g.routes = 1 .. Len(g.routes)
  /\ Len(g.routes) \in 0 .. FOOTPATH_ROUTE_ID - 1
  /\ \A r \in 1 .. Len(g.routes) : IsRoute(g.routes[r])
  /\ \A u \in Stops : /\ DOMAIN g.walk[u] \subseteq Stops \ {u}
                      /\ \A v \in DOMAIN g.walk[u] : g.walk[u][v] \in Time

(***************************************************************************)
(* Legs.  RaptorRouter::Leg.                                               *)
(***************************************************************************)
Leg == [board_stop : Stops, alight_stop : Stops, route_id : Time,
        board_time : Time, alight_time : Time]

(* A ride the timetable holds: one trip, boarded before it is left.        *)
IsBusLeg(g, leg) ==
  /\ leg.route_id \in 1 .. Len(g.routes)
  /\ \E t \in DOMAIN g.routes[leg.route_id].trips :
       \E i, j \in DOMAIN g.routes[leg.route_id].stops :
         /\ i < j
         /\ g.routes[leg.route_id].stops[i] = leg.board_stop
         /\ g.routes[leg.route_id].stops[j] = leg.alight_stop
         /\ g.routes[leg.route_id].trips[t][i].dep_sec = leg.board_time
         /\ g.routes[leg.route_id].trips[t][j].arr_sec = leg.alight_time

(* A footpath taken at some time; the sum is a uint32_t.                   *)
IsWalkLeg(g, leg) ==
  /\ leg.route_id = FOOTPATH_ROUTE_ID
  /\ leg.alight_stop \in DOMAIN g.walk[leg.board_stop]
  /\ leg.alight_time =
       (leg.board_time + g.walk[leg.board_stop][leg.alight_stop]) % W

IsLeg(g, leg) == IsBusLeg(g, leg) \/ IsWalkLeg(g, leg)

(***************************************************************************)
(* What TelemetryConsumer does with one delay message: every stop time     *)
(* with this trip and sequence number moves, the others stay.              *)
(***************************************************************************)
Delayed(st, trip_id, stop_sequence, delay) ==
  IF st.trip_id = trip_id /\ st.stop_sequence = stop_sequence
    THEN [st EXCEPT !.arr_sec = (@ + delay) % W, !.dep_sec = (@ + delay) % W]
    ELSE st

ApplyDelay(g, trip_id, stop_sequence, delay) ==
  [g EXCEPT !.routes =
     [r \in DOMAIN g.routes |->
       [g.routes[r] EXCEPT !.trips =
          [t \in DOMAIN g.routes[r].trips |->
            [i \in DOMAIN g.routes[r].stops |->
               Delayed(g.routes[r].trips[t][i], trip_id, stop_sequence, delay)]]]]]

(***************************************************************************)
(* What a feed may promise of its timetable.                               *)
(***************************************************************************)
(* Along a trip time never runs backwards.                                 *)
TripRunsForward(r, t) ==
  \A i, j \in DOMAIN r.stops : i < j => r.trips[t][i].dep_sec <= r.trips[t][j].arr_sec

RunsForward(g) ==
  \A r \in 1 .. Len(g.routes) : \A t \in DOMAIN g.routes[r].trips :
    TripRunsForward(g.routes[r], t)

(* A later trip of the same pattern is nowhere earlier: nobody overtakes.  *)
NoOvertaking(g) ==
  \A r \in 1 .. Len(g.routes) : \A t, u \in DOMAIN g.routes[r].trips : t < u =>
    \A i \in DOMAIN g.routes[r].stops :
      /\ g.routes[r].trips[t][i].dep_sec <= g.routes[r].trips[u][i].dep_sec
      /\ g.routes[r].trips[t][i].arr_sec <= g.routes[r].trips[u][i].arr_sec

(* Where two footpaths join, a third one is at least as short.             *)
WalksClosed(g) ==
  \A u \in Stops : \A v \in DOMAIN g.walk[u] : \A w \in DOMAIN g.walk[v] \ {u} :
    w \in DOMAIN g.walk[u] /\ g.walk[u][w] <= g.walk[u][v] + g.walk[v][w]
==============================================================================
