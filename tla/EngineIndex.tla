----------------------------- MODULE EngineIndex -----------------------------
(***************************************************************************)
(* _build_index and _build_footpaths of gateway/raptor_engine.py: what the *)
(* engine of the gateway makes of the rows load_data has read, when the    *)
(* gateway starts.  A day has the rows and, of each stop, the place, a     *)
(* point on a line in metres; the difference of two is the distance.       *)
(*                                                                         *)
(* Dictionaries keep the order in which their keys came, sort() the order  *)
(* of equals.                                                              *)
(***************************************************************************)
EXTENDS EarliestArrival
LOCAL INSTANCE FiniteSetsExt
LOCAL INSTANCE SequencesExt

MaxWalk == 500           \* max_dist, in metres

(* The numbers in S, sorted by their keys: the n-th is the one that n - 1  *)
(* others precede.                                                         *)
Precedes(key, i, j) == key[i] < key[j] \/ (key[i] = key[j] /\ i < j)

Sorted(S, key) ==
  [n \in 1 .. Cardinality(S) |->
     CHOOSE i \in S : Cardinality({j \in S : Precedes(key, j, i)}) = n - 1]

Permuted(seq, order) == [n \in DOMAIN order |-> seq[order[n]]]

FirstSeen(seq) ==
  Permuted(seq, Sorted({i \in DOMAIN seq : \A j \in 1 .. i - 1 : seq[j] # seq[i]},
                       [i \in DOMAIN seq |-> i]))

(* The rows of each trip, trips in the order they come.                    *)
AsTheyCome(rows) == [n \in DOMAIN rows |-> n]     \* a mutant of the next one: rows not sorted
ByStopSequence(rows) == [n \in DOMAIN rows |-> rows[n].stop_sequence]

TripsOf(rows) ==
  LET ids == FirstSeen([n \in DOMAIN rows |-> rows[n].trip_id]) IN
  [n \in DOMAIN ids |->
     Permuted(rows, Sorted({m \in DOMAIN rows : rows[m].trip_id = ids[n]}, ByStopSequence(rows)))]

PatternOf(trip) == [i \in DOMAIN trip |-> trip[i].stop_id]

(* Trips that call at the same stops are a route, by their departures.     *)
RoutesOf(rows) ==
  LET trips == TripsOf(rows)
      patterns == FirstSeen([n \in DOMAIN trips |-> PatternOf(trips[n])])
      along(seq) == {n \in DOMAIN trips : PatternOf(trips[n]) = seq}
      departures == [n \in DOMAIN trips |-> trips[n][1].dep_sec]
  IN [r \in DOMAIN patterns |->
        [stops |-> patterns[r],
         trips |-> Permuted(trips, Sorted(along(patterns[r]), departures))]]

(* The routes of each stop, each once; nobody asks for their order.        *)
StopToRoutes(routes) ==
  [s \in Stops |-> {r \in DOMAIN routes : s \in ToSet(routes[r].stops)}]

(* Between any two stops within reach: whoever is farther off than that by *)
(* latitude or longitude alone is farther off.  1.25 metres a second.      *)
Distance(place, s, t) == Max({place[s], place[t]}) - Min({place[s], place[t]})

WalkingTime(metres) == Max({30, (metres * 4) \div 5})

FootpathsOf(place) ==
  [s \in Stops |-> [t \in {x \in Stops \ {s} : Distance(place, s, x) <= MaxWalk} |->
                      WalkingTime(Distance(place, s, t))]]

(* The engine, with the day it was made of.                                *)
Indexed(day) ==
  LET routes == RoutesOf(day.stop_times) IN
  [routes |-> routes, stop_to_routes |-> StopToRoutes(routes),
   walk |-> FootpathsOf(day.place), day |-> day]

-----------------------------------------------------------------------------
(* What the day itself says can be ridden or walked: two rows of a trip,   *)
(* in their order, or stops within reach.                                  *)
RunsOn(day, leg) ==
  \E m, n \in DOMAIN day.stop_times :
    LET from == day.stop_times[m]
        to == day.stop_times[n]
    IN /\ from.trip_id = to.trip_id
       /\ from.stop_sequence < to.stop_sequence \/ (from.stop_sequence = to.stop_sequence /\ m < n)
       /\ from.stop_id = leg.board_stop /\ from.dep_sec = leg.board_time
       /\ to.stop_id = leg.alight_stop /\ to.arr_sec = leg.alight_time

InReach(day, leg) ==
  /\ Distance(day.place, leg.board_stop, leg.alight_stop) <= MaxWalk
  /\ leg.alight_time - leg.board_time =
       WalkingTime(Distance(day.place, leg.board_stop, leg.alight_stop))
=============================================================================
