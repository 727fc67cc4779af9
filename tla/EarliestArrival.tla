--------------------------- MODULE EarliestArrival ---------------------------
(***************************************************************************)
(* The reference the search is measured against: the earliest arrivals by  *)
(* journeys of at most n buses, defined from the timetable alone, without  *)
(* marks, routes in an order, a binary search or a label that is updated.  *)
(***************************************************************************)
EXTENDS Timetable, FiniteSets, TLC
LOCAL INSTANCE FiniteSetsExt

(* Every way to reach s by one bus, from stops reached at the times lab.   *)
RidesTo(g, lab, s) ==
  UNION {
    LET route == g.routes[r]
        exits == {j \in DOMAIN route.stops : route.stops[j] = s}
        Catches(t, j) == \E i \in 1 .. j - 1 :
                           /\ lab[route.stops[i]] # INF
                           /\ lab[route.stops[i]] <= route.trips[t][i].dep_sec
    IN {route.trips[tj[1]][tj[2]].arr_sec :
          tj \in {x \in (DOMAIN route.trips) \X exits : Catches(x[1], x[2])}}
    : r \in 1 .. Len(g.routes)}

WalksTo(g, lab, s) ==
  {lab[u] + g.walk[u][s] : u \in {x \in Stops : s \in DOMAIN g.walk[x] /\ lab[x] # INF}}

(* A table of times: itself, but computed by TLC once and for all stops.   *)
Computed(table) == CHOOSE t \in {table} : t = table

Walked(g, lab) == Computed([s \in Stops |-> Min({lab[s]} \cup WalksTo(g, lab, s))])

Ridden(g, lab) == Computed([s \in Stops |-> Min({INF} \cup RidesTo(g, lab, s))])

Earlier(lab, other) == Computed([s \in Stops |-> Min({lab[s], other[s]})])

(* Best[n][s]: the earliest arrival at s with at most n buses, with one    *)
(* walk or none after each bus and at the start.                           *)
Best(g, source, departure) ==
  LET start == [s \in Stops |-> IF s = source THEN departure ELSE INF]
      best[n \in 0 .. 4] ==
        IF n = 0 THEN Walked(g, start)
                 ELSE Earlier(best[n - 1], Walked(g, Ridden(g, best[n - 1])))
  IN best

(* Every stop time lies so far below 2^32 that no walk leads past it.      *)
TimesFit(g, departure) ==
  \A u \in Stops : \A v \in DOMAIN g.walk[u] :
    /\ departure + g.walk[u][v] < INF
    /\ \A r \in 1 .. Len(g.routes) : \A t \in DOMAIN g.routes[r].trips :
         \A i \in DOMAIN g.routes[r].stops :
           g.routes[r].trips[t][i].arr_sec + g.walk[u][v] < INF
==============================================================================
