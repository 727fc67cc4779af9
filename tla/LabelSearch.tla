----------------------------- MODULE LabelSearch -----------------------------
(***************************************************************************)
(* What a route query promises, whatever order it works in: it keeps, for  *)
(* every stop, an arrival time and the last leg of the journey that gives  *)
(* it; a step may only lower a time, and only by a leg of the timetable    *)
(* that somebody already at the boarding stop can catch.                   *)
(* RaptorRouter and RaptorEngine implement it.                             *)
(***************************************************************************)
EXTENDS Timetable

CONSTANTS Graphs,       \* the graphs a query may run on
          Departures    \* the departure times it may ask for

VARIABLES graph, source, departure, label, parent

vars == <<graph, source, departure, label, parent>>

(* The entry of a stop no leg leads to yet.                                *)
NoParent == [stop |-> INF, route |-> INF, board |-> 0, alight |-> 0]

LegTo(par, s) ==
  [board_stop |-> par[s].stop, alight_stop |-> s, route_id |-> par[s].route,
   board_time |-> par[s].board, alight_time |-> par[s].alight]

Parents == [stop : Time, route : Time, board : Time, alight : Time]

Unreached == [s \in Stops |-> INF]
NoParents == [s \in Stops |-> NoParent]

Init ==
  /\ graph \in Graphs
  /\ source = INF /\ departure = 0
  /\ label = Unreached /\ parent = NoParents

(* A request no search answers: a stop out of range, or no way to go.      *)
NoSearch ==
  /\ source' \in Nat /\ departure' \in Departures
  /\ label' = Unreached /\ parent' = NoParents
  /\ UNCHANGED graph

NewSearch ==
  /\ source' \in Stops /\ departure' \in Departures
  /\ label' = [Unreached EXCEPT ![source'] = departure']
  /\ parent' = NoParents
  /\ UNCHANGED graph

(* The leg that lowers the label of s starts at a stop that is reached, no *)
(* earlier than that stop is.                                              *)
Lowers(s) ==
  /\ label'[s] < label[s]
  /\ parent'[s] \in Parents
  /\ parent'[s].stop \in Stops
  /\ IsLeg(graph, LegTo(parent', s))
  /\ label'[s] = parent'[s].alight
  /\ label[parent'[s].stop] <= parent'[s].board

Keeps(s) == label'[s] = label[s] /\ parent'[s] = parent[s]

Improve ==
  /\ label' \in [Stops -> Time]
  /\ DOMAIN parent' = Stops
  /\ \A s \in Stops : Lowers(s) \/ Keeps(s)
  /\ UNCHANGED <<graph, source, departure>>

Next == NoSearch \/ NewSearch \/ Improve

Spec == Init /\ [][Next]_vars

-----------------------------------------------------------------------------
TypeOK ==
  /\ IsGraph(graph)
  /\ source \in Nat /\ departure \in Time
  /\ label \in [Stops -> Time]
  /\ parent \in [Stops -> Parents]

(* Every recorded leg exists in the timetable, gives its stop's label, and *)
(* leaves no earlier than the label of the stop it leaves from: read       *)
(* backwards, the recorded legs are connections a passenger can make.      *)
Justified ==
  \A s \in Stops : parent[s] # NoParent =>
    /\ parent[s].stop \in Stops
    /\ IsLeg(graph, LegTo(parent, s))
    /\ label[s] = parent[s].alight
    /\ label[parent[s].stop] <= parent[s].board
==============================================================================
