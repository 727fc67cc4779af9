--------------------------- MODULE MCRaptorRouter ---------------------------
(* Small timetables for RaptorRouter.                                      *)
EXTENDS RaptorRouter

StopAt(trip, seq, arr, dep) ==
  [trip_id |-> trip, stop_sequence |-> seq, arr_sec |-> arr, dep_sec |-> dep]

(* A trip that stops for no time.                                          *)
Trip(id, times) == [i \in DOMAIN times |-> StopAt(id, i, times[i], times[i])]

Line(stops, trips) == [stops |-> stops, trips |-> trips]

NoWalks == [s \in Stops |-> <<>>]

(* Footpaths both ways between the stops of each pair, d seconds long.     *)
Walks(pairs, d) ==
  [s \in Stops |-> [t \in {x \in Stops : {s, x} \in pairs /\ x # s} |-> d]]

(***************************************************************************)
(* Timetables of two lines that cross at stop 1, with a footpath: three    *)
(* trips of the first, of which the second leaves with the first or later, *)
(* overtakes it or is overtaken, or neither, and one of the other line.    *)
(***************************************************************************)
CrossingLines ==
  {[routes |-> << Line(<<0, 1, 2>>,
                       << Trip(1, <<2, 2 + h1, 3 + h1>>), Trip(2, <<b, b + h2, 1 + b + h2>>),
                          Trip(3, <<6, 8, 9>>) >>),
                  Line(cross, << Trip(4, <<3, 4>>) >>) >>,
    walk |-> Walks({{1, 2}}, 1)] :
     b \in {2, 4}, h1 \in {0, 3}, h2 \in {0, 1, 3}, cross \in {<<1, 3>>, <<2, 1>>}}

(***************************************************************************)
(* Timetables with one thing each that a search can get wrong.             *)
(***************************************************************************)
(* The second trip overtakes the first at stop 1.                          *)
Overtaking ==
  [routes |-> << Line(<<0, 1, 2>>, << Trip(1, <<2, 9, 12>>), Trip(2, <<3, 4, 6>>) >>),
                 Line(<<3, 1>>, << Trip(3, <<1, 5>>) >>) >>,
   walk |-> NoWalks]

(* A pattern that comes by stop 1 twice.                                   *)
Loop ==
  [routes |-> << Line(<<0, 1, 2, 1, 3>>,
                      << Trip(1, <<2, 4, 6, 8, 10>>), Trip(2, <<4, 5, 6, 8, 11>>) >>) >>,
   walk |-> Walks({{0, 2}}, 3)]

(* The bus to the target is also reached by a longer way round that is     *)
(* found later and gets to the transfer stop earlier.                      *)
Detour ==
  [routes |-> << Line(<<0, 1>>, << Trip(1, <<2, 8>>) >>),
                 Line(<<0, 2>>, << Trip(2, <<2, 3>>) >>),
                 Line(<<2, 1>>, << Trip(3, <<4, 5>>) >>),
                 Line(<<1, 3>>, << Trip(4, <<9, 12>>) >>) >>,
   walk |-> NoWalks]

(* Stop 2 is reached by a walk from 1 just before the bus comes there, and *)
(* from 2, but not from 1, one can walk on to 3.                           *)
WalkThenWalk ==
  [routes |-> << Line(<<0, 1>>, << Trip(1, <<2, 3>>) >>),
                 Line(<<0, 2>>, << Trip(2, <<2, 6>>) >>) >>,
   walk |-> Walks({{1, 2}, {2, 3}}, 2)]

(* A timetable whose times end where a uint32_t does.                      *)
EndOfTime ==
  [routes |-> << Line(<<0, 1>>, << Trip(1, <<FOOTPATH_ROUTE_ID - 3, FOOTPATH_ROUTE_ID - 1>>) >>),
                 Line(<<1, 2>>, << Trip(2, <<FOOTPATH_ROUTE_ID, INF>>) >>) >>,
   walk |-> Walks({{1, 3}}, 4)]

(* Lines that lead round in circles, with stops of no length.              *)
Circles ==
  [routes |-> << Line(<<0, 1, 2>>, << Trip(1, <<2, 3, 3>>), Trip(2, <<4, 4, 5>>) >>),
                 Line(<<2, 0>>, << Trip(3, <<3, 3>>) >>),
                 Line(<<2, 1, 3>>, << Trip(4, <<3, 3, 7>>), Trip(5, <<5, 6, 9>>) >>) >>,
   walk |-> Walks({{0, 1}}, 0)]

(* Three lines in a row and one back.                                      *)
InARow ==
  [routes |-> << Line(<<0, 1>>, << Trip(1, <<1, 2>>) >>),
                 Line(<<1, 2>>, << Trip(2, <<3, 4>>) >>),
                 Line(<<2, 3>>, << Trip(3, <<5, 6>>) >>),
                 Line(<<3, 1>>, << Trip(4, <<7, 8>>) >>) >>,
   walk |-> NoWalks]

Tricky ==
  {Overtaking, Loop, Detour, WalkThenWalk, EndOfTime, Circles, InARow}

(* What a few delay messages make of them: one stop late, all others not.  *)
TrickyDelayed ==
  Tricky \cup
  {ApplyDelay(g, trip, seq, delay) :
     g \in Tricky, trip \in 1 .. 4, seq \in 1 .. 3, delay \in {5, W - 2}}

(* Two buses that come by each other's stops, both late where they start   *)
(* and, as the messages have it, not where they arrive.                    *)
Shuttle ==
  [routes |-> << Line(<<0, 1>>, << Trip(1, <<1, 4>>) >>),
                 Line(<<1, 2>>, << Trip(2, <<2, 3>>) >>),
                 Line(<<2, 1>>, << Trip(3, <<1, 2>>) >>) >>,
   walk |-> NoWalks]

LateShuttle == ApplyDelay(ApplyDelay(Shuttle, 2, 1, 3), 3, 1, 3)

(***************************************************************************)
(* Six stops in a row, a line from each to the next, by stop id or the     *)
(* other way round: the ends are five buses apart, one more than there are *)
(* rounds.  A footpath, somewhere or nowhere, saves one of them.           *)
(***************************************************************************)
Link(i, late) == Line(<<i, i + 1>>, << Trip(i + 1, <<4 * i + late, 4 * i + 2>>),
                                       Trip(i + 11, <<4 * i + 2, 4 * i + 5>>) >>)
Ascending(late) == [r \in 1 .. 5 |-> Link(r - 1, late)]
Descending(late) == [r \in 1 .. 5 |-> Link(5 - r, late)]

FarApart ==
  {[routes |-> lines, walk |-> walk] :
     lines \in {Ascending(1), Descending(0)},
     walk \in {NoWalks} \cup {Walks({{i, i + 1}}, 1) : i \in {0, 2}}}

Awkward == CrossingLines \cup TrickyDelayed \cup FarApart \cup {LateShuttle}

LateShuttleOnly == {LateShuttle}
==============================================================================
