---------------------------- MODULE MCTransitDay ----------------------------
(* Feeds for FleetSimulator: an evening, and a midnight, of a few trips.   *)
EXTENDS FleetSimulator

Calls(trip, calls) ==
  [i \in DOMAIN calls |->
     [trip |-> trip, seq |-> calls[i][1], stop |-> calls[i][2], arr |-> calls[i][3], dep |-> calls[i][4]]]

Trip(trip, service, block) == [trip |-> trip, service |-> service, block |-> block]

Nan == 999       \* the block of all trips whose field block_id is empty

(* Half past eight.                                                        *)
T(s) == 73800 + s

(* Two trips of a block, the second listed first and beginning the moment  *)
(* the first ends, with a pause at stop 2; one of another service and one  *)
(* of the usual weekday services; one past midnight.                       *)
Regular ==
  [stops |-> 1 .. 3, unplaced |-> {}, weekday |-> 3,
   calendar |-> {[date |-> 0, service |-> 1], [date |-> 2, service |-> 2]},
   trips |-> <<Trip(102, 1, 7), Trip(101, 1, 7), Trip(103, 2, 8), Trip(104, 1045, NoBlock),
               Trip(105, 1, NoBlock)>>,
   stop_times |->
     Calls(101, <<<<3, 3, T(100), T(100)>>, <<1, 1, T(0), T(0)>>, <<2, 2, T(40), T(60)>>>>)
     \o Calls(102, <<<<1, 3, T(100), T(100)>>, <<2, 1, T(160), T(160)>>>>)
     \o Calls(103, <<<<1, 1, T(0), T(0)>>, <<2, 3, T(60), T(60)>>>>)
     \o Calls(104, <<<<1, 2, T(30), T(30)>>, <<2, 1, T(100), T(100)>>>>)
     \o Calls(105, <<<<1, 1, 86380, 86380>>, <<5, 2, 86450, 86450>>>>)]

(* Stops that follow each other in less than 20 seconds, or none.          *)
Hurried ==
  [Regular EXCEPT
     !.calendar = {[date |-> d, service |-> s] : d \in 0 .. 1, s \in {1, 2}},
     !.trips = <<Trip(101, 1, 7), Trip(102, 2, 7)>>,
     !.stop_times =
        Calls(101, <<<<1, 1, T(0), T(0)>>, <<2, 2, T(10), T(10)>>, <<3, 3, T(25), T(30)>>,
                     <<4, 1, T(30), T(30)>>, <<5, 2, T(60), T(60)>>>>)
        \o Calls(102, <<<<1, 2, T(70), T(70)>>, <<2, 3, T(100), T(160)>>, <<3, 1, T(160), T(160)>>>>)]

(* Blank times, an unknown stop, a stop without coordinates, a trip with   *)
(* a single call and one with none, and two trips at a time in block Nan.  *)
Broken ==
  [Regular EXCEPT
     !.stops = 1 .. 4, !.unplaced = {4}, !.weekday = 5,
     !.calendar = {[date |-> 1, service |-> 1046]},
     !.trips = <<Trip(101, 1046, Nan), Trip(102, 1046, Nan), Trip(103, 1051, 3),
                 Trip(104, 1046, 4), Trip(105, 1046, NoBlock), Trip(106, 1046, 6)>>,
     !.stop_times =
        Calls(101, <<<<1, 4, T(0), T(0)>>, <<2, 1, T(40), T(40)>>, <<3, 2, T(100), T(100)>>>>)
        \o Calls(102, <<<<1, 1, T(0), T(0)>>, <<2, 2, T(60), T(60)>>, <<3, 3, T(160), T(160)>>>>)
        \o Calls(103, <<<<1, 1, T(0), T(0)>>, <<2, 2, Blank, Blank>>, <<3, 3, T(100), T(100)>>>>)
        \o Calls(104, <<<<1, 9, T(0), T(0)>>, <<2, 2, T(40), T(60)>>, <<3, 3, T(100), T(100)>>>>)
        \o Calls(105, <<<<1, 1, T(30), T(30)>>>>)]

MCFeeds == {Regular, Hurried, Broken}

MCInstants ==
  {T(s) : s \in {0, 15, 25, 40, 60, 80, 100, 130}} \cup {86390, 86420, DAY + T(50)}

MCDelays ==
  {[t \in 101 .. 106 |-> 0], [t \in 101 .. 106 |-> 30],
   [t \in 101 .. 106 |-> IF t = 101 THEN -20 ELSE 75]}
=============================================================================
