--------------------------- MODULE MCRouteOptions ---------------------------
(* Small days for RouteOptions, in seconds and metres.                     *)
EXTENDS RouteOptions

(* A trip that stops for no time.  The file has its rows the wrong way     *)
(* round, and the stop_sequence leaves numbers out.                        *)
Trip(id, stops, times) ==
  LET n == Len(stops) IN
  [i \in 1 .. n |-> [trip_id |-> id, stop_id |-> stops[n + 1 - i],
                     stop_sequence |-> 2 * (n - i), arr_sec |-> times[n + 1 - i],
                     dep_sec |-> times[n + 1 - i]]]

Nowhere == <<0, 5000, 10000, 15000>>
Day(places, rows, blocks) ==
  [stop_times |-> rows, place |-> [s \in Stops |-> places[s + 1]], block |-> blocks]

NoBlocks == [trip \in 1 .. 5 |-> NoBlock]

(* A short walk to a bus that comes at all intervals, and a longer one on. *)
Frequent(metres) ==
  Day(<<0, metres, 10000, 10000 + metres>>,
      Trip(3, <<1, 2>>, <<700, 800>>) \o Trip(1, <<1, 2>>, <<345, 500>>)
      \o Trip(4, <<1, 2>>, <<2000, 2100>>) \o Trip(2, <<1, 2>>, <<380, 580>>), NoBlocks)

(* Another bus runs on from where, and when, the first ends.               *)
Interlining(blocks) ==
  Day(<<0, 5000, 10000, 10125>>,
      Trip(4, <<1, 2>>, <<2200, 2400>>) \o Trip(2, <<0, 1>>, <<1300, 1800>>)
      \o Trip(1, <<0, 1>>, <<100, 600>>) \o Trip(3, <<1, 2>>, <<700, 900>>)
      \o Trip(5, <<1, 3>>, <<600, 800>>), blocks)

(* A line that comes by stop 1 twice, and a way round on foot.             *)
Circle ==
  Day(<<0, 5000, 138, 15000>>,
      Trip(1, <<0, 1, 2, 1, 3>>, <<100, 200, 300, 400, 500>>)
      \o Trip(3, <<3, 0>>, <<500, 700>>)
      \o Trip(2, <<0, 1, 2, 1, 3>>, <<700, 800, 900, 1000, 1100>>), NoBlocks)

(* One bus before a long pause and two around midnight.                    *)
LongDay ==
  Day(<<0, 5000, 10000, 5020>>,
      Trip(3, <<0, 1>>, <<86800, 86950>>) \o Trip(2, <<0, 1>>, <<86000, 86200>>)
      \o Trip(1, <<0, 1>>, <<1200, 1500>>) \o Trip(4, <<1, 2>>, <<86200, 86500>>), NoBlocks)

(* Two buses a day apart, the same minutes of the clock.                   *)
NextDay ==
  Day(Nowhere,
      Trip(1, <<0, 1>>, <<1800, 2400>>) \o Trip(2, <<0, 1>>, <<88200, 88800>>)
      \o Trip(3, <<0, 1>>, <<88900, 89500>>), NoBlocks)

(* The second trip overtakes the first; two walks that do not make a third *)
(* one, out of reach by a metre.                                           *)
Overtaking ==
  Day(<<0, 5000, 5501, 5250>>,
      Trip(2, <<0, 1, 2>>, <<300, 400, 600>>) \o Trip(1, <<0, 1, 2>>, <<200, 900, 1200>>),
      NoBlocks)

(* A time that does not parse is midnight: the second trip gets to stop 2  *)
(* before it has left, from where the third goes back to where it came     *)
(* from, earlier than one can be there.                                    *)
BlankTime ==
  Day(Nowhere,
      Trip(1, <<0, 1>>, <<300, 500>>) \o Trip(2, <<1, 2>>, <<600, 0>>)
      \o Trip(3, <<2, 1>>, <<100, 200>>) \o Trip(4, <<0, 1>>, <<800, 900>>), NoBlocks)

MCDays ==
  {Frequent(50), Frequent(112), Interlining(<<1, 2, 1, 2, 3>>), Circle, LongDay, NextDay,
   Overtaking, BlankTime}

OtherBuses == {Interlining(<<1, 2, 3, 4, 5>>)}
=============================================================================
