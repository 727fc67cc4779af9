--------------------------- MODULE MCFeedToGraph ---------------------------
(* Small feeds: three stops on a line, five trips.                         *)
EXTENDS FeedToGraph

StopRow(raw_id, place, parses) == [raw_id |-> raw_id, place |-> place, parses |-> parses]
TimeRow(trip, stop, seq, arr, dep) ==
  [trip |-> trip, stop |-> stop, seq |-> seq, arr |-> arr, dep |-> dep, parses |-> TRUE]
Unparsable(st) == [st EXCEPT !.parses = FALSE]

(* Stops in the order of their ids, and with the last one first.           *)
InIdOrder == << StopRow(10, 0, TRUE), StopRow(20, 500, TRUE), StopRow(30, 2000, TRUE) >>
LastFirst == << InIdOrder[3], InIdOrder[1], InIdOrder[2] >>

(* Trips 1 and 2 leave together and follow one pattern, 5 the same before  *)
(* them, 3 ends early, 4 comes by a stop twice; rows come as they come,    *)
(* some name unknown ids.                                                  *)
Rows ==
  << TimeRow(1, 20, 2, 5, 6), TimeRow(1, 10, 1, 1, 2),
     TimeRow(2, 10, 1, 2, 2), TimeRow(2, 20, 2, 4, 4),
     TimeRow(5, 10, 1, 1, 1), TimeRow(5, 20, 2, 5, 5),
     TimeRow(3, 10, 1, 7, 7), TimeRow(9, 10, 1, 1, 1), TimeRow(4, 99, 1, 1, 1),
     TimeRow(4, 30, 3, 9, 9), TimeRow(4, 10, 4, 11, 11), TimeRow(4, 30, 5, 12, 12) >>

Feed(stop_rows, rows) == [stops |-> stop_rows, trips |-> {1, 2, 3, 4, 5}, stop_times |-> rows]

SortedFeeds ==
  {Feed(InIdOrder, Rows),
   Feed(InIdOrder, [Rows EXCEPT ![10] = Unparsable(@)]),
   Feed(LastFirst, Rows),
   Feed([InIdOrder EXCEPT ![2].parses = FALSE], Rows)}

LastFirstOnly == {Feed(LastFirst, Rows)}
=============================================================================
