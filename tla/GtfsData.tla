------------------------------ MODULE GtfsData ------------------------------
(***************************************************************************)
(* GTFSDataManager of gateway/gtfs_data.py: the tables load_data makes of  *)
(* the feed when the gateway starts, and what is computed from them:       *)
(* active services, running vehicles and where they are, departures.       *)
(*                                                                         *)
(* A feed has the rows of trips.txt and stop_times.txt in file order, the  *)
(* stops of stops.txt, those of them without coordinates (at 0, 0), the    *)
(* rows of calendar_dates.txt and the weekday of day 0.  Ids and dates are *)
(* numbers, times are seconds, or Blank where the field does not parse.    *)
(***************************************************************************)
EXTENDS Integers, Sequences, FiniteSets, TLC
LOCAL INSTANCE SequencesExt
LOCAL INSTANCE FiniteSetsExt

CONSTANTS
  Feeds,
  ShapePoints,    \* points of the line between two stops: 2 without a shape
  BoardLimit      \* limit, 10 in the source

ASSUME PointsAssumption == ShapePoints \in Nat /\ ShapePoints >= 2
ASSUME LimitAssumption == BoardLimit \in Nat

VARIABLES
  feed,           \* the files
  data_manager    \* the tables

DAY == 86400
Blank == -1
NoBlock == -1     \* no column block_id; an empty field of one reads "nan", a block
None == <<>>

hms_to_sec(field) == IF field = Blank THEN 0 ELSE field

(* Rows of stops that stops.txt lacks are dropped, those of a trip sorted. *)
LoadData(f) ==
  LET known == SelectSeq(f.stop_times, LAMBDA row : row.stop \in f.stops)
      stop_times == [n \in DOMAIN known |->
        [trip |-> known[n].trip, stop |-> known[n].stop, seq |-> known[n].seq,
         arr_sec |-> hms_to_sec(known[n].arr), dep_sec |-> hms_to_sec(known[n].dep)]]
      rowsOf(t) == SortSeq(SelectSeq(stop_times, LAMBDA row : row.trip = t),
                           LAMBDA a, b : a.seq < b.seq)
      timed == {stop_times[n].trip : n \in DOMAIN stop_times}
  IN [trips |-> f.trips, stop_times |-> stop_times,
      trip_stop_times |-> [t \in timed |-> rowsOf(t)],
      trip_spans |-> [t \in timed |-> [start_sec |-> rowsOf(t)[1].dep_sec,
                                       end_sec |-> Last(rowsOf(t)).arr_sec]],
      calendar_dates |-> [d \in {c.date : c \in f.calendar} |->
                            {c.service : c \in {x \in f.calendar : x.date = d}}]]

DataInit == feed \in Feeds /\ data_manager = LoadData(feed)

-----------------------------------------------------------------------------
(* get_active_service_ids: a date that is not in the calendar has the      *)
(* services written into the program for its weekday.                      *)
UsualServices(day_of_week) ==
  IF day_of_week < 5 THEN {1045, 1050}
  ELSE IF day_of_week = 5 THEN {1046, 1051} ELSE {1047, 1049}

ActiveServices(date) ==
  IF date \in DOMAIN data_manager.calendar_dates
    THEN data_manager.calendar_dates[date]
    ELSE UsualServices((date + feed.weekday) % 7)

(* get_vehicle_position_along_trip: the stop that was left last, and how   *)
(* much of the way to the next is over, of at least 20 seconds.            *)
TimeToGo(dep, of, sec) ==        \* a mutant of the next one
  Max({0, of - Max({0, Min({of, sec - dep})})})
Elapsed(dep, of, sec) == Max({0, Min({of, sec - dep})})

Position(trip, sec) ==
  LET rows == data_manager.trip_stop_times[trip]
      n == Len(rows)
      leg == Max({1} \cup {i \in 1 .. n - 1 : rows[i].dep_sec <= sec})
      dep == rows[leg].dep_sec
      of == Max({20, rows[leg + 1].arr_sec - dep})
  IN IF n < 2 THEN None
     ELSE IF sec <= rows[1].dep_sec THEN [leg |-> 1, elapsed |-> 0, of |-> 1]
     ELSE IF sec >= rows[n].arr_sec THEN [leg |-> n, elapsed |-> 1, of |-> 1]
     ELSE [leg |-> leg, elapsed |-> Elapsed(dep, of, sec), of |-> of]

(* The point of the line it is drawn at; a stop at either end of the line. *)
Point(pos) == (pos.elapsed * (ShapePoints - 1)) \div pos.of

HasCoordinates(trip, pos) ==
  LET rows == data_manager.trip_stop_times[trip] IN
  /\ Point(pos) = 0 \/ pos.leg = Len(rows) => rows[pos.leg].stop \notin feed.unplaced
  /\ Point(pos) = ShapePoints - 1 /\ pos.leg < Len(rows) =>
       rows[pos.leg + 1].stop \notin feed.unplaced

(* get_live_active_vehicles: of the trips under way the first of each      *)
(* block; it hides the others of the block even if it has no position.     *)
Bid(trip) == IF trip.block = NoBlock THEN trip.trip ELSE trip.block

UnderWay(date, sec) ==
  LET trips == data_manager.trips IN
  {n \in DOMAIN trips :
     /\ trips[n].service \in ActiveServices(date)
     /\ trips[n].trip \in DOMAIN data_manager.trip_spans
     /\ data_manager.trip_spans[trips[n].trip].start_sec <= sec
     /\ sec <= data_manager.trip_spans[trips[n].trip].end_sec}

EachOf(running) == running       \* a mutant of the next one: no seen_blocks
FirstOfItsBlock(running) ==
  {n \in running : \A m \in running :
     Bid(data_manager.trips[m]) = Bid(data_manager.trips[n]) => n <= m}

Placed(trip, sec) ==
  Position(trip, sec) # None /\ HasCoordinates(trip, Position(trip, sec))

ActiveVehicles(date, sec) ==
  LET trip(n) == data_manager.trips[n].trip IN
  {[block |-> Bid(data_manager.trips[n]), trip |-> trip(n), pos |-> Position(trip(n), sec)] :
     n \in {m \in FirstOfItsBlock(UnderWay(date, sec)) : Placed(trip(m), sec)}}

(* get_upcoming_departures: whatever the service of the trip.              *)
CutThenSorted(rows) ==           \* a mutant of the next one: the limit first
  SortSeq(SubSeq(rows, 1, Min({BoardLimit, Len(rows)})), LAMBDA a, b : a.dep_sec < b.dep_sec)
FirstDepartures(rows) ==
  SubSeq(SortSeq(rows, LAMBDA a, b : a.dep_sec < b.dep_sec), 1, Min({BoardLimit, Len(rows)}))

UpcomingDepartures(stop_id, sec) ==
  FirstDepartures(SelectSeq(data_manager.stop_times,
                            LAMBDA row : row.stop = stop_id /\ row.dep_sec >= sec))
=============================================================================
