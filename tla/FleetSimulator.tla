--------------------------- MODULE FleetSimulator ---------------------------
(***************************************************************************)
(* GTFSRTSimulator of telemetry/gtfs_rt_simulator.py: the feeds of vehicle *)
(* positions and of trip updates, made from the rows of a timetable and a  *)
(* delay for each trip.  Both feeds are built from a snapshot of their     *)
(* own; every snapshot draws the delays anew, from a generator seeded with *)
(* the trip, so that they are the same as long as the process lives.       *)
(*                                                                         *)
(* The second of the day is that of the clock of ActiveFleet.  What is     *)
(* left out is drawing: coordinates and their noise, bearing, speed.       *)
(***************************************************************************)
EXTENDS ActiveFleet
LOCAL INSTANCE SequencesExt
LOCAL INSTANCE FiniteSetsExt

CONSTANT DelayChoices    \* functions from trips to seconds

VARIABLES
  delays,                \* what the generator yields for each trip in this process
  vehicle_positions, trip_updates   \* the two feeds of this second, or None

simulatorVars == <<delays, vehicle_positions, trip_updates>>

SimulatorInit ==
  /\ delays \in DelayChoices
  /\ vehicle_positions = None /\ trip_updates = None

(* trip_stoptimes_map: all rows of a trip, sorted, those of unknown stops  *)
(* as well; a time that is missing is 0.                                   *)
TripStopTimes(trip) ==
  SortSeq(SelectSeq(feed.stop_times, LAMBDA row : row.trip = trip),
          LAMBDA a, b : a.seq < b.seq)

(* compute_vehicle_position_at_time.                                       *)
Ahead(sec, delay) == sec + delay       \* a mutant of the next one
Adjusted(sec, delay) == sec - delay

SimulatedPosition(trip, sec, delay) ==
  LET rows == TripStopTimes(trip)
      dep(i) == hms_to_sec(rows[i].dep)
      arr(i) == hms_to_sec(rows[i].arr)
      time == Adjusted(sec, delay)
      legs == {i \in 1 .. Len(rows) - 1 :
                 /\ dep(i) <= time /\ time <= arr(i + 1)
                 /\ {rows[i].stop, rows[i + 1].stop} \subseteq feed.stops}
      leg == Min(legs)
      duration == Max({1, arr(leg + 1) - dep(leg)})
  IN IF Len(rows) < 2 THEN None
     ELSE IF time < dep(1) \/ time > arr(Len(rows)) \/ legs = {} THEN None
     ELSE [current |-> rows[leg].seq, leg |-> leg, elapsed |-> time - dep(leg), of |-> duration,
           stopped |-> 20 * (time - dep(leg)) <= duration]

(* generate_fleet_snapshot.                                                *)
DrawnForEachSnapshot == DelayChoices    \* a mutant of the next one: the generator is not seeded
Drawn == {delays}

Snapshot(sec, drawn) ==
  {[trip |-> t, delay |-> drawn[t], pos |-> SimulatedPosition(t, sec, drawn[t])] :
     t \in {x \in {feed.stop_times[n].trip : n \in DOMAIN feed.stop_times} :
              SimulatedPosition(x, sec, drawn[x]) # None}}

(* build_gtfs_rt_vehicle_positions_feed.                                   *)
BuildVehiclePositions ==
  /\ vehicle_positions = None
  /\ \E drawn \in Drawn : vehicle_positions' = [entity |-> Snapshot(now % DAY, drawn)]
  /\ UNCHANGED <<fleetVars, delays, trip_updates>>

(* build_gtfs_rt_trip_updates_feed: the rows from the current stop on.     *)
StopTimeUpdate(row, delay) ==
  [seq |-> row.seq, arrival |-> hms_to_sec(row.arr) + delay,
   departure |-> hms_to_sec(row.dep) + delay]

TripUpdate(v) ==
  [trip |-> v.trip, delay |-> v.delay,
   updates |-> {StopTimeUpdate(row, v.delay) :
                  row \in {x \in ToSet(TripStopTimes(v.trip)) : x.seq >= v.pos.current}}]

BuildTripUpdates ==
  /\ trip_updates = None
  /\ \E drawn \in Drawn :
       trip_updates' = [entity |-> {TripUpdate(v) : v \in Snapshot(now % DAY, drawn)}]
  /\ UNCHANGED <<fleetVars, delays, vehicle_positions>>

(* Who asks again later gets other feeds.                                  *)
TimePasses ==
  /\ Tick
  /\ vehicle_positions' = None /\ trip_updates' = None
  /\ UNCHANGED delays

DayInit == FleetInit /\ SimulatorInit

DayNext ==
  \/ BuildVehiclePositions
  \/ BuildTripUpdates
  \/ TimePasses
  \/ Worker /\ UNCHANGED simulatorVars

DaySpec == DayInit /\ [][DayNext]_<<fleetVars, simulatorVars>>

-----------------------------------------------------------------------------
(* A simulated vehicle is where the other module, on which the map relies, *)
(* puts the trip at the time of its delay ago, the end of a leg being the  *)
(* beginning of the next; and who is not between two stops then is missing *)
(* for no other reason than standing at one.  This is about trips that run *)
(* to time and take 20 seconds or more from stop to stop.                  *)
Unhurried(trip) ==
  /\ RunsToTime(trip)
  /\ \A m, n \in Rows(trip) : Row(m).seq < Row(n).seq => Row(n).arr - Row(m).dep >= 20

SamePlace(p, q) ==
  \/ p.leg = q.leg /\ p.elapsed * q.of = q.elapsed * p.of
  \/ p.leg + 1 = q.leg /\ p.elapsed = p.of /\ (q.elapsed = 0 \/ q.of = 1)

SimulatedAsScheduled ==
  vehicle_positions # None =>
    \A trip \in {t \in DOMAIN data_manager.trip_spans : Unhurried(t)} :
      LET time == (now % DAY) - delays[trip]
          span == data_manager.trip_spans[trip]
          rows == data_manager.trip_stop_times[trip]
          listed == {v \in vehicle_positions.entity : v.trip = trip}
      IN /\ \A v \in listed : SamePlace(v.pos, Position(trip, time))
         /\ listed = {} <=>
              \/ time < span.start_sec \/ time > span.end_sec
              \/ \E i \in 2 .. Len(rows) - 1 : rows[i].arr_sec < time /\ time < rows[i].dep_sec

(* The two feeds of a second fit: the same trips in both, each with one    *)
(* delay, and of a trip that runs to time no arrival is predicted that     *)
(* should have been by now, the stop it is coming from excepted.           *)
FeedsAgree ==
  vehicle_positions # None /\ trip_updates # None =>
    /\ {<<v.trip, v.delay>> : v \in vehicle_positions.entity} = {<<u.trip, u.delay>> : u \in trip_updates.entity}
    /\ \A v \in vehicle_positions.entity, u \in trip_updates.entity :
         v.trip = u.trip /\ RunsToTime(v.trip) =>
           /\ \E x \in u.updates : x.seq > v.pos.current
           /\ \A x \in u.updates : x.seq # v.pos.current => x.arrival >= (now % DAY)
=============================================================================
