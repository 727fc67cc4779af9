----------------------------- MODULE ActiveFleet -----------------------------
(***************************************************************************)
(* The first half of telemetry_background_worker in gateway/main.py (the   *)
(* broadcast is LiveFeed): again and again it computes, from the clock,    *)
(* the vehicles that are running.  It reads the clock twice, once for the  *)
(* date and once for the second of the day; without a time zone database   *)
(* the date is that of UTC, the second that of UTC less four hours.        *)
(*                                                                         *)
(* The clock shows any of Instants, later ones later: seconds of local     *)
(* time since the beginning of day 0.                                      *)
(***************************************************************************)
EXTENDS GtfsData
LOCAL INSTANCE FiniteSetsExt

CONSTANT Instants

ASSUME InstantsAssumption == Instants # {} /\ Instants \subseteq Nat

VARIABLES
  now,
  zone,            \* TBAY_TZ: known, or UTC is four (summer) or five (winter) hours ahead
  worker,          \* sleep, or dated: between the two looks at the clock
  date,            \* date_str, with the weekday in it
  live_vehicles,
  shown            \* when they were computed, and for which date

fleetVars == <<feed, data_manager, now, zone, worker, date, live_vehicles, shown>>

Never == [at |-> -1, date |-> -1]

FleetInit ==
  /\ DataInit
  /\ now \in Instants
  /\ zone \in {"known", "summer", "winter"}
  /\ worker = "sleep" /\ date = -1
  /\ live_vehicles = {} /\ shown = Never

UtcAhead == IF zone = "winter" THEN 18000 ELSE 14400

get_thunder_bay_time ==
  IF zone = "known" THEN now % DAY ELSE (now + UtcAhead - 14400) % DAY

ReadDate ==
  /\ worker = "sleep"
  /\ date' = IF zone = "known" THEN now \div DAY ELSE (now + UtcAhead) \div DAY
  /\ worker' = "dated"
  /\ UNCHANGED <<feed, data_manager, now, zone, live_vehicles, shown>>

ShowVehicles ==
  /\ worker = "dated"
  /\ live_vehicles' = ActiveVehicles(date, get_thunder_bay_time)
  /\ shown' = [at |-> now, date |-> date]
  /\ worker' = "sleep"
  /\ UNCHANGED <<feed, data_manager, now, zone, date>>

Worker == ReadDate \/ ShowVehicles

(* Time passes (external).                                                 *)
Tick ==
  /\ \E t \in Instants : t > now /\ now' = t
  /\ UNCHANGED <<feed, data_manager, zone, worker, date, live_vehicles, shown>>

-----------------------------------------------------------------------------
(***************************************************************************)
(* What the schedule says, from the files alone.                           *)
(***************************************************************************)
Rows(trip) == {n \in DOMAIN feed.stop_times : feed.stop_times[n].trip = trip}
Row(n) == feed.stop_times[n]

(* Rows that parse, of stops that are known, in the order of time.         *)
RunsToTime(trip) ==
  /\ Cardinality(Rows(trip)) >= 2
  /\ \A n \in Rows(trip) :
       /\ Row(n).stop \in feed.stops \ feed.unplaced
       /\ Row(n).arr # Blank /\ Row(n).arr <= Row(n).dep
  /\ \A m, n \in Rows(trip) : m # n =>
       /\ Row(m).seq # Row(n).seq
       /\ Row(m).seq < Row(n).seq => Row(m).dep <= Row(n).arr

Leaves(trip, n) == \A m \in Rows(trip) : Row(n).seq <= Row(m).seq
Ends(trip, n) == \A m \in Rows(trip) : Row(m).seq <= Row(n).seq

Scheduled(day, sec) ==
  {n \in DOMAIN feed.trips :
     /\ feed.trips[n].service \in ActiveServices(day)
     /\ \E m \in Rows(feed.trips[n].trip) :
          Leaves(feed.trips[n].trip, m) /\ Row(m).dep <= sec
     /\ \E m \in Rows(feed.trips[n].trip) :
          Ends(feed.trips[n].trip, m) /\ sec <= Row(m).arr}

(* A clock that is right, and no midnight between the two looks at it.     *)
ClockIsRight == zone = "known" /\ shown.at \div DAY = shown.date

(* What is shown is what is running.  Whatever feed and clock, a block has *)
(* one vehicle.  If the trips run to time there is one for every block     *)
(* with a trip under way on that day, on such a trip, after the stop that  *)
(* was left last and, if the way is not too short, at the next one as soon *)
(* as it is due there.                                                     *)
FleetIsOnSchedule ==
  /\ \A v, w \in live_vehicles : v.block = w.block => v = w
  /\ ClockIsRight /\ (\A n \in DOMAIN feed.trips : RunsToTime(feed.trips[n].trip)) =>
    LET sec == shown.at % DAY
        running == Scheduled(shown.date, sec)
    IN /\ {v.block : v \in live_vehicles} = {Bid(feed.trips[n]) : n \in running}
       /\ \A v \in live_vehicles :
            LET seqs == {Row(n).seq : n \in Rows(v.trip)}
                at(i) == CHOOSE n \in Rows(v.trip) :
                           Cardinality({s \in seqs : s <= Row(n).seq}) = i
                last == Cardinality(seqs)
            IN /\ \E n \in running : feed.trips[n].trip = v.trip
               /\ Row(at(v.pos.leg)).dep <= sec \/ v.pos.leg = last
               /\ \A i \in v.pos.leg + 1 .. last - 1 : sec < Row(at(i)).dep
               /\ v.pos.leg < last /\ Row(at(v.pos.leg + 1)).arr <= sec =>
                    \/ v.pos.elapsed = v.pos.of
                    \/ Row(at(v.pos.leg + 1)).arr - Row(at(v.pos.leg)).dep < 20

(* A vehicle on a trip that runs to time never goes back, from one turn of *)
(* the worker to a later one of the same day: neither to an earlier stop   *)
(* nor on the way between two, and not on the line it is drawn on.         *)
NotBehind(p, q) ==
  \/ p.leg < q.leg
  \/ p.leg = q.leg /\ p.elapsed <= q.elapsed /\ Point(p) <= Point(q)

VehiclesOnlyAdvance ==
  [][ClockIsRight /\ ClockIsRight' /\ shown.date = shown'.date =>
       \A v \in live_vehicles, w \in live_vehicles' :
         v.trip = w.trip /\ RunsToTime(v.trip) => NotBehind(v.pos, w.pos)]_fleetVars

(* A board has the next departures from its stop in order, as many as fit, *)
(* and leaves out none that is before one that it has.  The map agrees: a  *)
(* vehicle on its way to the stop has yet to leave it.                     *)
Coming(s, sec) ==
  {n \in DOMAIN data_manager.stop_times :
     data_manager.stop_times[n].stop = s /\ data_manager.stop_times[n].dep_sec >= sec}

BoardIsComplete ==
  LET sec == get_thunder_bay_time IN
  /\ \A s \in feed.stops :
       LET board == UpcomingDepartures(s, sec)
           shows(n) == \E i \in DOMAIN board : board[i] = data_manager.stop_times[n]
       IN /\ Len(board) = Min({BoardLimit, Cardinality(Coming(s, sec))})
          /\ \A i, j \in DOMAIN board : i < j => board[i].dep_sec <= board[j].dep_sec
          /\ \A m \in DOMAIN data_manager.stop_times, n \in Coming(s, sec) :
               shows(m) =>
                 /\ m \in Coming(s, sec)
                 /\ shows(n) \/ data_manager.stop_times[m].dep_sec <= data_manager.stop_times[n].dep_sec
  /\ ClockIsRight /\ shown.at = now =>
       \A v \in live_vehicles :
         LET rows == data_manager.trip_stop_times[v.trip] IN
         v.pos.leg < Len(rows) /\ RunsToTime(v.trip) =>
           \E n \in Coming(rows[v.pos.leg + 1].stop, sec) :
             data_manager.stop_times[n] = rows[v.pos.leg + 1]
=============================================================================
