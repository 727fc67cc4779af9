---------------------------- MODULE RouteOptions ----------------------------
(***************************************************************************)
(* /api/route of gateway/main.py: plan_route is called again and again,    *)
(* later each time, until there are enough options, and each plan becomes  *)
(* an option to show: the walk at its start is moved up to the bus, and    *)
(* transfers are labelled as such or as staying on the bus.                *)
(***************************************************************************)
EXTENDS RaptorEngine
LOCAL INSTANCE FiniteSetsExt
LOCAL INSTANCE SequencesExt

CONSTANTS Departures, Wishes     \* departure_time and num_options of a request

ASSUME DeparturesAssumption == Departures \subseteq Nat
ASSUME WishesAssumption == Wishes \subseteq Int

NoBlock == 0      \* day.block[trip_id] of a trip without a block_id

VARIABLES
  rpc,                 \* idle, loop, plan, answer, done
  source, target, dep_sec, num_options,
  current_search_dep, tries,
  options, seen_departure_times

requestVars == <<source, target, dep_sec, num_options>>
loopVars == <<current_search_dep, tries, options, seen_departure_times>>
routeVars == <<engineVars, rpc, requestVars, loopVars>>

RouteInit ==
  /\ EngineInit
  /\ rpc = "idle"
  /\ source = INF /\ target = INF /\ dep_sec = 0 /\ num_options = 1
  /\ current_search_dep = 0 /\ tries = 0
  /\ options = <<>> /\ seen_departure_times = {}

(* min(5, max(1, req.num_options or 3))                                    *)
OptionsFor(wish) == Min({5, Max({1, IF wish = 0 THEN 3 ELSE wish})})

(* The one request of a behaviour: requests share nothing.  get_stop knows *)
(* the stops there are.                                                    *)
HandleRequest(s, t, d, wish) ==
  /\ rpc = "idle"
  /\ source' = s /\ target' = t /\ dep_sec' = d
  /\ num_options' = OptionsFor(wish)
  /\ current_search_dep' = d /\ tries' = 0
  /\ options' = <<>> /\ seen_departure_times' = {}
  /\ rpc' = IF s \in Stops /\ t \in Stops THEN "loop" ELSE "done"
  /\ UNCHANGED engineVars

LoopGoesOn == tries < num_options + 20 /\ Len(options) < num_options

Search ==
  /\ rpc = "loop" /\ LoopGoesOn
  /\ PlanRoute(source, target, current_search_dep)
  /\ tries' = tries + 1
  /\ rpc' = "plan"
  /\ UNCHANGED <<requestVars, current_search_dep, options, seen_departure_times>>

Plan ==
  /\ rpc = "plan"
  /\ EngineStep
  /\ UNCHANGED <<rpc, requestVars, loopVars>>

(***************************************************************************)
(* calculate_single_itinerary.                                             *)
(***************************************************************************)
IsWalking(leg) == leg.route_id = FOOTPATH_ROUTE_ID

BusLegs(legs) == {n \in DOMAIN legs : ~IsWalking(legs[n])}
FirstBus(legs) == legs[Min(BusLegs(legs))]

(* The walk at the start ends when the bus comes, and begins no earlier    *)
(* than it has to.                                                         *)
MovedUpAtItsStartOnly(leg, bus_sec) ==    \* a mutant of the next one
  [leg EXCEPT !.board_time = Max({departure_time,
                                  bus_sec - Max({60, leg.alight_time - leg.board_time})})]
MovedUp(leg, bus_sec) ==
  [leg EXCEPT !.alight_time = bus_sec,
              !.board_time = Max({departure_time,
                                  bus_sec - Max({60, leg.alight_time - leg.board_time})})]

Retimed(legs) ==
  IF IsWalking(legs[1]) /\ BusLegs(legs) # {}
    THEN [legs EXCEPT ![1] = MovedUp(@, FirstBus(legs).board_time)]
    ELSE legs

(* The legs of plan_route carry no trip_id: no block is ever found, and    *)
(* what is left of the rule is the same stop within five minutes.          *)
StaysOnBus(legs, n) ==
  /\ ~IsWalking(legs[n])
  /\ \E m \in BusLegs(legs) :
       /\ m = Max({x \in BusLegs(legs) : x < n} \cup {0})
       /\ legs[m].alight_stop = legs[n].board_stop
       /\ legs[n].board_time - legs[m].alight_time \in -300 .. 300

OptionOf(legs) ==
  LET shown == Retimed(legs)
      first == shown[1].board_time
      bus_sec == IF BusLegs(shown) = {} THEN 0 ELSE FirstBus(shown).board_time
  IN [departure_sec |-> first,
      arrival_sec |-> Last(shown).alight_time,
      first_bus_sec |-> IF bus_sec = 0 THEN first + 300 ELSE bus_sec,
      itinerary |-> shown,
      is_stay_on_bus |-> [n \in DOMAIN shown |-> StaysOnBus(shown, n)]]

(* sec_to_hms: the clock to the minute, whatever the day.                  *)
Clock(sec) == (sec \div 60) % 1440
DepKey(option) == <<Clock(option.departure_sec), Clock(option.arrival_sec)>>

NextSearchTwoMinutesOn(option) == current_search_dep + 120    \* mutants of the next one
NextSearchFromArrival(option) == Max({current_search_dep + 120, option.arrival_sec + 60})
NextSearch(option) == Max({current_search_dep + 120, option.first_bus_sec + 60})

TakeOption ==
  LET option == OptionOf(plan) IN
  /\ rpc = "plan" /\ pc = "done" /\ plan # None
  /\ IF DepKey(option) \in seen_departure_times
       THEN UNCHANGED <<options, seen_departure_times>>
       ELSE /\ options' = Append(options, option)
            /\ seen_departure_times' = seen_departure_times \cup {DepKey(option)}
  /\ current_search_dep' = NextSearch(option)
  /\ rpc' = "loop"
  /\ UNCHANGED <<engineVars, requestVars, tries>>

NoOption ==
  /\ rpc = "plan" /\ pc = "done" /\ plan = None
  /\ current_search_dep' = current_search_dep + 15 * 60
  /\ rpc' = IF current_search_dep' > dep_sec + 14 * 3600 THEN "answer" ELSE "loop"
  /\ UNCHANGED <<engineVars, requestVars, tries, options, seen_departure_times>>

Answer ==
  /\ rpc = "answer" \/ (rpc = "loop" /\ ~LoopGoesOn)
  /\ rpc' = "done"
  /\ UNCHANGED <<engineVars, requestVars, loopVars>>

RouteNext ==
  \/ \E s, t \in 0 .. NumStops, d \in Departures, wish \in Wishes : HandleRequest(s, t, d, wish)
  \/ Search \/ Plan \/ TakeOption \/ NoOption \/ Answer

RouteSpec == RouteInit /\ [][RouteNext]_routeVars

-----------------------------------------------------------------------------
(* Nobody overtakes, and footpaths are closed under walking on.            *)
Orderly == RunsForward(graph) /\ NoOvertaking(graph) /\ WalksClosed(graph)

(* Where time runs forward, each option leaves later than the one before  *)
(* it and, in an orderly timetable, arrives no earlier: no option is shown *)
(* that is worse than one below it, and none is shown twice.               *)
OptionsAdvance ==
  RunsForward(graph) => \A m, n \in DOMAIN options : m < n =>
    /\ options[m].departure_sec < options[n].departure_sec
    /\ options[m].first_bus_sec < options[n].first_bus_sec
    /\ Orderly => options[m].arrival_sec <= options[n].arrival_sec

(* Where time runs forward, the legs as they are shown still fit: the      *)
(* first begins no earlier than asked, none ends before it begins or       *)
(* begins before the last one ended, and who walks to the first bus does   *)
(* not have to hurry or to wait there.                                     *)
ShownLegsFit ==
  RunsForward(graph) => \A o \in DOMAIN options :
    LET legs == options[o].itinerary IN
    /\ legs[1].board_time >= dep_sec
    /\ \A n \in DOMAIN legs : legs[n].board_time <= legs[n].alight_time
    /\ \A n \in 1 .. Len(legs) - 1 : legs[n].alight_time <= legs[n + 1].board_time
    /\ IsWalking(legs[1]) /\ Len(legs) > 1 =>
         /\ legs[1].alight_time = legs[2].board_time
         /\ legs[1].alight_time - legs[1].board_time >=
              graph.walk[legs[1].board_stop][legs[1].alight_stop]

(* Nothing is left out: an option arrives no later than any journey that   *)
(* leaves two minutes after the bus of the one before it, and fewer than   *)
(* were asked for means that there is no further journey.  Options are     *)
(* told apart by the clock, so this is about service that a day holds,     *)
(* with ten minutes left over: the clock shows minutes, and when the walk  *)
(* to the first bus begins.                                                *)
DepartureTimes ==
  UNION {{tripsOf(r)[t][i].dep_sec : t \in DOMAIN tripsOf(r), i \in DOMAIN stopsOf(r)}
         : r \in DOMAIN graph.routes}

OneDay == \A first, last \in DepartureTimes : last - first <= 86400 - 600

ArrivalAfter(n) ==
  Best(graph, source, IF n = 0 THEN dep_sec ELSE options[n].first_bus_sec + 120)
    [MAX_ROUNDS][target]

NothingIsLeftOut ==
  rpc = "done" /\ Orderly /\ OneDay /\ source \in Stops /\ target \in Stops \ {source} =>
    /\ \A n \in DOMAIN options : options[n].arrival_sec <= ArrivalAfter(n - 1)
    /\ Len(options) < num_options => ArrivalAfter(Len(options)) = INF

(* Who is told to stay on board does not change to another vehicle: the    *)
(* trips of the two legs are not of different blocks.                      *)
BlockOf(leg) == graph.day.block[tripsOf(leg.route_id)[leg.trip_idx][1].trip_id]

OtherVehicle(leg, next) ==
  BlockOf(leg) # NoBlock /\ BlockOf(next) # NoBlock /\ BlockOf(leg) # BlockOf(next)

StayOnBusIsTheSameBus ==
  \A o \in DOMAIN options :
    LET legs == options[o].itinerary IN
    \A n \in DOMAIN legs : options[o].is_stay_on_bus[n] =>
      ~OtherVehicle(legs[Max({x \in BusLegs(legs) : x < n})], legs[n])
=============================================================================
