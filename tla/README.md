# Transit Engine: specification and proofs

TLA+ specifications of the routing engine in this repository, the TLC
configurations that check them on small instances, and theorems about them that
TLAPS checks for every value of the constants. Paths below are relative to the
repository root.

## 1. Inventory: the system's parts

| Part | State | Operations | Talks to |
|---|---|---|---|
| **Route search** `core/src/raptor_router.cpp`, `routing_service.cpp` | per request: labels, parents, marks, the scan's bus, the binary search | `GetEarliestArrival`: `find_earliest_arrival`, `reconstruct_path` | reads the graph under a shared lock |
| **Graph** `core/include/raptor_graph.hpp` | routes, stop times, footpaths (flat arrays), `graph_mutex` | `build_index` once, then reads; `arr_sec`/`dep_sec` change | handlers and consumer |
| **Telemetry consumer** `core/src/telemetry_consumer.cpp` | `running_`, `context_`, `worker_`, a connection | `start`, `stop`, destructor, the thread `run` | Redis; writes the graph under an exclusive lock |
| **Engine process** `core/src/main.cpp` | - | load, index, start the consumer, serve, stop | the above |
| **Binary loader** `core/include/transit_data.hpp` | - | `load_binary_data` | files of the compiler |
| **GTFS compiler** `telemetry/gtfs_compiler.py` | id maps, two files | `main` | the loader, through files |
| **Delay producer** `telemetry/live_stream.py` | a Redis client | compose, publish, pause, reconnect | Redis Pub/Sub |
| **GTFS-RT simulator** `telemetry/gtfs_rt_simulator.py` | the feed, a random generator for each trip | a snapshot of a second; a feed of positions, a feed of trip updates | who asks it |
| **Python engine** `gateway/raptor_engine.py` | index built at start | `plan_route` | route options |
| **Gateway** `gateway/main.py` | `active_connections`, `live_vehicles`, `live_delays` | REST, `/ws/live`, the telemetry worker, `/api/route` | browsers, Python engine, metrics |
| **Static data** `gateway/gtfs_data.py` | tables | services of a day, departures, running vehicles and their positions, shapes | gateway |
| **Metrics** `gateway/metrics.py` | counters, gauges, histogram, one lock | record, set, render | gateway threads |
| **Relays** `gateway/tcp_relay.py`, `win_proxy.py` | two sockets a connection | two `forward` threads | clients, gateway |
| **Web client** `web/app.js`, `sw.js` | selection, results, markers, socket | request a route, follow the feed | gateway |
| **Android client** `client_android/` | view model | request a route | engine over gRPC |
| **CLI, benchmark** `cli/`, `tools/` | - | one request, one answer | gateway |
| **Wire format, build, deployment** | generated or declarative | - | - |

What is hard, and what makes each part correct:

* **Route search.** One label and one parent per stop serve all rounds, so a leg
  may be built on a label that is later lowered, or on a parent that is later
  replaced. Correct means: what is returned can be ridden, starts at the source,
  arrives at the time found, that time is the best within four buses, and the
  search ends. Each of these needs something of the timetable, and the delays
  that arrive at run time do not preserve it: they move one stop of a trip and
  leave the others.
* **Graph and lock.** Searches take thousands of single reads, an update is
  thousands of steps with two writes for every row it changes. Correct means that
  a search sees one timetable and that everybody gets on.
* **Consumer.** `stop()` runs in the main thread while `run()` connects, blocks in
  `redisGetReply`, clears `context_` and frees it. Correct means that every connection is
  closed, that no descriptor is closed twice but what the race with `stop()` makes
  unavoidable, that `stop()` returns, and that the thread subscribes again after an outage.
* **Producer and Redis.** Publishing is at-least-once on a late answer
  (`retry_on_timeout`), at-most-once on everything else, and the consumer adds.
* **Live feed and metrics.** One event loop, a thread pool, awaits within loops over
  a shared list, and one gauge that handlers, worker and the threads of two endpoints
  set. Correct means that a broadcast skips nobody and ends, that nobody
  sees older positions after newer ones, that who is gone leaves the list, and that a
  report adds up whatever is recorded while it is written and shows nothing outdated.
* **Fleet.** The same rows are read by three programs in three ways. Correct means that
  one vehicle is shown for each block that runs, where its trip is by now, that it
  never moves back, and that map, departure boards and simulated feeds agree.
* **Route options.** A loop of searches, each begun where the last option left. Correct
  means that no option repeats, nothing that leaves two minutes or more after the bus of the
  option before is passed over, and the legs fit as shown.
* **Relays.** Two threads a connection share two sockets and each closes both. Correct
  means that nothing is lost while nobody hangs up, answers arrive whole, and an end
  that hangs up is not left half connected.

`PROJECT.json` lists the hazards line by line with the properties that cover them,
also those not covered yet.

## 2. Modules

| Module | What it is |
|---|---|
| `Timetable` | the data: graph, legs, what a delay message does (`ApplyDelay`), what a feed may promise (`RunsForward`, `NoOvertaking`, `WalksClosed`) |
| `EarliestArrival` | the reference: earliest arrivals by at most *n* buses, from the timetable alone |
| `LabelSearch` | abstract: a search that lowers labels by legs that can be caught, in any order |
| `RaptorRouter` | one request of the engine; implements `LabelSearch` |
| `MCRaptorRouter` | timetables for TLC |
| `EarliestArrivalProofs` | lemmas about the reference, counting, recursion and finite sets |
| `RaptorRouterProofs` | theorems about `RaptorRouter`: on any timetable, where time runs forward, and on orderly ones |
| `AtomicTimetable` | abstract: a timetable that is read and changed in one step |
| `GraphLock` | handlers and consumer around `graph_mutex`; implements `AtomicTimetable` |
| `MCGraphLock`, `GraphLockProofs` | its instance for TLC and its theorems |
| `TelemetryConsumer` | `start`, `stop`, destructor and `run`, with the connection |
| `DelayStream` | producer, Redis and `TelemetryConsumer` together |
| `GraphIndex` | `build_index`, loop by loop, and the flat arrays it makes |
| `GtfsCompiler` | `gtfs_compiler.py`, row by row |
| `FeedToGraph` | compiler, loader, `main` and `GraphIndex` together |
| `MCFeedToGraph`, `FeedToGraphProofs` | feeds for TLC; theorems about `GraphIndex` and `FeedToGraph` |
| `Metrics` | recording of a query, in two steps under the lock, and what a report says |
| `LiveFeed` | WebSocket handlers, the broadcasting worker and the threads of `/metrics` |
| `MCLiveFeed`, `LiveFeedProofs` | its instance for TLC and its theorems |
| `EngineIndex` | what the Python engine makes of the rows |
| `RaptorEngine` | `plan_route` of the Python engine; implements `LabelSearch` too |
| `RouteOptions` | `/api/route`: the loop that calls `plan_route` and what is made of its plans |
| `MCRouteOptions`, `RouteOptionsProofs` | days for TLC; theorems about `RaptorEngine` and `RouteOptions` |
| `GtfsData` | the gateway's tables, running vehicles, positions along a trip, departures |
| `ActiveFleet` | the worker that computes the vehicles, and the clock |
| `FleetSimulator` | the simulator's two feeds, on the same day |
| `MCTransitDay` | feeds for TLC |
| `Relay` | `tcp_relay.py` and `win_proxy.py` between clients and gateway |
| `MCRelay`, `RelayProofs` | its instance for TLC and its theorem |
| `DelayStreamProofs` | theorems about `DelayStream` |

`Timetable <- EarliestArrival <- RaptorRouter`; `DelayStream` extends
`TelemetryConsumer`; `FeedToGraph` extends `GtfsCompiler` and `GraphIndex`, and
`GraphIndex` extends `Timetable`, so that its result can be compared with what
`RaptorRouter` assumes (`IndexIsAGraph`). `RaptorRouter` treats the graph as constant during a request;
`GraphLock` is the justification (`SearchSeesOneTimetable`, `IsAtomic`), and
`DelayStream` is about which messages reach the consumer at all. `RouteOptions`
extends `RaptorEngine`, which extends `EngineIndex` and has `Timetable`, the reference
and `LabelSearch` in common with `RaptorRouter`. `LiveFeed` extends `Metrics`;
`FleetSimulator` extends `ActiveFleet`, and that `GtfsData`. What `ActiveFleet`
computes is the payload `LiveFeed` sends.

### RaptorRouter

The variables are the local variables and members of the source. Two encodings
differ: the flat arrays with offsets are a sequence of routes, each with its stops
and trips, and trips and positions count from 1, so `current_trip = INF` and
`best_t = -1` are `NoTrip`, which is 0. Labels and walking sums are `uint32_t`: numbers below `W`,
with `INF = W - 1` and `FOOTPATH_ROUTE_ID = W - 2`, and walking sums wrap.

`pc` names statement groups: `StartSearch`/`RejectRequest`/`AnswerHere` (lines
16-38), `InitialWalks` (40-56), `BeginRound` (59-83, the collecting of boarding
positions in one step), `SkipRoute`/`ScanRoute`/`Alight`/`PassBy` (85-138),
`BeginTripSearch`/`TripSearchStep`/`EndTripSearch` (113-136, one iteration a
step), `CollectAlighted`/`RelaxFootpaths`/`FootpathsDone` (141-167, one stop a
step), `EndRound` (169-182), then the service (`routing_service.cpp` 21-34) and
`reconstruct_path` (`BeginTrace`, `TraceLeg`, `ReplyItinerary`). The footpaths of
one stop are relaxed together: they lead to different stops, and not back to the
stop itself (`IsGraph`, from `i == j` in `build_index`).

`IsGraph` is what the search needs of the index: stops of a pattern in range, a
stop time per position and trip, footpaths to other stops. `build_index` does not
check that ids in the file are in range. They are when the compiler has finished
(`ServesTheFeedAlways`), and where they are, its index is such a graph
(`IndexIsAGraphAlways`): together these close the assumption the theorems about
`RaptorRouter` make of their graphs.

`EarliestArrival`, the reference, is a recursive function over the number of buses.
`Computed` is the identity, and keeps TLC from evaluating a round anew for each stop.

### GraphLock

`times` is `stop_times`, a row a slot, its key the pair of trip and sequence
number. A handler waits, searches (reads single cells, any cells in any order: the
search of `RaptorRouter` is one order) and answers. The consumer receives,
waits, goes through all slots one by one, writes `arr_sec`, then `dep_sec`. What a
search has read is kept in `seen`, what a reply was made from in `answer`; both
exist for the properties. `std::shared_mutex` is external: `MayShare` and
`MayExclude`.

### TelemetryConsumer and DelayStream

The consumer's thread is a program counter over `run` (lines 60-131), the main
thread one over `start`, `server->Wait()`, `stop` and the destructor. Connection,
descriptor and server are external: a connection breaks at any moment, the server
goes and comes. `context_` is a flag: it points at the context of the connection
the thread is on, or is null; `held` is the copy `stop()` loaded at line 36.
`strayCloses` counts how often a descriptor may have been closed that was closed before and
could belong to somebody else by then: by `redisFree` (line 130) after `stop()` has
closed it (line 43), or by `stop()` through a context that was freed after line 36. The ten-line JSON handling is left out: what does not parse
changes nothing, and what does is `Apply`, whose locking is `GraphLock`.

The producer composes, sends, waits for the answer; on a timeout the same command
is sent again (`retry_on_timeout`, once), on an error it is dropped. Commands that
timed out may still arrive: `flying` is a set, and they arrive in any order.

### GraphIndex, GtfsCompiler and FeedToGraph

`GraphIndex` keeps the flat arrays and their offsets as the source has them:
`GroupTrips` (`raptor_graph.hpp` 71-92), `AppendRoute` (one pattern of the
`std::map`, 94-120, its trips in `TripRows`), `ListStop`/`ListsDone` (122-133, one
position of a route a step), `FlattenStop` (135-144), `AddFootpaths` (146-170). `std::sort` may leave equals in any order, and the trips of
a pattern come out of an `unordered_map`: both are a choice among all orders that
are sorted. A place is a point on a line; `haversine_meters` and the walking speed of
1.25 m/s are its distance and 4/5 of it; `WalkAssumption` says that the longest walk fits
a time. `Graph` reads the arrays by their
offsets, as the search does, and gives the record `RaptorRouter` works on.

`GtfsCompiler` writes the files row by row; a row whose numbers do not parse ends
the run. `FeedToGraph` adds the engine. `FeedsAssumption` gives the types of rows: times fit
a `uint32_t`, and there are fewer trips than `FOOTPATH_ROUTE_ID`, or else a route could have
the id by which a leg is known to be a walk. While the compiler has a file open, what a
load returns is any `Parts` of it, since the writer is buffered, or the error of
`load_binary_data` for a length that is not a whole number of records. `steady` is a
history variable: this start came after a complete run and none has begun since.

### LiveFeed

`loop` says who runs on the event loop: worker and handlers are tasks and are
interrupted at an `await` only. `Connect` holds it until `Snapshot` is written,
`Disconnect` until `Leave`, a broadcast from one `send_json` to the next. A send
writes first and then waits for room (`Send`, then `Sent` or `SendFails`); a write to
a broken connection raises or is dropped. `inbox` is what a connected client has
been sent. The threads of `/metrics` and `/api/system/metrics` (`main.py`
156-166) are not on the loop: any number of them may count, set the one gauge and render
it at any moment. Two history variables say what a request may report: `lengths`, how long
the list has been since the request came, and `earlier`, how long it had been until then
during the requests under way when it came.

`Metrics` splits `record_routing_query` after the counters of statuses
(`metrics.py` 46-53, then 55-65), so that a report could be made half-way; that none is
is the lock's doing, since `Render` takes it. Durations are whole numbers, the deque of
latencies keeps `MaxLatencies`, 2000 in the source. `record_request` is called by
nobody, and the percentiles of `get_summary` are left out.

### GtfsData, ActiveFleet and FleetSimulator

A feed is the rows of `trips.txt` and `stop_times.txt` in the order of the file, with the
stops and the calendar. `LoadData` makes the tables of it once; the rest is computed
from them on demand. `Position` is where a trip is at a second: the stop left last and
the part of the way to the next, of at least 20 seconds, with which the code
interpolates along a shape; `Point` is the point of that shape it rounds down to. A
vehicle whose point has no coordinates is not shown, and hides the other trips of its
block all the same, which is the order of lines 237-244 of `gtfs_data.py`.

`ActiveFleet` is the worker: `ReadDate` and `ShowVehicles` are its two looks at the
clock (`main.py` 473-477), and without a time zone database the date is that of UTC
while the second is that of UTC less four hours (`zone`). `shown` is a history variable.
`FleetSimulator` adds the simulator at the same seconds: every feed is built from a
`Snapshot` of its own, with `Drawn`, the delays its generators yield, which are seeded
by the trip. The two position functions are different code; `SimulatedAsScheduled`
compares them.

### Relay

One module for both programs, since `forward` is the same: `program` says which. In
`win_proxy` the accepting thread connects to the gateway itself (`main = "connect"`),
in `tcp_relay` a thread per client does (`handler`); a failing accept ends `tcp_relay`,
and makes `win_proxy` close the client of the turn before. Each `forward` is a thread of
`recv`, `sendall` and two closes. What is forwarded is counted in parts: `waiting` on
the way to the relay, `data` in a thread's hands, `unread` on the way from it. Closing a
socket wakes a thread in `recv` on it on Windows and does not elsewhere (`wakes`); closing
one with unread parts resets the connection, which may lose what the peer has not read.
Ends are external: they write, read, half-close or hang up.

### EngineIndex, RaptorEngine and RouteOptions

`EngineIndex` makes routes, the routes of each stop and the footpaths of the rows of a
day, in the order a dictionary keeps; it numbers stops and orders equals otherwise than
the C++ index does, and is a module of its own for that reason. `Sorted` says where the
n-th of some rows is without sorting: it is the one that n - 1 others precede, by their
key or, where keys are equal, by their place, since `list.sort` is stable.

`labels` holds `earliest_arrival`, `next_marked` and, as one leg a stop, the five
`parent_*` and time arrays. Nothing else sees a call at work, so a route is scanned
in one step (`ScanRoute`, `raptor_engine.py` 125-162) and the footpaths of a stop are
walked in one (`WalkOn`, 165-174); what remains is their order, which comes from a
set: `todo` is taken from in any order. `None` is the empty sequence and
`"WALK"` is `FOOTPATH_ROUTE_ID`; sums do not wrap, `W` is 10^9 + 1 so that `INF` is the
source's. The loops over positions (`Scanned`), over halves of the trips (`Halved`) and back
along the parents (`WalkedBack`) are recursive functions on the number of turns, which the
proofs can take apart turn by turn. `DaysAssumption` gives the types of rows.

`RouteOptions` has `HandleRequest` (`main.py` 393-417, with the limits on
`num_options`), `Search` (one turn of the loop), `Plan` (the steps of the search),
`TakeOption` (`calculate_single_itinerary` and 432-437), `NoOption` (426-430) and
`Answer`. `OptionOf` is the option as it is shown: `MovedUp` shifts the walk at the
start, `StaysOnBus` is the condition at line 299 with what the legs really carry,
`Clock` is the minute that `sec_to_hms` leaves of a time. A behaviour is one request,
since requests share nothing but the timetable.

## 3. Runs

| Run | Instance | What it shows |
|---|---|---|
| `raptor_router` | 24 timetables of two lines that cross; seven awkward timetables and all single delays of them, one where two delays have made the parents of two stops point at each other, 2 departures; six stops in a row | `SearchInvariant`, the strengthening; `FifoCatchesEarliestTrip`: where nobody overtakes, the binary search ends at the earliest trip; `ItineraryIsRideable`; `ForwardItineraryIsComplete`: where time runs forward, it starts at the source, not before the departure, and visits no stop twice; `OrderlyArrivalIsEarliest`: where nobody overtakes, time runs forward and footpaths are closed, the arrival equals the reference, also where the ends are five buses apart: the limit of four rounds, from both sides; `KeepsPromise`: the refinement; `EveryRequestIsAnswered`, also where the walk back comes to a circle |
| `graph_lock` | 2 handlers, 2 slots with the same key, a word of 3 values | stable searches, the refinement (replies see whole updates), progress |
| `delay_stream` | 2 payloads, 1 resend, 1 nap | delivery; `ContextIsLive`; `ConnectionsAreClosed`: no connection is left open, and no descriptor is closed twice but one at most, after `stop()` has begun to close; `stop()` returns; resubscription |
| `feed_to_graph` | 4 feeds of 3 stops and 5 trips, 2 runs of the compiler, 1 start of the engine | `IndexIsFaithful`: no trip is lost, offsets lead to the right rows, the routes of a stop are exact; `IndexIsAGraph`: it is what the search assumes; `ServesTheFeed`: an engine started after a complete compilation serves the feed |
| `live_feed` | 2 clients, 2 turns of the worker, one `/metrics` request at a time, a query | nobody is listed twice or after leaving, a broadcast skips nobody, positions only advance, `/metrics` reports counters that add up, broadcasts end, dead connections leave |
| `live_feed_two_scrapes` | 2 clients, 1 turn of the worker, 2 requests for metrics at once, a query | `NothingOutdatedIsReported`: the number of clients a request reports is one of its own time or of the time of a request it overlapped with |
| `route_options` | eight days of 1 to 4 lines, 4 stops and one that is unknown, 3 departures, 1, 3 or 5 options | `PlanCanBeRidden` in any order of routes and stops; `KeepsPromise`: the refinement; `OptionsAdvance`: no option repeats or precedes another; `NothingIsLeftOut`: each arrives as early as the reference allows, nothing that leaves two minutes after the bus before is passed over, and fewer than asked for are all there are; `ShownLegsFit`: the legs as shown still fit |
| `transit_day` | three feeds, one of them broken, 11 instants over a midnight, three clocks, three choices of delays | `FleetIsOnSchedule`: one vehicle for each block that runs, on a trip that does, between the right stops; `VehiclesOnlyAdvance`; `BoardIsComplete`: boards have the next departures, and a vehicle on its way to a stop is on its board; `SimulatedAsScheduled`: the simulator puts a trip where the gateway does, as much later as it is delayed; `FeedsAgree` |
| `relay` | both programs, a client with a request of 1 part and an answer of 2, and one that only connects | `RelayIsTransparent`: nothing lost while nobody hangs up; `AnswersArrive`; `HangUpsArePassedOn` |
| `raptor_late_shuttle`, `feed_footpaths`, `route_stay_on_bus` | one timetable, feed or day each | the documentation claims more than the code does; see section 6 |

**Bounds.** Four stops are enough for a ride, a transfer, a walk and a target that
is none of them; a detour that overwrites a transfer stop needs exactly four.
Six stops exceed the four rounds. One line of those that cross has three trips, so that the
binary search takes both its branches and meets trips that overtake, are overtaken or leave
together; more trips are what `EarliestTripIsFound` covers. `W = 64` leaves room for every time in the
timetables and makes wrapping happen where `EndOfTime` and a delay of `W - 2`
bring it about. Two handlers are enough for the lock: it does not tell shared
holders apart, and the theorems cover any number. Two slots make a partly applied
update visible. Two payloads make order and loss visible, one resend is what
redis-py does. `MaxBackoff` stands for the 20 naps: one nap is enough for the
test of `running_` between two. The feeds have a pattern shared by three trips of which
two leave together, routes of different lengths, a loop, unknown ids, a row that does
not parse in either file, and stops out of order; two runs of the compiler are enough
for one to be under way after another was complete, and one start of the engine for
all orders of loading and compiling. Two clients are enough for one to come or leave
while the other is being written to, two turns for a broadcast that follows another.
One query is enough for a report in the middle of recording it; several, and a deque
of latencies that overflows, are what the theorem `MetricsReportsAddUp` covers. One of
the clients may stop reading (`Stalling`), the other is the one it must not hold up.
`live_feed` has one request for metrics at a time, enough for one that renders while a query
is recorded. FastAPI runs the two endpoints in a thread pool, so that requests overlap:
`live_feed_two_scrapes` has two of them, enough for one to set what it counted before the
other came; the theorem `ReportsAreUpToDate` covers any number.

`NothingIsLeftOut` speaks of what leaves two minutes or more after the bus of an option. The
next search begins a minute after that bus leaves or two minutes after the last search
began, whichever is later (`main.py:437`); a bus that leaves less than two minutes after the
last one may be shown or not.

The days of `route_options` have a bus every minute or so with a walk to it, lines
that meet within five minutes, a line that comes by a stop twice and can be overtaken
on foot, a pause longer than the fourteen hours, service past midnight, two buses a
day apart with the same minutes, a trip that overtakes another, and one with a blank time,
which gets to a stop before it has left. Times are seconds, so that the constants of
the source (60, 120, 300, 900, 14 hours) are what they are there. `NothingIsLeftOut` is
about timetables in which nobody overtakes, footpaths are closed, and which a day
holds (`OneDay`): an option that leaves a day after another, to the minute, counts as shown.
Ten minutes must be left over. An option leaves up to 400 seconds before its first bus, the
longest walk there is, and the clock cuts minutes, so that two options whose buses are a
little less than a day apart may show the same. The last bus of `LongDay` is as late as
`OneDay` allows, almost. Where one can walk all the way, each search begins no more than 760
seconds after the one before it, and five options leave within the day there too.

The feeds of `transit_day` have a block whose second trip begins the second the first
ends, a pause at a stop, legs shorter than 20 seconds and of none, a trip past midnight, a
service that is not in the calendar, blank times, unknown stops, stops without coordinates,
trips with one call and with none, and two trips of a block at once. The instants are the
seconds at which one of these begins, ends or is half over; a line between two stops has
four points, enough for rounding down, and a board two rows, so that the limit cuts.
In `relay`, a request of one part and an answer of two let an end close with the answer in
all three places at once, and let a part be sent in halves if `sendall` did so; one client
may hang up, with its gateway's end or before it (`Leaving`), the other is who may be hurt by it, and one failing
accept reaches both kinds of client.

**Fairness.** `RaptorRouter`: a request under way is carried on (`WF` of its
steps); no request need come. `GraphLock`: handlers that wait for the shared lock
get it when it is free again and again (`SF`), since a `pthread_rwlock_t` prefers
readers and the writer leaves it after every message; a search returns and an
update ends (`WF`); the consumer gets the lock if it is free again and again
(`SF`). Because of that preference nothing keeps handlers from never leaving the
lock free, so `DelayIsApplied` is conditional on it being free infinitely often.
`DelayStream`: both threads go on when they can, and a connection whose server is
gone is reported to the reader. The server need not come back, the producer need
not publish, nobody need stop the consumer; `Resubscribes` says what follows if
the server stays.

`LiveFeed`: `asyncio` runs every task that is ready in its turn; since a task needs
the loop to be free, which it is again and again, that is `SF` of the worker's
broadcast and of each handler. A client that stops reading and never reads again is
given up by the ping timeout of the server (`WF` of `GiveUp`); without it a broadcast
would wait for that client for ever.

`Metrics`: who records a query holds the lock for a few statements and gives it back (`WF`
of `CountLatency`). `Relay`: some step of the relay is taken while there is one (`WF` of
`RelayStep` as a whole), and likewise of the ends that write and read. Single threads need
no fairness of their own: each has a bounded number of steps to make. Nobody need dial,
hang up or half-close, and accept need not fail. `ActiveFleet` and the simulator have
safety properties only.

`CHECK_DEADLOCK FALSE`: in `DelayStream.cfg` the system has ended after the destructor
and the last payload; in the `RouteOptions` runs the request is answered; in the `FeedToGraph` and `LiveFeed` runs
compiler, engine and worker stop at the bound on their turns; in `TransitDay.cfg` the last
instant has come and both feeds are built; in `Relay.cfg` all connections are closed, or
wait for ends that do nothing more.

## 4. Proofs

`RaptorRouterProofs` proves, for every number of stops, word size, set of graphs
and departures (from the assumptions of `Timetable` and `RaptorRouter`):

* `TypeCorrect`: `Spec => []TypeOK`. Every index of the scan and of the walk back is
  in range.
* `SearchIsJustified`: `Spec => []SearchInvariant`.
* `RepliesCanBeRidden`: `Spec => []ItineraryIsRideable`.
* `RouterImplementsLabelSearch`: `Spec => KeepsPromise`.

`ItineraryIsRideable` is about a reply, made when the search is over; it is not
inductive. `SearchInvariant` is the strengthening. Its heart is
`LabelsAreJustified`: a recorded leg leaves no earlier than the *present* label of
the stop it leaves from. It survives later rounds because labels only fall, it
holds for a bus leg because the bus was caught from a label (`RideIsCaught`, with
`SearchIsSound` for the binary search and `LabelsOnlyFall`, since the scan tests
the labels of the round before), and the walk back prepends one justified leg
after another (`PathIsRideable`). None of it needs an order on the trips or time
that runs forward, which is why the theorem holds whatever the delays were. It
does not say that the itinerary starts at the source: that needs time that runs
forward, and `raptor_late_shuttle` shows why.

Where time does, it is a theorem: `RepliesAreComplete`
(`ForwardItineraryIsComplete`). The question is whether parents can form a ring, in which
the walk back would go round until it gives up. A set of stops is `Circular` if the legs of all
its stops come from the set; `LegsLeadToTheSource` says that only the empty set is. Along a
leg labels do not fall, and a step that writes a leg lowers the label of its stop strictly. Take the
stops with the least label of a set that a step has made circular (`NoCircleCloses`): their legs lead back
to such stops, none of them can just have been lowered, so they were circular before. That
labels do not fall is not enough by itself, since a walk may take no time at all. `Trail` is the
walk back: who has been visited comes from who was visited or from where it goes on, and
each stop is there once, so that it stops short of neither the source nor the limit.
`WalkersArrived` keeps walks from wrapping past the end of time.

A third theorem is `SearchFindsTheEarliest` (`OrderlyArrivalIsEarliest`): where in
addition nobody overtakes and footpaths are closed, the arrival is the reference's for
`MAX_ROUNDS` buses, for any number of stops, routes, trips and footpaths. The invariant
`OrderlySearch` has the two directions. `RoundIsSound`: a label of this round is one of the
round before, or is explained by a ride from one and at most a walk. For completeness,
`ScansCount` says that rides of routes already scanned, and those of this one up to the position
at hand, are no earlier than the labels; `ScanIsOnTime` that the trip the scan is on can be
caught, and no earlier one could have been at a position passed, which needs that nobody
overtakes, and `SearchBracket`; `WalksGoOn` is `ScansCount` for footpaths. A stop that is not marked has the label it had, and what can be
reached from it was (`OthersCount`): this is why only marked stops need be looked at. Footpaths
are relaxed from stops reached by bus only; that is enough because walks are closed
(`WalkedOut`). Both together make a round that is over `OneMoreBus`, by which `Best[n]`
becomes `Best[n + 1]` (`RoundIsOver`, `SearchIsOver`).

`GraphLockProofs` proves for any number of handlers, slots, keys and delays:
`TypeCorrect`, `MutualExclusion` (`LockIsHeld`), `SearchesAreStable`
(`SearchSeesOneTimetable`) and `LockImplementsAtomicTimetable` (`IsAtomic`). The
refinement mapping is `Completed`: the timetable as it will be when the update in
progress is through. The abstract update happens at `LockExclusive`, all steps of
the loop stutter, and no handler can read in between.

`RaptorRouterProofs` also proves `EarliestTripIsFound` (`FifoCatchesEarliestTrip`), from
`SearchBracket`: where nobody overtakes, every trip below `low` leaves before the label, and
`high` is one below the best trip found so far or, until there is one, below the trip the
scan is on, or is the last trip. This is what a binary search keeps; the theorem says it
for any number of trips and the bounds the code starts from.

`DelayStreamProofs` proves for any number of payloads, resends and naps:

* `ContextPointsToAConnection` (`ContextIsLive`) and `StopClosesConnections`
  (`ConnectionsAreClosed`), from `ConnectionIsKept`: the thread has a connection from
  connecting to `redisFree`, `context_` points to it for less than that, and only `stop()`
  shuts it down. It says of each statement of `stop()` how often a descriptor may have been
  closed twice: not before line 43; then either `stop()` came through a freed context, and no
  connection is shut that the worker would close again, or it shut the worker's
  connection, and `redisFree` is the one that closes it a second time. After that the thread
  does not connect again, so that nothing adds to it.
* `SubscriptionSkipsNothing` (`NothingSkipped`), from `StreamIsInOrder`: while subscribed,
  what Redis passed on is the end of `applied`, the message at hand and the inbox, position
  by position. The invariant says it with indices, since a concatenation is no
  hypothesis to compute with; the last step of the theorem puts the sequences together.
* `AppliedAsOftenAsSent` (`AppliedNoMoreThanSent`), from `NoCopyCountsTwice`: the copies of a
  payload that are applied, at hand, in the inbox and on their way are no more than were
  issued. A resend may be issued while the first copy is in any of these places, so none
  of the four may be left out of the sum.

`LiveFeedProofs` proves for any number of clients, turns, queries, buckets and any window:
`ListIsKept` (`ListedAreHandled`), `ClientsSeePositionsAdvance` (`PositionsOnlyAdvance`),
`EverybodyIsReached` (`BroadcastSkipsNobody`) and `MetricsReportsAddUp` (`ReportsAddUp`). The
invariant is `MetricsInvariant` and `FeedInvariant` together. The first says what the
counters are while a query is half recorded, when they do not add up, and that this is only
while the lock is held. The second says how far a broadcast is in its copy of the list: who
comes before `at` and is still listed has been sent the payload, who comes after has
been sent nothing as new, and who has not been welcomed is in no copy. `LoopAssumption` says that neither the worker nor
the free loop is a client.

`ReportsAreUpToDate` (`NothingOutdatedIsReported`) is about any number of requests for metrics
at once. `ScrapeIsHonest` says that what a request has counted is one of the lengths of the
list since it came, and that the gauge, while a request has still to render it, is `Recent`
for that request: a length of its own time or of the time of a request it met on its way.
Connecting and leaving keep this because they set the gauge to the present length; another
request keeps it because what it sets it has counted itself, after this one came, or before,
in which case it is among the requests this one met.

`FeedToGraphProofs` proves, for any feeds that `FeedsAssumption` allows, any number of runs
of the compiler and starts of the engine, and whatever part of a file the engine found:

* `IndexIsFaithfulAlways` (`IndexIsFaithful`) and `IndexIsAGraphAlways` (`IndexIsAGraph`);
* `ServesTheFeedAlways` (`ServesTheFeed`), for feeds that list no stop twice. `stop_id` is the
  key of `stops.txt`; the compiler would number such a stop once and write it twice.

`IndexInvariant` says of each stage of `build_index` what is done so far. `LayoutInvariant`: the
rows in `stop_times` are those of the patterns that do not remain, a route for each, at its
offsets. `ListsInvariant`: each stop's list is the routes that pass it up to
the route and position at hand, ascending and each once, which a test against the
last entry alone is enough for because routes are taken in order. `OffsetsInvariant`: the flat
arrays are these lists one after another for the stops so far. `WalksInvariant`: footpaths lead to
just the neighbours within reach. Sorting is a choice of any sequence that is in order, so that the
proofs take nothing else of `std::sort`. `FilesSayTheFeed` says that the rows written so far
are the rows of the feed that resolve; ids are counted up as stops are met, hence
one stop has one id (`IdIn`) and rows can be read back. `LoadedIsOnDisk`
says that under `steady` what was loaded is all of it.

`RelayProofs` proves `RelayLosesNothing` (`RelayIsTransparent`) for any number of clients and
any lengths, from `RelayInvariant`. The argument has two halves. While the gateway's end is
there, neither thread of an undisturbed connection can come to its closes: nobody is at
an end, no send fails, no accept has failed. When the gateway has gone with an answer
written, it had read the whole request before, so nothing waits on the way up and
closing the client's socket resets nothing; and the client's socket is
closed only after the thread of the way down has seen its end, that is, after all parts.

`RouteOptionsProofs` proves, for any days that `DaysAssumption` allows, any number of stops and
any requests, every property of the run `route_options`:

* `PlansCanBeRidden` (`PlanCanBeRidden`) and `EngineImplementsLabelSearch` (`KeepsPromise`):
  the second search of the repository keeps the promise of the first.
* `OptionsCanBeTaken` (`ShownLegsFit`), `OptionsGoForward` (`OptionsAdvance`) and
  `AnswersAreComplete` (`NothingIsLeftOut`).

It begins with the index. `OneOfEachRank` says that counting who comes before is a sort: there
is one of each rank. From it `IndexIs` has what the searches need, and that a ride of the
index is two rows of one trip in their order (`RidesRun`), a footpath a walk within reach
(`WalksReach`). `LoweredIs` says what a set of legs does to the labels, whatever leg `CHOOSE`
takes; `HalvedIsSound`, `ScannedIs` and `PathIs` take the three loops apart with `CountingUp`, the
least counterexample. `EngineInv` is the invariant of the search: each leg was on offer from
labels no later than the present ones (`LabelsAreSound`), and where time runs forward the legs
lead back to the source, and nobody walks on who walked there from it (`ForwardSearch`). The second half of that
is what a plan needs to begin with at most one walk, so that the first bus is the first
leg or the second, which `MovedUp` relies on without a test.

`EngineFinds` is the invariant of an orderly search, as `OrderlySearch` is of the C++ engine's:
labels after k rounds are `Best[k]`, because rides and walks that can be caught count, and
nothing is lower without one. `RouteInv` is that of the loop: each option leaves 60 seconds
or more after the bus of the one before it, and so will whatever is found next.
`OptionsGetLater` adds arrivals, since what leaves later arrives no earlier (`JourneysGetLater`).

`NothingLeftOutYet` is the invariant for `AnswersAreComplete`. Either there is no journey after
the last bus shown (`NoneLeft`), or nothing has been passed over (`NoGap`): the next search
begins at most two minutes after the last bus, every turn has made an option, and
therefore the loop has turns left until there are enough. A plan that is not shown would be a gap; it
is not shown if its minutes are those of another option. `ToldApart` is why they never are: options
leave a minute apart or more (`RouteInv`) and within a day (`LeavesInTheDay`), because each has
a bus soon after it leaves (`BusIsNear`) or, where one can walk all the way, because a plan is no
slower than the walk (`WalkIsThere`). When a search finds nothing, no later one does
(`NoneIsLeft`): neither going on by a quarter of an hour a turn nor giving up after fourteen
hours loses anything. A journey is one of at most four buses throughout, as the engine's is.

Model-checked only:

* Liveness (`EveryRequestIsAnswered`, `EveryCallIsAnswered`, `DelayIsApplied`, `StopReturns`,
  `Resubscribes`, `BroadcastEnds`, `DeadConnectionsLeave`, `AnswersArrive`,
  `HangUpsArePassedOn`), which the prover does not reach.
* `transit_day` (`FleetIsOnSchedule`, `VehiclesOnlyAdvance`, `BoardIsComplete`,
  `SimulatedAsScheduled`, `FeedsAgree`), whose tables and positions are made by folds and
  `SortSeq` over a whole feed in one step. What a fold computes for every input is induction
  over data, and out of reach.

Induction over numbers is within reach by other means: the least counterexample in a
set of numbers (`NatMin`), and for the rounds of the reference a function given outright on
its finite range.

## 5. What is not modelled

* Floating point: distances on a sphere, shapes and which of them a trip follows, the
  nearest stop, bearing, speed, the percentiles of `get_summary`. Modules that need a
  distance have one on a line.
* Rendering, wording, logging; the REST views of stops and routes, which read data that was
  loaded once; `find_live_vehicle_for_trip`, which looks one vehicle up.
* The web and Android clients. What is hard in them is one thing: an answer may come after
  that of a later request and be shown for it (`web/app.js:672`), which needs no model to see.
* The command line client and the benchmark: one request, one answer, no state.
* Generated stubs; the Windows branches of the consumer, which do the same calls;
  hiredis' own failures other than a connection that cannot be made or breaks.
* Build and deployment; that a container runtime restarts the engine.

* The night on which daylight-saving time ends: the second of the day that
  `get_thunder_bay_time` gives goes back by an hour, and so does every vehicle. `ActiveFleet` has
  days of 24 hours; what its properties say is not about that night.

## 6. Where the documentation and the code disagree

* `raptor_late_shuttle`: README.md:80 promises the exact itinerary; after delays the
  walk back may end before the source and the reply still be a success.
* `feed_footpaths`: README.md:99 calls a stop's id its index; footpaths are made by
  position in the file, everything else by id, and the compiler numbers stops in
  another order than it writes them. The feed in the repository is not in that order
  either.
* `route_stay_on_bus`: README.md:54 promises that buses of one block are recognised;
  the legs carry no `trip_id`, so no block is ever looked up, and any change within
  five minutes is announced as staying on board.

Met while modelling, and stated here without a run:

* README.md:53 promises the fewest transfers for the arrival time; a later label of the same
  search replaces the leg whatever the number of buses.
* README.md:75 promises footpaths from every stop that was updated; the code takes those a
  bus has reached in this round, and not those a walk has, so that nobody walks twice in a
  row. (The test of the parent at `raptor_router.cpp:143` is always true: walks of earlier
  rounds do not mark, and those of this one come later.)
* metrics.py:138 calls the gauge of WebSockets the current number of clients. Two requests for
  metrics may overlap: one counts none, a client joins, the other counts and sets one, the
  first sets none, and the other reports none although the list had one client from before
  it came. What does hold is `NothingOutdatedIsReported`.
* `stop()` shuts the connection's descriptor and closes it (`telemetry_consumer.cpp:43`);
  `redisFree` closes the same number again (line 130). It loads `context_` at line 36 and uses it
  at 43; the thread may clear and free it in between. Nothing in the repository
  promises otherwise; `ConnectionsAreClosed` says how far it goes.
* When accept fails, `win_proxy.py` closes the client of the turn before (line 44), whose
  connection may be in use. `RelayIsTransparent` is about relays whose accept has not failed.
* README.md:326 promises a departure board with live delays; `live_delays` is read
  (`gateway/main.py:202`) and never written, and boards list trips whatever the service
  of the day.
* `gtfs_rt_simulator.py` means to list all trips that are active; a vehicle that pauses at a
  stop is on no leg meanwhile and missing (`SimulatedAsScheduled` says exactly when).
* A trip past midnight ends on the map at midnight: spans go on beyond 24 hours, the clock
  does not. A time that does not parse is midnight (`gtfs_data.py:283`); a trip with such a time
  gets to a stop before it has left, and a plan made with it may not begin at the source, as on
  the day `BlankTime`. This is why `PlanCanBeRidden` asks for the source only where time
  runs forward.
* Vehicle ids keep the last three characters of a block (`gtfs_data.py:252`), so that two
  vehicles of different blocks may have one id.
* `transit_cli.py:220` checks `arrival_time` and `departure_time` of rows that have `arr_sec`
  and `dep_sec`, and so always finds them in order.

README.md:72 promises the earliest trip; the binary search finds it where no trip
overtakes another (`FifoCatchesEarliestTrip`), and `build_index` orders trips by their
first departure only. README.md:561 promises delays that do not block readers; the consumer holds the lock
exclusively while it goes through all stop times (`GraphLock`), and what can be said is
`EveryCallIsAnswered`.

## 7. Plan

What is left: `VehiclesOnlyAdvance` and `FeedsAgree`, which relate two moments of a day, and then
the other properties of `transit_day`, once the tables are described by what they hold instead
of how they are sorted, as `EngineIndex` describes its routes.
