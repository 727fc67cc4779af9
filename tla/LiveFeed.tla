------------------------------ MODULE LiveFeed ------------------------------
(***************************************************************************)
(* The live positions of gateway/main.py: a worker computes them and sends *)
(* them to every WebSocket of ConnectionManager, one handler per WebSocket *)
(* joins and leaves the list, and the threads that serve /metrics count    *)
(* it and report the count with what Metrics collects.  Worker and         *)
(* handlers are tasks of one event loop: one of them runs until it awaits  *)
(* (loop says which).  The threads run at any moment.                      *)
(*                                                                         *)
(* Positions are numbered in the order they are computed.  A send writes   *)
(* the message at once and then waits until the socket has room again.     *)
(***************************************************************************)
EXTENDS Metrics, SequencesExt

CONSTANTS
  Clients,
  Stalling,    \* the clients that may stop reading
  Scrapes, MaxTurns

Free == "free"
Worker == "worker"

ASSUME TurnsAssumption == Stalling \subseteq Clients /\ MaxTurns \in Nat
ASSUME LoopAssumption == Free \notin Clients /\ Worker \notin Clients

VARIABLES
  loop,                 \* free, worker, or the client whose handler runs
  live_vehicles,
  active_connections,   \* a sequence of clients
  active_websockets,    \* the gauge of metrics.py
  worker, payload, copy, at,   \* the worker; its broadcast and how far it is
  handler,              \* each client's websocket_endpoint
  socket, inbox,        \* each client's connection, and what was written to it
  scrape, count,        \* each /metrics request
  lengths,              \* ... how long the list was meanwhile
  earlier               \* ... and during those under way when it came, until then

workerVars == <<live_vehicles, worker, payload, copy, at>>
listVars == <<active_connections, lengths>>
clientVars == <<handler, socket, inbox>>
scrapeVars == <<scrape, count, earlier>>
feedVars == <<loop, workerVars, listVars, active_websockets, clientVars, scrapeVars>>
vars == <<feedVars, metricsVars>>

Init ==
  /\ MetricsInit
  /\ loop = Free
  /\ live_vehicles = 0 /\ active_connections = <<>> /\ active_websockets = 0
  /\ worker = "sleep" /\ payload = 0 /\ copy = <<>> /\ at = 1
  /\ handler = [c \in Clients |-> "none"]
  /\ socket = [c \in Clients |-> "none"]
  /\ inbox = [c \in Clients |-> <<>>]
  /\ scrape = [s \in Scrapes |-> "idle"]
  /\ count = [s \in Scrapes |-> 0]
  /\ lengths = [s \in Scrapes |-> {}]
  /\ earlier = [s \in Scrapes |-> {}]

SetConnections(list) ==
  /\ active_connections' = list
  /\ lengths' = [s \in Scrapes |->
       IF scrape[s] = "idle" THEN lengths[s] ELSE lengths[s] \cup {Len(list)}]

SetGauge(n) == ~metrics_lock /\ active_websockets' = n
Recounted == SetGauge(Len(active_connections))

Write(c, positions) ==
  inbox' = IF socket[c] = "broken" THEN inbox ELSE [inbox EXCEPT ![c] = Append(@, positions)]

PlaceOf(c) == CHOOSE n \in DOMAIN active_connections : active_connections[n] = c
WithoutNobody(c) == active_connections     \* a mutant of the next one: no remove()
Without(c) ==
  IF c \in Range(active_connections) THEN RemoveAt(active_connections, PlaceOf(c))
  ELSE active_connections

-----------------------------------------------------------------------------
(* websocket_endpoint.                                                     *)
Open(c) ==
  /\ handler[c] = "none"
  /\ handler' = [handler EXCEPT ![c] = "accept"]
  /\ socket' = [socket EXCEPT ![c] = "open"]
  /\ UNCHANGED <<loop, workerVars, listVars, active_websockets, inbox, scrapeVars>>

(* connect: accepted, in the list ...                                      *)
Connect(c) ==
  /\ handler[c] = "accept" /\ loop = Free
  /\ SetConnections(Append(active_connections, c))
  /\ loop' = c
  /\ handler' = [handler EXCEPT ![c] = "counted"]
  /\ UNCHANGED <<workerVars, active_websockets, socket, inbox, scrapeVars>>

AcceptFails(c) ==
  /\ handler[c] = "accept" /\ loop = Free /\ socket[c] = "broken"
  /\ handler' = [handler EXCEPT ![c] = "end"]
  /\ UNCHANGED <<loop, workerVars, listVars, active_websockets, socket, inbox, scrapeVars>>

(* ... counted, and the snapshot written before anybody else runs.         *)
Snapshot(c) ==
  /\ handler[c] = "counted"
  /\ Recounted
  /\ Write(c, live_vehicles)
  /\ handler' = [handler EXCEPT ![c] = "drain"]
  /\ loop' = Free
  /\ UNCHANGED <<workerVars, listVars, socket, scrapeVars>>

Listen(c) ==
  /\ handler[c] = "drain" /\ loop = Free /\ socket[c] # "stalled"
  /\ handler' = [handler EXCEPT ![c] = "listen"]
  /\ UNCHANGED <<loop, workerVars, listVars, active_websockets, socket, inbox, scrapeVars>>

(* The connection is gone: send or receive raises.                         *)
DisconnectWhenListening(c) ==  \* a mutant of the next one: the snapshot's send outside try
  /\ handler[c] \in {"drain", "listen"} /\ loop = Free /\ socket[c] = "broken"
  /\ IF handler[c] = "listen"
       THEN /\ SetConnections(Without(c))
            /\ loop' = c
            /\ handler' = [handler EXCEPT ![c] = "leave"]
       ELSE /\ handler' = [handler EXCEPT ![c] = "end"]
            /\ UNCHANGED <<loop, listVars>>
  /\ UNCHANGED <<workerVars, active_websockets, socket, inbox, scrapeVars>>
Disconnect(c) ==
  /\ handler[c] \in {"drain", "listen"} /\ loop = Free /\ socket[c] = "broken"
  /\ SetConnections(Without(c))
  /\ loop' = c
  /\ handler' = [handler EXCEPT ![c] = "leave"]
  /\ UNCHANGED <<workerVars, active_websockets, socket, inbox, scrapeVars>>

Leave(c) ==
  /\ handler[c] = "leave"
  /\ Recounted
  /\ handler' = [handler EXCEPT ![c] = "end"]
  /\ loop' = Free
  /\ UNCHANGED <<workerVars, listVars, socket, inbox, scrapeVars>>

Handle(c) ==
  Connect(c) \/ AcceptFails(c) \/ Snapshot(c) \/ Listen(c) \/ Disconnect(c) \/ Leave(c)

-----------------------------------------------------------------------------
(* telemetry_background_worker.                                            *)
Turn ==
  /\ worker = "sleep" /\ loop = Free
  /\ live_vehicles < MaxTurns
  /\ live_vehicles' = live_vehicles + 1
  /\ IF active_connections = <<>>
       THEN UNCHANGED <<loop, worker, payload, copy, at>>
       ELSE /\ payload' = live_vehicles'
            /\ copy' = active_connections /\ at' = 1
            /\ worker' = "send"
            /\ loop' = Worker
  /\ UNCHANGED <<listVars, active_websockets, clientVars, scrapeVars>>

TargetsAsTheyAre == active_connections     \* a mutant of the next one: no list()
Targets == copy

Send ==
  /\ worker = "send" /\ at <= Len(Targets)
  /\ Write(Targets[at], payload)
  /\ worker' = "drain"
  /\ loop' = Free
  /\ UNCHANGED <<live_vehicles, payload, copy, at, listVars, active_websockets, handler,
                 socket, scrapeVars>>

SentToAll ==
  /\ worker = "send" /\ at > Len(Targets)
  /\ worker' = "sleep"
  /\ loop' = Free
  /\ UNCHANGED <<live_vehicles, payload, copy, at, listVars, active_websockets, clientVars,
                 scrapeVars>>

(* A write to a broken connection raises, or is dropped without a word.    *)
Sent ==
  /\ worker = "drain" /\ loop = Free
  /\ at <= Len(Targets) => socket[Targets[at]] # "stalled"
  /\ at' = at + 1
  /\ worker' = "send"
  /\ loop' = Worker
  /\ UNCHANGED <<live_vehicles, payload, copy, listVars, active_websockets, clientVars,
                 scrapeVars>>

SendFailsForAll ==            \* a mutant of the next one: try around the loop
  /\ worker = "drain" /\ loop = Free
  /\ at <= Len(Targets) /\ socket[Targets[at]] = "broken"
  /\ worker' = "sleep"
  /\ UNCHANGED <<loop, live_vehicles, payload, copy, at, listVars, active_websockets,
                 clientVars, scrapeVars>>
SendFails ==
  /\ worker = "drain" /\ loop = Free
  /\ at <= Len(Targets) /\ socket[Targets[at]] = "broken"
  /\ SetConnections(Without(Targets[at]))
  /\ worker' = "recount"
  /\ loop' = Worker
  /\ UNCHANGED <<live_vehicles, payload, copy, at, active_websockets, clientVars, scrapeVars>>

RecountAndTryAgain ==         \* a mutant of the next one: the same client again
  /\ worker = "recount"
  /\ Recounted
  /\ worker' = "send"
  /\ UNCHANGED <<loop, live_vehicles, payload, copy, at, listVars, clientVars, scrapeVars>>
Recount ==
  /\ worker = "recount"
  /\ Recounted
  /\ at' = at + 1
  /\ worker' = "send"
  /\ UNCHANGED <<loop, live_vehicles, payload, copy, listVars, clientVars, scrapeVars>>

Broadcast == Send \/ SentToAll \/ Sent \/ SendFails \/ Recount

-----------------------------------------------------------------------------
(* /metrics and /api/system/metrics, in a thread of the pool each: count,  *)
(* set, render.                                                            *)
Count(s) ==
  /\ scrape[s] = "idle"
  /\ count' = [count EXCEPT ![s] = Len(active_connections)]
  /\ lengths' = [lengths EXCEPT ![s] = {Len(active_connections)}]
  /\ earlier' = [earlier EXCEPT ![s] = UNION Range(lengths)]
  /\ scrape' = [scrape EXCEPT ![s] = "set"]
  /\ UNCHANGED <<loop, workerVars, active_connections, active_websockets, clientVars>>

SetNothing(s) ==           \* a mutant of the next one: trust the last connect
  /\ scrape[s] = "set"
  /\ scrape' = [scrape EXCEPT ![s] = "render"]
  /\ UNCHANGED <<loop, workerVars, listVars, active_websockets, clientVars, count, earlier>>
Set(s) ==
  /\ scrape[s] = "set"
  /\ SetGauge(count[s])
  /\ count' = [count EXCEPT ![s] = 0]
  /\ scrape' = [scrape EXCEPT ![s] = "render"]
  /\ UNCHANGED <<loop, workerVars, listVars, clientVars, earlier>>

RenderAtOnce(s) ==         \* a mutant of the next one: without the lock
  /\ scrape[s] = "render"
  /\ scrape' = [scrape EXCEPT ![s] = "idle"]
  /\ lengths' = [lengths EXCEPT ![s] = {}]
  /\ earlier' = [earlier EXCEPT ![s] = {}]
  /\ UNCHANGED <<loop, workerVars, active_connections, active_websockets, clientVars, count>>
Render(s) ==               \* the text says active_websockets, and what AddsUp is about
  /\ scrape[s] = "render" /\ ~metrics_lock
  /\ scrape' = [scrape EXCEPT ![s] = "idle"]
  /\ lengths' = [lengths EXCEPT ![s] = {}]
  /\ earlier' = [earlier EXCEPT ![s] = {}]
  /\ UNCHANGED <<loop, workerVars, active_connections, active_websockets, clientVars, count>>

Scrape(s) == Count(s) \/ Set(s) \/ Render(s)

-----------------------------------------------------------------------------
(* Connections (external): a client stops reading, reads again, goes away; *)
(* one that does not read is given up by the server's ping timeout.        *)
Stall(c) == c \in Stalling /\ socket[c] = "open" /\ socket' = [socket EXCEPT ![c] = "stalled"]
Resume(c) == socket[c] = "stalled" /\ socket' = [socket EXCEPT ![c] = "open"]
GoAway(c) == socket[c] = "open" /\ socket' = [socket EXCEPT ![c] = "broken"]
GiveUp(c) == socket[c] = "stalled" /\ socket' = [socket EXCEPT ![c] = "broken"]

Network(c) ==
  /\ \/ (Stall(c) \/ Resume(c)) /\ UNCHANGED inbox
     \/ (GoAway(c) \/ GiveUp(c)) /\ inbox' = [inbox EXCEPT ![c] = <<>>]
  /\ UNCHANGED <<loop, workerVars, listVars, active_websockets, handler, scrapeVars>>

-----------------------------------------------------------------------------
Feed ==
  \/ \E c \in Clients : Open(c) \/ Handle(c) \/ Network(c)
  \/ Turn \/ Broadcast
  \/ \E s \in Scrapes : Scrape(s)

Next ==
  \/ Feed /\ UNCHANGED metricsVars
  \/ RecordQuery /\ UNCHANGED feedVars

Spec == Init /\ [][Next]_vars

(* Every task gets its turn, again and again even where it has to find the *)
(* loop free, and a lock that is held is released; a client that goes on   *)
(* not reading is given up in the end.                                     *)
FairSpec ==
  /\ Spec
  /\ SF_feedVars(Broadcast)
  /\ \A c \in Clients : SF_feedVars(Handle(c))
  /\ WF_metricsVars(CountLatency)
  /\ \A c \in Clients : WF_feedVars(GiveUp(c) /\ Network(c))

-----------------------------------------------------------------------------
(* The list holds each connection once, and none whose handler has ended.  *)
ListedAreHandled ==
  /\ \A m, n \in DOMAIN active_connections :
       m # n => active_connections[m] # active_connections[n]
  /\ \A c \in Range(active_connections) : handler[c] \in {"counted", "drain", "listen"}

(* A client is never shown the same positions twice, nor older ones after  *)
(* newer ones: the snapshot it begins with and the broadcasts that follow  *)
(* fit, although the broadcast under way when it comes goes on around it.  *)
PositionsOnlyAdvance ==
  \A c \in Clients : \A m, n \in DOMAIN inbox[c] : m < n => inbox[c][m] < inbox[c][n]

(* When a broadcast is over, whoever was there when it began and is still  *)
(* there has been written to; that others leave meanwhile skips nobody.    *)
BroadcastSkipsNobody ==
  worker = "sleep" =>
    \A c \in Range(copy) \cap Range(active_connections) :
      socket[c] # "broken" => payload \in Range(inbox[c])

(* What a request reports was the number of clients at some moment of it,  *)
(* or of another that was under way at the same time: requests share one   *)
(* gauge with the event loop, and each may set it late, but no number is   *)
(* reported that was out of date before any of them came.                  *)
NothingOutdatedIsReported ==
  [][\A s \in Scrapes : Render(s) => active_websockets \in lengths[s] \cup earlier[s]]_vars

(* And what a request reports of queries adds up, also when one is         *)
(* recorded meanwhile.                                                     *)
ReportsAddUp == [][\A s \in Scrapes : Render(s) => AddsUp]_vars

(* A broadcast ends, whoever stops reading.                                *)
BroadcastEnds == worker # "sleep" ~> worker = "sleep"

(* A connection that is gone leaves the list.                              *)
DeadConnectionsLeave ==
  \A c \in Clients :
    socket[c] = "broken" ~> ~\E n \in DOMAIN active_connections : active_connections[n] = c
=============================================================================
