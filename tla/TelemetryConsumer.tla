-------------------------- MODULE TelemetryConsumer --------------------------
(***************************************************************************)
(* The C++ telemetry consumer: start, stop and the worker thread's run of  *)
(* telemetry_consumer.cpp, with the atomic flag running_ and the atomic    *)
(* pointer context_ between them, called as main.cpp calls them.           *)
(*                                                                         *)
(* Redis and hiredis are external: a connection is made or refused, breaks *)
(* when the server goes away, and until then hands over the messages of    *)
(* the channel in order.  A delay is applied in one step, which is what    *)
(* GraphLock shows of the loop under the lock.                             *)
(***************************************************************************)
EXTENDS Integers, Sequences

CONSTANTS MaxBackoff,   \* 20 naps of 100 ms in the code
          Messages

ASSUME BackoffAssumption == MaxBackoff \in Nat \ {0}

VARIABLES
  running,      \* running_
  context,      \* context_: does it point to the connection
  main,         \* where main is: start, serve, load, shutdown, join, destroy, end
  held,         \* the pointer stop() loaded: none, current or freed
  worker,       \* where run() is
  naps,         \* its loop counter while it backs off
  conn,         \* its connection: none, open, broken, shut (by stop)
  msg,          \* the reply it works on
  strayCloses,  \* how many descriptors were closed that were not the connection's any more
  up,           \* the Redis server runs
  subscribed,   \* it has taken the SUBSCRIBE of this connection
  inbox,        \* messages sent on this connection and not read
  applied       \* the messages applied to the graph, in order

mainVars == <<main, held>>
linkVars == <<conn, subscribed, inbox>>
vars == <<running, context, mainVars, worker, naps, linkVars, msg, strayCloses,
          up, applied>>

NoMessage == 0

Init ==
  /\ running = FALSE /\ context = FALSE
  /\ main = "start" /\ held = "none"
  /\ worker = "none" /\ naps = 0
  /\ conn = "none" /\ subscribed = FALSE /\ inbox = <<>>
  /\ msg = NoMessage /\ applied = <<>>
  /\ strayCloses = 0
  /\ up \in BOOLEAN

-----------------------------------------------------------------------------
(* main: start(), the server, stop() and the destructor's stop().          *)
Start ==
  /\ main = "start"
  /\ running' = TRUE
  /\ worker' = "check"
  /\ main' = "serve"
  /\ UNCHANGED <<context, held, naps, linkVars, msg, strayCloses, up, applied>>

Stop ==
  /\ main = "serve"
  /\ running' = FALSE
  /\ main' = "load"
  /\ UNCHANGED <<context, held, worker, naps, linkVars, msg, strayCloses, up, applied>>

LoadContext ==
  /\ main = "load"
  /\ held' = IF context THEN "current" ELSE "none"
  /\ main' = IF context THEN "shutdown" ELSE "join"
  /\ UNCHANGED <<running, context, worker, naps, linkVars, msg, strayCloses, up, applied>>

(* A descriptor that was closed before belongs to nobody or, by now, to    *)
(* somebody else.                                                          *)
CloseAgain == strayCloses' \in {strayCloses, strayCloses + 1}

(* shutdown() and close() of c->fd.  If run() has freed c in the meantime  *)
(* the descriptor is whatever the memory holds now.                        *)
ShutDown ==
  /\ main = "shutdown"
  /\ IF held = "current"
       THEN conn' = "shut" /\ UNCHANGED strayCloses
       ELSE CloseAgain /\ UNCHANGED conn
  /\ main' = "join"
  /\ UNCHANGED <<running, context, held, worker, naps, subscribed, inbox, msg, up, applied>>

Join ==
  /\ main = "join" /\ worker = "exit"
  /\ worker' = "none" /\ held' = "none"
  /\ main' = "destroy"
  /\ UNCHANGED <<running, context, naps, linkVars, msg, strayCloses, up, applied>>

(* The destructor: running_ is false already.                              *)
Destroy ==
  /\ main = "destroy"
  /\ main' = "end"
  /\ UNCHANGED <<running, context, held, worker, naps, linkVars, msg, strayCloses, up, applied>>

-----------------------------------------------------------------------------
(* run().                                                                  *)
CheckRunning ==
  /\ worker = "check"
  /\ worker' = IF running THEN "connect" ELSE "exit"
  /\ UNCHANGED <<running, context, mainVars, naps, linkVars, msg, strayCloses, up, applied>>

Connect ==
  /\ worker = "connect" /\ up
  /\ conn' = "open" /\ subscribed' = FALSE /\ inbox' = <<>>
  /\ worker' = "store"
  /\ UNCHANGED <<running, context, mainVars, naps, msg, strayCloses, up, applied>>

ConnectFailsForGood ==    \* a mutant of ConnectFails: break instead of continue
  /\ worker = "connect" /\ ~up
  /\ worker' = "exit" /\ naps' = 0
  /\ UNCHANGED <<running, context, mainVars, linkVars, msg, strayCloses, up, applied>>

ConnectFails ==
  /\ worker = "connect" /\ ~up
  /\ worker' = "backoff" /\ naps' = 0
  /\ UNCHANGED <<running, context, mainVars, linkVars, msg, strayCloses, up, applied>>

Nap ==
  /\ worker = "backoff"
  /\ IF naps < MaxBackoff /\ running
       THEN naps' = naps + 1 /\ UNCHANGED worker
       ELSE worker' = "check" /\ UNCHANGED naps
  /\ UNCHANGED <<running, context, mainVars, linkVars, msg, strayCloses, up, applied>>

StoreContext ==
  /\ worker = "store"
  /\ context' = TRUE
  /\ worker' = "subscribe"
  /\ UNCHANGED <<running, mainVars, naps, linkVars, msg, strayCloses, up, applied>>

(* The reply to SUBSCRIBE, or none.                                        *)
Subscribe ==
  /\ worker = "subscribe"
  /\ conn = "open" => up
  /\ subscribed' = (conn = "open")
  /\ worker' = "loop"
  /\ UNCHANGED <<running, context, mainVars, naps, conn, inbox, msg, strayCloses, up, applied>>

LoopUnchecked ==          \* a mutant of Loop: while (true)
  /\ worker = "loop"
  /\ worker' = "wait"
  /\ UNCHANGED <<running, context, mainVars, naps, linkVars, msg, strayCloses, up, applied>>

Loop ==
  /\ worker = "loop"
  /\ worker' = IF running THEN "wait" ELSE "clear"
  /\ UNCHANGED <<running, context, mainVars, naps, linkVars, msg, strayCloses, up, applied>>

(* redisGetReply: the next message, also one that came before the end.     *)
GetReply ==
  /\ worker = "wait" /\ inbox # <<>>
  /\ msg' = Head(inbox) /\ inbox' = Tail(inbox)
  /\ worker' = "apply"
  /\ UNCHANGED <<running, context, mainVars, naps, conn, subscribed, strayCloses, up, applied>>

GetReplyFailsAndCloses ==  \* a mutant of GetReplyFails: it closes c->fd itself
  /\ worker = "wait" /\ conn # "open"
  /\ conn' = "shut"
  /\ worker' = "clear"
  /\ UNCHANGED <<running, context, mainVars, naps, subscribed, inbox, msg, strayCloses, up, applied>>

GetReplyFails ==
  /\ worker = "wait" /\ conn # "open"
  /\ worker' = "clear"
  /\ UNCHANGED <<running, context, mainVars, naps, linkVars, msg, strayCloses, up, applied>>

ApplyTwice ==             \* a mutant of Apply: the reply is not dropped
  /\ worker = "apply"
  /\ applied' = applied \o <<msg, msg>>
  /\ msg' = NoMessage
  /\ worker' = "loop"
  /\ UNCHANGED <<running, context, mainVars, naps, linkVars, strayCloses, up>>

Apply ==
  /\ worker = "apply"
  /\ applied' = Append(applied, msg)
  /\ msg' = NoMessage
  /\ worker' = "loop"
  /\ UNCHANGED <<running, context, mainVars, naps, linkVars, strayCloses, up>>

ClearNothing ==           \* a mutant of ClearContext: context_ keeps the pointer
  /\ worker = "clear"
  /\ worker' = "free"
  /\ UNCHANGED <<running, context, mainVars, naps, linkVars, msg, strayCloses, up, applied>>

ClearContext ==
  /\ worker = "clear"
  /\ context' = FALSE
  /\ worker' = "free"
  /\ UNCHANGED <<running, mainVars, naps, linkVars, msg, strayCloses, up, applied>>

(* redisFree closes the descriptor, which stop() may have closed before.   *)
Free ==
  /\ worker = "free"
  /\ IF conn = "shut" THEN CloseAgain ELSE UNCHANGED strayCloses
  /\ conn' = "none" /\ subscribed' = FALSE /\ inbox' = <<>>
  /\ held' = IF held = "current" THEN "freed" ELSE held
  /\ worker' = "check"
  /\ UNCHANGED <<running, context, main, naps, msg, up, applied>>

Run ==
  \/ CheckRunning \/ Connect \/ ConnectFails \/ Nap \/ StoreContext \/ Subscribe
  \/ Loop \/ GetReply \/ GetReplyFails \/ Apply \/ ClearContext \/ Free

-----------------------------------------------------------------------------
(* The server (external).                                                  *)
GoDown ==
  /\ up
  /\ up' = FALSE
  /\ UNCHANGED <<running, context, mainVars, worker, naps, linkVars, msg, strayCloses, applied>>

ComeUp ==
  /\ ~up
  /\ conn # "open"
  /\ up' = TRUE
  /\ UNCHANGED <<running, context, mainVars, worker, naps, linkVars, msg, strayCloses, applied>>

(* A connection breaks, at the latest when the server is gone.             *)
Break ==
  /\ conn = "open"
  /\ conn' = "broken" /\ subscribed' = FALSE
  /\ UNCHANGED <<running, context, mainVars, worker, naps, inbox, msg, strayCloses, up, applied>>

Reaches == up /\ conn = "open" /\ subscribed

Deliver(m) ==
  /\ Reaches
  /\ inbox' = Append(inbox, m)
  /\ UNCHANGED <<running, context, mainVars, worker, naps, conn, subscribed, msg,
                 strayCloses, up, applied>>
==============================================================================
