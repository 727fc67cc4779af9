----------------------------- MODULE DelayStream -----------------------------
(***************************************************************************)
(* The way of a delay: live_stream.py publishes it, Redis Pub/Sub passes   *)
(* it on to whoever is subscribed at that moment, TelemetryConsumer        *)
(* applies it.  Payloads are numbered in the order they are composed.      *)
(***************************************************************************)
EXTENDS TelemetryConsumer, FiniteSets

CONSTANTS MaxPayloads,   \* bound: how many payloads the producer composes
          MaxResends     \* how often redis-py sends a command again

ASSUME PayloadsAssumption == MaxPayloads \in Nat /\ Messages = 1 .. MaxPayloads
ASSUME ResendsAssumption == MaxResends \in Nat

VARIABLES
  producer,   \* compose, publish, answer, pause
  payload,    \* the last payload composed
  resends,    \* how often it was sent again
  flying,     \* PUBLISH commands on their way to the server
  sent        \* what Redis has passed on since the consumer subscribed

producerVars == <<producer, payload, resends, flying>>
allVars == <<vars, producerVars, sent>>

StreamInit ==
  /\ Init
  /\ producer = "compose" /\ payload = 0 /\ resends = 0 /\ flying = {}
  /\ sent = <<>>

(* A random trip, stop sequence and delay.                                 *)
Compose ==
  /\ producer = "compose" /\ payload < MaxPayloads
  /\ payload' = payload + 1 /\ resends' = 0
  /\ producer' = "publish"
  /\ UNCHANGED <<vars, flying, sent>>

Command == [payload |-> payload, copy |-> resends]

Send ==
  /\ producer = "publish" /\ up
  /\ flying' = flying \cup {Command}
  /\ producer' = "answer"
  /\ UNCHANGED <<vars, payload, resends, sent>>

Answered ==
  /\ producer = "answer" /\ Command \notin flying
  /\ producer' = "pause"
  /\ UNCHANGED <<vars, payload, resends, flying, sent>>

(* No answer within socket_timeout, or no connection: the client sends the *)
(* same command once more (retry_on_timeout), though it may have arrived   *)
(* or may yet arrive.                                                      *)
Fails == producer = "answer" \/ (producer = "publish" /\ ~up)

MayResendOnceMore == resends <= MaxResends    \* a mutant of MayResend
MayResend == resends < MaxResends

Resend ==
  /\ Fails /\ MayResend
  /\ resends' = resends + 1
  /\ producer' = "publish"
  /\ UNCHANGED <<vars, payload, flying, sent>>

(* ... then gives up: the error is logged, the payload is not kept.        *)
GiveUp ==
  /\ Fails /\ ~MayResend
  /\ producer' = "pause"
  /\ UNCHANGED <<vars, payload, resends, flying, sent>>

Pause ==
  /\ producer = "pause"
  /\ producer' = "compose"
  /\ UNCHANGED <<vars, payload, resends, flying, sent>>

Produce == Compose \/ Send \/ Answered \/ Resend \/ GiveUp \/ Pause

(* Redis takes a command: who is subscribed gets the payload, nobody later.*)
Take ==
  /\ up
  /\ \E c \in flying :
       /\ flying' = flying \ {c}
       /\ IF Reaches THEN Deliver(c.payload) /\ sent' = Append(sent, c.payload)
                     ELSE UNCHANGED <<vars, sent>>
  /\ UNCHANGED <<producer, payload, resends>>

(* A subscription begins with what is published from then on.              *)
ConsumerStep ==
  /\ Run \/ Start \/ Stop \/ LoadContext \/ ShutDown \/ Join \/ Destroy \/ GoDown \/ ComeUp \/ Break
  /\ sent' = IF subscribed' /\ subscribed THEN sent ELSE <<>>
  /\ flying' = IF up' THEN flying ELSE {}
  /\ UNCHANGED <<producer, payload, resends>>

StreamNext == Produce \/ Take \/ ConsumerStep

StreamSpec == StreamInit /\ [][StreamNext]_allVars

(* The two threads of the consumer go on when they can, and the operating  *)
(* system reports a connection whose server is gone.  Nothing makes the    *)
(* producer publish, the server come back or main stop the consumer.       *)
FairStream ==
  /\ StreamSpec
  /\ WF_allVars(Run /\ ConsumerStep)
  /\ WF_allVars((LoadContext \/ ShutDown \/ Join \/ Destroy) /\ ConsumerStep)
  /\ WF_allVars(~up /\ Break /\ ConsumerStep)

-----------------------------------------------------------------------------
(* A payload is applied no more often than it was sent, also when copies   *)
(* overtake each other and connections come and go.  It may be applied     *)
(* twice: the times then move twice, since the consumer adds.              *)
AppliedNoMoreThanSent ==
  \A m \in Messages :
    Cardinality({n \in DOMAIN applied : applied[n] = m}) <= 1 + MaxResends

(* Between subscribing and losing the connection nothing is skipped: what  *)
(* Redis passed on was applied, is at hand or is waiting, in that order.   *)
AtHand == IF worker = "apply" THEN <<msg>> ELSE <<>>

NothingSkipped ==
  subscribed /\ conn = "open" =>
    LET waiting == AtHand \o inbox
        done == Len(sent) - Len(waiting)
    IN /\ done >= 0
       /\ done <= Len(applied)
       /\ sent = SubSeq(applied, Len(applied) - done + 1, Len(applied)) \o waiting

(* context_ points to nothing that redisFree has freed.                    *)
ContextIsLive == context => conn # "none"

(* Connections are closed, none is left, and hardly one is closed twice:   *)
(* no descriptor until stop() closes one, and from then on one at most,    *)
(* either by redisFree, after stop() has closed it, or by stop(), through  *)
(* a context that was freed since it loaded the pointer, but never both.   *)
(* When stop() returns, no connection is open, whichever the worker made   *)
(* meanwhile, and context_ is null.                                        *)
ConnectionsAreClosed ==
  /\ strayCloses <= IF main \in {"start", "serve", "load", "shutdown"} THEN 0 ELSE 1
  /\ main \in {"destroy", "end"} => conn = "none" /\ ~context

(* stop() returns: the worker it waits for is woken or never blocks.       *)
StopReturns == main = "load" ~> main = "end"

(* Once the server stays up, connections hold and nobody stops it, the     *)
(* consumer is subscribed and stays so.                                    *)
Resubscribes == <>[](up /\ main = "serve" /\ conn # "broken") => <>[]subscribed
==============================================================================
