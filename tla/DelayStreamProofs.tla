-------------------------- MODULE DelayStreamProofs --------------------------
(***************************************************************************)
(* Proofs about DelayStream, for any number of payloads, resends and naps: *)
(* stop() finds no connection that has been freed in context_ and leaves   *)
(* none open, one descriptor at most is closed twice, a subscription skips *)
(* no message, and none is applied more often than it was sent.            *)
(***************************************************************************)
EXTENDS DelayStream, SequenceTheorems, FiniteSetTheorems, TLAPS

Connected == {"store", "subscribe", "loop", "wait", "apply", "clear", "free"}
Published == {"subscribe", "loop", "wait", "apply", "clear"}

(* The worker has a connection from connecting to redisFree, and context_  *)
(* points to it for less than that.  The connection is shut down by stop() *)
(* alone, once: what it has closed can be closed again by redisFree, but   *)
(* not if a stray close was its own.                                       *)
ConnectionIsKept ==
  /\ worker \in {"none", "check", "connect", "backoff", "exit"} \cup Connected
  /\ conn # "none" <=> worker \in Connected
  /\ context => worker \in Published
  /\ held = "current" => conn # "none"
  /\ running => main = "serve"
  /\ main = "start" => worker = "none"
  /\ main \in {"destroy", "end"} => worker = "none"
  /\ main \in {"start", "serve", "load", "shutdown"} => conn # "shut" /\ strayCloses = 0
  /\ strayCloses \in {0, 1}
  /\ conn = "shut" => strayCloses = 0

-----------------------------------------------------------------------------
USE DEF Connected, Published, ConnectionIsKept

LEMMA KeptInitially == StreamInit => ConnectionIsKept
BY DEF StreamInit, Init

(* What a step of the consumer's thread, main or the server does to it.    *)
LEMMA RunKeeps == ASSUME ConnectionIsKept, Run PROVE ConnectionIsKept'
<1>1. CASE CheckRunning \/ ConnectFails \/ Nap
  BY <1>1 DEF CheckRunning, ConnectFails, Nap, mainVars, linkVars
<1>2. CASE Connect \/ StoreContext \/ Subscribe
  BY <1>2 DEF Connect, StoreContext, Subscribe, mainVars, linkVars
<1>3. CASE Loop \/ GetReply \/ GetReplyFails \/ Apply
  BY <1>3 DEF Loop, GetReply, GetReplyFails, Apply, mainVars, linkVars
<1>4. CASE ClearContext \/ Free
  BY <1>4 DEF ClearContext, Free, CloseAgain, mainVars, linkVars
<1> QED
  BY <1>1, <1>2, <1>3, <1>4 DEF Run

LEMMA MainKeeps ==
  ASSUME ConnectionIsKept, Start \/ Stop \/ LoadContext \/ ShutDown \/ Join \/ Destroy
  PROVE  ConnectionIsKept'
<1>1. CASE Start \/ Stop \/ LoadContext
  BY <1>1 DEF Start, Stop, LoadContext, mainVars, linkVars
<1>2. CASE ShutDown
  BY <1>2 DEF ShutDown, CloseAgain, mainVars, linkVars
<1>3. CASE Join \/ Destroy
  BY <1>3 DEF Join, Destroy, mainVars, linkVars
<1> QED
  BY <1>1, <1>2, <1>3

LEMMA ServerKeeps ==
  ASSUME ConnectionIsKept, GoDown \/ ComeUp \/ Break PROVE ConnectionIsKept'
BY DEF GoDown, ComeUp, Break, mainVars, linkVars

(* The producer and Redis touch the messages on the connection only.       *)
LEMMA ProducerKeeps ==
  ASSUME ConnectionIsKept, Produce \/ Take PROVE ConnectionIsKept'
<1>1. CASE Produce
  BY <1>1 DEF Produce, Compose, Send, Answered, Resend, GiveUp, Pause, vars, mainVars, linkVars
<1>2. CASE Take
  BY <1>2 DEF Take, Deliver, vars, mainVars, linkVars
<1> QED
  BY <1>1, <1>2

LEMMA StepKeeps == ConnectionIsKept /\ [StreamNext]_allVars => ConnectionIsKept'
<1> SUFFICES ASSUME ConnectionIsKept, [StreamNext]_allVars PROVE ConnectionIsKept'
  OBVIOUS
<1>1. CASE ConsumerStep
  BY <1>1, RunKeeps, MainKeeps, ServerKeeps DEF ConsumerStep
<1>2. CASE UNCHANGED allVars
  BY <1>2 DEF allVars, vars, mainVars, linkVars
<1> QED
  BY <1>1, <1>2, ProducerKeeps DEF StreamNext

(* context_ is cleared before the connection is freed and set after it is  *)
(* made (lines 70-75 and 127-128 of telemetry_consumer.cpp), whatever      *)
(* stop() and the server do in between.                                    *)
THEOREM ContextPointsToAConnection == StreamSpec => []ContextIsLive
<1>1. ConnectionIsKept => ContextIsLive
  BY DEF ContextIsLive
<1> QED
  BY <1>1, KeptInitially, StepKeeps, PTL DEF StreamSpec

(* Between stop() (lines 36-47) and redisFree (line 128) one close at most *)
(* is one too many, and after the join no connection is left.              *)
THEOREM StopClosesConnections == StreamSpec => []ConnectionsAreClosed
<1>1. ConnectionIsKept => ConnectionsAreClosed
  BY DEF ConnectionsAreClosed
<1> QED
  BY <1>1, KeptInitially, StepKeeps, PTL DEF StreamSpec

-----------------------------------------------------------------------------
(* The types of messages, wherever they are.                               *)
MessagesTypeOK ==
  /\ inbox \in Seq(Nat) /\ applied \in Seq(Nat) /\ sent \in Seq(Nat)
  /\ worker = "apply" => msg \in Nat
  /\ payload \in Nat
  /\ \A c \in flying : c.payload \in Nat

(* A connection that is not subscribed yet has no messages.  From then on, *)
(* what Redis has passed on is done, at hand or waiting: the first done of *)
(* sent are the last of applied, then comes the message at hand, then      *)
(* those in the inbox.                                                     *)
Held == IF worker = "apply" THEN 1 ELSE 0
Done == Len(sent) - Held - Len(inbox)

InOrder ==
  /\ Done \in Nat /\ Done <= Len(applied)
  /\ \A i \in 1 .. Done : sent[i] = applied[Len(applied) - Done + i]
  /\ worker = "apply" => sent[Done + 1] = msg
  /\ \A i \in 1 .. Len(inbox) : sent[Done + Held + i] = inbox[i]

StreamIsInOrder ==
  /\ MessagesTypeOK
  /\ worker \in {"store", "subscribe"} => inbox = <<>> /\ ~subscribed
  /\ subscribed => InOrder

LEMMA OrderInitially == StreamInit => StreamIsInOrder
BY DEF StreamInit, Init, StreamIsInOrder, MessagesTypeOK

(* Steps that leave messages and subscription alone.                       *)
MessagesStay ==
  /\ UNCHANGED <<inbox, applied, msg>>
  /\ Held' = Held
  /\ worker' \in {"store", "subscribe"} => worker \in {"store", "subscribe"}

LEMMA OrderStays ==
  ASSUME StreamIsInOrder, MessagesStay, payload' \in Nat, flying' \subseteq flying,
         subscribed' => subscribed,
         sent' = IF subscribed' /\ subscribed THEN sent ELSE <<>>
  PROVE  StreamIsInOrder'
<1>1. worker' = "apply" <=> worker = "apply"
  BY DEF MessagesStay, Held
<1>2. MessagesTypeOK'
  BY <1>1 DEF StreamIsInOrder, MessagesTypeOK, MessagesStay
<1>3. subscribed' /\ InOrder => InOrder'
  BY <1>1 DEF InOrder, Done, MessagesStay
<1> QED
  BY <1>2, <1>3 DEF StreamIsInOrder, MessagesStay

(* redisGetReply takes the first message of the inbox.                     *)
LEMMA GetReplyInOrder ==
  ASSUME StreamIsInOrder, GetReply, flying' \subseteq flying, payload' = payload,
         sent' = IF subscribed' /\ subscribed THEN sent ELSE <<>>
  PROVE  StreamIsInOrder'
<1>1. /\ worker = "wait" /\ worker' = "apply" /\ inbox # <<>>
      /\ msg' = Head(inbox) /\ inbox' = Tail(inbox)
      /\ UNCHANGED <<applied, subscribed>>
  BY DEF GetReply
<1>2. inbox \in Seq(Nat)
  BY DEF StreamIsInOrder, MessagesTypeOK
<1>3. /\ msg' = inbox[1] /\ msg' \in Nat /\ inbox' \in Seq(Nat)
      /\ Len(inbox') = Len(inbox) - 1 /\ Len(inbox) \in Nat
      /\ \A i \in 1 .. Len(inbox) - 1 : inbox'[i] = inbox[i + 1]
  BY <1>1, <1>2
<1>4. MessagesTypeOK'
  BY <1>1, <1>3 DEF StreamIsInOrder, MessagesTypeOK
<1>5. ASSUME subscribed, InOrder PROVE InOrder'
  <2>1. sent' = sent /\ Held = 0 /\ Held' = 1
    BY <1>1, <1>5 DEF Held
  <2>2. Len(sent) \in Nat /\ Len(applied) \in Nat
    BY DEF StreamIsInOrder, MessagesTypeOK
  <2>3. Done' = Done /\ Done \in Nat
    BY <1>3, <1>5, <2>1, <2>2 DEF Done, InOrder
  <2>4. sent[Done + 1] = msg'
    BY <1>1, <1>2, <1>3, <1>5, <2>1, <2>3 DEF InOrder
  <2>5. \A i \in 1 .. Len(inbox) - 1 : sent[Done + 1 + i] = inbox'[i]
    <3> TAKE i \in 1 .. Len(inbox) - 1
    <3>1. i + 1 \in 1 .. Len(inbox)
      BY <1>3
    <3>2. sent[Done + Held + (i + 1)] = inbox[i + 1]
      BY <1>5, <3>1 DEF InOrder
    <3>3. Done + Held + (i + 1) = Done + 1 + i
      BY <2>1, <2>3
    <3> QED
      BY <1>3, <3>2, <3>3
  <2> QED
    BY <1>1, <1>3, <1>5, <2>1, <2>3, <2>4, <2>5 DEF InOrder
<1> QED
  BY <1>1, <1>4, <1>5 DEF StreamIsInOrder

LEMMA ApplyInOrder ==
  ASSUME StreamIsInOrder, Apply, flying' \subseteq flying, payload' = payload,
         sent' = IF subscribed' /\ subscribed THEN sent ELSE <<>>
  PROVE  StreamIsInOrder'
<1>1. /\ worker = "apply" /\ worker' = "loop" /\ applied' = Append(applied, msg)
      /\ UNCHANGED <<inbox, subscribed>>
  BY DEF Apply, linkVars
<1>2. applied \in Seq(Nat) /\ msg \in Nat
  BY <1>1 DEF StreamIsInOrder, MessagesTypeOK
<1>3. /\ applied' \in Seq(Nat) /\ Len(applied') = Len(applied) + 1 /\ Len(applied) \in Nat
      /\ applied'[Len(applied) + 1] = msg
      /\ \A i \in 1 .. Len(applied) : applied'[i] = applied[i]
  BY <1>1, <1>2
<1>4. MessagesTypeOK'
  BY <1>1, <1>3 DEF StreamIsInOrder, MessagesTypeOK
<1>5. ASSUME subscribed, InOrder PROVE InOrder'
  <2>1. sent' = sent /\ Held = 1 /\ Held' = 0
    BY <1>1, <1>5 DEF Held
  <2>2. Len(sent) \in Nat /\ Len(inbox) \in Nat
    BY DEF StreamIsInOrder, MessagesTypeOK
  <2>3. Done' = Done + 1 /\ Done \in Nat /\ Done <= Len(applied)
    BY <1>1, <1>5, <2>1, <2>2 DEF Done, InOrder
  <2>4. \A i \in 1 .. Done + 1 : sent[i] = applied'[Len(applied') - (Done + 1) + i]
    <3> TAKE i \in 1 .. Done + 1
    <3>1. Len(applied') - (Done + 1) + i = Len(applied) - Done + i
      BY <1>3, <2>3
    <3>2. CASE i = Done + 1
      BY <1>1, <1>3, <1>5, <2>3, <3>1, <3>2 DEF InOrder
    <3>3. CASE i # Done + 1
      <4>1. i \in 1 .. Done /\ Len(applied) - Done + i \in 1 .. Len(applied)
        BY <1>3, <2>3, <3>3
      <4> QED
        BY <1>3, <1>5, <3>1, <4>1 DEF InOrder
    <3> QED
      BY <3>2, <3>3
  <2>5. \A i \in 1 .. Len(inbox) : sent[Done + 1 + 0 + i] = inbox[i]
    BY <1>5, <2>1, <2>3 DEF InOrder
  <2>6. \A i \in 1 .. Done' : sent'[i] = applied'[Len(applied') - Done' + i]
    BY <2>1, <2>3, <2>4
  <2>7. \A i \in 1 .. Len(inbox') : sent'[Done' + Held' + i] = inbox'[i]
    <3> TAKE i \in 1 .. Len(inbox')
    <3>1. Done' + Held' + i = Done + 1 + 0 + i
      BY <2>1, <2>2, <2>3
    <3> QED
      BY <1>1, <2>1, <2>5, <3>1
  <2>8. Done' \in Nat /\ Done' <= Len(applied')
    BY <1>3, <2>3
  <2> QED
    BY <1>1, <2>6, <2>7, <2>8 DEF InOrder
<1> QED
  BY <1>1, <1>4, <1>5 DEF StreamIsInOrder

(* A new connection, the reply to SUBSCRIBE, and the end of a connection.  *)
LEMMA LinkInOrder ==
  ASSUME StreamIsInOrder, Connect \/ Subscribe \/ Free, flying' \subseteq flying,
         payload' = payload, sent' = IF subscribed' /\ subscribed THEN sent ELSE <<>>
  PROVE  StreamIsInOrder'
<1>1. worker # "apply" /\ worker' # "apply" /\ applied' = applied
  BY DEF Connect, Subscribe, Free
<1>2. inbox' = <<>> /\ sent' = <<>>
  BY DEF Connect, Subscribe, Free, StreamIsInOrder
<1>3. MessagesTypeOK'
  BY <1>1, <1>2 DEF StreamIsInOrder, MessagesTypeOK
<1>4. InOrder'
  <2>1. Len(sent') = 0 /\ Len(inbox') = 0 /\ Len(applied') \in Nat
    BY <1>2, <1>3 DEF MessagesTypeOK
  <2>2. Held' = 0
    BY <1>1 DEF Held
  <2>3. Done' = 0
    BY <2>1, <2>2 DEF Done
  <2> QED
    BY <1>1, <2>1, <2>2, <2>3 DEF InOrder
<1>5. worker' \in {"store", "subscribe"} => ~subscribed'
  BY DEF Connect, Subscribe, Free
<1> QED
  BY <1>2, <1>3, <1>4, <1>5 DEF StreamIsInOrder

LEMMA ConsumerInOrder ==
  ASSUME StreamIsInOrder, ConnectionIsKept, ConsumerStep PROVE StreamIsInOrder'
<1>1. /\ flying' \subseteq flying /\ payload' = payload
      /\ sent' = IF subscribed' /\ subscribed THEN sent ELSE <<>>
      /\ payload \in Nat
  BY DEF ConsumerStep, StreamIsInOrder, MessagesTypeOK
<1>2. CASE CheckRunning \/ ConnectFails \/ Nap \/ StoreContext \/ Loop \/ GetReplyFails
  <2>1. MessagesStay /\ subscribed' = subscribed
    BY <1>2 DEF MessagesStay, Held, CheckRunning, ConnectFails, Nap, StoreContext, Loop,
                GetReplyFails, linkVars
  <2> QED
    BY <1>1, <2>1, OrderStays
<1>3. CASE ClearContext \/ Start \/ Stop \/ LoadContext \/ ShutDown \/ Join \/ Destroy
  <2>1. MessagesStay /\ subscribed' = subscribed
    BY <1>3 DEF MessagesStay, Held, ClearContext, Start, Stop, LoadContext, ShutDown, Join,
                Destroy, linkVars
  <2> QED
    BY <1>1, <2>1, OrderStays
<1>4. CASE GoDown \/ ComeUp \/ Break
  <2>1. MessagesStay /\ (subscribed' => subscribed)
    BY <1>4 DEF MessagesStay, Held, GoDown, ComeUp, Break, linkVars
  <2> QED
    BY <1>1, <2>1, OrderStays
<1> QED
  BY <1>1, <1>2, <1>3, <1>4, GetReplyInOrder, ApplyInOrder, LinkInOrder DEF ConsumerStep, Run

(* Redis passes a message on to who is subscribed.                         *)
LEMMA TakeInOrder == ASSUME StreamIsInOrder, Take PROVE StreamIsInOrder'
<1> PICK c \in flying :
      /\ flying' = flying \ {c}
      /\ IF Reaches THEN Deliver(c.payload) /\ sent' = Append(sent, c.payload)
                    ELSE UNCHANGED <<vars, sent>>
  BY DEF Take
<1>1. payload' = payload /\ c.payload \in Nat /\ flying' \subseteq flying
  BY DEF Take, StreamIsInOrder, MessagesTypeOK
<1>2. CASE ~Reaches
  BY <1>1, <1>2
     DEF StreamIsInOrder, MessagesTypeOK, InOrder, Done, Held, vars, linkVars
<1>3. CASE Reaches
  <2> DEFINE m == c.payload
  <2>1. /\ subscribed /\ inbox' = Append(inbox, m) /\ sent' = Append(sent, m)
        /\ UNCHANGED <<worker, applied, msg, subscribed>>
    BY <1>3 DEF Deliver, Reaches
  <2>2. m \in Nat /\ inbox \in Seq(Nat) /\ sent \in Seq(Nat)
    BY <1>1 DEF StreamIsInOrder, MessagesTypeOK
  <2> HIDE DEF m
  <2>3. /\ inbox' \in Seq(Nat) /\ Len(inbox') = Len(inbox) + 1 /\ Len(inbox) \in Nat
        /\ inbox'[Len(inbox) + 1] = m /\ \A i \in 1 .. Len(inbox) : inbox'[i] = inbox[i]
        /\ sent' \in Seq(Nat) /\ Len(sent') = Len(sent) + 1 /\ Len(sent) \in Nat
        /\ sent'[Len(sent) + 1] = m /\ \A i \in 1 .. Len(sent) : sent'[i] = sent[i]
    BY <2>1, <2>2
  <2>4. MessagesTypeOK'
    BY <1>1, <2>1, <2>3 DEF StreamIsInOrder, MessagesTypeOK
  <2>5. InOrder /\ (worker \in {"store", "subscribe"} => ~subscribed)
    BY <2>1 DEF StreamIsInOrder
  <2>6. /\ Held' = Held /\ Held \in 0 .. 1 /\ Done' = Done /\ Done \in Nat
        /\ Len(sent) = Done + Held + Len(inbox)
    BY <2>1, <2>3, <2>5 DEF Held, Done, InOrder
  <2> DEFINE slen == Len(sent)
             ilen == Len(inbox)
             d == Done
             h == Held
  <2>11. slen \in Nat /\ ilen \in Nat /\ d \in Nat /\ h \in 0 .. 1 /\ slen = d + h + ilen
    BY <2>3, <2>6
  <2>7. \A i \in 1 .. Done : sent'[i] = applied[Len(applied) - Done + i]
    <3> TAKE i \in 1 .. Done
    <3>1. i \in 1 .. Len(sent)
      <4> HIDE DEF slen, ilen, d, h
      <4>1. i \in 1 .. d
        BY DEF d
      <4>2. i \in 1 .. slen
        BY <2>11, <4>1
      <4> QED
        BY <4>2 DEF slen
    <3>2. sent'[i] = sent[i]
      BY <2>3, <3>1
    <3> QED
      BY <2>5, <3>2 DEF InOrder
  <2>8. ASSUME worker = "apply" PROVE sent'[Done + 1] = msg
    <3>1. h = 1
      BY <2>8 DEF Held
    <3>2. d + 1 \in 1 .. slen
      <4> HIDE DEF slen, ilen, d, h
      <4> QED
        BY <2>11, <3>1
    <3>3. Done + 1 \in 1 .. Len(sent) /\ sent[Done + 1] = msg
      BY <2>5, <2>8, <3>2 DEF InOrder
    <3>4. \A i \in 1 .. Len(sent) : sent'[i] = sent[i]
      BY <2>3
    <3> QED
      BY <3>3, <3>4
  <2>9. \A i \in 1 .. Len(inbox) + 1 : sent'[Done + Held + i] = inbox'[i]
    <3> TAKE i \in 1 .. Len(inbox) + 1
    <3>1. CASE i = Len(inbox) + 1
      BY <2>3, <2>6, <3>1
    <3>2. CASE i # Len(inbox) + 1
      <4>1. i \in 1 .. Len(inbox) /\ Done + Held + i \in 1 .. Len(sent)
        <5> HIDE DEF slen, ilen, d, h
        <5>1. i \in 1 .. ilen + 1 /\ i # ilen + 1
          BY <3>2 DEF ilen
        <5>2. i \in 1 .. ilen /\ d + h + i \in 1 .. slen
          BY <2>11, <5>1
        <5> QED
          BY <5>2 DEF slen, ilen, d, h
      <4> QED
        BY <2>3, <2>5, <4>1 DEF InOrder
    <3> QED
      BY <3>1, <3>2
  <2>10. InOrder'
    BY <2>1, <2>3, <2>5, <2>6, <2>7, <2>8, <2>9 DEF InOrder
  <2> QED
    BY <2>1, <2>4, <2>5, <2>10 DEF StreamIsInOrder
<1> QED
  BY <1>2, <1>3

LEMMA StepInOrder ==
  StreamIsInOrder /\ ConnectionIsKept /\ [StreamNext]_allVars => StreamIsInOrder'
<1> SUFFICES ASSUME StreamIsInOrder, ConnectionIsKept, [StreamNext]_allVars
             PROVE  StreamIsInOrder'
  OBVIOUS
<1>1. CASE Produce
  <2>1. UNCHANGED <<vars, sent>>
    BY <1>1 DEF Produce, Compose, Send, Answered, Resend, GiveUp, Pause
  <2>2. payload' \in Nat /\ \A c \in flying' : c.payload \in Nat
    <3>1. Command.payload = payload
      BY DEF Command
    <3> QED
      BY <1>1, <3>1 DEF Produce, Compose, Send, Answered, Resend, GiveUp, Pause,
                        StreamIsInOrder, MessagesTypeOK
  <2> QED
    BY <2>1, <2>2
       DEF StreamIsInOrder, MessagesTypeOK, InOrder, Done, Held, vars, linkVars
<1>2. CASE UNCHANGED allVars
  BY <1>2 DEF allVars, vars, linkVars, producerVars, StreamIsInOrder, MessagesTypeOK, InOrder,
              Done, Held
<1> QED
  BY <1>1, <1>2, ConsumerInOrder, TakeInOrder DEF StreamNext

(* While the subscription lasts, what Redis has passed on is applied or    *)
(* waits to be, all of it and in that order, whatever broke before and     *)
(* however often (the loop of lines 82-125).                               *)
THEOREM SubscriptionSkipsNothing == StreamSpec => []NothingSkipped
<1>1. StreamIsInOrder => NothingSkipped
  <2> SUFFICES ASSUME StreamIsInOrder, subscribed
               PROVE  LET waiting == AtHand \o inbox
                          done == Len(sent) - Len(waiting)
                      IN /\ done >= 0
                         /\ done <= Len(applied)
                         /\ sent = SubSeq(applied, Len(applied) - done + 1, Len(applied)) \o waiting
    BY DEF NothingSkipped
  <2> DEFINE waiting == AtHand \o inbox
             a == Len(applied)
             past == SubSeq(applied, a - Done + 1, a)
  <2>1. /\ inbox \in Seq(Nat) /\ applied \in Seq(Nat) /\ sent \in Seq(Nat)
        /\ worker = "apply" => msg \in Nat
        /\ Len(inbox) \in Nat /\ a \in Nat /\ Len(sent) \in Nat
    BY DEF StreamIsInOrder, MessagesTypeOK
  <2>2. /\ AtHand \in Seq(Nat) /\ Len(AtHand) = Held /\ Held \in 0 .. 1
        /\ Held = 1 => worker = "apply" /\ AtHand[1] = msg
    BY <2>1 DEF AtHand, Held
  <2>3. /\ waiting \in Seq(Nat) /\ Len(waiting) = Held + Len(inbox)
        /\ \A i \in 1 .. Held + Len(inbox) :
             waiting[i] = IF i <= Held THEN AtHand[i] ELSE inbox[i - Held]
    BY <2>1, <2>2, ConcatProperties
  <2>4. /\ Done \in Nat /\ Done <= a /\ Len(sent) = Done + Held + Len(inbox)
        /\ \A i \in 1 .. Done : sent[i] = applied[a - Done + i]
        /\ worker = "apply" => sent[Done + 1] = msg
        /\ \A i \in 1 .. Len(inbox) : sent[Done + Held + i] = inbox[i]
    <3>1. InOrder
      BY DEF StreamIsInOrder
    <3> QED
      BY <2>1, <2>2, <3>1 DEF InOrder, Done
  <2>5. past \in Seq(Nat) /\ Len(past) = Done /\ \A i \in 1 .. Done : past[i] = applied[a - Done + i]
    <3>1. a - Done + 1 \in Int /\ a \in Int
      BY <2>1, <2>4
    <3>2. \A i \in a - Done + 1 .. a : applied[i] \in Nat
      <4>1. \A i \in a - Done + 1 .. a : i \in 1 .. Len(applied)
        BY <2>1, <2>4
      <4> QED
        BY <2>1, <4>1, ElementOfSeq
    <3>3. /\ past \in Seq(Nat)
          /\ Len(past) = IF a - Done + 1 <= a THEN a - (a - Done + 1) + 1 ELSE 0
          /\ \A i \in 1 .. a - (a - Done + 1) + 1 : past[i] = applied[(a - Done + 1) + i - 1]
      <4> HIDE DEF a
      <4> QED
        BY <3>1, <3>2, SubSeqProperties
    <3>4. /\ a - (a - Done + 1) + 1 = Done /\ (a - Done + 1 <= a <=> Done > 0)
          /\ \A i \in 1 .. Done : (a - Done + 1) + i - 1 = a - Done + i
      BY <2>1, <2>4
    <3> HIDE DEF past, a
    <3>5. \A i \in 1 .. Done : past[i] = applied[a - Done + i]
      BY <3>3, <3>4
    <3>6. Len(past) = Done
      BY <2>4, <3>3, <3>4
    <3> QED
      BY <3>3, <3>5, <3>6
  <2> HIDE DEF waiting, past
  <2>6. /\ past \o waiting \in Seq(Nat)
        /\ Len(past \o waiting) = Done + (Held + Len(inbox))
        /\ \A i \in 1 .. Done + (Held + Len(inbox)) :
             (past \o waiting)[i] = IF i <= Done THEN past[i] ELSE waiting[i - Done]
    <3>1. /\ past \o waiting \in Seq(Nat)
          /\ Len(past \o waiting) = Len(past) + Len(waiting)
          /\ \A i \in 1 .. Len(past) + Len(waiting) :
               (past \o waiting)[i] = IF i <= Len(past) THEN past[i] ELSE waiting[i - Len(past)]
      BY <2>3, <2>5, ConcatProperties
    <3>2. Len(past) = Done /\ Len(waiting) = Held + Len(inbox)
      BY <2>3, <2>5
    <3> QED
      BY <3>1, <3>2, Zenon
  <2>7. ASSUME NEW i \in 1 .. Len(sent) PROVE sent[i] = (past \o waiting)[i]
    <3>1. (past \o waiting)[i] = IF i <= Done THEN past[i] ELSE waiting[i - Done]
      <4> DEFINE N == Done + (Held + Len(inbox))
      <4>1. Len(sent) = N
        BY <2>1, <2>2, <2>4
      <4>2. i \in 1 .. N
        BY <4>1, Zenon
      <4> QED
        BY <2>6, <4>2, Zenon
    <3>2. CASE i <= Done
      <4>1. i \in 1 .. Done
        BY <2>4, <3>2
      <4>2. sent[i] = applied[a - Done + i] /\ past[i] = applied[a - Done + i]
        BY <2>4, <2>5, <4>1
      <4> QED
        BY <3>1, <3>2, <4>2
    <3>3. CASE i > Done /\ i <= Done + Held
      <4>1. i = Done + 1 /\ Held = 1 /\ i - Done = 1
        BY <2>1, <2>2, <2>4, <3>3
      <4>2. waiting[1] = AtHand[1]
        BY <2>1, <2>3, <4>1
      <4> QED
        BY <2>2, <2>4, <3>1, <3>3, <4>1, <4>2
    <3>4. CASE i > Done + Held
      <4> DEFINE j == i - Done - Held
      <4>1. j \in 1 .. Len(inbox) /\ i = Done + Held + j /\ ~(i <= Done)
        BY <2>1, <2>2, <2>4, <3>4
      <4>2. i - Done \in 1 .. Held + Len(inbox) /\ ~(i - Done <= Held) /\ (i - Done) - Held = j
        BY <2>1, <2>2, <2>4, <3>4
      <4>3. waiting[i - Done] = inbox[j]
        BY <2>3, <4>2
      <4> HIDE DEF j
      <4> QED
        BY <2>4, <3>1, <4>1, <4>3
    <3> QED
      <4>1. i \in Nat /\ Done \in Nat /\ Held \in Nat
        BY <2>1, <2>2, <2>4
      <4>2. i <= Done \/ (i > Done /\ i <= Done + Held) \/ i > Done + Held
        BY <4>1
      <4> QED
        BY <3>2, <3>3, <3>4, <4>2, Zenon
  <2>8. sent = past \o waiting
    <3>1. Len(sent) = Len(past \o waiting)
      BY <2>1, <2>2, <2>4, <2>6
    <3> HIDE DEF a
    <3> QED
      BY <2>1, <2>6, <2>7, <3>1, SeqEqual
  <2>9. Len(sent) - Len(waiting) = Done
    BY <2>1, <2>2, <2>3, <2>4
  <2>10. Done >= 0 /\ Done <= Len(applied)
    BY <2>4
  <2>11. sent = SubSeq(applied, Len(applied) - Done + 1, Len(applied)) \o waiting
    BY <2>8 DEF past
  <2> QED
    BY <2>9, <2>10, <2>11, Zenon DEF waiting
<1> QED
  BY <1>1, OrderInitially, StepInOrder, KeptInitially, StepKeeps, PTL DEF StreamSpec

-----------------------------------------------------------------------------
(* How often a payload is in a sequence and on its way to the server, is   *)
(* at hand, and has been sent.                                             *)
Places(q, m) == {n \in DOMAIN q : q[n] = m}
Count(q, m) == Cardinality(Places(q, m))
Copies(m) == {c \in flying : c.payload = m}
OnTheWay(m) == Cardinality(Copies(m))
InHand(m) == IF worker = "apply" /\ msg = m THEN 1 ELSE 0

Issued(m) ==
  IF m < payload THEN 1 + MaxResends
  ELSE IF m = payload THEN resends + (IF producer = "publish" THEN 0 ELSE 1)
  ELSE 0

(* A copy is in one place at most: what was applied, is at hand, is in the *)
(* inbox or is on its way was sent, every copy of it once.                 *)
NoCopyCountsTwice ==
  /\ resends \in 0 .. MaxResends
  /\ producer \in {"compose", "publish", "answer", "pause"}
  /\ IsFiniteSet(flying)
  /\ \A m \in Messages :
       Count(applied, m) + InHand(m) + Count(inbox, m) + OnTheWay(m) <= Issued(m)

LEMMA CountType ==
  ASSUME NEW q \in Seq(Nat), NEW m
  PROVE  IsFiniteSet(Places(q, m)) /\ Count(q, m) \in Nat
<1>1. IsFiniteSet(1 .. Len(q))
  BY FS_Interval
<1>2. Places(q, m) \in SUBSET (1 .. Len(q))
  BY DEF Places
<1> QED
  BY <1>1, <1>2, FS_Subset, FS_CardinalityType DEF Count

LEMMA CountEmpty == ASSUME NEW m PROVE Count(<<>>, m) = 0
<1>1. Places(<<>>, m) = {}
  BY DEF Places
<1> QED
  BY <1>1, FS_EmptySet DEF Count

LEMMA CountAppend ==
  ASSUME NEW q \in Seq(Nat), NEW x \in Nat, NEW m
  PROVE  Count(Append(q, x), m) = Count(q, m) + (IF x = m THEN 1 ELSE 0)
<1> DEFINE n == Len(q) + 1
<1>1. n \notin Places(q, m)
  BY DEF Places
<1>2. /\ DOMAIN Append(q, x) = (1 .. Len(q)) \cup {n} /\ DOMAIN q = 1 .. Len(q)
      /\ Append(q, x)[n] = x /\ \A i \in 1 .. Len(q) : Append(q, x)[i] = q[i]
  OBVIOUS
<1>3. Places(Append(q, x), m) = IF x = m THEN Places(q, m) \cup {n} ELSE Places(q, m)
  <2> HIDE DEF n
  <2> QED
    BY <1>2 DEF Places
<1>4. CASE x = m
  BY <1>1, <1>3, <1>4, CountType, FS_AddElement DEF Count
<1>5. CASE x # m
  BY <1>3, <1>5, CountType DEF Count
<1> QED
  BY <1>4, <1>5

LEMMA CountTail ==
  ASSUME NEW q \in Seq(Nat), q # <<>>, NEW m
  PROVE  Count(Tail(q), m) + (IF Head(q) = m THEN 1 ELSE 0) <= Count(q, m)
<1> DEFINE T == Places(q, m) \ {1}
           S == Places(Tail(q), m)
           f == [n \in S |-> n + 1]
<1>1. /\ DOMAIN Tail(q) = 1 .. Len(q) - 1 /\ DOMAIN q = 1 .. Len(q) /\ Len(q) \in Nat \ {0}
      /\ \A i \in 1 .. Len(q) - 1 : Tail(q)[i] = q[i + 1]
      /\ Head(q) = q[1] /\ Tail(q) \in Seq(Nat)
  OBVIOUS
<1>2. \A n \in S : n \in Nat /\ n + 1 \in T
  <2> TAKE n \in S
  <2>1. n \in 1 .. Len(q) - 1 /\ Tail(q)[n] = m
    BY <1>1 DEF Places
  <2>2. n + 1 \in 1 .. Len(q) /\ q[n + 1] = m /\ n + 1 # 1 /\ n \in Nat
    BY <1>1, <2>1
  <2> QED
    BY <1>1, <2>2 DEF Places
<1>3. f \in Injection(S, T)
  <2>1. f \in [S -> T]
    BY <1>2
  <2>2. \A a, b \in S : f[a] = f[b] => a = b
    BY <1>2
  <2> HIDE DEF f, S, T
  <2> QED
    BY <2>1, <2>2 DEF Injection, IsInjective
<1>4. IsFiniteSet(Places(q, m)) /\ Count(q, m) \in Nat
  BY CountType
<1>5. /\ IsFiniteSet(T)
      /\ Cardinality(T) = IF 1 \in Places(q, m) THEN Count(q, m) - 1 ELSE Count(q, m)
  BY <1>4, FS_RemoveElement DEF Count
<1>6. Cardinality(S) <= Cardinality(T)
  <2> HIDE DEF f, S, T
  <2> QED
    BY <1>3, <1>5, FS_Injection
<1>7. Head(q) = m <=> 1 \in Places(q, m)
  BY <1>1 DEF Places
<1>8. Count(Tail(q), m) \in Nat /\ Cardinality(S) = Count(Tail(q), m)
  BY <1>1, CountType DEF Count
<1> HIDE DEF f, S, T
<1> QED
  BY <1>4, <1>5, <1>6, <1>7, <1>8

LEMMA OnTheWayType ==
  ASSUME IsFiniteSet(flying), NEW m
  PROVE  OnTheWay(m) \in Nat /\ IsFiniteSet(Copies(m))
<1>1. Copies(m) \in SUBSET flying
  BY DEF Copies
<1> QED
  BY <1>1, FS_Subset, FS_CardinalityType DEF OnTheWay

LEMMA FewerOnTheWay ==
  ASSUME IsFiniteSet(flying), flying' \subseteq flying, NEW m
  PROVE  IsFiniteSet(flying') /\ OnTheWay(m)' \in Nat /\ OnTheWay(m)' <= OnTheWay(m)
<1>1. IsFiniteSet(flying') /\ IsFiniteSet(Copies(m))
  BY OnTheWayType, FS_Subset
<1>2. Copies(m)' \in SUBSET Copies(m)
  BY DEF Copies
<1> QED
  BY <1>1, <1>2, FS_Subset, FS_CardinalityType DEF OnTheWay

LEMMA NoneCountsTwiceInitially == StreamInit => NoCopyCountsTwice
<1> SUFFICES ASSUME StreamInit PROVE NoCopyCountsTwice
  OBVIOUS
<1>1. /\ resends = 0 /\ producer = "compose" /\ payload = 0 /\ flying = {}
      /\ worker = "none" /\ inbox = <<>> /\ applied = <<>>
  BY DEF StreamInit, Init
<1>2. ASSUME NEW m \in Messages
      PROVE  Count(applied, m) + InHand(m) + Count(inbox, m) + OnTheWay(m) <= Issued(m)
  <2>1. m \in Nat /\ m > 0
    BY PayloadsAssumption
  <2>2. Copies(m) = {}
    BY <1>1 DEF Copies
  <2>3. Count(applied, m) = 0 /\ Count(inbox, m) = 0 /\ OnTheWay(m) = 0
    BY <1>1, <2>2, CountEmpty, FS_EmptySet DEF OnTheWay
  <2>4. InHand(m) = 0 /\ Issued(m) = 0
    BY <1>1, <2>1 DEF InHand, Issued
  <2> QED
    BY <2>3, <2>4
<1> QED
  BY <1>1, <1>2, ResendsAssumption, FS_EmptySet DEF NoCopyCountsTwice

(* Nothing is sent and no message is moved on, but some may be lost.       *)
MessagesMayBeLost ==
  /\ applied' = applied /\ inbox' \in {inbox, <<>>}
  /\ worker' = "apply" => worker = "apply" /\ msg' = msg
  /\ flying' \subseteq flying
  /\ UNCHANGED <<producer, payload, resends>>

LEMMA LossCountsNothing ==
  ASSUME StreamIsInOrder, NoCopyCountsTwice, MessagesMayBeLost
  PROVE  NoCopyCountsTwice'
<1>1. ASSUME NEW m \in Messages
      PROVE  (Count(applied, m) + InHand(m) + Count(inbox, m) + OnTheWay(m) <= Issued(m))'
  <2>1. /\ Count(applied, m) \in Nat /\ Count(inbox, m) \in Nat
        /\ OnTheWay(m) \in Nat
    BY CountType, OnTheWayType DEF StreamIsInOrder, MessagesTypeOK, NoCopyCountsTwice
  <2>2. Count(applied, m)' = Count(applied, m)
    BY DEF MessagesMayBeLost, Count, Places
  <2>3. Count(inbox, m)' \in {0, Count(inbox, m)}
    <3>1. CASE inbox' = inbox
      BY <3>1 DEF Count, Places
    <3>2. CASE inbox' = <<>>
      <4>1. Places(inbox, m)' = {}
        BY <3>2 DEF Places
      <4> QED
        BY <4>1, FS_EmptySet DEF Count
    <3> QED
      BY <3>1, <3>2 DEF MessagesMayBeLost
  <2>4. OnTheWay(m)' <= OnTheWay(m) /\ OnTheWay(m)' \in Nat
    BY FewerOnTheWay DEF MessagesMayBeLost, NoCopyCountsTwice
  <2>5. /\ InHand(m)' \in {0, 1} /\ InHand(m) \in {0, 1} /\ InHand(m)' <= InHand(m)
    BY DEF InHand, MessagesMayBeLost
  <2>6. Issued(m)' = Issued(m)
    BY DEF Issued, MessagesMayBeLost
  <2>7. Issued(m) \in Int
    BY PayloadsAssumption, ResendsAssumption DEF Issued, NoCopyCountsTwice
  <2>8. Count(applied, m) + InHand(m) + Count(inbox, m) + OnTheWay(m) <= Issued(m)
    BY DEF NoCopyCountsTwice
  <2> QED
    BY <2>1, <2>2, <2>3, <2>4, <2>5, <2>6, <2>7, <2>8
<1> QED
  BY <1>1, FewerOnTheWay DEF NoCopyCountsTwice, MessagesMayBeLost

(* redisGetReply takes a message out of the inbox, and it is in hand.      *)
LEMMA GetReplyCounts ==
  ASSUME StreamIsInOrder, NoCopyCountsTwice, GetReply, flying' \subseteq flying,
         UNCHANGED <<producer, payload, resends>>
  PROVE  NoCopyCountsTwice'
<1>1. /\ worker = "wait" /\ worker' = "apply" /\ inbox # <<>>
      /\ msg' = Head(inbox) /\ inbox' = Tail(inbox) /\ applied' = applied
  BY DEF GetReply
<1>2. inbox \in Seq(Nat) /\ inbox' \in Seq(Nat) /\ applied \in Seq(Nat)
  BY <1>1 DEF StreamIsInOrder, MessagesTypeOK
<1>3. ASSUME NEW m \in Messages
      PROVE  (Count(applied, m) + InHand(m) + Count(inbox, m) + OnTheWay(m) <= Issued(m))'
  <2>1. /\ Count(applied, m) \in Nat /\ Count(inbox, m) \in Nat
        /\ Count(inbox', m) \in Nat /\ OnTheWay(m) \in Nat
    BY <1>2, CountType, OnTheWayType DEF NoCopyCountsTwice
  <2>2. Count(applied, m)' = Count(applied, m) /\ Count(inbox, m)' = Count(inbox', m)
    BY <1>1 DEF Count, Places
  <2>3. Count(inbox', m) + (IF Head(inbox) = m THEN 1 ELSE 0) <= Count(inbox, m)
    BY <1>1, <1>2, CountTail
  <2>4. OnTheWay(m)' <= OnTheWay(m) /\ OnTheWay(m)' \in Nat
    BY FewerOnTheWay DEF NoCopyCountsTwice
  <2>5. InHand(m) = 0 /\ InHand(m)' = IF Head(inbox) = m THEN 1 ELSE 0
    BY <1>1 DEF InHand
  <2>6. Issued(m)' = Issued(m)
    BY DEF Issued
  <2>7. Issued(m) \in Int
    BY PayloadsAssumption, ResendsAssumption DEF Issued, NoCopyCountsTwice
  <2>8. Count(applied, m) + InHand(m) + Count(inbox, m) + OnTheWay(m) <= Issued(m)
    BY DEF NoCopyCountsTwice
  <2> QED
    BY <2>1, <2>2, <2>3, <2>4, <2>5, <2>6, <2>7, <2>8
<1> QED
  BY <1>3, FewerOnTheWay DEF NoCopyCountsTwice

(* What was in hand is applied.                                            *)
LEMMA ApplyCounts ==
  ASSUME StreamIsInOrder, NoCopyCountsTwice, Apply, flying' \subseteq flying,
         UNCHANGED <<producer, payload, resends>>
  PROVE  NoCopyCountsTwice'
<1>1. /\ worker = "apply" /\ worker' = "loop" /\ applied' = Append(applied, msg)
      /\ inbox' = inbox
  BY DEF Apply, linkVars
<1>2. inbox \in Seq(Nat) /\ applied \in Seq(Nat) /\ msg \in Nat
  BY <1>1 DEF StreamIsInOrder, MessagesTypeOK
<1>3. ASSUME NEW m \in Messages
      PROVE  (Count(applied, m) + InHand(m) + Count(inbox, m) + OnTheWay(m) <= Issued(m))'
  <2>1. /\ Count(applied, m) \in Nat /\ Count(inbox, m) \in Nat
        /\ OnTheWay(m) \in Nat
    BY <1>2, CountType, OnTheWayType DEF NoCopyCountsTwice
  <2>2. Count(inbox, m)' = Count(inbox, m) /\ Count(applied, m)' = Count(Append(applied, msg), m)
    BY <1>1 DEF Count, Places
  <2>3. Count(Append(applied, msg), m) = Count(applied, m) + (IF msg = m THEN 1 ELSE 0)
    BY <1>2, CountAppend
  <2>4. OnTheWay(m)' <= OnTheWay(m) /\ OnTheWay(m)' \in Nat
    BY FewerOnTheWay DEF NoCopyCountsTwice
  <2>5. InHand(m)' = 0 /\ InHand(m) = IF msg = m THEN 1 ELSE 0
    BY <1>1 DEF InHand
  <2>6. Issued(m)' = Issued(m)
    BY DEF Issued
  <2>7. Issued(m) \in Int
    BY PayloadsAssumption, ResendsAssumption DEF Issued, NoCopyCountsTwice
  <2>8. Count(applied, m) + InHand(m) + Count(inbox, m) + OnTheWay(m) <= Issued(m)
    BY DEF NoCopyCountsTwice
  <2> QED
    BY <2>1, <2>2, <2>3, <2>4, <2>5, <2>6, <2>7, <2>8
<1> QED
  BY <1>3, FewerOnTheWay DEF NoCopyCountsTwice

LEMMA ConsumerCounts ==
  ASSUME StreamIsInOrder, NoCopyCountsTwice, ConsumerStep
  PROVE  NoCopyCountsTwice'
<1>1. flying' \subseteq flying /\ UNCHANGED <<producer, payload, resends>>
  BY DEF ConsumerStep
<1>2. GetReply \/ Apply \/ MessagesMayBeLost
  <2>1. CASE Start \/ Stop \/ LoadContext \/ ShutDown \/ Join \/ Destroy \/ GoDown \/ ComeUp \/ Break
    BY <1>1, <2>1 DEF Start, Stop, LoadContext, ShutDown, Join, Destroy, GoDown, ComeUp, Break,
                      MessagesMayBeLost, mainVars, linkVars
  <2>2. CASE Run
    <3>1. CASE CheckRunning \/ Connect \/ ConnectFails \/ Nap \/ StoreContext
      BY <1>1, <3>1 DEF CheckRunning, Connect, ConnectFails, Nap, StoreContext,
                        MessagesMayBeLost, mainVars, linkVars
    <3>2. CASE Subscribe \/ Loop \/ GetReplyFails \/ ClearContext \/ Free
      BY <1>1, <3>2 DEF Subscribe, Loop, GetReplyFails, ClearContext, Free,
                        MessagesMayBeLost, mainVars, linkVars
    <3> QED
      BY <2>2, <3>1, <3>2 DEF Run
  <2> QED
    BY <2>1, <2>2 DEF ConsumerStep
<1> QED
  BY <1>1, <1>2, GetReplyCounts, ApplyCounts, LossCountsNothing

(* The producer: one copy more is issued before it is on its way.          *)
LEMMA IssueCounts ==
  ASSUME StreamIsInOrder, NoCopyCountsTwice, UNCHANGED vars, flying' = flying,
         resends' \in 0 .. MaxResends,
         producer' \in {"compose", "publish", "answer", "pause"},
         \A m \in Messages : Issued(m)' \in Int /\ Issued(m) <= Issued(m)'
  PROVE  NoCopyCountsTwice'
<1>1. ASSUME NEW m \in Messages
      PROVE  (Count(applied, m) + InHand(m) + Count(inbox, m) + OnTheWay(m) <= Issued(m))'
  <2>1. /\ Count(applied, m) \in Nat /\ Count(inbox, m) \in Nat
        /\ OnTheWay(m) \in Nat /\ InHand(m) \in Nat
    BY CountType, OnTheWayType DEF StreamIsInOrder, MessagesTypeOK, NoCopyCountsTwice, InHand
  <2>2. /\ Count(applied, m)' = Count(applied, m) /\ Count(inbox, m)' = Count(inbox, m)
        /\ OnTheWay(m)' = OnTheWay(m) /\ InHand(m)' = InHand(m)
    BY DEF Count, Places, OnTheWay, Copies, InHand, vars, linkVars
  <2>3. Issued(m) \in Int
    BY PayloadsAssumption, ResendsAssumption DEF Issued, NoCopyCountsTwice
  <2>4. Count(applied, m) + InHand(m) + Count(inbox, m) + OnTheWay(m) <= Issued(m)
    BY DEF NoCopyCountsTwice
  <2> QED
    BY <2>1, <2>2, <2>3, <2>4
<1> QED
  BY <1>1 DEF NoCopyCountsTwice

LEMMA SendCounts ==
  ASSUME StreamIsInOrder, NoCopyCountsTwice, Send
  PROVE  NoCopyCountsTwice'
<1>1. /\ producer = "publish" /\ producer' = "answer" /\ flying' = flying \cup {Command}
      /\ UNCHANGED <<applied, inbox, worker, msg, payload, resends>>
  BY DEF Send, vars, linkVars
<1>2. IsFiniteSet(flying) /\ IsFiniteSet(flying') /\ resends \in 0 .. MaxResends
  BY <1>1, FS_AddElement DEF NoCopyCountsTwice
<1>3. ASSUME NEW m \in Messages
      PROVE  (Count(applied, m) + InHand(m) + Count(inbox, m) + OnTheWay(m) <= Issued(m))'
  <2>1. /\ Count(applied, m) \in Nat /\ Count(inbox, m) \in Nat
        /\ OnTheWay(m) \in Nat /\ InHand(m) \in Nat
    BY <1>2, CountType, OnTheWayType DEF StreamIsInOrder, MessagesTypeOK, InHand
  <2>2. /\ Count(applied, m)' = Count(applied, m) /\ Count(inbox, m)' = Count(inbox, m)
        /\ InHand(m)' = InHand(m)
    BY <1>1 DEF Count, Places, InHand
  <2>3. /\ OnTheWay(m)' \in Nat
        /\ OnTheWay(m)' <= OnTheWay(m) + (IF m = payload THEN 1 ELSE 0)
    <3>1. Copies(m)' = IF m = payload THEN Copies(m) \cup {Command} ELSE Copies(m)
      BY <1>1 DEF Copies, Command
    <3>2. IsFiniteSet(Copies(m))
      BY <1>2, OnTheWayType
    <3> QED
      BY SMTT(30), <2>1, <3>1, <3>2, FS_AddElement DEF OnTheWay
  <2>4. Issued(m) \in Int /\ Issued(m)' = Issued(m) + (IF m = payload THEN 1 ELSE 0)
    BY <1>1, <1>2, PayloadsAssumption, ResendsAssumption DEF Issued, StreamIsInOrder, MessagesTypeOK
  <2>5. Count(applied, m) + InHand(m) + Count(inbox, m) + OnTheWay(m) <= Issued(m)
    BY DEF NoCopyCountsTwice
  <2> QED
    BY <2>1, <2>2, <2>3, <2>4, <2>5
<1> QED
  BY <1>1, <1>2, <1>3 DEF NoCopyCountsTwice

LEMMA ProduceCounts ==
  ASSUME StreamIsInOrder, NoCopyCountsTwice, Produce
  PROVE  NoCopyCountsTwice'
<1>1. payload \in Nat /\ MaxResends \in Nat /\ resends \in 0 .. MaxResends /\ Messages \subseteq Nat
  BY PayloadsAssumption, ResendsAssumption DEF StreamIsInOrder, MessagesTypeOK, NoCopyCountsTwice
<1>2. CASE Compose
  <2>1. \A m \in Messages : Issued(m)' \in Int /\ Issued(m) <= Issued(m)'
    BY <1>1, <1>2 DEF Compose, Issued
  <2> QED
    BY <1>1, <1>2, <2>1, IssueCounts DEF Compose
<1>3. CASE Answered
  <2>1. \A m \in Messages : Issued(m)' \in Int /\ Issued(m) <= Issued(m)'
    BY <1>1, <1>3 DEF Answered, Issued
  <2> QED
    BY <1>1, <1>3, <2>1, IssueCounts DEF Answered
<1>4. CASE Resend
  <2>1. \A m \in Messages : Issued(m)' \in Int /\ Issued(m) <= Issued(m)'
    BY <1>1, <1>4 DEF Resend, Fails, Issued
  <2> QED
    BY <1>1, <1>4, <2>1, IssueCounts DEF Resend, MayResend
<1>5. CASE GiveUp \/ Pause
  <2>1. \A m \in Messages : Issued(m)' \in Int /\ Issued(m) <= Issued(m)'
    BY <1>1, <1>5 DEF GiveUp, Pause, Fails, Issued
  <2> QED
    BY <1>1, <1>5, <2>1, IssueCounts DEF GiveUp, Pause
<1> QED
  BY <1>2, <1>3, <1>4, <1>5, SendCounts DEF Produce

(* Redis takes a copy from the way and gives it to the connection, if any. *)
LEMMA TakeCounts ==
  ASSUME StreamIsInOrder, NoCopyCountsTwice, Take
  PROVE  NoCopyCountsTwice'
<1>1. PICK c \in flying :
        /\ flying' = flying \ {c}
        /\ IF Reaches THEN Deliver(c.payload) /\ sent' = Append(sent, c.payload)
                      ELSE UNCHANGED <<vars, sent>>
  BY DEF Take
<1>2. UNCHANGED <<producer, payload, resends>> /\ flying' \subseteq flying
  BY <1>1 DEF Take
<1>3. CASE ~Reaches
  <2>1. MessagesMayBeLost
    BY <1>1, <1>2, <1>3 DEF MessagesMayBeLost, vars, linkVars
  <2> QED
    BY <2>1, LossCountsNothing
<1>4. CASE Reaches
  <2>1. inbox' = Append(inbox, c.payload) /\ UNCHANGED <<applied, worker, msg>>
    BY <1>1, <1>4 DEF Deliver
  <2>2. inbox \in Seq(Nat) /\ applied \in Seq(Nat) /\ c.payload \in Nat
    BY DEF StreamIsInOrder, MessagesTypeOK
  <2>3. ASSUME NEW m \in Messages
        PROVE  (Count(applied, m) + InHand(m) + Count(inbox, m) + OnTheWay(m) <= Issued(m))'
    <3>1. /\ Count(applied, m) \in Nat /\ Count(inbox, m) \in Nat
          /\ OnTheWay(m) \in Nat /\ InHand(m) \in Nat /\ IsFiniteSet(Copies(m))
      BY <2>2, CountType, OnTheWayType DEF NoCopyCountsTwice, InHand
    <3>2. /\ Count(applied, m)' = Count(applied, m) /\ InHand(m)' = InHand(m)
          /\ Count(inbox, m)' = Count(Append(inbox, c.payload), m)
      BY <2>1 DEF Count, Places, InHand
    <3>3. Count(Append(inbox, c.payload), m) = Count(inbox, m) + (IF c.payload = m THEN 1 ELSE 0)
      BY <2>2, CountAppend
    <3>4. OnTheWay(m)' = OnTheWay(m) - (IF c.payload = m THEN 1 ELSE 0)
      <4>1. Copies(m)' = Copies(m) \ {c} /\ (c \in Copies(m) <=> c.payload = m)
        BY <1>1 DEF Copies
      <4>2. Cardinality(Copies(m) \ {c}) =
              IF c \in Copies(m) THEN Cardinality(Copies(m)) - 1 ELSE Cardinality(Copies(m))
        BY <3>1, FS_RemoveElement
      <4>3. OnTheWay(m)' = Cardinality(Copies(m) \ {c}) /\ OnTheWay(m) = Cardinality(Copies(m))
        BY <4>1 DEF OnTheWay
      <4> QED
        BY <3>1, <4>1, <4>2, <4>3
    <3>5. Issued(m)' = Issued(m)
      BY <1>2 DEF Issued
    <3>6. Issued(m) \in Int
      BY PayloadsAssumption, ResendsAssumption DEF Issued, NoCopyCountsTwice
    <3>7. Count(applied, m) + InHand(m) + Count(inbox, m) + OnTheWay(m) <= Issued(m)
      BY DEF NoCopyCountsTwice
    <3> QED
      BY <3>1, <3>2, <3>3, <3>4, <3>5, <3>6, <3>7
  <2> QED
    BY <1>2, <2>3, FewerOnTheWay DEF NoCopyCountsTwice
<1> QED
  BY <1>3, <1>4

(* A payload is published at most 1 + MaxResends times (retry_on_timeout,  *)
(* line 30 of live_stream.py), and applied no more often.                  *)
THEOREM AppliedAsOftenAsSent == StreamSpec => []AppliedNoMoreThanSent
<1>1. StreamIsInOrder /\ NoCopyCountsTwice => AppliedNoMoreThanSent
  <2> SUFFICES ASSUME StreamIsInOrder, NoCopyCountsTwice, NEW m \in Messages
               PROVE  Count(applied, m) <= 1 + MaxResends
    BY DEF AppliedNoMoreThanSent, Count, Places
  <2>1. /\ Count(applied, m) \in Nat /\ Count(inbox, m) \in Nat
        /\ OnTheWay(m) \in Nat /\ InHand(m) \in Nat
    BY CountType, OnTheWayType DEF StreamIsInOrder, MessagesTypeOK, NoCopyCountsTwice, InHand
  <2>2. Issued(m) \in Int /\ Issued(m) <= 1 + MaxResends
    BY PayloadsAssumption, ResendsAssumption DEF Issued, NoCopyCountsTwice
  <2>3. Count(applied, m) + InHand(m) + Count(inbox, m) + OnTheWay(m) <= Issued(m)
    BY DEF NoCopyCountsTwice
  <2> QED
    BY <2>1, <2>2, <2>3, ResendsAssumption
<1>2. StreamIsInOrder /\ NoCopyCountsTwice /\ [StreamNext]_allVars => NoCopyCountsTwice'
  <2>1. CASE UNCHANGED allVars
    <3>1. StreamIsInOrder /\ NoCopyCountsTwice => MessagesMayBeLost
      BY <2>1 DEF MessagesMayBeLost, allVars, vars, linkVars, producerVars
    <3> QED
      BY <3>1, LossCountsNothing
  <2> QED
    BY <2>1, ProduceCounts, TakeCounts, ConsumerCounts DEF StreamNext
<1> QED
  BY <1>1, <1>2, NoneCountsTwiceInitially, OrderInitially, StepInOrder, KeptInitially, StepKeeps,
     PTL DEF StreamSpec
=============================================================================
