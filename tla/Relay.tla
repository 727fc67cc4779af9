-------------------------------- MODULE Relay --------------------------------
(***************************************************************************)
(* gateway/tcp_relay.py and gateway/win_proxy.py: connections are accepted *)
(* and connected to the gateway, and two threads a connection forward what *)
(* comes from either side, each closing both sockets when its side is at   *)
(* an end.  win_proxy connects in the loop that accepts, and closes the    *)
(* client of the turn before when accept fails; tcp_relay connects in a    *)
(* thread of its own and ends when accept fails.                           *)
(*                                                                         *)
(* What is forwarded is counted, in parts.  A socket that is closed while  *)
(* a thread is in recv on it makes the call fail where closing wakes it    *)
(* (Windows); elsewhere the call keeps the connection until something      *)
(* comes.  Clients and gateway are external.                               *)
(***************************************************************************)
EXTENDS Naturals, FiniteSets

CONSTANTS
  Clients,
  Request, Answer,   \* of each client, in parts
  Leaving,           \* the clients that, or whose gateway's end, may hang up
  MaxFailures        \* how often accept fails

ASSUME PartsAssumption ==
  /\ Request \in [Clients -> Nat] /\ Answer \in [Clients -> Nat]
  /\ Leaving \subseteq Clients /\ MaxFailures \in Nat

VARIABLES
  program, wakes,   \* which of the two, and on what
  main,             \* the accepting thread: accept, connect, down
  client,           \* the local variable of start_proxy
  handler,          \* tcp_relay's handle_client of each client
  sock,             \* the relay's sockets of a connection
  thread, data,     \* forward, each way, and what it is about to send
  waiting, unread,  \* parts on their way to the relay, and from it
  sent, read,       \* parts written by one end and read by the other
  ends,             \* what client and gateway have done to their sockets
  failures          \* of accept

programVars == <<program, wakes>>
acceptVars == <<main, client, handler, failures>>
threadVars == <<thread, data>>
wireVars == <<waiting, unread, sent, read>>
vars == <<programVars, acceptVars, sock, threadVars, wireVars, ends>>

Nobody == "nobody"
Ways == {"up", "down"}            \* t1, from the client, and t2, from the target
Peers == {"client", "target"}
Src(w) == IF w = "up" THEN "client" ELSE "target"
Dst(w) == IF w = "up" THEN "target" ELSE "client"
To(p) == IF p = "client" THEN "down" ELSE "up"
From(p) == IF p = "client" THEN "up" ELSE "down"
Total(c, w) == IF w = "up" THEN Request[c] ELSE Answer[c]

Nothing == [c \in Clients |-> [w \in Ways |-> 0]]

Init ==
  /\ program \in {"tcp_relay", "win_proxy"}
  /\ wakes \in BOOLEAN /\ (program = "win_proxy" => wakes)
  /\ main = "accept" /\ client = Nobody
  /\ handler = [c \in Clients |-> "none"]
  /\ failures = 0
  /\ sock = [c \in Clients |-> [p \in Peers |-> "none"]]
  /\ thread = [c \in Clients |-> [w \in Ways |-> "none"]]
  /\ data = Nothing /\ waiting = Nothing /\ unread = Nothing
  /\ sent = Nothing /\ read = Nothing
  /\ ends = [c \in Clients |-> [p \in Peers |-> "none"]]

(* A socket closed with parts in it that were not read resets the          *)
(* connection, and what the peer has not read may be gone.                 *)
Closed(c, p) == [sock EXCEPT ![c][p] = "closed"]
MayReset(c, p) ==
  \/ UNCHANGED unread
  \/ waiting[c][From(p)] > 0 /\ unread' = [unread EXCEPT ![c][To(p)] = 0]

-----------------------------------------------------------------------------
(* The accepting thread: main of tcp_relay, start_proxy of win_proxy.      *)
Accept(c) ==
  /\ main = "accept" /\ ends[c].client # "none" /\ sock[c].client = "none"
  /\ sock' = [sock EXCEPT ![c].client = "open"]
  /\ IF program = "win_proxy"
       THEN main' = "connect" /\ client' = c /\ UNCHANGED handler
       ELSE handler' = [handler EXCEPT ![c] = "connect"] /\ UNCHANGED <<main, client>>
  /\ UNCHANGED <<programVars, failures, threadVars, wireVars, ends>>

AcceptFails ==
  /\ main = "accept" /\ failures < MaxFailures
  /\ failures' = failures + 1
  /\ IF program = "tcp_relay"
       THEN /\ main' = "down"      \* and the process with it
            /\ sock' = [c \in Clients |-> [p \in Peers |->
                          IF sock[c][p] = "none" THEN "none" ELSE "closed"]]
            /\ thread' = [c \in Clients |-> [w \in Ways |->
                            IF thread[c][w] = "none" THEN "none" ELSE "done"]]
            /\ data' = Nothing
            /\ handler' = [c \in Clients |-> IF handler[c] = "none" THEN "none" ELSE "done"]
            /\ UNCHANGED unread
       ELSE /\ UNCHANGED <<main, threadVars, handler>>
            /\ IF client = Nobody \/ sock[client].client = "closed"
                 THEN UNCHANGED <<sock, unread>>
                 ELSE sock' = Closed(client, "client") /\ MayReset(client, "client")
  /\ UNCHANGED <<programVars, client, waiting, sent, read, ends>>

(* connect: in the loop, or in handle_client.                              *)
Connecting(c) ==
  IF program = "win_proxy" THEN main = "connect" /\ client = c ELSE handler[c] = "connect"

Connected(c) ==
  IF program = "win_proxy" THEN main' = "accept" /\ UNCHANGED handler
                           ELSE handler' = [handler EXCEPT ![c] = "done"] /\ UNCHANGED main

Connect(c) ==
  /\ Connecting(c) /\ Connected(c)
  /\ sock' = [sock EXCEPT ![c].target = "open"]
  /\ ends' = [ends EXCEPT ![c].target = "open"]
  /\ thread' = [thread EXCEPT ![c] = [w \in Ways |-> "recv"]]
  /\ UNCHANGED <<programVars, client, failures, data, wireVars>>

ConnectFails(c) ==
  /\ Connecting(c) /\ Connected(c)
  /\ sock' = Closed(c, "client") /\ MayReset(c, "client")
  /\ ends' = [ends EXCEPT ![c].target = "gone"]
  /\ UNCHANGED <<programVars, client, failures, threadVars, waiting, sent, read>>

Relaying(c) == Accept(c) \/ Connect(c) \/ ConnectFails(c)

-----------------------------------------------------------------------------
(* forward.                                                                *)
Goes(c, w, state) == thread' = [thread EXCEPT ![c][w] = state]

Recv(c, w) ==
  /\ thread[c][w] = "recv"
  /\ sock[c][Src(w)] = "open" \/ ~wakes
  /\ \E n \in 1 .. waiting[c][w] :
       /\ data' = [data EXCEPT ![c][w] = n]
       /\ waiting' = [waiting EXCEPT ![c][w] = @ - n]
  /\ Goes(c, w, "send")
  /\ UNCHANGED <<programVars, acceptVars, sock, unread, sent, read, ends>>

AtAnEndOrIdle(c, w) == waiting[c][w] = 0      \* a mutant of the next one: nothing is the end
AtAnEnd(c, w) == waiting[c][w] = 0 /\ ends[c][Src(w)] \in {"half", "gone"}

RecvEnds(c, w) ==
  /\ thread[c][w] = "recv"
  /\ AtAnEnd(c, w) \/ (sock[c][Src(w)] = "closed" /\ wakes)
  /\ Goes(c, w, "close_src")
  /\ UNCHANGED <<programVars, acceptVars, sock, data, wireVars, ends>>

(* The next recv fails at once if its socket is closed by then.            *)
SentSome(c, w) == data[c][w] - data[c][w] \div 2     \* a mutant of the next one: send for sendall
SentAll(c, w) == data[c][w]

SendAll(c, w) ==
  /\ thread[c][w] = "send" /\ sock[c][Dst(w)] = "open"
  /\ IF ends[c][Dst(w)] = "gone" THEN UNCHANGED unread     \* lost on the way
     ELSE unread' = [unread EXCEPT ![c][w] = @ + SentAll(c, w)]
  /\ data' = [data EXCEPT ![c][w] = 0]
  /\ Goes(c, w, IF sock[c][Src(w)] = "open" THEN "recv" ELSE "close_src")
  /\ UNCHANGED <<programVars, acceptVars, sock, waiting, sent, read, ends>>

SendFails(c, w) ==
  /\ thread[c][w] = "send"
  /\ sock[c][Dst(w)] = "closed" \/ ends[c][Dst(w)] = "gone"
  /\ data' = [data EXCEPT ![c][w] = 0]
  /\ Goes(c, w, "close_src")
  /\ UNCHANGED <<programVars, acceptVars, sock, wireVars, ends>>

CloseNoOther(c, w) ==      \* a mutant of the next one: src.close() only
  /\ thread[c][w] = "close_src"
  /\ sock' = Closed(c, Src(w)) /\ MayReset(c, Src(w))
  /\ Goes(c, w, "done")
  /\ UNCHANGED <<programVars, acceptVars, data, waiting, sent, read, ends>>
CloseSrc(c, w) ==
  /\ thread[c][w] = "close_src"
  /\ sock' = Closed(c, Src(w)) /\ MayReset(c, Src(w))
  /\ Goes(c, w, "close_dst")
  /\ UNCHANGED <<programVars, acceptVars, data, waiting, sent, read, ends>>

CloseDst(c, w) ==
  /\ thread[c][w] = "close_dst"
  /\ sock' = Closed(c, Dst(w)) /\ MayReset(c, Dst(w))
  /\ Goes(c, w, "done")
  /\ UNCHANGED <<programVars, acceptVars, data, waiting, sent, read, ends>>

Forward(c, w) ==
  \/ Recv(c, w) \/ RecvEnds(c, w) \/ SendAll(c, w) \/ SendFails(c, w)
  \/ CloseSrc(c, w) \/ CloseDst(c, w)

-----------------------------------------------------------------------------
(* Clients and the gateway (external).                                     *)
Dial(c) ==
  /\ ends[c].client = "none"
  /\ ends' = [ends EXCEPT ![c].client = "open"]
  /\ UNCHANGED <<programVars, acceptVars, sock, threadVars, wireVars>>

(* The gateway answers when it has the whole request.                      *)
Write(c, p) ==
  /\ ends[c][p] = "open" /\ sent[c][From(p)] < Total(c, From(p))
  /\ p = "target" => read[c]["up"] = Request[c]
  /\ sent' = [sent EXCEPT ![c][From(p)] = @ + 1]
  /\ waiting' = [waiting EXCEPT ![c][From(p)] = @ + 1]
  /\ UNCHANGED <<programVars, acceptVars, sock, threadVars, unread, read, ends>>

Read(c, p) ==
  /\ ends[c][p] \in {"open", "half"} /\ unread[c][To(p)] > 0
  /\ unread' = [unread EXCEPT ![c][To(p)] = @ - 1]
  /\ read' = [read EXCEPT ![c][To(p)] = @ + 1]
  /\ UNCHANGED <<programVars, acceptVars, sock, threadVars, waiting, sent, ends>>

HalfClose(c) ==
  /\ ends[c].client = "open" /\ Request[c] > 0 /\ sent[c]["up"] = Request[c]
  /\ ends' = [ends EXCEPT ![c].client = "half"]
  /\ UNCHANGED <<programVars, acceptVars, sock, threadVars, wireVars>>

HangUp(c, p) ==
  /\ c \in Leaving /\ ends[c][p] \in {"open", "half"}
  /\ ends' = [ends EXCEPT ![c][p] = "gone"]
  /\ unread' = [unread EXCEPT ![c][To(p)] = 0]
  /\ UNCHANGED <<programVars, acceptVars, sock, threadVars, waiting, sent, read>>

Peer(c, p) == Write(c, p) \/ Read(c, p)

-----------------------------------------------------------------------------
Next ==
  \/ AcceptFails
  \/ \E c \in Clients :
       \/ Relaying(c) \/ Dial(c) \/ HalfClose(c)
       \/ \E w \in Ways : Forward(c, w)
       \/ \E p \in Peers : Peer(c, p) \/ HangUp(c, p)

Spec == Init /\ [][Next]_vars

(* The relay goes on while it can, connect returning after its timeout at  *)
(* the latest, and ends that are there write and read what there is to     *)
(* write and to read.  Nothing is said of a single thread or connection:   *)
(* each has a bounded number of steps to make, and is not starved.         *)
RelayStep == \E c \in Clients : Relaying(c) \/ \E w \in Ways : Forward(c, w)
PeerStep == \E c \in Clients, p \in Peers : Peer(c, p)

FairSpec == Spec /\ WF_vars(RelayStep) /\ WF_vars(PeerStep)

-----------------------------------------------------------------------------
(* Accept has not failed, and neither end has done anything but write, the *)
(* gateway at least until it has written the whole answer.                 *)
Undisturbed(c) ==
  /\ failures = 0
  /\ ends[c].client \in {"none", "open"}
  /\ ends[c].target \in {"none", "open"} \/ sent[c]["down"] = Answer[c]

(* As long as nobody hangs up the relay cannot be noticed: both sockets    *)
(* stay open, also when other connections end or cannot be made, and what  *)
(* one side wrote is on its way to the other or has been read, all of it.  *)
RelayIsTransparent ==
  \A c \in Clients :
    Undisturbed(c) =>
      /\ sent[c]["down"] =
           waiting[c]["down"] + data[c]["down"] + unread[c]["down"] + read[c]["down"]
      /\ ends[c].target # "gone" =>
           /\ \A p \in Peers : sock[c][p] # "closed"
           /\ sent[c]["up"] = waiting[c]["up"] + data[c]["up"] + unread[c]["up"] + read[c]["up"]

(* A client that stays until it has the answer of a gateway that gives it  *)
(* gets the whole of it, also from one that closes as soon as it has       *)
(* written it, whatever becomes of others.                                 *)
AnswersArrive ==
  \A c \in {c \in Clients : Answer[c] > 0} :
    ends[c].client = "open" ~> read[c]["down"] = Answer[c] \/ ~Undisturbed(c)

(* When one end has hung up, the other learns of it and both threads end;  *)
(* where closing a socket does not wake who waits for it, they may wait on *)
(* for the next thing to come from the other end, and for nothing else.    *)
AllClosed(c) ==
  /\ \A w \in Ways : thread[c][w] \in {"none", "done"}
  /\ \A p \in Peers : sock[c][p] # "open"

OnlyWaits(c) ==
  \E w \in Ways :
    /\ ~wakes /\ thread[c][w] = "recv"
    /\ waiting[c][w] = 0 /\ ends[c][Src(w)] = "open"
    /\ \A p \in Peers : sock[c][p] = "closed"

HangUpsArePassedOn ==
  \A c \in Clients :
    (\E p \in Peers : ends[c][p] = "gone") /\ sock[c].client # "none"
      ~> [](AllClosed(c) \/ OnlyWaits(c))
=============================================================================
