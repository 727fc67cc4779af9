----------------------------- MODULE RelayProofs -----------------------------
(***************************************************************************)
(* Proofs about Relay, for any number of clients and any lengths of        *)
(* requests and answers: what is relayed is neither lost nor cut short as  *)
(* long as nobody hangs up.                                                *)
(***************************************************************************)
EXTENDS Relay, TLAPS

RelayTypeOK ==
  /\ program \in {"tcp_relay", "win_proxy"}
  /\ main \in {"accept", "connect", "down"}
  /\ client \in Clients \cup {Nobody}
  /\ handler \in [Clients -> {"none", "connect", "done"}]
  /\ failures \in Nat
  /\ sock \in [Clients -> [Peers -> {"none", "open", "closed"}]]
  /\ thread \in [Clients -> [Ways -> {"none", "recv", "send", "close_src", "close_dst", "done"}]]
  /\ data \in [Clients -> [Ways -> Nat]]
  /\ waiting \in [Clients -> [Ways -> Nat]]
  /\ unread \in [Clients -> [Ways -> Nat]]
  /\ sent \in [Clients -> [Ways -> Nat]]
  /\ read \in [Clients -> [Ways -> Nat]]
  /\ ends \in [Clients -> [Peers -> {"none", "open", "half", "gone"}]]

-----------------------------------------------------------------------------
(* Nothing is made up on the way: what has not been lost was written, and  *)
(* no more than there is to write.  Only a thread in sendall holds parts.  *)
OnTheWay(c, w) == waiting[c][w] + data[c][w] + unread[c][w] + read[c][w]

NothingIsMadeUp(c) ==
  \A w \in Ways :
    /\ OnTheWay(c, w) <= sent[c][w]
    /\ sent[c][w] <= Total(c, w)
    /\ thread[c][w] = "send" <=> data[c][w] > 0

(* A connection is relayed once it is connected, and connected once.       *)
ConnectsOnce(c) ==
  /\ sock[c].client = "none" => ~Connecting(c)
  /\ sock[c].client = "none" \/ Connecting(c) => ends[c].target = "none"
  /\ ends[c].target = "none" =>
       /\ \A w \in Ways : thread[c][w] = "none"
       /\ sent[c]["down"] = 0
  /\ sock[c].target = "none" => \A w \in Ways : thread[c][w] = "none"
  /\ ends[c].target # "half"

(* The answer follows the whole request.                                   *)
AnswersWhatItHasRead(c) == sent[c]["down"] > 0 => read[c]["up"] = Request[c]

(* While the gateway is there nobody closes anything.  When it has gone    *)
(* with its answer written, nobody closes the client's socket or leaves    *)
(* the way up before the way down has delivered and ended.                 *)
Closing(c, w) == thread[c][w] \in {"close_src", "close_dst", "done"}

NothingIsLost(c) ==
  Undisturbed(c) =>
    /\ sent[c]["down"] = OnTheWay(c, "down")
    /\ ends[c].target # "gone" =>
         /\ sent[c]["up"] = OnTheWay(c, "up")
         /\ \A p \in Peers : sock[c][p] # "closed"
         /\ \A w \in Ways : ~Closing(c, w)
    /\ (ends[c].target = "gone" /\ Answer[c] > 0) =>
         (Closing(c, "up") \/ sock[c].client = "closed" => thread[c]["down"] = "done")

ConnectionInvariant(c) ==
  /\ NothingIsMadeUp(c)
  /\ ConnectsOnce(c)
  /\ AnswersWhatItHasRead(c)
  /\ NothingIsLost(c)

RelayInvariant == RelayTypeOK /\ \A c \in Clients : ConnectionInvariant(c)

-----------------------------------------------------------------------------
USE PartsAssumption DEF Ways, Peers

LEMMA RelayInitially == Init => RelayInvariant
<1> SUFFICES ASSUME Init PROVE RelayInvariant
  OBVIOUS
<1> USE DEF Init, Nothing
<1>1. RelayTypeOK
  BY DEF RelayTypeOK
<1>2. ASSUME NEW c \in Clients PROVE ConnectionInvariant(c)
  <2>1. NothingIsMadeUp(c)
    BY DEF NothingIsMadeUp, OnTheWay, Total
  <2>2. ConnectsOnce(c) /\ AnswersWhatItHasRead(c)
    BY DEF ConnectsOnce, Connecting, AnswersWhatItHasRead, Nobody
  <2>3. NothingIsLost(c)
    BY DEF NothingIsLost, OnTheWay, Closing
  <2> QED
    BY <2>1, <2>2, <2>3 DEF ConnectionInvariant
<1> QED
  BY <1>1, <1>2 DEF RelayInvariant

(* A step of one connection leaves the others alone.                       *)
Untouched(c) ==
  /\ sock'[c] = sock[c] /\ thread'[c] = thread[c] /\ data'[c] = data[c]
  /\ waiting'[c] = waiting[c] /\ unread'[c] = unread[c]
  /\ sent'[c] = sent[c] /\ read'[c] = read[c] /\ ends'[c] = ends[c]

LEMMA OthersKeepTheirs ==
  ASSUME RelayInvariant, RelayTypeOK', NEW c \in Clients, Untouched(c),
         failures' >= failures, Connecting(c)' => Connecting(c)
  PROVE  ConnectionInvariant(c)'
<1> USE DEF RelayInvariant, ConnectionInvariant, Untouched
<1>1. NothingIsMadeUp(c)'
  BY DEF NothingIsMadeUp, OnTheWay, Total
<1>2. ConnectsOnce(c)' /\ AnswersWhatItHasRead(c)'
  BY DEF ConnectsOnce, AnswersWhatItHasRead
<1>3. Undisturbed(c)' => Undisturbed(c)
  BY DEF Undisturbed, RelayTypeOK
<1>4. NothingIsLost(c)'
  BY <1>3 DEF NothingIsLost, OnTheWay, Closing
<1> QED
  BY <1>1, <1>2, <1>4

(* The facts of one connection that its steps need, as numbers.            *)
LEMMA Facts ==
  ASSUME RelayInvariant, NEW c \in Clients
  PROVE  /\ \A w \in Ways : /\ data[c][w] \in Nat /\ waiting[c][w] \in Nat
                            /\ unread[c][w] \in Nat /\ read[c][w] \in Nat
                            /\ sent[c][w] \in Nat
         /\ waiting[c]["up"] \in Nat /\ data[c]["up"] \in Nat /\ unread[c]["up"] \in Nat
         /\ read[c]["up"] \in Nat /\ sent[c]["up"] \in Nat
         /\ waiting[c]["down"] \in Nat /\ data[c]["down"] \in Nat /\ unread[c]["down"] \in Nat
         /\ read[c]["down"] \in Nat /\ sent[c]["down"] \in Nat
         /\ Request[c] \in Nat /\ Answer[c] \in Nat
         /\ RelayTypeOK
         /\ ConnectionInvariant(c)
BY DEF RelayInvariant, RelayTypeOK

(* What closing a socket may do to the connection.                         *)
LEMMA ClosingOne ==
  ASSUME RelayTypeOK, NEW c \in Clients, NEW p \in Peers, sock' = Closed(c, p), MayReset(c, p)
  PROVE  /\ sock' \in [Clients -> [Peers -> {"none", "open", "closed"}]]
         /\ unread' \in [Clients -> [Ways -> Nat]]
         /\ \A d \in Clients \ {c} : sock'[d] = sock[d] /\ unread'[d] = unread[d]
         /\ sock'[c][p] = "closed"
         /\ \A q \in Peers \ {p} : sock'[c][q] = sock[c][q]
         /\ \A w \in Ways : unread'[c][w] = unread[c][w] \/ unread'[c][w] = 0
         /\ \A w \in Ways :
              \/ w = To(p) /\ waiting[c][From(p)] > 0
              \/ unread'[c][w] = unread[c][w]
<1>1. To(p) \in Ways
  BY DEF To
<1>2. /\ sock' \in [Clients -> [Peers -> {"none", "open", "closed"}]]
      /\ \A d \in Clients \ {c} : sock'[d] = sock[d]
      /\ sock'[c][p] = "closed"
      /\ \A q \in Peers \ {p} : sock'[c][q] = sock[c][q]
  BY DEF RelayTypeOK, Closed
<1>3. CASE unread' = unread
  <2>1. unread \in [Clients -> [Ways -> Nat]] /\ \A w \in Ways : unread[c][w] \in Nat
    BY DEF RelayTypeOK
  <2>2. \A w \in Ways : unread'[c][w] = unread[c][w]
    BY <1>3, <2>1
  <2> QED
    BY <1>2, <1>3, <2>1, <2>2
<1>4. CASE waiting[c][From(p)] > 0 /\ unread' = [unread EXCEPT ![c][To(p)] = 0]
  <2>1. unread' \in [Clients -> [Ways -> Nat]]
    BY <1>1, <1>4 DEF RelayTypeOK
  <2>2. \A d \in Clients \ {c} : unread'[d] = unread[d]
    BY <1>4 DEF RelayTypeOK
  <2>3. \A w \in Ways : unread'[c][w] = IF w = To(p) THEN 0 ELSE unread[c][w]
    BY <1>1, <1>4 DEF RelayTypeOK
  <2>4. \A w \in Ways : unread[c][w] \in Nat
    BY DEF RelayTypeOK
  <2> QED
    BY <1>2, <1>4, <2>1, <2>2, <2>3, <2>4
<1> QED
  BY <1>3, <1>4 DEF MayReset

-----------------------------------------------------------------------------
(* The accepting thread.                                                   *)
LEMMA AcceptKeeps ==
  ASSUME RelayInvariant, NEW c \in Clients, Accept(c)
  PROVE  RelayInvariant'
<1>1. RelayTypeOK'
  BY DEF RelayInvariant, RelayTypeOK, Accept, programVars, threadVars, wireVars
<1>2. ASSUME NEW d \in Clients \ {c} PROVE ConnectionInvariant(d)'
  <2>1. Untouched(d)
    BY <1>1 DEF Untouched, RelayInvariant, RelayTypeOK, Accept, threadVars, wireVars
  <2>2. failures' >= failures /\ (Connecting(d)' => Connecting(d))
    BY <1>1 DEF RelayInvariant, RelayTypeOK, Accept, Connecting, programVars
  <2> QED
    BY <1>1, <2>1, <2>2, OthersKeepTheirs
<1>3. ConnectionInvariant(c)'
  <2>1. NothingIsMadeUp(c)' /\ AnswersWhatItHasRead(c)'
    BY Facts DEF ConnectionInvariant, NothingIsMadeUp, OnTheWay, Total, AnswersWhatItHasRead,
                 Accept, threadVars, wireVars
  <2>2. ends[c].target = "none"
    BY Facts DEF ConnectionInvariant, ConnectsOnce, Accept
  <2>3. ConnectsOnce(c)'
    BY <2>2, Facts DEF ConnectionInvariant, ConnectsOnce, RelayInvariant, RelayTypeOK, Accept,
                       threadVars, wireVars
  <2>4. NothingIsLost(c)'
    BY Facts DEF ConnectionInvariant, NothingIsLost, OnTheWay, Closing, Undisturbed,
                 RelayInvariant, RelayTypeOK, Accept, threadVars, wireVars
  <2> QED
    BY <2>1, <2>3, <2>4 DEF ConnectionInvariant
<1> QED
  BY <1>1, <1>2, <1>3 DEF RelayInvariant

LEMMA AcceptFailsKeeps ==
  ASSUME RelayInvariant, AcceptFails
  PROVE  RelayInvariant'
<1>1. RelayTypeOK'
  <2>1. CASE program = "tcp_relay"
    BY <2>1 DEF RelayInvariant, RelayTypeOK, AcceptFails, programVars, Nothing
  <2>2. CASE program # "tcp_relay"
    <3>1. CASE client = Nobody \/ sock[client].client = "closed"
      BY <2>2, <3>1 DEF RelayInvariant, RelayTypeOK, AcceptFails, programVars, threadVars
    <3>2. CASE ~(client = Nobody \/ sock[client].client = "closed")
      <4>1. client \in Clients /\ sock' = Closed(client, "client") /\ MayReset(client, "client")
        BY <2>2, <3>2 DEF AcceptFails, RelayInvariant, RelayTypeOK
      <4> QED
        BY <2>2, <4>1, ClosingOne
           DEF RelayInvariant, RelayTypeOK, AcceptFails, programVars, threadVars
    <3> QED
      BY <3>1, <3>2
  <2> QED
    BY <2>1, <2>2
<1>2. failures' > 0
  BY DEF RelayInvariant, RelayTypeOK, AcceptFails
<1>3. ASSUME NEW c \in Clients PROVE ConnectionInvariant(c)'
  <2>1. /\ sent'[c] = sent[c] /\ read'[c] = read[c] /\ waiting'[c] = waiting[c]
        /\ ends'[c] = ends[c]
    BY DEF AcceptFails
  <2>2. /\ \A w \in Ways : unread'[c][w] = unread[c][w] \/ unread'[c][w] = 0
        /\ \A w \in Ways : \/ data'[c][w] = 0 /\ thread'[c][w] # "send"
                           \/ data'[c][w] = data[c][w] /\ thread'[c][w] = thread[c][w]
        /\ \A w \in Ways : thread[c][w] = "none" => thread'[c][w] = "none"
        /\ \A p \in Peers : sock'[c][p] = "none" => sock[c][p] = "none"
        /\ ~Connecting(c)'
    <3>1. CASE program = "tcp_relay"
      <4>1. /\ \A w \in Ways : data'[c][w] = 0 /\ thread'[c][w] \in {"none", "done"}
                               /\ (thread[c][w] = "none" => thread'[c][w] = "none")
            /\ unread' = unread
        BY <3>1 DEF AcceptFails, Nothing
      <4>2. sock'[c] = [p \in Peers |-> IF sock[c][p] = "none" THEN "none" ELSE "closed"]
        BY <3>1 DEF AcceptFails
      <4>3. \A p \in Peers : sock'[c][p] = "none" => sock[c][p] = "none"
        BY <4>2 DEF RelayInvariant, RelayTypeOK
      <4>4. ~Connecting(c)'
        BY <3>1 DEF AcceptFails, programVars, Connecting
      <4>5. unread'[c] = unread[c]
        BY <4>1
      <4>6. \A w \in Ways : data'[c][w] = 0 /\ thread'[c][w] # "send"
        BY <4>1
      <4>7. \A w \in Ways : thread[c][w] = "none" => thread'[c][w] = "none"
        BY <4>1
      <4> QED
        BY <4>3, <4>4, <4>5, <4>6, <4>7
    <3>2. CASE program # "tcp_relay"
      <4>1. thread' = thread /\ data' = data /\ main' = "accept" /\ program' = program
        BY <3>2 DEF AcceptFails, threadVars, programVars
      <4>2. ~Connecting(c)'
        BY <3>2, <4>1 DEF Connecting, RelayInvariant, RelayTypeOK
      <4>3. /\ \A w \in Ways : unread'[c][w] = unread[c][w] \/ unread'[c][w] = 0
            /\ \A p \in Peers : sock'[c][p] = "none" => sock[c][p] = "none"
        <5>1. CASE client = Nobody \/ sock[client].client = "closed"
          BY <3>2, <5>1, Facts DEF AcceptFails
        <5>2. CASE ~(client = Nobody \/ sock[client].client = "closed")
          <6>1. /\ client \in Clients
                /\ sock' = Closed(client, "client") /\ MayReset(client, "client")
            BY <3>2, <5>2 DEF AcceptFails, RelayInvariant, RelayTypeOK
          <6>2. CASE c = client
            <7>1. /\ sock'[c]["client"] = "closed"
                  /\ sock'[c]["target"] = sock[c]["target"]
                  /\ \A w \in Ways : unread'[c][w] = unread[c][w] \/ unread'[c][w] = 0
              BY <6>1, <6>2, ClosingOne, Facts
            <7> QED
              BY <7>1
          <6>3. CASE c # client
            <7>1. sock'[c] = sock[c] /\ unread'[c] = unread[c]
              BY <6>1, <6>3, ClosingOne, Facts
            <7> QED
              BY <7>1, Facts
          <6> QED
            BY <6>2, <6>3
        <5> QED
          BY <5>1, <5>2
      <4> QED
        BY <4>1, <4>2, <4>3, Facts
    <3> QED
      BY <3>1, <3>2
  <2>3. NothingIsMadeUp(c)' /\ AnswersWhatItHasRead(c)'
    BY <2>1, <2>2, Facts
       DEF ConnectionInvariant, NothingIsMadeUp, OnTheWay, Total, AnswersWhatItHasRead
  <2>4. ConnectsOnce(c)'
    BY <2>1, <2>2, Facts DEF ConnectionInvariant, ConnectsOnce
  <2>5. NothingIsLost(c)'
    BY <1>2 DEF NothingIsLost, Undisturbed
  <2> QED
    BY <2>3, <2>4, <2>5 DEF ConnectionInvariant
<1> QED
  BY <1>1, <1>3 DEF RelayInvariant

LEMMA ConnectKeeps ==
  ASSUME RelayInvariant, NEW c \in Clients, Connect(c)
  PROVE  RelayInvariant'
<1>1. RelayTypeOK'
  BY DEF RelayInvariant, RelayTypeOK, Connect, Connecting, Connected, programVars, wireVars
<1>2. ASSUME NEW d \in Clients \ {c} PROVE ConnectionInvariant(d)'
  <2>1. Untouched(d)
    BY <1>1 DEF Untouched, RelayInvariant, RelayTypeOK, Connect, wireVars
  <2>2. failures' >= failures /\ (Connecting(d)' => Connecting(d))
    BY <1>1 DEF RelayInvariant, RelayTypeOK, Connect, Connecting, Connected, programVars
  <2> QED
    BY <1>1, <2>1, <2>2, OthersKeepTheirs
<1>3. ConnectionInvariant(c)'
  <2>1. /\ ends[c].target = "none" /\ sock[c].client # "none"
        /\ \A w \in Ways : thread[c][w] = "none"
        /\ sent[c]["down"] = 0
    BY Facts DEF ConnectionInvariant, ConnectsOnce, Connect
  <2>2. /\ \A w \in Ways : thread'[c][w] = "recv"
        /\ ends'[c].target = "open" /\ ends'[c].client = ends[c].client
        /\ sock'[c].client = sock[c].client /\ sock'[c].target = "open"
        /\ UNCHANGED wireVars /\ UNCHANGED <<data, failures>>
    BY DEF Connect, RelayInvariant, RelayTypeOK
  <2>3. NothingIsMadeUp(c)' /\ AnswersWhatItHasRead(c)'
    BY <2>1, <2>2, Facts
       DEF ConnectionInvariant, NothingIsMadeUp, OnTheWay, Total, AnswersWhatItHasRead, wireVars
  <2>4. ConnectsOnce(c)'
    <3>1. ~Connecting(c)'
      BY DEF Connect, Connecting, Connected, programVars, RelayInvariant, RelayTypeOK
    <3> QED
      BY <2>1, <2>2, <3>1 DEF ConnectsOnce
  <2>5. NothingIsLost(c)'
    BY <2>1, <2>2, Facts
       DEF ConnectionInvariant, NothingIsLost, OnTheWay, Closing, Undisturbed, wireVars
  <2> QED
    BY <2>3, <2>4, <2>5 DEF ConnectionInvariant
<1> QED
  BY <1>1, <1>2, <1>3 DEF RelayInvariant

LEMMA ConnectFailsKeeps ==
  ASSUME RelayInvariant, NEW c \in Clients, ConnectFails(c)
  PROVE  RelayInvariant'
<1>1. RelayTypeOK'
  BY ClosingOne DEF RelayInvariant, RelayTypeOK, ConnectFails, Connecting, Connected,
                    programVars, threadVars
<1>2. ASSUME NEW d \in Clients \ {c} PROVE ConnectionInvariant(d)'
  <2>1. Untouched(d)
    BY <1>1 DEF Untouched, RelayInvariant, RelayTypeOK, ConnectFails, threadVars, Closed, MayReset
  <2>2. failures' >= failures /\ (Connecting(d)' => Connecting(d))
    BY <1>1 DEF RelayInvariant, RelayTypeOK, ConnectFails, Connecting, Connected, programVars
  <2> QED
    BY <1>1, <2>1, <2>2, OthersKeepTheirs
<1>3. ConnectionInvariant(c)'
  <2>1. /\ ends[c].target = "none" /\ sock[c].client # "none"
        /\ \A w \in Ways : thread[c][w] = "none"
        /\ sent[c]["down"] = 0
    BY Facts DEF ConnectionInvariant, ConnectsOnce, ConnectFails
  <2>2. /\ ends'[c].target = "gone" /\ ends'[c].client = ends[c].client
        /\ sock'[c].client = "closed"
        /\ \A w \in Ways : unread'[c][w] = unread[c][w] \/ unread'[c][w] = 0
        /\ UNCHANGED <<thread, data, failures, waiting, sent, read>>
    <3>1. sock' = Closed(c, "client") /\ MayReset(c, "client") /\ RelayTypeOK
      BY DEF ConnectFails, RelayInvariant
    <3>2. /\ sock'[c]["client"] = "closed"
          /\ \A w \in Ways : unread'[c][w] = unread[c][w] \/ unread'[c][w] = 0
      BY <3>1, ClosingOne
    <3>3. /\ ends'[c].target = "gone" /\ ends'[c].client = ends[c].client
          /\ UNCHANGED <<thread, data, failures, waiting, sent, read>>
      BY DEF ConnectFails, threadVars, RelayInvariant, RelayTypeOK
    <3> QED
      BY <3>2, <3>3
  <2>3. NothingIsMadeUp(c)' /\ AnswersWhatItHasRead(c)'
    BY <2>2, Facts
       DEF ConnectionInvariant, NothingIsMadeUp, OnTheWay, Total, AnswersWhatItHasRead
  <2>4. ConnectsOnce(c)'
    <3>1. ~Connecting(c)'
      BY DEF ConnectFails, Connecting, Connected, programVars, RelayInvariant, RelayTypeOK
    <3>2. \A w \in Ways : thread'[c][w] = "none"
      BY <2>1, <2>2
    <3> QED
      BY <2>2, <3>1, <3>2 DEF ConnectsOnce
  <2>5. NothingIsLost(c)'
    <3>1. OnTheWay(c, "down") = 0 /\ OnTheWay(c, "down")' = 0
      <4>1. OnTheWay(c, "down") <= 0
        BY <2>1, Facts DEF ConnectionInvariant, NothingIsMadeUp
      <4>2. /\ waiting[c]["down"] = 0 /\ data[c]["down"] = 0
            /\ unread[c]["down"] = 0 /\ read[c]["down"] = 0
        <5>1. /\ waiting[c]["down"] \in Nat /\ data[c]["down"] \in Nat
              /\ unread[c]["down"] \in Nat /\ read[c]["down"] \in Nat
          BY Facts
        <5>2. waiting[c]["down"] + data[c]["down"] + unread[c]["down"] + read[c]["down"] <= 0
          BY <4>1 DEF OnTheWay
        <5> QED
          BY <5>1, <5>2
      <4> QED
        BY <2>2, <4>2 DEF OnTheWay
    <3> QED
      BY <2>1, <2>2, <3>1, Facts DEF NothingIsLost, Undisturbed
  <2> QED
    BY <2>3, <2>4, <2>5 DEF ConnectionInvariant
<1> QED
  BY <1>1, <1>2, <1>3 DEF RelayInvariant

-----------------------------------------------------------------------------
(* forward.  What is the case when the gateway has gone with its answer    *)
(* written.                                                                *)
LEMMA AnswerFollows ==
  ASSUME RelayInvariant, NEW c \in Clients, Undisturbed(c), ends[c].target = "gone"
  PROVE  /\ Answer[c] > 0 => waiting[c]["up"] = 0 /\ thread[c]["up"] # "send"
         /\ Answer[c] = 0 => unread[c]["down"] = 0 /\ thread[c]["down"] # "send"
<1>1. sent[c]["down"] = Answer[c]
  BY DEF Undisturbed
<1>2. /\ waiting[c]["up"] \in Nat /\ data[c]["up"] \in Nat /\ unread[c]["up"] \in Nat
      /\ read[c]["up"] \in Nat /\ sent[c]["up"] \in Nat
      /\ waiting[c]["down"] \in Nat /\ data[c]["down"] \in Nat /\ unread[c]["down"] \in Nat
      /\ read[c]["down"] \in Nat /\ sent[c]["down"] \in Nat
      /\ Request[c] \in Nat /\ Answer[c] \in Nat
  BY Facts
<1>3. /\ waiting[c]["up"] + data[c]["up"] + unread[c]["up"] + read[c]["up"] <= sent[c]["up"]
      /\ sent[c]["up"] <= Request[c]
      /\ waiting[c]["down"] + data[c]["down"] + unread[c]["down"] + read[c]["down"]
           <= sent[c]["down"]
      /\ thread[c]["up"] = "send" <=> data[c]["up"] > 0
      /\ thread[c]["down"] = "send" <=> data[c]["down"] > 0
  BY Facts DEF ConnectionInvariant, NothingIsMadeUp, OnTheWay, Total
<1>4. sent[c]["down"] > 0 => read[c]["up"] = Request[c]
  BY Facts DEF ConnectionInvariant, AnswersWhatItHasRead
<1>5. ASSUME Answer[c] > 0 PROVE waiting[c]["up"] = 0 /\ data[c]["up"] = 0
  <2>1. read[c]["up"] = Request[c]
    BY <1>1, <1>4, <1>5
  <2>2. waiting[c]["up"] + data[c]["up"] + unread[c]["up"] + Request[c] <= Request[c]
    BY <1>2, <1>3, <2>1
  <2> QED
    BY <1>2, <2>2
<1>6. ASSUME Answer[c] = 0 PROVE unread[c]["down"] = 0 /\ data[c]["down"] = 0
  <2>1. waiting[c]["down"] + data[c]["down"] + unread[c]["down"] + read[c]["down"] <= 0
    BY <1>1, <1>3, <1>6
  <2> QED
    BY <1>2, <2>1
<1> QED
  BY <1>3, <1>5, <1>6

(* The thread moves, nothing else of the accepting thread or other         *)
(* connections.                                                            *)
LEMMA ForwardElsewhere ==
  ASSUME RelayInvariant, RelayTypeOK', NEW c \in Clients, UNCHANGED <<programVars, acceptVars>>,
         \A d \in Clients \ {c} : Untouched(d), ConnectionInvariant(c)'
  PROVE  RelayInvariant'
<1>1. ASSUME NEW d \in Clients \ {c} PROVE ConnectionInvariant(d)'
  <2>1. failures' >= failures /\ (Connecting(d)' => Connecting(d))
    BY DEF acceptVars, programVars, Connecting, RelayInvariant, RelayTypeOK
  <2> QED
    BY <2>1, OthersKeepTheirs
<1> QED
  BY <1>1 DEF RelayInvariant

LEMMA RecvKeeps ==
  ASSUME RelayInvariant, NEW c \in Clients, NEW w \in Ways, Recv(c, w)
  PROVE  RelayInvariant'
<1> PICK n \in 1 .. waiting[c][w] :
      /\ data' = [data EXCEPT ![c][w] = n]
      /\ waiting' = [waiting EXCEPT ![c][w] = @ - n]
  BY DEF Recv
<1>1. /\ thread[c][w] = "recv" /\ thread' = [thread EXCEPT ![c][w] = "send"]
      /\ UNCHANGED <<programVars, acceptVars, sock, unread, sent, read, ends>>
      /\ waiting[c][w] \in Nat /\ n \in Nat /\ n > 0 /\ n <= waiting[c][w]
  BY Facts DEF Recv, Goes
<1>2. RelayTypeOK'
  <2>1. data' \in [Clients -> [Ways -> Nat]]
    BY <1>1 DEF RelayInvariant, RelayTypeOK
  <2>2. waiting[c][w] - n \in Nat
    BY <1>1
  <2>3. waiting' \in [Clients -> [Ways -> Nat]]
    BY <2>2 DEF RelayInvariant, RelayTypeOK
  <2> QED
    BY <1>1, <2>1, <2>3 DEF RelayInvariant, RelayTypeOK, programVars, acceptVars
<1>3. \A d \in Clients \ {c} : Untouched(d)
  BY <1>1 DEF Untouched, RelayInvariant, RelayTypeOK
<1>4. /\ data'[c][w] = n /\ waiting'[c][w] = waiting[c][w] - n
      /\ thread'[c][w] = "send"
      /\ \A v \in Ways \ {w} : /\ data'[c][v] = data[c][v] /\ waiting'[c][v] = waiting[c][v]
                               /\ thread'[c][v] = thread[c][v]
  BY <1>1 DEF RelayInvariant, RelayTypeOK
<1>5. data[c][w] = 0
  BY <1>1, Facts DEF ConnectionInvariant, NothingIsMadeUp
<1>6. \A v \in Ways : OnTheWay(c, v)' = OnTheWay(c, v)
  BY <1>1, <1>4, <1>5, Facts DEF OnTheWay
<1>7. NothingIsMadeUp(c)' /\ AnswersWhatItHasRead(c)'
  BY <1>1, <1>4, <1>6, Facts DEF ConnectionInvariant, NothingIsMadeUp, Total, AnswersWhatItHasRead
<1>8. ConnectsOnce(c)'
  BY <1>1, <1>4, Facts DEF ConnectionInvariant, ConnectsOnce, Connecting, programVars, acceptVars
<1>9. NothingIsLost(c)'
  <2>1. \A v \in Ways : Closing(c, v)' <=> Closing(c, v)
    BY <1>1, <1>4 DEF Closing
  <2> QED
    BY <1>1, <1>4, <1>6, <2>1, Facts
       DEF ConnectionInvariant, NothingIsLost, Undisturbed, acceptVars
<1> QED
  BY <1>1, <1>2, <1>3, <1>7, <1>8, <1>9, ForwardElsewhere DEF ConnectionInvariant

LEMMA RecvEndsKeeps ==
  ASSUME RelayInvariant, NEW c \in Clients, NEW w \in Ways, RecvEnds(c, w)
  PROVE  RelayInvariant'
<1>1. /\ thread[c][w] = "recv" /\ thread' = [thread EXCEPT ![c][w] = "close_src"]
      /\ ends[c][Src(w)] \in {"half", "gone"} \/ sock[c][Src(w)] = "closed"
      /\ UNCHANGED <<programVars, acceptVars, sock, data, wireVars, ends>>
  BY DEF RecvEnds, Goes, AtAnEnd
<1>2. RelayTypeOK' /\ \A d \in Clients \ {c} : Untouched(d)
  BY <1>1 DEF RelayInvariant, RelayTypeOK, Untouched, programVars, acceptVars, wireVars
<1>3. thread'[c][w] = "close_src" /\ \A v \in Ways \ {w} : thread'[c][v] = thread[c][v]
  BY <1>1 DEF RelayInvariant, RelayTypeOK
<1>4. NothingIsMadeUp(c)' /\ AnswersWhatItHasRead(c)'
  BY <1>1, <1>3, Facts DEF ConnectionInvariant, NothingIsMadeUp, OnTheWay, Total,
                           AnswersWhatItHasRead, wireVars
<1>5. ConnectsOnce(c)'
  BY <1>1, <1>3, Facts DEF ConnectionInvariant, ConnectsOnce, Connecting, programVars,
                           acceptVars, wireVars
<1>6. NothingIsLost(c)'
  <2> SUFFICES ASSUME Undisturbed(c)
               PROVE  /\ ends[c].target = "gone" /\ OnTheWay(c, "down")' = OnTheWay(c, "down")
                      /\ Answer[c] > 0 /\ (Closing(c, "up")' \/ sock[c].client = "closed")
                           => thread'[c]["down"] = "done"
    BY <1>1, Facts DEF ConnectionInvariant, NothingIsLost, Undisturbed, acceptVars, wireVars
  <2>1. ends[c].client \in {"none", "open"} /\ ends[c].target # "half"
    BY Facts DEF Undisturbed, ConnectionInvariant, ConnectsOnce
  <2>2. ends[c].target = "gone"
    BY <1>1, <2>1, Facts DEF ConnectionInvariant, NothingIsLost, Src
  <2>3. OnTheWay(c, "down")' = OnTheWay(c, "down")
    BY <1>1 DEF OnTheWay, wireVars
  <2>4. Answer[c] > 0 /\ (Closing(c, "up") \/ sock[c].client = "closed") =>
          thread[c]["down"] = "done"
    BY <2>2, Facts DEF ConnectionInvariant, NothingIsLost
  <2>5. CASE w = "up"
    <3>1. sock[c].client = "closed" /\ thread'[c]["down"] = thread[c]["down"]
      BY <1>1, <1>3, <2>1, <2>5 DEF Src
    <3> QED
      BY <2>2, <2>3, <2>4, <3>1
  <2>6. CASE w = "down"
    <3>1. Closing(c, "up")' <=> Closing(c, "up")
      BY <1>3, <2>6 DEF Closing
    <3> QED
      BY <1>1, <2>2, <2>3, <2>4, <2>6, <3>1
  <2> QED
    BY <2>5, <2>6
<1> QED
  BY <1>1, <1>2, <1>4, <1>5, <1>6, ForwardElsewhere DEF ConnectionInvariant

LEMMA SendAllKeeps ==
  ASSUME RelayInvariant, NEW c \in Clients, NEW w \in Ways, SendAll(c, w)
  PROVE  RelayInvariant'
<1> DEFINE next == IF sock[c][Src(w)] = "open" THEN "recv" ELSE "close_src"
<1>1. /\ thread[c][w] = "send" /\ thread' = [thread EXCEPT ![c][w] = next]
      /\ sock[c][Dst(w)] = "open"
      /\ data' = [data EXCEPT ![c][w] = 0]
      /\ UNCHANGED <<programVars, acceptVars, sock, waiting, sent, read, ends>>
  BY DEF SendAll, Goes
<1>2. \/ ends[c][Dst(w)] = "gone" /\ unread' = unread
      \/ ends[c][Dst(w)] # "gone" /\ unread' = [unread EXCEPT ![c][w] = @ + data[c][w]]
  BY DEF SendAll, SentAll
<1>3. data[c][w] \in Nat /\ data[c][w] > 0 /\ unread[c][w] \in Nat
  BY <1>1, Facts DEF ConnectionInvariant, NothingIsMadeUp
<1>4. RelayTypeOK'
  <2>1. unread[c][w] + data[c][w] \in Nat
    BY <1>3
  <2>2. unread' \in [Clients -> [Ways -> Nat]]
    <3>1. unread \in [Clients -> [Ways -> Nat]]
      BY DEF RelayInvariant, RelayTypeOK
    <3>2. CASE ends[c][Dst(w)] = "gone"
      BY <1>2, <3>1, <3>2
    <3>3. CASE ends[c][Dst(w)] # "gone"
      BY <1>2, <2>1, <3>1, <3>3
    <3> QED
      BY <3>2, <3>3
  <2>3. data' \in [Clients -> [Ways -> Nat]]
    BY <1>1 DEF RelayInvariant, RelayTypeOK
  <2>4. thread' \in [Clients -> [Ways -> {"none", "recv", "send", "close_src", "close_dst", "done"}]]
    BY <1>1 DEF RelayInvariant, RelayTypeOK
  <2> QED
    BY <1>1, <2>2, <2>3, <2>4 DEF RelayInvariant, RelayTypeOK, programVars, acceptVars
<1>5. \A d \in Clients \ {c} : Untouched(d)
  BY <1>1, <1>2 DEF Untouched, RelayInvariant, RelayTypeOK
<1>6. /\ data'[c][w] = 0 /\ thread'[c][w] = next
      /\ unread'[c][w] = IF ends[c][Dst(w)] = "gone" THEN unread[c][w]
                                                     ELSE unread[c][w] + data[c][w]
      /\ \A v \in Ways \ {w} : /\ data'[c][v] = data[c][v] /\ unread'[c][v] = unread[c][v]
                               /\ thread'[c][v] = thread[c][v]
  BY <1>1, <1>2 DEF RelayInvariant, RelayTypeOK
<1> HIDE DEF next
<1>7. next = "recv" \/ (next = "close_src" /\ sock[c][Src(w)] # "open")
  BY DEF next
<1>8. \A v \in Ways : \/ OnTheWay(c, v)' = OnTheWay(c, v)
                      \/ /\ v = w /\ ends[c][Dst(w)] = "gone"
                         /\ OnTheWay(c, v)' = OnTheWay(c, v) - data[c][w]
  <2> TAKE v \in Ways
  <2>1. CASE v # w
    BY <1>1, <1>6, <2>1 DEF OnTheWay
  <2>2. CASE v = w
    BY <1>1, <1>3, <1>6, <2>2, Facts DEF OnTheWay
  <2> QED
    BY <2>1, <2>2
<1>9. NothingIsMadeUp(c)' /\ AnswersWhatItHasRead(c)'
  <2>1. \A v \in Ways : OnTheWay(c, v) <= sent[c][v] /\ sent[c][v] <= Total(c, v)
    BY Facts DEF ConnectionInvariant, NothingIsMadeUp
  <2>2. \A v \in Ways : OnTheWay(c, v) \in Nat /\ sent[c][v] \in Nat
    BY Facts DEF OnTheWay
  <2>3. \A v \in Ways : OnTheWay(c, v)' <= sent[c][v]
    BY <1>3, <1>8, <2>1, <2>2
  <2>4. \A v \in Ways : thread'[c][v] = "send" <=> data'[c][v] > 0
    BY <1>6, <1>7, Facts DEF ConnectionInvariant, NothingIsMadeUp
  <2>5. AnswersWhatItHasRead(c)'
    BY <1>1, Facts DEF ConnectionInvariant, AnswersWhatItHasRead
  <2> QED
    BY <1>1, <2>1, <2>3, <2>4, <2>5 DEF NothingIsMadeUp, Total
<1>10. ConnectsOnce(c)'
  BY <1>1, <1>6, Facts DEF ConnectionInvariant, ConnectsOnce, Connecting, programVars, acceptVars
<1>11. NothingIsLost(c)'
  <2> SUFFICES ASSUME Undisturbed(c)
               PROVE  NothingIsLost(c)'
    BY <1>1 DEF NothingIsLost, Undisturbed, acceptVars
  <2>1. ends[c].client \in {"none", "open"} /\ ends[c].target # "half"
    BY Facts DEF Undisturbed, ConnectionInvariant, ConnectsOnce
  <2>2. sent[c]["down"] = OnTheWay(c, "down")'
    <3>1. OnTheWay(c, "down")' = OnTheWay(c, "down")
      BY <1>8, <2>1 DEF Dst
    <3> QED
      BY <3>1, Facts DEF ConnectionInvariant, NothingIsLost
  <2>3. CASE ends[c].target # "gone"
    <3>1. OnTheWay(c, "up")' = OnTheWay(c, "up")
      BY <1>8, <2>1, <2>3 DEF Dst
    <3>2. /\ sent[c]["up"] = OnTheWay(c, "up") /\ \A p \in Peers : sock[c][p] # "closed"
          /\ \A v \in Ways : ~Closing(c, v)
      BY <2>3, Facts DEF ConnectionInvariant, NothingIsLost
    <3>3. sock[c].client # "none" /\ sock[c].target # "none"
      BY <1>1, Facts DEF ConnectionInvariant, ConnectsOnce
    <3>4. sock[c].client = "open" /\ sock[c].target = "open"
      BY <3>2, <3>3, Facts DEF RelayTypeOK
    <3>5. next = "recv"
      BY <1>7, <3>4 DEF Src
    <3>6. \A v \in Ways : ~Closing(c, v)'
      BY <1>6, <3>2, <3>5 DEF Closing
    <3> QED
      BY <1>1, <2>2, <2>3, <3>1, <3>2, <3>6 DEF NothingIsLost
  <2>4. CASE ends[c].target = "gone"
    <3>1. Answer[c] > 0 => w = "down"
      BY <1>1, <2>4, AnswerFollows
    <3>2. Answer[c] > 0 => ~Closing(c, "up") /\ sock[c].client # "closed"
      <4>1. Answer[c] > 0 => thread[c]["down"] = "send"
        BY <1>1, <3>1
      <4> QED
        BY <2>4, <4>1, Facts DEF ConnectionInvariant, NothingIsLost
    <3>3. Answer[c] > 0 => ~Closing(c, "up")' /\ sock'[c].client # "closed"
      BY <1>1, <1>6, <3>1, <3>2 DEF Closing
    <3> QED
      BY <1>1, <2>2, <2>4, <3>3 DEF NothingIsLost
  <2> QED
    BY <2>3, <2>4
<1> QED
  BY <1>1, <1>4, <1>5, <1>9, <1>10, <1>11, ForwardElsewhere DEF ConnectionInvariant

LEMMA SendFailsKeeps ==
  ASSUME RelayInvariant, NEW c \in Clients, NEW w \in Ways, SendFails(c, w)
  PROVE  RelayInvariant'
<1>1. /\ thread[c][w] = "send" /\ thread' = [thread EXCEPT ![c][w] = "close_src"]
      /\ sock[c][Dst(w)] = "closed" \/ ends[c][Dst(w)] = "gone"
      /\ data' = [data EXCEPT ![c][w] = 0]
      /\ UNCHANGED <<programVars, acceptVars, sock, wireVars, ends>>
  BY DEF SendFails, Goes
<1>2. RelayTypeOK'
  <2>1. data' \in [Clients -> [Ways -> Nat]]
    BY <1>1 DEF RelayInvariant, RelayTypeOK
  <2>2. thread' \in [Clients -> [Ways -> {"none", "recv", "send", "close_src", "close_dst", "done"}]]
    BY <1>1 DEF RelayInvariant, RelayTypeOK
  <2> QED
    BY <1>1, <2>1, <2>2 DEF RelayInvariant, RelayTypeOK, programVars, acceptVars, wireVars
<1>3. \A d \in Clients \ {c} : Untouched(d)
  BY <1>1 DEF Untouched, RelayInvariant, RelayTypeOK, wireVars
<1>4. /\ data'[c][w] = 0 /\ thread'[c][w] = "close_src"
      /\ \A v \in Ways \ {w} : data'[c][v] = data[c][v] /\ thread'[c][v] = thread[c][v]
  BY <1>1 DEF RelayInvariant, RelayTypeOK
<1>5. NothingIsMadeUp(c)' /\ AnswersWhatItHasRead(c)'
  <2>1. \A v \in Ways : OnTheWay(c, v)' <= OnTheWay(c, v)
    <3> TAKE v \in Ways
    <3>1. CASE v # w
      <4>1. OnTheWay(c, v)' = OnTheWay(c, v)
        BY <1>1, <1>4, <3>1 DEF OnTheWay, wireVars
      <4>2. OnTheWay(c, v) \in Nat
        BY Facts DEF OnTheWay
      <4> QED
        BY <4>1, <4>2
    <3>2. CASE v = w
      BY <1>1, <1>4, <3>2, Facts DEF OnTheWay, wireVars
    <3> QED
      BY <3>1, <3>2
  <2>2. \A v \in Ways : /\ OnTheWay(c, v) <= sent[c][v] /\ sent[c][v] <= Total(c, v)
                        /\ sent[c][v] \in Nat
    BY Facts DEF ConnectionInvariant, NothingIsMadeUp
  <2>3. \A v \in Ways : OnTheWay(c, v)' <= sent[c][v]
    <3>1. \A v \in Ways : OnTheWay(c, v) \in Nat /\ OnTheWay(c, v)' \in Nat
      <4>1. \A v \in Ways : data'[c][v] \in Nat
        BY <1>4, Facts
      <4> QED
        BY <1>1, <4>1, Facts DEF OnTheWay, wireVars
    <3> QED
      BY <2>1, <2>2, <3>1
  <2>4. \A v \in Ways : thread'[c][v] = "send" <=> data'[c][v] > 0
    BY <1>4, Facts DEF ConnectionInvariant, NothingIsMadeUp
  <2>5. AnswersWhatItHasRead(c)'
    BY <1>1, Facts DEF ConnectionInvariant, AnswersWhatItHasRead, wireVars
  <2> QED
    BY <1>1, <2>2, <2>3, <2>4, <2>5 DEF NothingIsMadeUp, Total, wireVars
<1>6. ConnectsOnce(c)'
  BY <1>1, <1>4, Facts DEF ConnectionInvariant, ConnectsOnce, Connecting, programVars,
                           acceptVars, wireVars
<1>7. NothingIsLost(c)'
  <2> SUFFICES ASSUME Undisturbed(c)
               PROVE  NothingIsLost(c)'
    BY <1>1 DEF NothingIsLost, Undisturbed, acceptVars, wireVars
  <2>1. ends[c].client \in {"none", "open"} /\ ends[c].target # "half"
    BY Facts DEF Undisturbed, ConnectionInvariant, ConnectsOnce
  <2>2. ends[c].target = "gone"
    BY <1>1, <2>1, Facts DEF ConnectionInvariant, NothingIsLost, Dst
  <2>3. w = "up"
    <3> SUFFICES ASSUME w # "up" PROVE FALSE
      OBVIOUS
    <3>1. Answer[c] > 0
      BY <1>1, <2>2, AnswerFollows, Facts
    <3>2. sock[c].client = "closed"
      BY <1>1, <2>1 DEF Dst
    <3>3. thread[c]["down"] = "done"
      BY <2>2, <3>1, <3>2, Facts DEF ConnectionInvariant, NothingIsLost
    <3> QED
      BY <1>1, <3>3
  <2>4. ~(Answer[c] > 0)
    BY <1>1, <2>2, <2>3, AnswerFollows
  <2>5. OnTheWay(c, "down")' = OnTheWay(c, "down")
    BY <1>1, <1>4, <2>3 DEF OnTheWay, wireVars
  <2>6. sent[c]["down"] = OnTheWay(c, "down")
    BY Facts DEF ConnectionInvariant, NothingIsLost
  <2> QED
    BY <1>1, <2>2, <2>4, <2>5, <2>6 DEF NothingIsLost, wireVars
<1> QED
  BY <1>1, <1>2, <1>3, <1>5, <1>6, <1>7, ForwardElsewhere DEF ConnectionInvariant

(* src.close() and dst.close(), by either thread.                          *)
LEMMA ClosingKeeps ==
  ASSUME RelayInvariant, NEW c \in Clients, NEW w \in Ways, NEW p \in Peers,
         thread[c][w] \in {"close_src", "close_dst"},
         NEW state \in {"close_dst", "done"},
         w = "down" /\ p = "client" => state = "done",
         sock' = Closed(c, p), MayReset(c, p), Goes(c, w, state),
         UNCHANGED <<programVars, acceptVars, data, waiting, sent, read, ends>>
  PROVE  RelayInvariant'
<1>1. RelayTypeOK /\ thread' = [thread EXCEPT ![c][w] = state]
  BY DEF RelayInvariant, Goes
<1>2. /\ sock' \in [Clients -> [Peers -> {"none", "open", "closed"}]]
      /\ unread' \in [Clients -> [Ways -> Nat]]
      /\ \A d \in Clients \ {c} : sock'[d] = sock[d] /\ unread'[d] = unread[d]
      /\ sock'[c][p] = "closed"
      /\ \A q \in Peers \ {p} : sock'[c][q] = sock[c][q]
      /\ \A v \in Ways : unread'[c][v] = unread[c][v] \/ unread'[c][v] = 0
      /\ \A v \in Ways :
           \/ v = To(p) /\ waiting[c][From(p)] > 0
           \/ unread'[c][v] = unread[c][v]
  BY <1>1, ClosingOne
<1>3. RelayTypeOK'
  <2>1. thread' \in [Clients -> [Ways -> {"none", "recv", "send", "close_src", "close_dst", "done"}]]
    BY <1>1 DEF RelayTypeOK
  <2> QED
    BY <1>1, <1>2, <2>1 DEF RelayTypeOK, programVars, acceptVars
<1>4. \A d \in Clients \ {c} : Untouched(d)
  BY <1>1, <1>2 DEF Untouched, RelayTypeOK
<1>5. thread'[c][w] = state /\ \A v \in Ways \ {w} : thread'[c][v] = thread[c][v]
  BY <1>1 DEF RelayTypeOK
<1>6. NothingIsMadeUp(c)' /\ AnswersWhatItHasRead(c)'
  BY SMTT(30), <1>2, <1>5, Facts DEF ConnectionInvariant, NothingIsMadeUp, OnTheWay, Total,
                           AnswersWhatItHasRead
<1>7. ConnectsOnce(c)'
  <2>1. ends[c].target # "none"
    BY Facts DEF ConnectionInvariant, ConnectsOnce
  <2>2. Connecting(c)' <=> Connecting(c)
    BY DEF Connecting, programVars, acceptVars
  <2>3. sock[c].client # "none" /\ ~Connecting(c) /\ sock[c].target # "none"
    BY <2>1, Facts DEF ConnectionInvariant, ConnectsOnce
  <2>4. sock'[c].client # "none" /\ sock'[c].target # "none"
    BY <1>2, <2>3
  <2> QED
    BY <2>1, <2>2, <2>3, <2>4, Facts DEF ConnectionInvariant, ConnectsOnce
<1>8. NothingIsLost(c)'
  <2> SUFFICES ASSUME Undisturbed(c)
               PROVE  NothingIsLost(c)'
    BY DEF NothingIsLost, Undisturbed, acceptVars
  <2>1. Closing(c, w)
    BY DEF Closing
  <2>2. ends[c].target = "gone"
    BY <2>1, Facts DEF ConnectionInvariant, NothingIsLost
  <2>3. Answer[c] > 0 /\ (Closing(c, "up") \/ sock[c].client = "closed") =>
          thread[c]["down"] = "done"
    BY <2>2, Facts DEF ConnectionInvariant, NothingIsLost
  <2>4. unread'[c]["down"] = unread[c]["down"]
    <3>1. CASE Answer[c] > 0
      <4>1. waiting[c]["up"] = 0
        BY <2>2, <3>1, AnswerFollows
      <4>2. p = "client" => waiting[c][From(p)] = 0
        BY <4>1 DEF From
      <4>3. p = "target" => To(p) # "down"
        BY DEF To
      <4> QED
        BY <1>2, <4>2, <4>3
    <3>2. CASE ~(Answer[c] > 0)
      <4>1. Answer[c] = 0
        BY <3>2, Facts
      <4>2. unread[c]["down"] = 0
        BY <2>2, <4>1, AnswerFollows
      <4> QED
        BY <1>2, <4>2
    <3> QED
      BY <3>1, <3>2
  <2>5. OnTheWay(c, "down")' = OnTheWay(c, "down")
    BY <2>4 DEF OnTheWay
  <2>6. sent[c]["down"] = OnTheWay(c, "down")
    BY Facts DEF ConnectionInvariant, NothingIsLost
  <2>7. Answer[c] > 0 /\ (Closing(c, "up")' \/ sock'[c].client = "closed") =>
          thread'[c]["down"] = "done"
    <3>1. CASE w = "up"
      BY <1>5, <2>1, <2>3, <3>1
    <3>2. CASE w = "down" /\ p = "client"
      BY <1>5, <3>2
    <3>3. CASE w = "down" /\ p = "target"
      <4>1. sock'[c].client = sock[c].client
        BY <1>2, <3>3
      <4>2. Closing(c, "up")' <=> Closing(c, "up")
        BY <1>5, <3>3 DEF Closing
      <4> QED
        BY <2>3, <3>3, <4>1, <4>2
    <3> QED
      BY <3>1, <3>2, <3>3
  <2> QED
    BY <2>2, <2>5, <2>6, <2>7 DEF NothingIsLost
<1> QED
  BY <1>3, <1>4, <1>6, <1>7, <1>8, ForwardElsewhere DEF ConnectionInvariant

LEMMA ForwardKeeps ==
  ASSUME RelayInvariant, NEW c \in Clients, NEW w \in Ways, Forward(c, w)
  PROVE  RelayInvariant'
<1>1. CASE CloseSrc(c, w)
  <2>1. Src(w) \in Peers /\ (w = "down" => Src(w) # "client")
    BY DEF Src
  <2> QED
    BY <1>1, <2>1, ClosingKeeps DEF CloseSrc
<1>2. CASE CloseDst(c, w)
  <2>1. Dst(w) \in Peers
    BY DEF Dst
  <2> QED
    BY <1>2, <2>1, ClosingKeeps DEF CloseDst
<1> QED
  BY <1>1, <1>2, RecvKeeps, RecvEndsKeeps, SendAllKeeps, SendFailsKeeps DEF Forward

-----------------------------------------------------------------------------
(* Clients and the gateway.                                                *)
LEMMA DialKeeps ==
  ASSUME RelayInvariant, NEW c \in Clients, Dial(c)
  PROVE  RelayInvariant'
<1>1. /\ ends[c].client = "none" /\ ends' = [ends EXCEPT ![c].client = "open"]
      /\ UNCHANGED <<programVars, acceptVars, sock, threadVars, wireVars>>
  BY DEF Dial
<1>2. RelayTypeOK' /\ \A d \in Clients \ {c} : Untouched(d)
  BY <1>1 DEF RelayInvariant, RelayTypeOK, Untouched, programVars, acceptVars, threadVars, wireVars
<1>3. ends'[c].client = "open" /\ ends'[c].target = ends[c].target
  BY <1>1 DEF RelayInvariant, RelayTypeOK
<1>4. ConnectionInvariant(c)'
  <2>1. NothingIsMadeUp(c)' /\ AnswersWhatItHasRead(c)'
    BY <1>1, Facts DEF ConnectionInvariant, NothingIsMadeUp, OnTheWay, Total,
                       AnswersWhatItHasRead, threadVars, wireVars
  <2>2. ConnectsOnce(c)'
    BY <1>1, <1>3, Facts DEF ConnectionInvariant, ConnectsOnce, Connecting, programVars,
                             acceptVars, threadVars, wireVars
  <2>3. NothingIsLost(c)'
    BY <1>1, <1>3, Facts DEF ConnectionInvariant, NothingIsLost, OnTheWay, Closing, Undisturbed,
                             acceptVars, threadVars, wireVars
  <2> QED
    BY <2>1, <2>2, <2>3 DEF ConnectionInvariant
<1> QED
  BY <1>1, <1>2, <1>4, ForwardElsewhere

LEMMA HalfCloseKeeps ==
  ASSUME RelayInvariant, NEW c \in Clients, HalfClose(c)
  PROVE  RelayInvariant'
<1>1. /\ ends' = [ends EXCEPT ![c].client = "half"]
      /\ UNCHANGED <<programVars, acceptVars, sock, threadVars, wireVars>>
  BY DEF HalfClose
<1>2. RelayTypeOK' /\ \A d \in Clients \ {c} : Untouched(d)
  BY <1>1 DEF RelayInvariant, RelayTypeOK, Untouched, programVars, acceptVars, threadVars, wireVars
<1>3. ends'[c].client = "half" /\ ends'[c].target = ends[c].target
  BY <1>1 DEF RelayInvariant, RelayTypeOK
<1>4. ConnectionInvariant(c)'
  <2>1. NothingIsMadeUp(c)' /\ AnswersWhatItHasRead(c)'
    BY <1>1, Facts DEF ConnectionInvariant, NothingIsMadeUp, OnTheWay, Total,
                       AnswersWhatItHasRead, threadVars, wireVars
  <2>2. ConnectsOnce(c)'
    BY <1>1, <1>3, Facts DEF ConnectionInvariant, ConnectsOnce, Connecting, programVars,
                             acceptVars, threadVars, wireVars
  <2>3. NothingIsLost(c)'
    BY <1>3 DEF NothingIsLost, Undisturbed
  <2> QED
    BY <2>1, <2>2, <2>3 DEF ConnectionInvariant
<1> QED
  BY <1>1, <1>2, <1>4, ForwardElsewhere

LEMMA WriteKeeps ==
  ASSUME RelayInvariant, NEW c \in Clients, NEW p \in Peers, Write(c, p)
  PROVE  RelayInvariant'
<1> DEFINE w == From(p)
<1>1. /\ ends[c][p] = "open" /\ sent[c][w] < Total(c, w)
      /\ w = "down" => ends[c].target = "open" /\ read[c]["up"] = Request[c]
      /\ sent' = [sent EXCEPT ![c][w] = @ + 1]
      /\ waiting' = [waiting EXCEPT ![c][w] = @ + 1]
      /\ UNCHANGED <<programVars, acceptVars, sock, threadVars, unread, read, ends>>
  BY DEF Write, From
<1>2. w \in Ways
  BY DEF From
<1> HIDE DEF w
<1>3. sent[c][w] + 1 \in Nat /\ waiting[c][w] + 1 \in Nat
  BY <1>2, Facts
<1>4. RelayTypeOK'
  <2>1. sent' \in [Clients -> [Ways -> Nat]]
    BY <1>1, <1>2, <1>3 DEF RelayInvariant, RelayTypeOK
  <2>2. waiting' \in [Clients -> [Ways -> Nat]]
    BY <1>1, <1>2, <1>3 DEF RelayInvariant, RelayTypeOK
  <2> QED
    BY <1>1, <2>1, <2>2 DEF RelayInvariant, RelayTypeOK, programVars, acceptVars, threadVars
<1>5. \A d \in Clients \ {c} : Untouched(d)
  BY <1>1 DEF Untouched, RelayInvariant, RelayTypeOK, threadVars
<1>6. /\ sent'[c][w] = sent[c][w] + 1 /\ waiting'[c][w] = waiting[c][w] + 1
      /\ \A v \in Ways \ {w} : sent'[c][v] = sent[c][v] /\ waiting'[c][v] = waiting[c][v]
  BY <1>1, <1>2 DEF RelayInvariant, RelayTypeOK
<1>7. /\ OnTheWay(c, w)' = OnTheWay(c, w) + 1
      /\ \A v \in Ways \ {w} : OnTheWay(c, v)' = OnTheWay(c, v)
  BY <1>1, <1>2, <1>6, Facts DEF OnTheWay, threadVars
<1>8. NothingIsMadeUp(c)' /\ AnswersWhatItHasRead(c)'
  <2>1. \A v \in Ways : OnTheWay(c, v) <= sent[c][v] /\ sent[c][v] <= Total(c, v)
    BY Facts DEF ConnectionInvariant, NothingIsMadeUp
  <2>2. \A v \in Ways : OnTheWay(c, v) \in Nat /\ sent[c][v] \in Nat /\ Total(c, v) \in Nat
    BY Facts DEF OnTheWay, Total
  <2>3. \A v \in Ways : OnTheWay(c, v)' <= sent'[c][v] /\ sent'[c][v] <= Total(c, v)
    BY <1>1, <1>6, <1>7, <2>1, <2>2
  <2>4. \A v \in Ways : thread'[c][v] = "send" <=> data'[c][v] > 0
    BY <1>1, Facts DEF ConnectionInvariant, NothingIsMadeUp, threadVars
  <2>5. AnswersWhatItHasRead(c)'
    BY <1>1, <1>2, <1>6, Facts DEF ConnectionInvariant, AnswersWhatItHasRead
  <2> QED
    BY <2>3, <2>4, <2>5 DEF NothingIsMadeUp, Total
<1>9. ConnectsOnce(c)'
  BY <1>1, <1>2, <1>6, Facts DEF ConnectionInvariant, ConnectsOnce, Connecting, programVars,
                                 acceptVars, threadVars
<1>10. NothingIsLost(c)'
  <2> SUFFICES ASSUME Undisturbed(c)'
               PROVE  NothingIsLost(c)'
    BY DEF NothingIsLost
  <2>1. Undisturbed(c)
    <3>1. CASE w = "down"
      BY <1>1, <3>1 DEF Undisturbed, acceptVars
    <3>2. CASE w # "down"
      BY <1>1, <1>6, <3>2 DEF Undisturbed, acceptVars
    <3> QED
      BY <3>1, <3>2
  <2>2. \A v \in Ways : sent[c][v] = OnTheWay(c, v) => sent'[c][v] = OnTheWay(c, v)'
    BY <1>6, <1>7
  <2>3. \A v \in Ways : Closing(c, v)' <=> Closing(c, v)
    BY <1>1 DEF Closing, threadVars
  <2>4. sent[c]["down"] = OnTheWay(c, "down")
    BY <2>1, Facts DEF ConnectionInvariant, NothingIsLost
  <2>5. ends[c].target # "gone" =>
          /\ sent[c]["up"] = OnTheWay(c, "up")
          /\ \A q \in Peers : sock[c][q] # "closed"
          /\ \A v \in Ways : ~Closing(c, v)
    BY <2>1, Facts DEF ConnectionInvariant, NothingIsLost
  <2>6. (ends[c].target = "gone" /\ Answer[c] > 0) =>
          (Closing(c, "up") \/ sock[c].client = "closed" => thread[c]["down"] = "done")
    BY <2>1, Facts DEF ConnectionInvariant, NothingIsLost
  <2>7. thread'[c]["down"] = thread[c]["down"] /\ sock' = sock /\ ends' = ends
    BY <1>1 DEF threadVars
  <2> QED
    BY <2>2, <2>3, <2>4, <2>5, <2>6, <2>7 DEF NothingIsLost
<1> QED
  BY <1>1, <1>4, <1>5, <1>8, <1>9, <1>10, ForwardElsewhere DEF ConnectionInvariant

LEMMA ReadKeeps ==
  ASSUME RelayInvariant, NEW c \in Clients, NEW p \in Peers, Read(c, p)
  PROVE  RelayInvariant'
<1> DEFINE w == To(p)
<1>1. /\ unread[c][w] > 0
      /\ unread' = [unread EXCEPT ![c][w] = @ - 1]
      /\ read' = [read EXCEPT ![c][w] = @ + 1]
      /\ UNCHANGED <<programVars, acceptVars, sock, threadVars, waiting, sent, ends>>
  BY DEF Read
<1>2. w \in Ways
  BY DEF To
<1> HIDE DEF w
<1>3. unread[c][w] - 1 \in Nat /\ read[c][w] + 1 \in Nat
  BY <1>1, <1>2, Facts
<1>4. RelayTypeOK'
  <2>1. unread' \in [Clients -> [Ways -> Nat]]
    BY <1>1, <1>2, <1>3 DEF RelayInvariant, RelayTypeOK
  <2>2. read' \in [Clients -> [Ways -> Nat]]
    BY <1>1, <1>2, <1>3 DEF RelayInvariant, RelayTypeOK
  <2> QED
    BY <1>1, <2>1, <2>2 DEF RelayInvariant, RelayTypeOK, programVars, acceptVars, threadVars
<1>5. \A d \in Clients \ {c} : Untouched(d)
  BY <1>1 DEF Untouched, RelayInvariant, RelayTypeOK, threadVars
<1>6. /\ unread'[c][w] = unread[c][w] - 1 /\ read'[c][w] = read[c][w] + 1
      /\ \A v \in Ways \ {w} : unread'[c][v] = unread[c][v] /\ read'[c][v] = read[c][v]
  BY <1>1, <1>2 DEF RelayInvariant, RelayTypeOK
<1>7. \A v \in Ways : OnTheWay(c, v)' = OnTheWay(c, v)
  <2> TAKE v \in Ways
  <2>1. CASE v # w
    BY <1>1, <1>6, <2>1 DEF OnTheWay, threadVars
  <2>2. CASE v = w
    <3>1. /\ waiting[c][w] \in Nat /\ data[c][w] \in Nat
          /\ unread[c][w] \in Nat /\ read[c][w] \in Nat
      BY <1>2, Facts
    <3> QED
      BY <1>1, <1>6, <2>2, <3>1 DEF OnTheWay, threadVars
  <2> QED
    BY <2>1, <2>2
<1>8. NothingIsMadeUp(c)' /\ AnswersWhatItHasRead(c)'
  <2>1. NothingIsMadeUp(c)'
    BY <1>1, <1>7, Facts DEF ConnectionInvariant, NothingIsMadeUp, Total, threadVars
  <2>2. AnswersWhatItHasRead(c)'
    <3>1. /\ waiting[c]["up"] + data[c]["up"] + unread[c]["up"] + read[c]["up"] <= sent[c]["up"]
          /\ sent[c]["up"] <= Request[c]
      BY Facts DEF ConnectionInvariant, NothingIsMadeUp, OnTheWay, Total
    <3>2. /\ waiting[c]["up"] \in Nat /\ data[c]["up"] \in Nat /\ unread[c]["up"] \in Nat
          /\ read[c]["up"] \in Nat /\ sent[c]["up"] \in Nat /\ Request[c] \in Nat
      BY Facts
    <3>3. w = "up" => read[c]["up"] # Request[c]
      BY <1>1, <3>1, <3>2
    <3>4. sent[c]["down"] > 0 => read[c]["up"] = Request[c]
      BY Facts DEF ConnectionInvariant, AnswersWhatItHasRead
    <3>5. w # "up" => read'[c]["up"] = read[c]["up"]
      BY <1>6
    <3> QED
      BY <1>1, <3>3, <3>4, <3>5 DEF AnswersWhatItHasRead
  <2> QED
    BY <2>1, <2>2
<1>9. ConnectsOnce(c)'
  BY <1>1, Facts DEF ConnectionInvariant, ConnectsOnce, Connecting, programVars,
                     acceptVars, threadVars
<1>10. NothingIsLost(c)'
  <2>1. \A v \in Ways : Closing(c, v)' <=> Closing(c, v)
    BY <1>1 DEF Closing, threadVars
  <2> QED
    BY <1>1, <1>7, <2>1, Facts
       DEF ConnectionInvariant, NothingIsLost, Undisturbed, acceptVars, threadVars
<1> QED
  BY <1>1, <1>4, <1>5, <1>8, <1>9, <1>10, ForwardElsewhere DEF ConnectionInvariant

LEMMA HangUpKeeps ==
  ASSUME RelayInvariant, NEW c \in Clients, NEW p \in Peers, HangUp(c, p)
  PROVE  RelayInvariant'
<1> DEFINE w == To(p)
<1>1. /\ ends[c][p] \in {"open", "half"} /\ ends' = [ends EXCEPT ![c][p] = "gone"]
      /\ unread' = [unread EXCEPT ![c][w] = 0]
      /\ UNCHANGED <<programVars, acceptVars, sock, threadVars, waiting, sent, read>>
  BY DEF HangUp
<1>2. w \in Ways /\ (p = "target" => w = "up")
  BY DEF To
<1> HIDE DEF w
<1>3. RelayTypeOK'
  <2>1. unread' \in [Clients -> [Ways -> Nat]]
    BY <1>1, <1>2 DEF RelayInvariant, RelayTypeOK
  <2>2. ends' \in [Clients -> [Peers -> {"none", "open", "half", "gone"}]]
    BY <1>1 DEF RelayInvariant, RelayTypeOK
  <2> QED
    BY <1>1, <2>1, <2>2 DEF RelayInvariant, RelayTypeOK, programVars, acceptVars, threadVars
<1>4. \A d \in Clients \ {c} : Untouched(d)
  BY <1>1 DEF Untouched, RelayInvariant, RelayTypeOK, threadVars
<1>5. /\ unread'[c][w] = 0
      /\ \A v \in Ways \ {w} : unread'[c][v] = unread[c][v]
      /\ ends'[c][p] = "gone"
      /\ \A q \in Peers \ {p} : ends'[c][q] = ends[c][q]
  BY <1>1, <1>2 DEF RelayInvariant, RelayTypeOK
<1>6. NothingIsMadeUp(c)' /\ AnswersWhatItHasRead(c)'
  <2>1. \A v \in Ways : unread'[c][v] = unread[c][v] \/ unread'[c][v] = 0
    BY <1>5
  <2> QED
    BY <1>1, <2>1, Facts DEF ConnectionInvariant, NothingIsMadeUp, OnTheWay, Total,
                             AnswersWhatItHasRead, threadVars
<1>7. ConnectsOnce(c)'
  <2>1. ends'[c].target = "none" <=> ends[c].target = "none"
    BY <1>1, <1>5
  <2>2. ends'[c].target # "half"
    BY <1>5, Facts DEF ConnectionInvariant, ConnectsOnce
  <2> QED
    BY <1>1, <2>1, <2>2, Facts DEF ConnectionInvariant, ConnectsOnce, Connecting, programVars,
                                   acceptVars, threadVars
<1>8. NothingIsLost(c)'
  <2> SUFFICES ASSUME Undisturbed(c)'
               PROVE  NothingIsLost(c)'
    BY DEF NothingIsLost
  <2>1. p = "target"
    BY <1>5 DEF Undisturbed
  <2>2. ends[c].target = "open" /\ ends'[c].target = "gone"
    BY <1>1, <1>5, <2>1, Facts DEF ConnectionInvariant, ConnectsOnce
  <2>3. Undisturbed(c)
    BY <1>1, <1>5, <2>1, <2>2 DEF Undisturbed, acceptVars
  <2>4. /\ sent[c]["down"] = OnTheWay(c, "down")
        /\ sock[c].client # "closed" /\ ~Closing(c, "up")
    BY <2>2, <2>3, Facts DEF ConnectionInvariant, NothingIsLost
  <2>5. OnTheWay(c, "down")' = OnTheWay(c, "down") /\ (Closing(c, "up")' <=> Closing(c, "up"))
    BY <1>1, <1>2, <1>5, <2>1 DEF OnTheWay, Closing, threadVars
  <2> QED
    BY <1>1, <2>2, <2>4, <2>5 DEF NothingIsLost
<1> QED
  BY <1>1, <1>3, <1>4, <1>6, <1>7, <1>8, ForwardElsewhere DEF ConnectionInvariant

-----------------------------------------------------------------------------
LEMMA InvariantIsKept == RelayInvariant /\ [Next]_vars => RelayInvariant'
<1> SUFFICES ASSUME RelayInvariant, [Next]_vars
             PROVE  RelayInvariant'
  OBVIOUS
<1>1. CASE AcceptFails
  BY <1>1, AcceptFailsKeeps
<1>2. ASSUME NEW c \in Clients, Relaying(c) \/ Dial(c) \/ HalfClose(c)
      PROVE  RelayInvariant'
  BY <1>2, AcceptKeeps, ConnectKeeps, ConnectFailsKeeps, DialKeeps, HalfCloseKeeps DEF Relaying
<1>3. ASSUME NEW c \in Clients, NEW w \in Ways, Forward(c, w)
      PROVE  RelayInvariant'
  BY <1>3, ForwardKeeps
<1>4. ASSUME NEW c \in Clients, NEW p \in Peers, Peer(c, p) \/ HangUp(c, p)
      PROVE  RelayInvariant'
  BY <1>4, WriteKeeps, ReadKeeps, HangUpKeeps DEF Peer
<1>5. CASE UNCHANGED vars
  <2>1. RelayTypeOK'
    BY <1>5 DEF vars, programVars, acceptVars, threadVars, wireVars, RelayInvariant, RelayTypeOK
  <2>2. ASSUME NEW c \in Clients PROVE ConnectionInvariant(c)'
    <3>1. Untouched(c) /\ failures' >= failures /\ (Connecting(c)' => Connecting(c))
      BY <1>5 DEF vars, programVars, acceptVars, threadVars, wireVars, Untouched, Connecting,
                  RelayInvariant, RelayTypeOK
    <3> QED
      BY <2>1, <3>1, OthersKeepTheirs
  <2> QED
    BY <2>1, <2>2 DEF RelayInvariant
<1> QED
  BY <1>1, <1>2, <1>3, <1>4, <1>5 DEF Next

(* Of every number of clients, whatever becomes of the others: what an     *)
(* undisturbed connection carries is all there, and stays open             *)
(* (forward and start_proxy of win_proxy.py, forward and handle_client of  *)
(* tcp_relay.py).                                                          *)
THEOREM RelayLosesNothing == Spec => []RelayIsTransparent
<1>1. RelayInvariant => RelayIsTransparent
  <2> SUFFICES ASSUME RelayInvariant, NEW c \in Clients, Undisturbed(c)
               PROVE  /\ sent[c]["down"] = OnTheWay(c, "down")
                      /\ ends[c].target # "gone" =>
                           /\ \A p \in Peers : sock[c][p] # "closed"
                           /\ sent[c]["up"] = OnTheWay(c, "up")
    BY DEF RelayIsTransparent, OnTheWay
  <2> QED
    BY Facts DEF ConnectionInvariant, NothingIsLost
<1> QED
  BY <1>1, RelayInitially, InvariantIsKept, PTL DEF Spec
=============================================================================
