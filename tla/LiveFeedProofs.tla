--------------------------- MODULE LiveFeedProofs ---------------------------
(***************************************************************************)
(* Proofs about LiveFeed, for any number of clients and of requests for    *)
(* /metrics, any buckets and any queries: who is listed, what clients are  *)
(* shown, and that the reports of /metrics add up.                         *)
(***************************************************************************)
EXTENDS LiveFeed, TLAPS, FiniteSetTheorems, SequenceTheorems

-----------------------------------------------------------------------------
(* Metrics.  While a query is being recorded its status is counted and its *)
(* latency is not; otherwise everything is about the same queries.         *)
MetricsTypeOK ==
  /\ metrics_lock \in BOOLEAN
  /\ recorded \in 0 .. Len(Queries)
  /\ routing_counts \in [Statuses -> Nat]
  /\ routing_latency_count \in Nat
  /\ bucket_counts \in [DOMAIN LatencyBuckets -> Nat]
  /\ routing_latencies \in Seq(Nat)

Fitting(b, k) == {n \in 1 .. k : Queries[n].duration <= LatencyBuckets[b]}

MetricsInvariant ==
  /\ MetricsTypeOK
  /\ metrics_lock => recorded > 0
  /\ routing_latency_count = IF metrics_lock THEN recorded - 1 ELSE recorded
  /\ routing_counts["success"] + routing_counts["not_found"] + routing_counts["error"] = recorded
  /\ \A b \in DOMAIN LatencyBuckets :
       bucket_counts[b] = Cardinality(Fitting(b, routing_latency_count))
  /\ Len(routing_latencies) =
       IF routing_latency_count <= MaxLatencies THEN routing_latency_count ELSE MaxLatencies
  /\ \A n \in DOMAIN routing_latencies :
       routing_latencies[n] =
         Queries[routing_latency_count - Len(routing_latencies) + n].duration

LEMMA Limits == MaxLatencies \in Nat /\ MaxLatencies > 0
<1>1. MaxLatencies \in Nat \ {0}
  BY MetricsAssumption
<1> QED
  BY <1>1

LEMMA MinOfTwo ==
  ASSUME NEW a \in Int, NEW b \in Int
  PROVE  Min({a, b}) = IF a <= b THEN a ELSE b
<1>1. \E x \in {a, b} : \A y \in {a, b} : x <= y
  OBVIOUS
<1>2. /\ Min({a, b}) \in {a, b}
      /\ \A y \in {a, b} : Min({a, b}) <= y
  BY <1>1 DEF Min
<1> QED
  BY <1>2

(* One query more, one more that fits or not.                              *)
LEMMA FittingOneMore ==
  ASSUME NEW b \in DOMAIN LatencyBuckets, NEW k \in Nat
  PROVE  Cardinality(Fitting(b, k + 1)) =
           Cardinality(Fitting(b, k)) + IF InBucket(Queries[k + 1].duration, b) THEN 1 ELSE 0
<1>1. IsFiniteSet(1 .. k)
  BY FS_Interval
<1>2. IsFiniteSet(Fitting(b, k))
  BY <1>1, FS_Subset DEF Fitting
<1>3. k + 1 \notin Fitting(b, k)
  BY DEF Fitting
<1>4. Cardinality(Fitting(b, k)) \in Nat
  BY <1>2, FS_CardinalityType
<1>5. CASE InBucket(Queries[k + 1].duration, b)
  <2>1. Fitting(b, k + 1) = Fitting(b, k) \cup {k + 1}
    BY <1>5 DEF Fitting, InBucket
  <2> QED
    BY <1>2, <1>3, <1>5, <2>1, FS_AddElement
<1>6. CASE ~InBucket(Queries[k + 1].duration, b)
  <2>1. Fitting(b, k + 1) = Fitting(b, k)
    BY <1>6 DEF Fitting, InBucket
  <2> QED
    BY <1>4, <1>6, <2>1
<1> QED
  BY <1>5, <1>6

LEMMA SequenceElements ==
  ASSUME NEW S, NEW s \in Seq(S)
  PROVE  /\ Len(s) \in Nat /\ DOMAIN s = 1 .. Len(s)
         /\ \A n \in 1 .. Len(s) : s[n] \in S
OBVIOUS

LEMMA AppendedElements ==
  ASSUME NEW S, NEW s \in Seq(S), NEW x \in S
  PROVE  /\ Append(s, x) \in Seq(S)
         /\ Len(Append(s, x)) = Len(s) + 1
         /\ \A n \in 1 .. Len(s) : Append(s, x)[n] = s[n]
         /\ Append(s, x)[Len(s) + 1] = x
OBVIOUS

LEMMA TailElements ==
  ASSUME NEW S, NEW s \in Seq(S), Len(s) > 0
  PROVE  /\ Tail(s) \in Seq(S)
         /\ Len(Tail(s)) = Len(s) - 1
         /\ \A n \in 1 .. Len(s) - 1 : Tail(s)[n] = s[n + 1]
OBVIOUS

LEMMA QueryFields ==
  /\ Len(Queries) \in Nat
  /\ \A n \in 1 .. Len(Queries) : Queries[n].status \in Statuses /\ Queries[n].duration \in Nat
<1> DEFINE Query == [status : Statuses, duration : Nat]
<1>1. Queries \in Seq(Query)
  BY MetricsAssumption
<1> HIDE DEF Query
<1>2. Len(Queries) \in Nat /\ \A n \in 1 .. Len(Queries) : Queries[n] \in Query
  BY <1>1, SequenceElements
<1> QED
  BY <1>2 DEF Query

LEMMA MetricsInitially == MetricsInit => MetricsInvariant
<1> SUFFICES ASSUME MetricsInit PROVE MetricsInvariant
  OBVIOUS
<1> USE DEF MetricsInit
<1>1. MetricsTypeOK
  <2>1. metrics_lock \in BOOLEAN
    BY Zenon
  <2>5. recorded \in 0 .. Len(Queries)
    BY QueryFields
  <2>2. routing_counts \in [Statuses -> Nat] /\ routing_latency_count \in Nat
    OBVIOUS
  <2>3. bucket_counts \in [DOMAIN LatencyBuckets -> Nat]
    OBVIOUS
  <2>4. routing_latencies \in Seq(Nat)
    OBVIOUS
  <2> QED
    BY <2>1, <2>2, <2>3, <2>4, <2>5 DEF MetricsTypeOK
<1>2. \A b \in DOMAIN LatencyBuckets : Cardinality(Fitting(b, 0)) = 0
  <2>1. \A b \in DOMAIN LatencyBuckets : Fitting(b, 0) = {}
    BY DEF Fitting
  <2> QED
    BY <2>1, FS_EmptySet
<1>3. routing_counts["success"] + routing_counts["not_found"] + routing_counts["error"] = 0
  BY DEF Statuses
<1>4. Len(routing_latencies) = 0 /\ DOMAIN routing_latencies = {} /\ ~metrics_lock
  OBVIOUS
<1>5. \A b \in DOMAIN LatencyBuckets : bucket_counts[b] = 0
  OBVIOUS
<1> QED
  BY <1>1, <1>2, <1>3, <1>4, <1>5, Limits DEF MetricsInvariant

LEMMA StatusKeepsMetrics ==
  ASSUME MetricsInvariant, CountStatus
  PROVE  MetricsInvariant'
<1> USE DEF MetricsInvariant, CountStatus
<1>1. /\ recorded' \in 1 .. Len(Queries) /\ recorded' \in 0 .. Len(Queries)
      /\ recorded' = recorded + 1
  BY QueryFields DEF MetricsTypeOK
<1>2. Queries[recorded'].status \in Statuses
  BY <1>1, QueryFields
<1>3. routing_counts \in [Statuses -> Nat]
  BY DEF MetricsTypeOK
<1>4. MetricsTypeOK'
  <2>1. metrics_lock' \in BOOLEAN
    OBVIOUS
  <2>2. recorded' \in 0 .. Len(Queries)
    BY <1>1
  <2>3. routing_counts' \in [Statuses -> Nat]
    BY <1>2, <1>3
  <2>4. /\ (routing_latency_count \in Nat)'
        /\ (bucket_counts \in [DOMAIN LatencyBuckets -> Nat])'
        /\ (routing_latencies \in Seq(Nat))'
    BY DEF MetricsTypeOK, latencyVars
  <2> QED
    BY <2>1, <2>2, <2>3, <2>4 DEF MetricsTypeOK
<1>5. (routing_counts["success"] + routing_counts["not_found"] + routing_counts["error"] = recorded)'
  BY <1>1, <1>2, <1>3 DEF Statuses, MetricsTypeOK
<1>6. (\A b \in DOMAIN LatencyBuckets :
         bucket_counts[b] = Cardinality(Fitting(b, routing_latency_count)))'
  BY DEF latencyVars, Fitting
<1> QED
  BY SMTT(30), <1>1, <1>4, <1>5, <1>6 DEF MetricsTypeOK, latencyVars

LEMMA LatencyKeepsMetrics ==
  ASSUME MetricsInvariant, CountLatency
  PROVE  MetricsInvariant'
<1> USE Limits DEF MetricsInvariant
<1> DEFINE k == routing_latency_count
           d == Queries[recorded].duration
           old == routing_latencies
<1>1. /\ metrics_lock /\ metrics_lock' = FALSE
      /\ recorded \in 1 .. Len(Queries)
      /\ recorded' = recorded /\ recorded = k + 1 /\ k' = k + 1 /\ k \in Nat
      /\ routing_counts' = routing_counts
      /\ old \in Seq(Nat) /\ old' = Kept(d)
      /\ d \in Nat
  BY QueryFields DEF MetricsTypeOK, CountLatency
<1>2. \A b \in DOMAIN LatencyBuckets :
        /\ bucket_counts'[b] \in Nat
        /\ bucket_counts'[b] = Cardinality(Fitting(b, k + 1))
  <2> TAKE b \in DOMAIN LatencyBuckets
  <2>1. bucket_counts'[b] = bucket_counts[b] + IF InBucket(d, b) THEN 1 ELSE 0
    BY DEF CountLatency
  <2>2. bucket_counts[b] \in Nat
    BY DEF MetricsTypeOK
  <2>3. bucket_counts[b] = Cardinality(Fitting(b, k))
    OBVIOUS
  <2>4. Cardinality(Fitting(b, k + 1)) =
           Cardinality(Fitting(b, k)) + IF InBucket(d, b) THEN 1 ELSE 0
    BY <1>1, FittingOneMore
  <2> QED
    BY <2>1, <2>2, <2>3, <2>4
<1>3. bucket_counts' \in [DOMAIN LatencyBuckets -> Nat]
  BY <1>2 DEF CountLatency
<1>4. /\ old' \in Seq(Nat)
      /\ Len(old') = IF k + 1 <= MaxLatencies THEN k + 1 ELSE MaxLatencies
      /\ \A n \in DOMAIN old' : old'[n] = Queries[(k + 1) - Len(old') + n].duration
  <2>1. Len(old) \in Nat /\ DOMAIN old = 1 .. Len(old)
    BY <1>1
  <2>2. CASE Len(old) < MaxLatencies
    <3>1. old' = Append(old, d)
      BY <1>1, <2>2 DEF Kept
    <3>2. Len(old) = k
      BY <1>1, <2>2
    <3>3. /\ old' \in Seq(Nat) /\ Len(old') = k + 1
          /\ \A n \in 1 .. k : old'[n] = old[n]
          /\ old'[k + 1] = d
      BY <1>1, <2>1, <3>1, <3>2
    <3>4. \A n \in 1 .. k : old[n] = Queries[n].duration
      <4>1. \A n \in 1 .. k : old[n] = Queries[k - k + n].duration
        BY <2>1, <3>2
      <4>2. \A n \in 1 .. k : k - k + n = n
        BY <1>1
      <4> QED
        BY SMTT(30), <4>1, <4>2
    <3>5. \A n \in 1 .. k + 1 : old'[n] = Queries[n].duration
      BY SMTT(30), <1>1, <3>3, <3>4
    <3>6. DOMAIN old' = 1 .. k + 1
      BY <3>3
    <3>7. \A n \in 1 .. k + 1 : (k + 1) - (k + 1) + n = n
      BY <1>1
    <3>8. \A n \in DOMAIN old' : old'[n] = Queries[(k + 1) - Len(old') + n].duration
      <4> TAKE n \in DOMAIN old'
      <4>1. n \in 1 .. k + 1
        BY <3>6
      <4>2. (k + 1) - Len(old') + n = n
        BY <3>3, <3>7, <4>1
      <4> QED
        BY <3>5, <4>1, <4>2
    <3>9. k + 1 <= MaxLatencies
      BY <1>1, <2>2, <3>2
    <3> QED
      BY <3>3, <3>8, <3>9
  <2>3. CASE ~(Len(old) < MaxLatencies)
    <3>1. old' = Append(Tail(old), d)
      BY <1>1, <2>3 DEF Kept
    <3>2. Len(old) = MaxLatencies /\ k >= MaxLatencies /\ MaxLatencies > 0
      BY <1>1, <2>1, <2>3
    <3>3. /\ Tail(old) \in Seq(Nat) /\ Len(Tail(old)) = MaxLatencies - 1
          /\ \A n \in 1 .. MaxLatencies - 1 : Tail(old)[n] = old[n + 1]
      BY <1>1, <2>1, <3>2
    <3>4. /\ old' \in Seq(Nat) /\ Len(old') = MaxLatencies
          /\ \A n \in 1 .. MaxLatencies - 1 : old'[n] = old[n + 1]
          /\ old'[MaxLatencies] = d
      BY <1>1, <3>1, <3>2, <3>3
    <3>5. \A n \in 1 .. MaxLatencies : old[n] = Queries[k - MaxLatencies + n].duration
      BY <2>1, <3>2
    <3>6. \A n \in 1 .. MaxLatencies : old'[n] = Queries[(k + 1) - MaxLatencies + n].duration
      <4> TAKE n \in 1 .. MaxLatencies
      <4>1. CASE n = MaxLatencies
        BY <1>1, <3>2, <3>4, <4>1
      <4>2. CASE n # MaxLatencies
        <5>1. n \in 1 .. MaxLatencies - 1 /\ n + 1 \in 1 .. MaxLatencies
          BY <3>2, <4>2
        <5>2. k - MaxLatencies + (n + 1) = (k + 1) - MaxLatencies + n
          BY <1>1, <3>2, <5>1
        <5> QED
          BY <3>4, <3>5, <5>1, <5>2
      <4> QED
        BY <4>1, <4>2
    <3>7. DOMAIN old' = 1 .. MaxLatencies
      BY <3>4
    <3> HIDE DEF old, d
    <3> QED
      BY <1>1, <3>2, <3>4, <3>6, <3>7
  <2> QED
    BY <2>2, <2>3
<1>5. MetricsTypeOK'
  <2>1. (metrics_lock \in BOOLEAN)'
    BY <1>1, Zenon
  <2>2. (recorded \in 0 .. Len(Queries))'
    BY <1>1, QueryFields
  <2>3. (routing_counts \in [Statuses -> Nat])'
    BY <1>1 DEF MetricsTypeOK
  <2>4. (routing_latency_count \in Nat)'
    BY <1>1
  <2> QED
    BY <1>3, <1>4, <2>1, <2>2, <2>3, <2>4 DEF MetricsTypeOK
<1>6. (\A b \in DOMAIN LatencyBuckets :
         bucket_counts[b] = Cardinality(Fitting(b, routing_latency_count)))'
  BY <1>1, <1>2 DEF Fitting
<1> QED
  BY <1>1, <1>4, <1>5, <1>6

LEMMA MetricsAddUp ==
  ASSUME MetricsInvariant, ~metrics_lock
  PROVE  AddsUp
<1>1. Min({routing_latency_count, MaxLatencies}) =
        IF routing_latency_count <= MaxLatencies THEN routing_latency_count ELSE MaxLatencies
  BY SMTT(30), Limits, MinOfTwo DEF MetricsInvariant, MetricsTypeOK
<1> QED
  BY <1>1 DEF MetricsInvariant, AddsUp, Fitting

-----------------------------------------------------------------------------
(* The feed.                                                               *)
FeedTypeOK ==
  /\ live_vehicles \in Nat /\ payload \in Nat
  /\ active_connections \in Seq(Clients) /\ copy \in Seq(Clients)
  /\ worker \in {"sleep", "send", "drain", "recount"}
  /\ at \in Nat \ {0}
  /\ handler \in [Clients -> {"none", "accept", "counted", "drain", "listen", "leave", "end"}]
  /\ socket \in [Clients -> {"none", "open", "stalled", "broken"}]
  /\ inbox \in [Clients -> Seq(Nat)]

(* Who has set the length of the list and not yet counted it holds the     *)
(* loop.                                                                   *)
LoopIsHeld ==
  /\ \A c \in Clients : handler[c] \in {"counted", "leave"} => loop = c
  /\ worker \in {"send", "recount"} => loop = Worker

(* A client that has not been welcomed has been shown nothing, and no      *)
(* broadcast is meant for it.                                              *)
Unwelcomed(c) == handler[c] \in {"none", "accept", "counted"}
NothingBeforeWelcome ==
  \A c \in Clients : Unwelcomed(c) => inbox[c] = <<>> /\ c \notin Range(copy)

(* The broadcast under way: whom it has yet to write to, and whom it has   *)
(* written to.                                                             *)
Distinct(s) == \A m, n \in DOMAIN s : m # n => s[m] # s[n]
Unsent(n) == n > at \/ (n = at /\ worker = "send")
BroadcastInvariant ==
  /\ Distinct(copy)
  /\ payload <= live_vehicles
  /\ worker # "sleep" => payload = live_vehicles
  /\ worker \in {"drain", "recount"} => at <= Len(copy)
  /\ worker = "recount" => copy[at] \notin Range(active_connections)
  /\ \A c \in Clients : \A m \in DOMAIN inbox[c] : inbox[c][m] <= live_vehicles
  /\ worker # "sleep" => \A n \in DOMAIN copy :
       IF Unsent(n) THEN \A m \in DOMAIN inbox[copy[n]] : inbox[copy[n]][m] < payload
       ELSE copy[n] \in Range(active_connections) /\ socket[copy[n]] # "broken" =>
              payload \in Range(inbox[copy[n]])

FeedInvariant ==
  /\ FeedTypeOK
  /\ ListedAreHandled
  /\ LoopIsHeld
  /\ NothingBeforeWelcome
  /\ BroadcastInvariant
  /\ PositionsOnlyAdvance
  /\ BroadcastSkipsNobody

LEMMA AppendedToDistinct ==
  ASSUME NEW S, NEW s \in Seq(S), Distinct(s), NEW x \in S, x \notin Range(s)
  PROVE  /\ Append(s, x) \in Seq(S)
         /\ Distinct(Append(s, x))
         /\ Range(Append(s, x)) = Range(s) \cup {x}
<1> DEFINE t == Append(s, x)
<1>1. /\ t \in Seq(S) /\ Len(t) = Len(s) + 1 /\ Len(s) \in Nat
      /\ DOMAIN t = 1 .. Len(s) + 1 /\ DOMAIN s = 1 .. Len(s)
      /\ \A n \in 1 .. Len(s) : t[n] = s[n]
      /\ t[Len(s) + 1] = x
  BY AppendedElements, SequenceElements
<1> HIDE DEF t
<1>2. \A n \in 1 .. Len(s) : t[n] # x
  BY <1>1 DEF Range
<1>3. Distinct(t)
  <2> SUFFICES ASSUME NEW m \in DOMAIN t, NEW n \in DOMAIN t, m # n PROVE t[m] # t[n]
    BY DEF Distinct
  <2>1. CASE m \in 1 .. Len(s) /\ n \in 1 .. Len(s)
    BY <1>1, <2>1 DEF Distinct
  <2>2. CASE m = Len(s) + 1
    BY <1>1, <1>2, <2>2
  <2>3. CASE n = Len(s) + 1
    BY <1>1, <1>2, <2>3
  <2> QED
    BY <1>1, <2>1, <2>2, <2>3
<1>4. Range(t) = Range(s) \cup {x}
  <2>1. Range(t) \subseteq Range(s) \cup {x}
    BY <1>1 DEF Range
  <2>2. Range(s) \subseteq Range(t)
    <3> SUFFICES ASSUME NEW n \in 1 .. Len(s) PROVE s[n] \in Range(t)
      BY <1>1 DEF Range
    <3>1. n \in DOMAIN t /\ t[n] = s[n]
      BY <1>1
    <3> QED
      BY <3>1 DEF Range
  <2>3. x \in Range(t)
    <3>1. Len(s) + 1 \in DOMAIN t
      BY <1>1
    <3> QED
      BY <1>1, <3>1 DEF Range
  <2> QED
    BY <2>1, <2>2, <2>3
<1> QED
  BY <1>1, <1>3, <1>4 DEF t

(* What list.remove leaves of a list that has everybody once.              *)
LEMMA RemovedFromDistinct ==
  ASSUME active_connections \in Seq(Clients), Distinct(active_connections), NEW c
  PROVE  /\ Without(c) \in Seq(Clients)
         /\ Distinct(Without(c))
         /\ Range(Without(c)) = Range(active_connections) \ {c}
<1> DEFINE s == active_connections
           p == PlaceOf(c)
           t == RemoveAt(s, p)
<1>1. Len(s) \in Nat /\ DOMAIN s = 1 .. Len(s) /\ \A n \in 1 .. Len(s) : s[n] \in Clients
  BY SequenceElements
<1>2. CASE c \notin Range(s)
  BY <1>2 DEF Without, Range
<1>3. CASE c \in Range(s)
  <2>1. p \in 1 .. Len(s) /\ s[p] = c
    BY <1>1, <1>3 DEF Range, PlaceOf
  <2> HIDE DEF p
  <2>2. /\ SubSeq(s, 1, p - 1) \in Seq(Clients)
        /\ Len(SubSeq(s, 1, p - 1)) = p - 1
        /\ \A n \in 1 .. p - 1 : SubSeq(s, 1, p - 1)[n] = s[n]
    BY <1>1, <2>1
  <2>3. /\ SubSeq(s, p + 1, Len(s)) \in Seq(Clients)
        /\ Len(SubSeq(s, p + 1, Len(s))) = Len(s) - p
        /\ \A n \in 1 .. Len(s) - p : SubSeq(s, p + 1, Len(s))[n] = s[p + n]
    <3> DEFINE b == SubSeq(s, p + 1, Len(s))
    <3>1. \A n \in p + 1 .. Len(s) : s[n] \in Clients
      BY <1>1, <2>1
    <3>2. /\ b \in Seq(Clients)
          /\ Len(b) = IF p + 1 <= Len(s) THEN Len(s) - (p + 1) + 1 ELSE 0
          /\ \A n \in 1 .. Len(s) - (p + 1) + 1 : b[n] = s[p + 1 + n - 1]
      BY <1>1, <2>1, <3>1, SubSeqProperties
    <3>3. Len(s) - (p + 1) + 1 = Len(s) - p /\ \A n \in Nat : p + 1 + n - 1 = p + n
      BY <1>1, <2>1
    <3> HIDE DEF b
    <3>4. Len(b) = Len(s) - p
      <4>1. Len(b) = IF p + 1 <= Len(s) THEN Len(s) - (p + 1) + 1 ELSE 0
        BY <3>2
      <4>2. p \in Nat /\ p <= Len(s) /\ Len(s) \in Nat
        BY <1>1, <2>1
      <4> QED
        BY <4>1, <4>2
    <3>5. \A n \in 1 .. Len(s) - p : b[n] = s[p + n]
      BY <3>2, <3>3
    <3> QED
      BY <3>2, <3>4, <3>5 DEF b
  <2>4. /\ t \in Seq(Clients) /\ Len(t) = Len(s) - 1 /\ DOMAIN t = 1 .. Len(s) - 1
        /\ \A n \in 1 .. p - 1 : t[n] = s[n]
        /\ \A n \in p .. Len(s) - 1 : t[n] = s[n + 1]
    <3> DEFINE a == SubSeq(s, 1, p - 1)
               b == SubSeq(s, p + 1, Len(s))
    <3>1. t = a \o b
      BY DEF RemoveAt
    <3> HIDE DEF a, b, t
    <3>2. /\ t \in Seq(Clients) /\ Len(t) = Len(a) + Len(b)
          /\ \A n \in 1 .. Len(a) + Len(b) : t[n] = IF n <= Len(a) THEN a[n] ELSE b[n - Len(a)]
      BY SMTT(30), <2>2, <2>3, <3>1 DEF a, b
    <3>3. Len(a) = p - 1 /\ Len(b) = Len(s) - p
      BY <2>2, <2>3 DEF a, b
    <3>4. Len(t) = Len(s) - 1 /\ DOMAIN t = 1 .. Len(s) - 1
      BY <1>1, <2>1, <3>2, <3>3
    <3>5. \A n \in 1 .. p - 1 : t[n] = s[n]
      BY <1>1, <2>1, <2>2, <3>2, <3>3 DEF a
    <3>6. ASSUME NEW n \in p .. Len(s) - 1 PROVE t[n] = s[n + 1]
      <4>1. t[n] = b[n - (p - 1)]
        BY SMTT(30), <1>1, <2>1, <3>2, <3>3
      <4>2. n - (p - 1) \in 1 .. Len(s) - p /\ p + (n - (p - 1)) = n + 1
        BY <1>1, <2>1
      <4> QED
        BY <2>3, <4>1, <4>2 DEF b
    <3> QED
      BY <3>2, <3>4, <3>5, <3>6
  <2> HIDE DEF t
  <2>5. \A n \in 1 .. Len(s) - 1 : t[n] = s[IF n < p THEN n ELSE n + 1]
    BY <1>1, <2>1, <2>4
  <2>6. Distinct(t)
    <3> SUFFICES ASSUME NEW m \in 1 .. Len(s) - 1, NEW n \in 1 .. Len(s) - 1, m # n
                 PROVE  t[m] # t[n]
      BY <2>4 DEF Distinct
    <3> DEFINE i == IF m < p THEN m ELSE m + 1
               j == IF n < p THEN n ELSE n + 1
    <3>1. i \in 1 .. Len(s) /\ j \in 1 .. Len(s) /\ i # j
      BY <1>1, <2>1
    <3>2. t[m] = s[i] /\ t[n] = s[j]
      BY <2>5
    <3> HIDE DEF i, j
    <3> QED
      BY <1>1, <3>1, <3>2 DEF Distinct
  <2>7. Range(t) = Range(s) \ {c}
    <3>1. ASSUME NEW n \in 1 .. Len(s) - 1 PROVE t[n] \in Range(s) \ {c}
      BY <1>1, <2>1, <2>5 DEF Distinct, Range
    <3>2. ASSUME NEW n \in 1 .. Len(s), s[n] # c PROVE s[n] \in Range(t)
      <4>1. CASE n < p
        BY SMTT(30), <1>1, <2>1, <2>4, <4>1 DEF Range
      <4>2. CASE n > p
        <5>1. n - 1 \in p .. Len(s) - 1 /\ (n - 1) + 1 = n
          BY <1>1, <2>1, <4>2
        <5>2. t[n - 1] = s[n] /\ n - 1 \in DOMAIN t
          BY <2>1, <2>4, <5>1
        <5> QED
          BY <5>2 DEF Range
      <4> QED
        BY <2>1, <3>2, <4>1, <4>2
    <3> QED
      BY <1>1, <2>4, <3>1, <3>2 DEF Range
  <2>8. Without(c) = t
    BY <1>3 DEF Without, t, p
  <2> QED
    BY <2>4, <2>6, <2>7, <2>8
<1> QED
  BY <1>2, <1>3

LEMMA FeedInitially == Init => FeedInvariant
<1> SUFFICES ASSUME Init PROVE FeedInvariant
  OBVIOUS
<1> USE DEF Init
<1>1. FeedTypeOK
  BY DEF FeedTypeOK
<1>2. ListedAreHandled /\ LoopIsHeld
  BY DEF ListedAreHandled, LoopIsHeld, Range
<1>3. NothingBeforeWelcome /\ BroadcastInvariant
  BY DEF NothingBeforeWelcome, BroadcastInvariant, Distinct, Range
<1>4. PositionsOnlyAdvance /\ BroadcastSkipsNobody
  BY DEF PositionsOnlyAdvance, BroadcastSkipsNobody, Range
<1> QED
  BY <1>1, <1>2, <1>3, <1>4 DEF FeedInvariant

(* What the invariant speaks of.                                           *)
spoken == <<loop, live_vehicles, payload, active_connections, copy, worker, at,
            handler, socket, inbox>>

LEMMA StutterKeepsFeed ==
  ASSUME FeedInvariant, UNCHANGED spoken
  PROVE  FeedInvariant'
<1> USE DEF FeedInvariant, spoken
<1>1. FeedTypeOK' /\ ListedAreHandled' /\ LoopIsHeld'
  BY DEF FeedTypeOK, ListedAreHandled, LoopIsHeld, Range
<1>2. NothingBeforeWelcome' /\ BroadcastInvariant'
  BY DEF NothingBeforeWelcome, Unwelcomed, BroadcastInvariant, Distinct, Unsent, Range
<1>3. PositionsOnlyAdvance' /\ BroadcastSkipsNobody'
  BY DEF PositionsOnlyAdvance, BroadcastSkipsNobody, Range
<1> QED
  BY <1>1, <1>2, <1>3

(* A handler or a connection changes its state, and neither is listed      *)
(* where it must not be, nor welcomed, nor mended.                         *)
LEMMA HandlerKeepsFeed ==
  ASSUME FeedInvariant, NEW c \in Clients, FeedTypeOK',
         UNCHANGED <<live_vehicles, payload, active_connections, copy, worker, at, inbox>>,
         \A d \in Clients \ {c} : handler'[d] = handler[d] /\ socket'[d] = socket[d],
         c \in Range(active_connections) => handler'[c] \in {"counted", "drain", "listen"},
         LoopIsHeld',
         handler'[c] \in {"none", "accept", "counted"} => Unwelcomed(c),
         socket[c] = "broken" => socket'[c] = "broken" \/ Unwelcomed(c)
  PROVE  FeedInvariant'
<1> USE DEF FeedInvariant
<1>1. ListedAreHandled'
  <2>1. Range(active_connections) \subseteq Clients
    BY DEF FeedTypeOK, Range
  <2>2. \A d \in Range(active_connections) : handler'[d] \in {"counted", "drain", "listen"}
    BY <2>1 DEF ListedAreHandled
  <2> QED
    BY <2>2 DEF ListedAreHandled, Range
<1>2. NothingBeforeWelcome'
  BY DEF NothingBeforeWelcome, Unwelcomed, Range
<1>3. \A n \in DOMAIN copy : /\ copy[n] \in Clients
                             /\ ~Unwelcomed(copy[n])
                             /\ socket[copy[n]] = "broken" => socket'[copy[n]] = "broken"
  <2> SUFFICES ASSUME NEW n \in DOMAIN copy
               PROVE  /\ copy[n] \in Clients
                      /\ ~Unwelcomed(copy[n])
                      /\ socket[copy[n]] = "broken" => socket'[copy[n]] = "broken"
    OBVIOUS
  <2>1. copy[n] \in Clients /\ copy[n] \in Range(copy)
    BY DEF FeedTypeOK, Range
  <2> QED
    BY <2>1 DEF NothingBeforeWelcome
<1>4. BroadcastInvariant'
  BY <1>3 DEF BroadcastInvariant, Distinct, Unsent, Range
<1>5. PositionsOnlyAdvance'
  BY DEF PositionsOnlyAdvance
<1>6. BroadcastSkipsNobody'
  BY <1>3 DEF BroadcastSkipsNobody, Range
<1> QED
  BY <1>1, <1>2, <1>4, <1>5, <1>6

LEMMA OpenKeepsFeed ==
  ASSUME FeedInvariant, NEW c \in Clients, Open(c)
  PROVE  FeedInvariant'
<1>1. FeedTypeOK'
  BY DEF FeedInvariant, FeedTypeOK, Open, workerVars, listVars
<1>2. c \notin Range(active_connections)
  BY DEF FeedInvariant, ListedAreHandled, Open
<1>3. LoopIsHeld'
  BY DEF FeedInvariant, FeedTypeOK, LoopIsHeld, Open, workerVars
<1>4. /\ UNCHANGED <<live_vehicles, payload, active_connections, copy, worker, at, inbox>>
      /\ handler[c] = "none" /\ socket' = [socket EXCEPT ![c] = "open"]
      /\ handler' = [handler EXCEPT ![c] = "accept"]
      /\ socket \in [Clients -> {"none", "open", "stalled", "broken"}]
      /\ handler \in [Clients -> {"none", "accept", "counted", "drain", "listen", "leave", "end"}]
  BY DEF FeedInvariant, FeedTypeOK, Open, workerVars, listVars
<1>5. handler'[c] = "accept" /\ \A d \in Clients \ {c} : handler'[d] = handler[d] /\ socket'[d] = socket[d]
  BY <1>4
<1>6. Unwelcomed(c)
  BY <1>4 DEF Unwelcomed
<1> QED
  BY <1>1, <1>2, <1>3, <1>4, <1>5, <1>6, HandlerKeepsFeed

LEMMA AcceptFailsKeepsFeed ==
  ASSUME FeedInvariant, NEW c \in Clients, AcceptFails(c)
  PROVE  FeedInvariant'
<1>1. FeedTypeOK'
  BY DEF FeedInvariant, FeedTypeOK, AcceptFails, workerVars, listVars
<1>2. c \notin Range(active_connections)
  BY DEF FeedInvariant, ListedAreHandled, AcceptFails
<1>3. LoopIsHeld'
  BY DEF FeedInvariant, FeedTypeOK, LoopIsHeld, AcceptFails, workerVars
<1>4. /\ UNCHANGED <<live_vehicles, payload, active_connections, copy, worker, at, inbox, socket>>
      /\ handler[c] = "accept" /\ handler' = [handler EXCEPT ![c] = "end"]
      /\ handler \in [Clients -> {"none", "accept", "counted", "drain", "listen", "leave", "end"}]
  BY DEF FeedInvariant, FeedTypeOK, AcceptFails, workerVars, listVars
<1>5. handler'[c] = "end" /\ \A d \in Clients \ {c} : handler'[d] = handler[d]
  BY <1>4
<1> QED
  BY <1>1, <1>2, <1>3, <1>4, <1>5, HandlerKeepsFeed

LEMMA ListenKeepsFeed ==
  ASSUME FeedInvariant, NEW c \in Clients, Listen(c)
  PROVE  FeedInvariant'
<1>1. FeedTypeOK'
  BY DEF FeedInvariant, FeedTypeOK, Listen, workerVars, listVars
<1>2. LoopIsHeld'
  BY DEF FeedInvariant, FeedTypeOK, LoopIsHeld, Listen, workerVars
<1>3. /\ UNCHANGED <<live_vehicles, payload, active_connections, copy, worker, at, inbox, socket>>
      /\ handler[c] = "drain" /\ handler' = [handler EXCEPT ![c] = "listen"]
      /\ handler \in [Clients -> {"none", "accept", "counted", "drain", "listen", "leave", "end"}]
  BY DEF FeedInvariant, FeedTypeOK, Listen, workerVars, listVars
<1>4. handler'[c] = "listen" /\ \A d \in Clients \ {c} : handler'[d] = handler[d]
  BY <1>3
<1> QED
  BY <1>1, <1>2, <1>3, <1>4, HandlerKeepsFeed

LEMMA LeaveKeepsFeed ==
  ASSUME FeedInvariant, NEW c \in Clients, Leave(c)
  PROVE  FeedInvariant'
<1>1. FeedTypeOK'
  BY DEF FeedInvariant, FeedTypeOK, Leave, workerVars, listVars
<1>2. c \notin Range(active_connections)
  BY DEF FeedInvariant, ListedAreHandled, Leave
<1>3. loop = c /\ loop' = Free
  BY DEF FeedInvariant, LoopIsHeld, Leave
<1>4. LoopIsHeld'
  BY <1>3, LoopAssumption DEF FeedInvariant, FeedTypeOK, LoopIsHeld, Leave, workerVars
<1>5. /\ UNCHANGED <<live_vehicles, payload, active_connections, copy, worker, at, inbox, socket>>
      /\ handler' = [handler EXCEPT ![c] = "end"]
      /\ handler \in [Clients -> {"none", "accept", "counted", "drain", "listen", "leave", "end"}]
  BY DEF FeedInvariant, FeedTypeOK, Leave, workerVars, listVars
<1>6. handler'[c] = "end" /\ \A d \in Clients \ {c} : handler'[d] = handler[d]
  BY <1>5
<1> QED
  BY <1>1, <1>2, <1>4, <1>5, <1>6, HandlerKeepsFeed

(* The list is shortened, or gets somebody who was not in it.              *)
LEMMA ListDistinct ==
  ASSUME FeedInvariant
  PROVE  active_connections \in Seq(Clients) /\ Distinct(active_connections)
BY DEF FeedInvariant, FeedTypeOK, ListedAreHandled, Distinct

LEMMA ConnectKeepsFeed ==
  ASSUME FeedInvariant, NEW c \in Clients, Connect(c)
  PROVE  FeedInvariant'
<1> USE DEF FeedInvariant
<1>1. /\ handler[c] = "accept" /\ loop = Free /\ loop' = c
      /\ handler' = [handler EXCEPT ![c] = "counted"]
      /\ active_connections' = Append(active_connections, c)
      /\ UNCHANGED <<live_vehicles, payload, copy, worker, at, socket, inbox>>
  BY DEF Connect, SetConnections, workerVars
<1>2. c \notin Range(active_connections) /\ Unwelcomed(c) /\ c \notin Range(copy)
  BY <1>1 DEF ListedAreHandled, NothingBeforeWelcome, Unwelcomed
<1>3. /\ active_connections' \in Seq(Clients)
      /\ Distinct(active_connections')
      /\ Range(active_connections') = Range(active_connections) \cup {c}
  BY <1>1, <1>2, ListDistinct, AppendedToDistinct
<1>4. FeedTypeOK'
  BY <1>1, <1>3 DEF FeedTypeOK
<1>5. ListedAreHandled'
  <2>1. \A d \in Range(active_connections') : handler'[d] \in {"counted", "drain", "listen"}
    BY <1>1, <1>3 DEF ListedAreHandled, FeedTypeOK
  <2> QED
    BY <1>3, <2>1 DEF ListedAreHandled, Distinct
<1>6. LoopIsHeld'
  BY <1>1, LoopAssumption DEF LoopIsHeld, FeedTypeOK, Free, Worker
<1>7. NothingBeforeWelcome'
  BY <1>1 DEF NothingBeforeWelcome, Unwelcomed, Range, FeedTypeOK
<1>8. \A n \in DOMAIN copy : copy[n] # c
  BY <1>2 DEF Range
<1>9. BroadcastInvariant'
  BY <1>1, <1>3, <1>8 DEF BroadcastInvariant, Distinct, Unsent, FeedTypeOK
<1>10. PositionsOnlyAdvance'
  BY <1>1 DEF PositionsOnlyAdvance
<1>11. BroadcastSkipsNobody'
  <2>1. Range(copy) \cap Range(active_connections') = Range(copy) \cap Range(active_connections)
    BY <1>2, <1>3
  <2> QED
    BY <1>1, <2>1 DEF BroadcastSkipsNobody, Range
<1> QED
  BY <1>4, <1>5, <1>6, <1>7, <1>9, <1>10, <1>11

(* A client leaves the list, and its handler or the worker has the loop.   *)
LEMMA RemovalKeepsFeed ==
  ASSUME FeedInvariant, NEW c \in Clients, active_connections' = Without(c),
         UNCHANGED <<live_vehicles, payload, copy, at, socket, inbox>>,
         \A d \in Clients \ {c} : handler'[d] = handler[d],
         handler'[c] # handler[c] => handler'[c] = "leave",
         worker' # worker => worker = "drain" /\ worker' = "recount" /\ at <= Len(copy)
                             /\ c = copy[at],
         FeedTypeOK', LoopIsHeld'
  PROVE  FeedInvariant'
<1> USE DEF FeedInvariant
<1>1. /\ Distinct(active_connections')
      /\ Range(active_connections') = Range(active_connections) \ {c}
  BY ListDistinct, RemovedFromDistinct
<1>2. ListedAreHandled'
  <2>1. Range(active_connections) \subseteq Clients
    BY DEF FeedTypeOK, Range
  <2>2. \A d \in Range(active_connections') : handler'[d] \in {"counted", "drain", "listen"}
    BY <1>1, <2>1 DEF ListedAreHandled
  <2> QED
    BY <1>1, <2>2 DEF ListedAreHandled, Distinct
<1>3. NothingBeforeWelcome'
  BY DEF NothingBeforeWelcome, Unwelcomed, Range
<1>4. BroadcastInvariant'
  BY SMTT(30), <1>1 DEF BroadcastInvariant, Distinct, Unsent, FeedTypeOK
<1>5. PositionsOnlyAdvance'
  BY DEF PositionsOnlyAdvance
<1>6. BroadcastSkipsNobody'
  <2>1. Range(copy) \cap Range(active_connections') \subseteq
          Range(copy) \cap Range(active_connections)
    BY <1>1
  <2>2. worker' = "sleep" => worker = "sleep"
    OBVIOUS
  <2> QED
    BY <2>1, <2>2 DEF BroadcastSkipsNobody, Range
<1> QED
  BY <1>2, <1>3, <1>4, <1>5, <1>6

LEMMA DisconnectKeepsFeed ==
  ASSUME FeedInvariant, NEW c \in Clients, Disconnect(c)
  PROVE  FeedInvariant'
<1>1. /\ handler' = [handler EXCEPT ![c] = "leave"] /\ loop = Free /\ loop' = c
      /\ active_connections' = Without(c)
      /\ UNCHANGED <<live_vehicles, payload, copy, worker, at, socket, inbox>>
  BY DEF Disconnect, SetConnections, workerVars
<1>2. active_connections' \in Seq(Clients)
  BY <1>1, ListDistinct, RemovedFromDistinct
<1>3. FeedTypeOK'
  BY <1>1, <1>2 DEF FeedInvariant, FeedTypeOK
<1>4. LoopIsHeld'
  BY <1>1, LoopAssumption DEF FeedInvariant, LoopIsHeld, FeedTypeOK, Free, Worker
<1>5. \A d \in Clients : handler'[d] = IF d = c THEN "leave" ELSE handler[d]
  BY <1>1 DEF FeedInvariant, FeedTypeOK
<1> QED
  BY <1>1, <1>3, <1>4, <1>5, RemovalKeepsFeed

LEMMA SendFailsKeepsFeed ==
  ASSUME FeedInvariant, SendFails
  PROVE  FeedInvariant'
<1>1. /\ worker = "drain" /\ worker' = "recount" /\ loop = Free /\ loop' = Worker
      /\ at <= Len(copy)
      /\ active_connections' = Without(copy[at])
      /\ UNCHANGED <<live_vehicles, payload, copy, at, handler, socket, inbox>>
  BY DEF SendFails, SetConnections, Targets, clientVars
<1>2. copy[at] \in Clients
  BY <1>1 DEF FeedInvariant, FeedTypeOK
<1>3. active_connections' \in Seq(Clients)
  BY <1>1, ListDistinct, RemovedFromDistinct
<1>4. FeedTypeOK'
  BY <1>1, <1>3 DEF FeedInvariant, FeedTypeOK
<1>5. LoopIsHeld'
  BY <1>1, LoopAssumption DEF FeedInvariant, LoopIsHeld, FeedTypeOK, Free, Worker
<1> QED
  BY <1>1, <1>2, <1>4, <1>5, RemovalKeepsFeed

LEMMA SnapshotKeepsFeed ==
  ASSUME FeedInvariant, NEW c \in Clients, Snapshot(c)
  PROVE  FeedInvariant'
<1> USE DEF FeedInvariant
<1>1. /\ handler[c] = "counted" /\ loop = c /\ loop' = Free
      /\ handler' = [handler EXCEPT ![c] = "drain"]
      /\ inbox' = IF socket[c] = "broken" THEN inbox
                  ELSE [inbox EXCEPT ![c] = Append(inbox[c], live_vehicles)]
      /\ UNCHANGED <<live_vehicles, payload, active_connections, copy, worker, at, socket>>
  BY DEF Snapshot, LoopIsHeld, Write, workerVars, listVars
<1>2. inbox[c] = <<>> /\ c \notin Range(copy)
  BY <1>1 DEF NothingBeforeWelcome, Unwelcomed
<1>3. /\ inbox' \in [Clients -> Seq(Nat)]
      /\ \A d \in Clients \ {c} : inbox'[d] = inbox[d]
      /\ inbox'[c] = <<>> \/ inbox'[c] = <<live_vehicles>>
  <2>1. Append(<<>>, live_vehicles) = <<live_vehicles>> /\ <<live_vehicles>> \in Seq(Nat)
    BY DEF FeedTypeOK
  <2> QED
    BY <1>1, <1>2, <2>1 DEF FeedTypeOK
<1>4. FeedTypeOK'
  BY <1>1, <1>3 DEF FeedTypeOK
<1>5. ListedAreHandled'
  <2>1. Range(active_connections) \subseteq Clients
    BY DEF FeedTypeOK, Range
  <2>2. \A d \in Range(active_connections) : handler'[d] \in {"counted", "drain", "listen"}
    BY <1>1, <2>1 DEF ListedAreHandled, FeedTypeOK
  <2> QED
    BY <1>1, <2>2 DEF ListedAreHandled, Range
<1>6. LoopIsHeld'
  BY <1>1, LoopAssumption DEF LoopIsHeld, FeedTypeOK, Free, Worker
<1>7. NothingBeforeWelcome'
  BY <1>1, <1>3 DEF NothingBeforeWelcome, Unwelcomed, Range, FeedTypeOK
<1>8. \A n \in DOMAIN copy : copy[n] \in Clients \ {c}
  BY <1>2 DEF Range, FeedTypeOK
<1>9. \A d \in Clients : \A m \in DOMAIN inbox'[d] : inbox'[d][m] <= live_vehicles
  <2>1. \A d \in Clients \ {c} : \A m \in DOMAIN inbox'[d] : inbox'[d][m] <= live_vehicles
    BY <1>3 DEF BroadcastInvariant
  <2>2. \A m \in DOMAIN inbox'[c] : inbox'[c][m] <= live_vehicles
    BY <1>3 DEF FeedTypeOK
  <2> QED
    BY <2>1, <2>2
<1>10. BroadcastInvariant'
  BY SMTT(30), <1>1, <1>3, <1>8, <1>9 DEF BroadcastInvariant, Distinct, Unsent, Range
<1>11. PositionsOnlyAdvance'
  <2>1. \A m, n \in DOMAIN inbox'[c] : m < n => inbox'[c][m] < inbox'[c][n]
    BY <1>3
  <2> QED
    BY <1>3, <2>1 DEF PositionsOnlyAdvance
<1>12. BroadcastSkipsNobody'
  <2>1. \A d \in Range(copy) : d \in Clients \ {c}
    BY <1>8 DEF Range
  <2> QED
    BY <1>1, <1>3, <2>1 DEF BroadcastSkipsNobody, Range
<1> QED
  BY <1>4, <1>5, <1>6, <1>7, <1>10, <1>11, <1>12

LEMMA TurnKeepsFeed ==
  ASSUME FeedInvariant, Turn
  PROVE  FeedInvariant'
<1> USE DEF FeedInvariant
<1>1. /\ worker = "sleep" /\ loop = Free /\ live_vehicles' = live_vehicles + 1
      /\ live_vehicles \in Nat
      /\ UNCHANGED <<active_connections, handler, socket, inbox>>
  BY DEF Turn, listVars, clientVars, FeedTypeOK
<1>2. \A d \in Clients : \A m \in DOMAIN inbox[d] :
        inbox[d][m] \in Nat /\ inbox[d][m] <= live_vehicles
  BY DEF BroadcastInvariant, FeedTypeOK
<1>3. ListedAreHandled' /\ PositionsOnlyAdvance'
  BY <1>1 DEF ListedAreHandled, PositionsOnlyAdvance, Range
<1>4. CASE active_connections = <<>>
  <2>1. UNCHANGED <<loop, worker, payload, copy, at>>
    BY <1>4 DEF Turn
  <2>2. FeedTypeOK' /\ LoopIsHeld' /\ NothingBeforeWelcome' /\ BroadcastSkipsNobody'
    BY <1>1, <2>1 DEF FeedTypeOK, LoopIsHeld, NothingBeforeWelcome, Unwelcomed,
                      BroadcastSkipsNobody, Range
  <2>3. BroadcastInvariant'
    BY <1>1, <1>2, <2>1 DEF BroadcastInvariant, Distinct, FeedTypeOK
  <2> QED
    BY <1>3, <2>2, <2>3
<1>5. CASE active_connections # <<>>
  <2>1. /\ loop' = Worker /\ worker' = "send" /\ payload' = live_vehicles + 1
        /\ copy' = active_connections /\ at' = 1
    BY <1>1, <1>5 DEF Turn
  <2>2. FeedTypeOK'
    BY <1>1, <2>1 DEF FeedTypeOK
  <2>3. \A d \in Clients : handler[d] \notin {"counted", "leave"}
    BY <1>1, LoopAssumption DEF LoopIsHeld
  <2>4. LoopIsHeld'
    BY <1>1, <2>1, <2>3 DEF LoopIsHeld
  <2>5. NothingBeforeWelcome'
    BY <1>1, <2>1, <2>3 DEF NothingBeforeWelcome, Unwelcomed, ListedAreHandled, Range
  <2>6. \A n \in DOMAIN copy' : Unsent(n)' /\ copy'[n] \in Clients
    BY <2>1 DEF Unsent, FeedTypeOK
  <2>7. \A d \in Clients : \A m \in DOMAIN inbox[d] : inbox[d][m] < payload'
    BY <1>1, <1>2, <2>1
  <2>8. BroadcastInvariant'
    <3>1. Distinct(copy')
      BY <2>1, ListDistinct DEF Distinct
    <3>2. \A d \in Clients : \A m \in DOMAIN inbox'[d] : inbox'[d][m] <= live_vehicles'
      BY <1>1, <1>2
    <3>3. \A n \in DOMAIN copy' : \A m \in DOMAIN inbox'[copy'[n]] :
            inbox'[copy'[n]][m] < payload'
      BY <1>1, <2>6, <2>7
    <3> QED
      BY <1>1, <2>1, <2>6, <3>1, <3>2, <3>3 DEF BroadcastInvariant
  <2>9. BroadcastSkipsNobody'
    BY <2>1 DEF BroadcastSkipsNobody
  <2> QED
    BY <1>3, <2>2, <2>4, <2>5, <2>8, <2>9
<1> QED
  BY <1>4, <1>5

LEMMA SendKeepsFeed ==
  ASSUME FeedInvariant, Send
  PROVE  FeedInvariant'
<1> USE DEF FeedInvariant
<1> DEFINE c == copy[at]
           shown == Append(inbox[c], payload)
<1>1. /\ worker = "send" /\ worker' = "drain" /\ at <= Len(copy) /\ at \in DOMAIN copy
      /\ c \in Clients /\ loop' = Free /\ inbox[c] \in Seq(Nat)
      /\ inbox' = IF socket[c] = "broken" THEN inbox ELSE [inbox EXCEPT ![c] = shown]
      /\ UNCHANGED <<live_vehicles, payload, active_connections, copy, at, handler, socket>>
  BY DEF Send, Write, Targets, listVars, FeedTypeOK
<1>2. /\ payload = live_vehicles /\ payload \in Nat
      /\ \A m \in DOMAIN inbox[c] : inbox[c][m] \in Nat /\ inbox[c][m] < payload
  BY <1>1 DEF BroadcastInvariant, Unsent, FeedTypeOK
<1>3. ~Unwelcomed(c)
  BY <1>1 DEF NothingBeforeWelcome, Range
<1> HIDE DEF c
<1>4. /\ shown \in Seq(Nat)
      /\ DOMAIN shown = 1 .. Len(inbox[c]) + 1 /\ DOMAIN inbox[c] = 1 .. Len(inbox[c])
      /\ Len(inbox[c]) \in Nat
      /\ \A m \in 1 .. Len(inbox[c]) : shown[m] = inbox[c][m]
      /\ shown[Len(inbox[c]) + 1] = payload
  BY <1>1, <1>2, AppendedElements, SequenceElements
<1> HIDE DEF shown
<1>5. /\ \A m \in DOMAIN shown : shown[m] <= payload
      /\ \A m, n \in DOMAIN shown : m < n => shown[m] < shown[n]
      /\ payload \in Range(shown)
  <2>1. \A m \in DOMAIN shown : shown[m] <= payload
    BY SMTT(30), <1>2, <1>4
  <2>2. ASSUME NEW m \in DOMAIN shown, NEW n \in DOMAIN shown, m < n
        PROVE  shown[m] < shown[n]
    <3>1. m \in 1 .. Len(inbox[c])
      BY <1>4, <2>2
    <3>2. CASE n = Len(inbox[c]) + 1
      BY <1>2, <1>4, <3>1, <3>2
    <3>3. CASE n \in 1 .. Len(inbox[c])
      <4>1. inbox[c][m] < inbox[c][n]
        BY <1>1, <1>4, <2>2, <3>1, <3>3 DEF PositionsOnlyAdvance
      <4> QED
        BY <1>4, <3>1, <3>3, <4>1
    <3> QED
      BY <1>4, <3>2, <3>3
  <2>3. payload \in Range(shown)
    <3>1. Len(inbox[c]) + 1 \in DOMAIN shown
      BY <1>4
    <3> QED
      BY <1>4, <3>1 DEF Range
  <2> QED
    BY <2>1, <2>2, <2>3
<1>6. /\ inbox' \in [Clients -> Seq(Nat)]
      /\ \A d \in Clients \ {c} : inbox'[d] = inbox[d]
      /\ socket[c] = "broken" => inbox'[c] = inbox[c]
      /\ socket[c] # "broken" => inbox'[c] = shown
  BY <1>1, <1>4 DEF FeedTypeOK
<1>7. FeedTypeOK'
  BY <1>1, <1>6 DEF FeedTypeOK
<1>8. ListedAreHandled' /\ BroadcastSkipsNobody'
  BY <1>1 DEF ListedAreHandled, BroadcastSkipsNobody, Range
<1>9. LoopIsHeld'
  <2>1. \A d \in Clients : handler[d] \notin {"counted", "leave"}
    BY <1>1, LoopAssumption DEF LoopIsHeld
  <2> QED
    BY <1>1, <2>1 DEF LoopIsHeld
<1>10. NothingBeforeWelcome'
  BY <1>1, <1>3, <1>6 DEF NothingBeforeWelcome, Unwelcomed, Range
<1>11. PositionsOnlyAdvance'
  BY <1>1, <1>5, <1>6 DEF PositionsOnlyAdvance
<1>12. BroadcastInvariant'
  <2>1. \A d \in Clients : \A m \in DOMAIN inbox'[d] : inbox'[d][m] <= live_vehicles
    <3>1. \A m \in DOMAIN inbox'[c] : inbox'[c][m] <= live_vehicles
      BY <1>1, <1>2, <1>5, <1>6 DEF BroadcastInvariant
    <3> QED
      BY <1>6, <3>1 DEF BroadcastInvariant
  <2>2. \A n \in DOMAIN copy : copy[n] \in Clients
    BY DEF FeedTypeOK
  <2>3. \A n \in DOMAIN copy : n # at => copy[n] # c
    BY <1>1 DEF BroadcastInvariant, Distinct, c
  <2>4. ASSUME NEW n \in DOMAIN copy
        PROVE  IF Unsent(n)' THEN \A m \in DOMAIN inbox'[copy[n]] : inbox'[copy[n]][m] < payload
               ELSE copy[n] \in Range(active_connections) /\ socket[copy[n]] # "broken" =>
                      payload \in Range(inbox'[copy[n]])
    <3>1. CASE n = at
      <4>1. ~Unsent(n)' /\ copy[n] = c
        BY <1>1, <3>1 DEF Unsent, c, FeedTypeOK
      <4> QED
        BY <1>5, <1>6, <4>1
    <3>2. CASE n # at
      <4>1. Unsent(n)' <=> Unsent(n)
        BY <1>1, <3>2 DEF Unsent
      <4>2. inbox'[copy[n]] = inbox[copy[n]]
        BY <1>6, <2>2, <2>3, <3>2
      <4> QED
        BY <1>1, <4>1, <4>2 DEF BroadcastInvariant
    <3> QED
      BY <3>1, <3>2
  <2> QED
    BY <1>1, <2>1, <2>4 DEF BroadcastInvariant, Distinct
<1> QED
  BY <1>7, <1>8, <1>9, <1>10, <1>11, <1>12

LEMMA SentToAllKeepsFeed ==
  ASSUME FeedInvariant, SentToAll
  PROVE  FeedInvariant'
<1> USE DEF FeedInvariant
<1>1. /\ worker = "send" /\ worker' = "sleep" /\ at > Len(copy) /\ loop' = Free
      /\ loop = Worker
      /\ UNCHANGED <<live_vehicles, payload, active_connections, copy, at, handler, socket, inbox>>
  BY DEF SentToAll, Targets, listVars, clientVars, LoopIsHeld
<1>2. FeedTypeOK' /\ ListedAreHandled' /\ PositionsOnlyAdvance'
  BY <1>1 DEF FeedTypeOK, ListedAreHandled, PositionsOnlyAdvance, Range
<1>3. LoopIsHeld'
  BY <1>1, LoopAssumption DEF LoopIsHeld
<1>4. NothingBeforeWelcome'
  BY <1>1 DEF NothingBeforeWelcome, Unwelcomed, Range
<1>5. BroadcastInvariant'
  BY <1>1 DEF BroadcastInvariant, Distinct
<1>6. BroadcastSkipsNobody'
  <2>1. \A n \in DOMAIN copy : ~Unsent(n)
    BY <1>1 DEF Unsent, FeedTypeOK
  <2>2. \A n \in DOMAIN copy :
          copy[n] \in Range(active_connections) /\ socket[copy[n]] # "broken" =>
            payload \in Range(inbox[copy[n]])
    BY <1>1, <2>1 DEF BroadcastInvariant
  <2> QED
    BY <1>1, <2>2 DEF BroadcastSkipsNobody, Range
<1> QED
  BY <1>2, <1>3, <1>4, <1>5, <1>6

(* On to the next client, after a write or a failure.                      *)
LEMMA NextKeepsFeed ==
  ASSUME FeedInvariant, worker \in {"drain", "recount"}, worker' = "send", at' = at + 1,
         loop' = Worker, loop \in {Free, Worker},
         UNCHANGED <<live_vehicles, payload, active_connections, copy, handler, socket, inbox>>
  PROVE  FeedInvariant'
<1> USE DEF FeedInvariant
<1>1. FeedTypeOK' /\ ListedAreHandled' /\ PositionsOnlyAdvance'
  BY DEF FeedTypeOK, ListedAreHandled, PositionsOnlyAdvance, Range
<1>2. LoopIsHeld'
  BY LoopAssumption DEF LoopIsHeld
<1>3. NothingBeforeWelcome' /\ BroadcastSkipsNobody'
  BY DEF NothingBeforeWelcome, Unwelcomed, BroadcastSkipsNobody, Range
<1>4. \A n \in DOMAIN copy : Unsent(n)' <=> Unsent(n)
  BY DEF Unsent, FeedTypeOK
<1>5. BroadcastInvariant'
  <2>1. payload = live_vehicles
    BY DEF BroadcastInvariant
  <2> QED
    BY <1>4, <2>1 DEF BroadcastInvariant, Distinct, Range
<1> QED
  BY <1>1, <1>2, <1>3, <1>5

LEMMA SentKeepsFeed ==
  ASSUME FeedInvariant, Sent
  PROVE  FeedInvariant'
BY NextKeepsFeed DEF Sent, listVars, clientVars

LEMMA RecountKeepsFeed ==
  ASSUME FeedInvariant, Recount
  PROVE  FeedInvariant'
<1>1. loop = Worker
  BY DEF Recount, FeedInvariant, LoopIsHeld
<1> QED
  BY <1>1, NextKeepsFeed DEF Recount, listVars, clientVars

(* A connection may break, and what was written to it is not read then.    *)
LEMMA NetworkKeepsFeed ==
  ASSUME FeedInvariant, NEW c \in Clients, Network(c)
  PROVE  FeedInvariant'
<1> USE DEF FeedInvariant
<1>1. UNCHANGED <<loop, live_vehicles, payload, active_connections, copy, worker, at, handler>>
  BY DEF Network, workerVars, listVars
<1>2. /\ socket[c] # "broken"
      /\ socket' \in [Clients -> {"none", "open", "stalled", "broken"}]
      /\ \A d \in Clients \ {c} : socket'[d] = socket[d] /\ inbox'[d] = inbox[d]
      /\ \/ inbox' = inbox
         \/ socket'[c] = "broken" /\ inbox' = [inbox EXCEPT ![c] = <<>>]
  BY DEF Network, Stall, Resume, GoAway, GiveUp, FeedTypeOK
<1>3. FeedTypeOK'
  <2>1. inbox' \in [Clients -> Seq(Nat)]
    <3>1. inbox \in [Clients -> Seq(Nat)] /\ <<>> \in Seq(Nat)
      BY DEF FeedTypeOK
    <3>2. [inbox EXCEPT ![c] = <<>>] \in [Clients -> Seq(Nat)]
      BY <3>1, Zenon
    <3> QED
      BY <1>2, <3>1, <3>2
  <2> QED
    BY <1>1, <1>2, <2>1 DEF FeedTypeOK
<1>4. CASE inbox' = inbox
  <2>1. LoopIsHeld'
    BY <1>1 DEF LoopIsHeld
  <2> QED
    BY <1>1, <1>2, <1>3, <1>4, <2>1, HandlerKeepsFeed DEF Unwelcomed, ListedAreHandled
<1>5. CASE socket'[c] = "broken" /\ inbox' = [inbox EXCEPT ![c] = <<>>]
  <2>1. ListedAreHandled' /\ LoopIsHeld'
    BY <1>1 DEF ListedAreHandled, LoopIsHeld, Range
  <2>2. inbox'[c] = <<>> /\ \A d \in Clients : inbox'[d] = inbox[d] \/ inbox'[d] = <<>>
    BY <1>2, <1>5 DEF FeedTypeOK
  <2>3. NothingBeforeWelcome'
    BY <1>1, <2>2 DEF NothingBeforeWelcome, Unwelcomed, Range
  <2>4. PositionsOnlyAdvance'
    BY <2>2 DEF PositionsOnlyAdvance
  <2>5. \A n \in DOMAIN copy : copy[n] \in Clients
    BY DEF FeedTypeOK
  <2>6. BroadcastInvariant'
    <3>1. \A d \in Clients : \A m \in DOMAIN inbox'[d] : inbox'[d][m] <= live_vehicles
      BY <2>2 DEF BroadcastInvariant
    <3>2. ASSUME NEW n \in DOMAIN copy, worker # "sleep"
          PROVE  IF Unsent(n) THEN \A m \in DOMAIN inbox'[copy[n]] : inbox'[copy[n]][m] < payload
                 ELSE copy[n] \in Range(active_connections) /\ socket'[copy[n]] # "broken" =>
                        payload \in Range(inbox'[copy[n]])
      BY <1>2, <1>5, <2>2, <2>5, <3>2 DEF BroadcastInvariant
    <3>3. \A n \in DOMAIN copy : Unsent(n)' <=> Unsent(n)
      BY <1>1 DEF Unsent
    <3> QED
      BY <1>1, <3>1, <3>2, <3>3 DEF BroadcastInvariant, Distinct
  <2>7. BroadcastSkipsNobody'
    <3>1. Range(copy) \subseteq Clients
      BY <2>5 DEF Range
    <3> QED
      BY <1>1, <1>2, <1>5, <3>1 DEF BroadcastSkipsNobody, Range
  <2> QED
    BY <1>3, <2>1, <2>3, <2>4, <2>6, <2>7
<1> QED
  BY <1>2, <1>4, <1>5

LEMMA FeedKeepsFeed ==
  ASSUME FeedInvariant, Feed
  PROVE  FeedInvariant'
<1>1. CASE \E c \in Clients : Open(c) \/ Handle(c) \/ Network(c)
  BY <1>1, OpenKeepsFeed, ConnectKeepsFeed, AcceptFailsKeepsFeed, SnapshotKeepsFeed,
     ListenKeepsFeed, DisconnectKeepsFeed, LeaveKeepsFeed, NetworkKeepsFeed DEF Handle
<1>2. CASE Turn \/ Broadcast
  BY <1>2, TurnKeepsFeed, SendKeepsFeed, SentToAllKeepsFeed, SentKeepsFeed,
     SendFailsKeepsFeed, RecountKeepsFeed DEF Broadcast
<1>3. CASE \E s \in Scrapes : Scrape(s)
  BY <1>3, StutterKeepsFeed
     DEF spoken, Scrape, Count, Set, Render, workerVars, listVars, clientVars
<1> QED
  BY <1>1, <1>2, <1>3 DEF Feed

-----------------------------------------------------------------------------
Invariant == MetricsInvariant /\ FeedInvariant

LEMMA StutterKeepsMetrics ==
  ASSUME MetricsInvariant, UNCHANGED metricsVars
  PROVE  MetricsInvariant'
BY DEF MetricsInvariant, MetricsTypeOK, Fitting, metricsVars, latencyVars

LEMMA InvariantHolds == Spec => []Invariant
<1>1. Init => Invariant
  BY MetricsInitially, FeedInitially DEF Invariant, Init
<1>2. Invariant /\ [Next]_vars => Invariant'
  <2> SUFFICES ASSUME Invariant, [Next]_vars PROVE Invariant'
    OBVIOUS
  <2>1. CASE Feed /\ UNCHANGED metricsVars
    BY <2>1, FeedKeepsFeed, StutterKeepsMetrics DEF Invariant
  <2>2. CASE RecordQuery /\ UNCHANGED feedVars
    <3>1. MetricsInvariant'
      BY <2>2, StatusKeepsMetrics, LatencyKeepsMetrics DEF RecordQuery, Invariant
    <3>2. FeedInvariant'
      BY <2>2, StutterKeepsFeed
         DEF Invariant, spoken, feedVars, workerVars, listVars, clientVars
    <3> QED
      BY <3>1, <3>2 DEF Invariant
  <2>3. CASE UNCHANGED vars
    BY <2>3, StutterKeepsFeed, StutterKeepsMetrics
       DEF Invariant, spoken, vars, feedVars, workerVars, listVars, clientVars
  <2> QED
    BY <2>1, <2>2, <2>3 DEF Next
<1> QED
  BY <1>1, <1>2, PTL DEF Spec

(* disconnect takes out of active_connections the very client that is      *)
(* gone, once: nobody is listed twice, or after its handler has ended.     *)
THEOREM ListIsKept == Spec => []ListedAreHandled
<1>1. Invariant => ListedAreHandled
  BY DEF Invariant, FeedInvariant
<1> QED
  BY <1>1, InvariantHolds, PTL

(* No client is shown positions twice, or older ones after newer ones,     *)
(* although it may join while the broadcast of the very positions it is    *)
(* welcomed with goes on.                                                  *)
THEOREM ClientsSeePositionsAdvance == Spec => []PositionsOnlyAdvance
<1>1. Invariant => PositionsOnlyAdvance
  BY DEF Invariant, FeedInvariant
<1> QED
  BY <1>1, InvariantHolds, PTL

(* broadcast reaches all that were listed when it began and still are.     *)
THEOREM EverybodyIsReached == Spec => []BroadcastSkipsNobody
<1>1. Invariant => BroadcastSkipsNobody
  BY DEF Invariant, FeedInvariant
<1> QED
  BY <1>1, InvariantHolds, PTL

(* What is read of the collector under its lock adds up, for any buckets   *)
(* and any queries.                                                        *)
THEOREM MetricsReportsAddUp == Spec => ReportsAddUp
<1>1. Invariant => (\A s \in Scrapes : Render(s) => AddsUp)
  BY MetricsAddUp DEF Invariant, Render
<1>2. Invariant /\ [Next]_vars => [\A s \in Scrapes : Render(s) => AddsUp]_vars
  BY <1>1
<1> QED
  BY <1>2, InvariantHolds, PTL DEF Spec, ReportsAddUp

-----------------------------------------------------------------------------
(* From the moment a request has counted the list, the numbers that may    *)
(* come into the gauge while it is under way are lengths the list has had  *)
(* since it came or since another came that was under way then: whoever    *)
(* changes the list counts it afterwards, and what a request carries it    *)
(* has counted itself.  So is the gauge once the request has set it.       *)
Recent(s) == lengths[s] \cup earlier[s]

ScrapeIsHonest ==
  /\ scrape \in [Scrapes -> {"idle", "set", "render"}]
  /\ DOMAIN count = Scrapes /\ DOMAIN lengths = Scrapes /\ DOMAIN earlier = Scrapes
  /\ \A s \in Scrapes :
       /\ scrape[s] # "idle" => Len(active_connections) \in lengths[s]
       /\ scrape[s] = "set" => count[s] \in lengths[s]
       /\ scrape[s] # "idle" => \A t \in Scrapes : scrape[t] = "set" => count[t] \in Recent(s)
       /\ scrape[s] = "render" => active_websockets \in Recent(s)

(* The steps in which no request has a part: each leaves the list or       *)
(* replaces it, and leaves the gauge or counts.                            *)
LEMMA OthersKeepScrapes ==
  ASSUME ScrapeIsHonest, UNCHANGED scrapeVars,
         UNCHANGED listVars \/ \E list : SetConnections(list) /\ UNCHANGED active_websockets,
         UNCHANGED active_websockets \/ Recounted
  PROVE  ScrapeIsHonest'
<1> USE DEF ScrapeIsHonest, Recent, scrapeVars
<1>1. CASE UNCHANGED listVars
  BY <1>1 DEF listVars, Recounted, SetGauge
<1>2. CASE \E list : SetConnections(list) /\ UNCHANGED active_websockets
  <2>1. PICK list : SetConnections(list)
    BY <1>2
  <2>2. /\ active_connections' = list /\ DOMAIN lengths' = Scrapes
        /\ \A s \in Scrapes : scrape[s] # "idle" => lengths'[s] = lengths[s] \cup {Len(list)}
    BY <2>1 DEF SetConnections
  <2> QED
    BY <1>2, <2>2
<1> QED
  BY <1>1, <1>2

LEMMA HandleKeepsScrapes ==
  ASSUME ScrapeIsHonest, NEW c \in Clients, Open(c) \/ Handle(c) \/ Network(c)
  PROVE  ScrapeIsHonest'
<1>1. CASE Open(c) \/ AcceptFails(c) \/ Listen(c) \/ Network(c)
  BY <1>1, OthersKeepScrapes DEF Open, AcceptFails, Listen, Network
<1>2. CASE Connect(c) \/ Disconnect(c)
  BY <1>2, OthersKeepScrapes DEF Connect, Disconnect
<1>3. CASE Snapshot(c) \/ Leave(c)
  BY <1>3, OthersKeepScrapes DEF Snapshot, Leave
<1> QED
  BY <1>1, <1>2, <1>3 DEF Handle

LEMMA WorkerKeepsScrapes ==
  ASSUME ScrapeIsHonest, Turn \/ Broadcast
  PROVE  ScrapeIsHonest'
<1>1. CASE Turn \/ Send \/ SentToAll \/ Sent
  BY <1>1, OthersKeepScrapes DEF Turn, Send, SentToAll, Sent
<1>2. CASE SendFails
  BY <1>2, OthersKeepScrapes DEF SendFails
<1>3. CASE Recount
  BY <1>3, OthersKeepScrapes DEF Recount
<1> QED
  BY <1>1, <1>2, <1>3 DEF Broadcast

LEMMA ScrapeKeepsScrapes ==
  ASSUME ScrapeIsHonest, NEW s \in Scrapes, Scrape(s)
  PROVE  ScrapeIsHonest'
<1> USE DEF ScrapeIsHonest, Recent
<1>1. CASE Count(s)
  <2>1. /\ scrape' = [scrape EXCEPT ![s] = "set"]
        /\ count' = [count EXCEPT ![s] = Len(active_connections)]
        /\ lengths' = [lengths EXCEPT ![s] = {Len(active_connections)}]
        /\ UNCHANGED <<active_connections, active_websockets>>
    BY <1>1 DEF Count
  <2>2. /\ DOMAIN earlier' = Scrapes
        /\ \A t \in Scrapes : t # s => earlier'[t] = earlier[t]
        /\ \A t \in Scrapes : lengths[t] \subseteq earlier'[s]
    BY <1>1 DEF Count, Range
  <2> QED
    BY <2>1, <2>2
<1>2. CASE Set(s)
  BY <1>2 DEF Set, SetGauge, listVars
<1>3. CASE Render(s)
  BY <1>3 DEF Render
<1> QED
  BY <1>1, <1>2, <1>3 DEF Scrape

LEMMA ScrapesAreHonest == Spec => []ScrapeIsHonest
<1>1. Init => ScrapeIsHonest
  BY DEF Init, ScrapeIsHonest
<1>2. ScrapeIsHonest /\ [Next]_vars => ScrapeIsHonest'
  <2> SUFFICES ASSUME ScrapeIsHonest, [Next]_vars PROVE ScrapeIsHonest'
    OBVIOUS
  <2>1. CASE Feed
    BY <2>1, HandleKeepsScrapes, WorkerKeepsScrapes, ScrapeKeepsScrapes DEF Feed
  <2>2. CASE UNCHANGED feedVars
    BY <2>2 DEF ScrapeIsHonest, Recent, feedVars, listVars, scrapeVars
  <2> QED
    BY <2>1, <2>2 DEF Next, vars
<1> QED
  BY <1>1, <1>2, PTL DEF Spec

(* However many requests for /metrics are served at once, none reports a   *)
(* number of clients that was out of date before it and those under way    *)
(* with it came, whoever joins, leaves or breaks between their counts,     *)
(* their sets and their rendering.                                         *)
THEOREM ReportsAreUpToDate == Spec => NothingOutdatedIsReported
<1>1. ScrapeIsHonest => (\A s \in Scrapes : Render(s) => active_websockets \in lengths[s] \cup earlier[s])
  BY DEF ScrapeIsHonest, Recent, Render
<1>2. ScrapeIsHonest /\ [Next]_vars =>
        [\A s \in Scrapes : Render(s) => active_websockets \in lengths[s] \cup earlier[s]]_vars
  BY <1>1
<1> QED
  BY <1>2, ScrapesAreHonest, PTL DEF Spec, NothingOutdatedIsReported
==============================================================================
