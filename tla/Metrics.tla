------------------------------- MODULE Metrics -------------------------------
(***************************************************************************)
(* MetricsCollector of gateway/metrics.py, what plan_route and the reports *)
(* share: counters, a histogram and the last latencies, all changed and    *)
(* read under _lock.  A query is counted in two steps, its status first,   *)
(* so that a reader that does not wait for the lock would see one half.    *)
(* Durations are small numbers.                                            *)
(***************************************************************************)
EXTENDS Integers, Sequences, FiniteSets, FiniteSetsExt

CONSTANTS
  LatencyBuckets,   \* upper bounds, ascending
  MaxLatencies,     \* how many latencies are kept: 2000
  Queries           \* what the request threads record, as they get the lock

Statuses == {"success", "not_found", "error"}

ASSUME MetricsAssumption ==
  /\ LatencyBuckets \in Seq(Nat)
  /\ \A m, n \in DOMAIN LatencyBuckets : m < n => LatencyBuckets[m] < LatencyBuckets[n]
  /\ MaxLatencies \in Nat \ {0}
  /\ Queries \in Seq([status : Statuses, duration : Nat])

VARIABLES
  metrics_lock,         \* is a query being recorded
  recorded,             \* how many have been
  routing_counts,       \* by status
  routing_latencies, routing_latency_sum, routing_latency_count, bucket_counts

latencyVars == <<routing_latencies, routing_latency_sum, routing_latency_count, bucket_counts>>
metricsVars == <<metrics_lock, recorded, routing_counts, latencyVars>>

MetricsInit ==
  /\ metrics_lock = FALSE /\ recorded = 0
  /\ routing_counts = [s \in Statuses |-> 0]
  /\ routing_latencies = <<>> /\ routing_latency_sum = 0 /\ routing_latency_count = 0
  /\ bucket_counts = [b \in DOMAIN LatencyBuckets |-> 0]

(* record_routing_query.                                                   *)
CountStatus ==
  /\ ~metrics_lock /\ recorded < Len(Queries)
  /\ metrics_lock' = TRUE
  /\ recorded' = recorded + 1
  /\ routing_counts' = [routing_counts EXCEPT ![Queries[recorded'].status] = @ + 1]
  /\ UNCHANGED latencyVars

Kept(duration) ==
  IF Len(routing_latencies) < MaxLatencies THEN Append(routing_latencies, duration)
  ELSE Append(Tail(routing_latencies), duration)

InBucket(duration, b) == duration <= LatencyBuckets[b]

CountLatency ==
  /\ metrics_lock
  /\ metrics_lock' = FALSE
  /\ LET duration == Queries[recorded].duration IN
       /\ routing_latency_sum' = routing_latency_sum + duration
       /\ routing_latency_count' = routing_latency_count + 1
       /\ routing_latencies' = Kept(duration)
       /\ bucket_counts' = [b \in DOMAIN LatencyBuckets |->
            bucket_counts[b] + IF InBucket(duration, b) THEN 1 ELSE 0]
  /\ UNCHANGED <<recorded, routing_counts>>

RecordQuery == CountStatus \/ CountLatency

-----------------------------------------------------------------------------
(* What a report says adds up: each query has a status and a latency, the  *)
(* histogram counts the very queries that are counted, each in every       *)
(* bucket it fits, and the latencies kept are those of the last queries.   *)
AddsUp ==
  /\ routing_counts["success"] + routing_counts["not_found"] + routing_counts["error"]
       = routing_latency_count
  /\ \A b \in DOMAIN LatencyBuckets :
       bucket_counts[b] = Cardinality({n \in 1 .. routing_latency_count :
                                         Queries[n].duration <= LatencyBuckets[b]})
  /\ Len(routing_latencies) = Min({routing_latency_count, MaxLatencies})
  /\ \A n \in DOMAIN routing_latencies :
       routing_latencies[n] =
         Queries[routing_latency_count - Len(routing_latencies) + n].duration
=============================================================================
