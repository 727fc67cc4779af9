--------------------------- MODULE AtomicTimetable ---------------------------
(***************************************************************************)
(* What the routing core promises of live delays: a delay message moves    *)
(* all the stop times it is about at once, and a route query is answered   *)
(* from the times as they are at one moment.  GraphLock implements it with *)
(* the graph's std::shared_mutex.                                          *)
(***************************************************************************)
EXTENDS Integers

CONSTANTS NumSlots,      \* stop_times.size()
          Keys, KeyOf,   \* the (trip_id, stop_sequence) of each stop time
          Delays,        \* what a message may say
          Scheduled,     \* the times build_index left
          Queries,       \* the threads that serve requests
          W              \* how many values a uint32_t has

Slots == 1 .. NumSlots
Time == 0 .. W - 1
Times == [Slots -> [arr_sec : Time, dep_sec : Time]]
Message == [key : Keys, delay : Delays]

VARIABLES times, answer

(* Every value a query can read, with where it stands.                     *)
Cells(ts) == {<<s, "arr_sec", ts[s].arr_sec>> : s \in Slots}
               \cup {<<s, "dep_sec", ts[s].dep_sec>> : s \in Slots}

Moved(ts, m) ==
  [s \in Slots |-> IF KeyOf[s] = m.key
                     THEN [arr_sec |-> (ts[s].arr_sec + m.delay) % W,
                           dep_sec |-> (ts[s].dep_sec + m.delay) % W]
                     ELSE ts[s]]

Init == times = Scheduled /\ answer = [q \in Queries |-> {}]

ApplyDelay(m) == times' = Moved(times, m) /\ UNCHANGED answer

Ask(q) == answer' = [answer EXCEPT ![q] = {}] /\ UNCHANGED times

(* The answer is worked out from values of one timetable.                  *)
Answer(q) ==
  /\ \E read \in SUBSET Cells(times) : answer' = [answer EXCEPT ![q] = read]
  /\ UNCHANGED times

Next == (\E m \in Message : ApplyDelay(m)) \/ (\E q \in Queries : Ask(q) \/ Answer(q))

Spec == Init /\ [][Next]_<<times, answer>>
==============================================================================
