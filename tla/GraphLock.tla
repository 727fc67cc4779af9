------------------------------ MODULE GraphLock ------------------------------
(***************************************************************************)
(* The threads that share one RaptorGraph: gRPC handlers, each searching   *)
(* under a shared lock of graph_mutex (raptor_router.cpp), and the         *)
(* telemetry consumer, which moves stop times under an exclusive one       *)
(* (telemetry_consumer.cpp).  The consumer goes through all the stop times *)
(* and writes arr_sec and dep_sec one after the other; a search reads them *)
(* in an order of its own, one at a time.                                  *)
(*                                                                         *)
(* std::shared_mutex is external: shared holders exclude an exclusive one. *)
(***************************************************************************)
EXTENDS Integers

CONSTANTS NumSlots, Keys, KeyOf, Delays, Scheduled, Queries, W

VARIABLES
  times,            \* graph_.stop_times
  readers, writer,  \* who holds graph_mutex
  pc, seen,         \* each handler: where it is, what its search has read
  answer,           \* ... and what its last reply was made from
  cpc, msg, i       \* the consumer: where it is, its message, its index

(* AtomicTimetable is about the completed timetable: see Completed below.  *)
Slots == 1 .. NumSlots
Time == 0 .. W - 1
Times == [Slots -> [arr_sec : Time, dep_sec : Time]]
Message == [key : Keys, delay : Delays]

ASSUME SlotsAssumption == NumSlots \in Nat
ASSUME WordAssumption == W \in Nat \ {0}
ASSUME KeysAssumption == KeyOf \in [Slots -> Keys]
ASSUME DelaysAssumption == Delays \subseteq Time /\ Keys # {} /\ Delays # {}
ASSUME ScheduledAssumption == Scheduled \in Times

lock == <<readers, writer>>
queryVars == <<pc, seen, answer>>
consumerVars == <<cpc, msg, i>>
vars == <<times, lock, queryVars, consumerVars>>

Cells(ts) == {<<s, "arr_sec", ts[s].arr_sec>> : s \in Slots}
               \cup {<<s, "dep_sec", ts[s].dep_sec>> : s \in Slots}

Init ==
  /\ times = Scheduled
  /\ readers = {} /\ writer = FALSE
  /\ pc = [q \in Queries |-> "idle"]
  /\ seen = [q \in Queries |-> {}]
  /\ answer = [q \in Queries |-> {}]
  /\ cpc = "receive" /\ msg \in Message /\ i = 1

-----------------------------------------------------------------------------
(* A handler: GetEarliestArrival, with a router of its own.                *)
Call(q) ==
  /\ pc[q] = "idle"
  /\ pc' = [pc EXCEPT ![q] = "wait"]
  /\ answer' = [answer EXCEPT ![q] = {}]
  /\ UNCHANGED <<times, lock, seen, consumerVars>>

MayShareAlways == TRUE          \* a mutant of MayShare: no shared_lock
MayShare == ~writer

LockShared(q) ==
  /\ pc[q] = "wait"
  /\ MayShare
  /\ readers' = readers \cup {q}
  /\ pc' = [pc EXCEPT ![q] = "search"]
  /\ UNCHANGED <<times, writer, seen, answer, consumerVars>>

(* The search needs one more value.                                        *)
Read(q) ==
  /\ pc[q] = "search"
  /\ \E c \in Cells(times) \ seen[q] : seen' = [seen EXCEPT ![q] = @ \cup {c}]
  /\ UNCHANGED <<times, lock, pc, answer, consumerVars>>

(* It returns, the lock with it; the itinerary is read from the router's   *)
(* own arrays.                                                             *)
UnlockShared(q) ==
  /\ pc[q] = "search"
  /\ readers' = readers \ {q}
  /\ pc' = [pc EXCEPT ![q] = "idle"]
  /\ answer' = [answer EXCEPT ![q] = seen[q]]
  /\ seen' = [seen EXCEPT ![q] = {}]
  /\ UNCHANGED <<times, writer, consumerVars>>

Query(q) == LockShared(q) \/ Read(q) \/ UnlockShared(q)

-----------------------------------------------------------------------------
(* The consumer: a message, the lock, all stop times in turn.              *)
Receive ==
  /\ cpc = "receive"
  /\ msg' \in Message
  /\ cpc' = "wait"
  /\ UNCHANGED <<times, lock, queryVars, i>>

MayExcludeReaders == ~writer    \* a mutant of MayExclude: a shared lock
MayExclude == ~writer /\ readers = {}

LockExclusive ==
  /\ cpc = "wait"
  /\ MayExclude
  /\ writer' = TRUE
  /\ i' = 1
  /\ cpc' = "slot"
  /\ UNCHANGED <<times, readers, queryVars, msg>>

SkipSlotStays ==                \* a mutant of SkipSlot: continue without ++i
  /\ cpc = "slot" /\ i \in Slots
  /\ KeyOf[i] # msg.key
  /\ UNCHANGED vars
SkipSlot ==
  /\ cpc = "slot" /\ i \in Slots
  /\ KeyOf[i] # msg.key
  /\ i' = i + 1
  /\ UNCHANGED <<times, lock, queryVars, cpc, msg>>

Later(t) == (t + msg.delay) % W

MoveArrival ==
  /\ cpc = "slot" /\ i \in Slots
  /\ KeyOf[i] = msg.key
  /\ times' = [times EXCEPT ![i].arr_sec = Later(@)]
  /\ cpc' = "departure"
  /\ UNCHANGED <<lock, queryVars, msg, i>>

MoveDeparture ==
  /\ cpc = "departure"
  /\ times' = [times EXCEPT ![i].dep_sec = Later(@)]
  /\ i' = i + 1
  /\ cpc' = "slot"
  /\ UNCHANGED <<lock, queryVars, msg>>

UnlockExclusive ==
  /\ cpc = "slot" /\ i \notin Slots
  /\ writer' = FALSE
  /\ cpc' = "receive"
  /\ UNCHANGED <<times, readers, queryVars, msg, i>>

Update == SkipSlot \/ MoveArrival \/ MoveDeparture \/ UnlockExclusive

-----------------------------------------------------------------------------
Next ==
  \/ \E q \in Queries : Call(q) \/ Query(q)
  \/ Receive \/ LockExclusive \/ Update

Spec == Init /\ [][Next]_vars

(* A thread that can run does.  A handler waiting for the shared lock gets *)
(* in once the writer is gone (pthread_rwlock_t prefers readers), and the  *)
(* writer when it finds the lock free again and again.  No request and no  *)
(* message need come.                                                      *)
FairSpec ==
  /\ Spec
  /\ \A q \in Queries : SF_vars(LockShared(q)) /\ WF_vars(UnlockShared(q))
  /\ SF_vars(LockExclusive) /\ WF_vars(Update)

-----------------------------------------------------------------------------
TypeOK ==
  /\ times \in Times
  /\ readers \subseteq Queries /\ writer \in BOOLEAN
  /\ pc \in [Queries -> {"idle", "wait", "search"}]
  /\ seen \in [Queries -> SUBSET (Slots \X {"arr_sec", "dep_sec"} \X Time)]
  /\ answer \in [Queries -> SUBSET (Slots \X {"arr_sec", "dep_sec"} \X Time)]
  /\ cpc \in {"receive", "wait", "slot", "departure"}
  /\ msg \in Message
  /\ i \in 1 .. NumSlots + 1
  /\ cpc = "departure" => i \in Slots /\ KeyOf[i] = msg.key

(* The lock is held by those the code says, and never both ways.           *)
LockIsHeld ==
  /\ \A q \in Queries : q \in readers <=> pc[q] = "search"
  /\ writer <=> cpc \in {"slot", "departure"}
  /\ writer => readers = {}

(* A search starts with nothing read, and nothing it has read is           *)
(* overwritten before it ends.                                             *)
SearchSeesOneTimetable ==
  \A q \in Queries :
    IF pc[q] = "search" THEN seen[q] \subseteq Cells(times) ELSE seen[q] = {}

(* Every call gets its answer.                                             *)
EveryCallIsAnswered == \A q \in Queries : pc[q] = "wait" ~> pc[q] = "idle"

(* A delay that was received is applied, provided that there is always a   *)
(* later moment at which no search runs; nothing makes handlers wait for a *)
(* waiting consumer.                                                       *)
DelayIsApplied ==
  ([]<>(readers = {})) => (cpc = "wait" ~> cpc = "receive")

-----------------------------------------------------------------------------
(* The timetable as it will be when the update in progress is through.     *)
Pending(s) == /\ cpc \in {"slot", "departure"}
              /\ KeyOf[s] = msg.key
              /\ s >= i

Completed ==
  [s \in Slots |->
     [arr_sec |-> IF Pending(s) /\ ~(cpc = "departure" /\ s = i)
                    THEN Later(times[s].arr_sec) ELSE times[s].arr_sec,
      dep_sec |-> IF Pending(s) THEN Later(times[s].dep_sec) ELSE times[s].dep_sec]]

Atomic == INSTANCE AtomicTimetable WITH times <- Completed

IsAtomic == Atomic!Spec
==============================================================================
