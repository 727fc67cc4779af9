-------------------------- MODULE GraphLockProofs --------------------------
(***************************************************************************)
(* Proofs about GraphLock, for any number of handlers, stop times and      *)
(* delays: the lock is held as the code says, nothing a search has read    *)
(* changes before it ends, and handlers and consumer together implement    *)
(* AtomicTimetable.                                                        *)
(***************************************************************************)
EXTENDS GraphLock, TLAPS

(* The inductive invariant: SearchSeesOneTimetable is not inductive        *)
(* without knowing who holds the lock, nor that without the types.         *)
Inv == TypeOK /\ LockIsHeld /\ SearchSeesOneTimetable

LEMMA CellTypes ==
  ASSUME NEW ts \in Times
  PROVE  Cells(ts) \subseteq Slots \X {"arr_sec", "dep_sec"} \X Time
BY DEF Times, Cells

LEMMA LaterType ==
  ASSUME NEW t \in Time, msg \in Message
  PROVE  Later(t) \in Time
<1>1. msg.delay \in Nat /\ t \in Nat
  <2>1. msg.delay \in Time
    BY DelaysAssumption DEF Message
  <2>2. \A u \in Time : u \in Nat
    BY WordAssumption DEF Time
  <2> QED
    BY <2>1, <2>2
<1> DEFINE sum == t + msg.delay
<1>2. sum \in Nat
  BY <1>1
<1> HIDE DEF sum
<1>3. sum % W \in Time
  BY <1>2, WordAssumption DEF Time
<1> QED
  BY <1>3 DEF Later, sum

LEMMA InitInv == Init => Inv
<1> SUFFICES ASSUME Init PROVE Inv
  OBVIOUS
<1>1. i = 1 /\ i \in 1 .. NumSlots + 1
  BY SlotsAssumption DEF Init
<1>2. TypeOK
  BY <1>1, ScheduledAssumption DEF Init, TypeOK
<1>3. LockIsHeld /\ SearchSeesOneTimetable
  BY DEF Init, LockIsHeld, SearchSeesOneTimetable
<1> QED
  BY <1>2, <1>3 DEF Inv

-----------------------------------------------------------------------------
LEMMA QueryStep ==
  ASSUME Inv, NEW q \in Queries, Call(q) \/ Query(q)
  PROVE  Inv'
<1> USE DEF Inv
<1>1. CASE Call(q)
  <2>1. TypeOK'
    BY <1>1 DEF Call, TypeOK, lock, consumerVars
  <2>2. LockIsHeld' /\ SearchSeesOneTimetable'
    BY <1>1 DEF Call, TypeOK, LockIsHeld, SearchSeesOneTimetable, Cells, lock, consumerVars
  <2> QED
    BY <2>1, <2>2
<1>2. CASE LockShared(q)
  <2>1. TypeOK'
    BY <1>2 DEF LockShared, TypeOK, consumerVars
  <2>2. LockIsHeld'
    BY <1>2 DEF LockShared, MayShare, TypeOK, LockIsHeld, consumerVars
  <2>3. SearchSeesOneTimetable'
    BY <1>2 DEF LockShared, TypeOK, SearchSeesOneTimetable, Cells
  <2> QED
    BY <2>1, <2>2, <2>3
<1>3. CASE Read(q)
  <2>1. PICK c \in Cells(times) : seen' = [seen EXCEPT ![q] = @ \cup {c}]
    BY <1>3 DEF Read
  <2>2. c \in Slots \X {"arr_sec", "dep_sec"} \X Time
    BY <2>1, CellTypes DEF TypeOK
  <2>3. TypeOK'
    BY <1>3, <2>1, <2>2 DEF Read, TypeOK, lock, consumerVars
  <2>4. LockIsHeld'
    BY <1>3 DEF Read, LockIsHeld, lock, consumerVars
  <2>5. SearchSeesOneTimetable'
    BY <1>3, <2>1 DEF Read, TypeOK, SearchSeesOneTimetable, Cells
  <2> QED
    BY <2>3, <2>4, <2>5
<1>4. CASE UnlockShared(q)
  <2>1. TypeOK'
    BY <1>4 DEF UnlockShared, TypeOK, consumerVars
  <2>2. LockIsHeld'
    BY <1>4 DEF UnlockShared, TypeOK, LockIsHeld, consumerVars
  <2>3. SearchSeesOneTimetable'
    BY <1>4 DEF UnlockShared, TypeOK, SearchSeesOneTimetable, Cells
  <2> QED
    BY <2>1, <2>2, <2>3
<1> QED
  BY <1>1, <1>2, <1>3, <1>4 DEF Query

LEMMA ConsumerStep ==
  ASSUME Inv, Receive \/ LockExclusive \/ Update
  PROVE  Inv'
<1> USE DEF Inv
<1>n. NumSlots \in Nat
  BY SlotsAssumption
<1>1. CASE Receive
  BY <1>1 DEF Receive, TypeOK, LockIsHeld, SearchSeesOneTimetable, Cells, lock, queryVars
<1>2. CASE LockExclusive
  BY <1>2, <1>n
     DEF LockExclusive, MayExclude, TypeOK, LockIsHeld, SearchSeesOneTimetable, Cells, queryVars
<1>3. CASE SkipSlot
  BY <1>3, <1>n
     DEF SkipSlot, TypeOK, Slots, LockIsHeld, SearchSeesOneTimetable, Cells, lock, queryVars
<1>4. CASE MoveArrival
  <2>1. times[i].arr_sec \in Time /\ times[i] \in [arr_sec : Time, dep_sec : Time]
    BY <1>4 DEF MoveArrival, TypeOK, Times
  <2>2. times' \in Times
    BY <1>4, <2>1, LaterType DEF MoveArrival, TypeOK, Times
  <2>3. TypeOK'
    BY <1>4, <2>2 DEF MoveArrival, TypeOK, lock, queryVars
  <2>4. LockIsHeld' /\ SearchSeesOneTimetable'
    BY <1>4 DEF MoveArrival, LockIsHeld, SearchSeesOneTimetable, lock, queryVars
  <2> QED
    BY <2>3, <2>4
<1>5. CASE MoveDeparture
  <2>1. times[i].dep_sec \in Time /\ times[i] \in [arr_sec : Time, dep_sec : Time]
    BY <1>5 DEF MoveDeparture, TypeOK, Times
  <2>2. times' \in Times
    BY <1>5, <2>1, LaterType DEF MoveDeparture, TypeOK, Times
  <2>3. TypeOK'
    BY <1>5, <1>n, <2>2 DEF MoveDeparture, TypeOK, Slots, lock, queryVars
  <2>4. LockIsHeld' /\ SearchSeesOneTimetable'
    BY <1>5 DEF MoveDeparture, LockIsHeld, SearchSeesOneTimetable, lock, queryVars
  <2> QED
    BY <2>3, <2>4
<1>6. CASE UnlockExclusive
  BY <1>6 DEF UnlockExclusive, TypeOK, LockIsHeld, SearchSeesOneTimetable, Cells, queryVars
<1> QED
  BY <1>1, <1>2, <1>3, <1>4, <1>5, <1>6 DEF Update

LEMMA InvStep == Inv /\ [Next]_vars => Inv'
<1> SUFFICES ASSUME Inv, [Next]_vars PROVE Inv'
  OBVIOUS
<1>1. CASE UNCHANGED vars
  BY <1>1 DEF vars, lock, queryVars, consumerVars, Inv, TypeOK, LockIsHeld,
     SearchSeesOneTimetable, Cells
<1> QED
  BY <1>1, QueryStep, ConsumerStep DEF Next

LEMMA Invariant == Spec => []Inv
BY InitInv, InvStep, PTL DEF Spec

-----------------------------------------------------------------------------
(* All variables keep their types; the index of the consumer stays within  *)
(* the stop times.                                                         *)
THEOREM TypeCorrect == Spec => []TypeOK
<1>1. Inv => TypeOK
  BY DEF Inv
<1> QED
  BY <1>1, Invariant, PTL

(* graph_mutex is held by exactly the threads inside its scopes, and never *)
(* shared and exclusively at once.                                         *)
THEOREM MutualExclusion == Spec => []LockIsHeld
<1>1. Inv => LockIsHeld
  BY DEF Inv
<1> QED
  BY <1>1, Invariant, PTL

(* However many handlers search, and whatever delays come in meanwhile,    *)
(* what a search has read is still there until it ends.                    *)
THEOREM SearchesAreStable == Spec => []SearchSeesOneTimetable
<1>1. Inv => SearchSeesOneTimetable
  BY DEF Inv
<1> QED
  BY <1>1, Invariant, PTL

-----------------------------------------------------------------------------
(* Outside an update the completed timetable is the stored one.            *)
LEMMA CompletedAtRest ==
  ASSUME TypeOK, cpc \notin {"slot", "departure"}
  PROVE  Completed = times
BY DEF TypeOK, Times, Completed, Pending

LEMMA CompletedFields ==
  ASSUME TypeOK, NEW s \in Slots
  PROVE  Completed[s] =
     [arr_sec |-> IF Pending(s) /\ ~(cpc = "departure" /\ s = i)
                    THEN Later(times[s].arr_sec) ELSE times[s].arr_sec,
      dep_sec |-> IF Pending(s) THEN Later(times[s].dep_sec) ELSE times[s].dep_sec]
BY DEF Completed

(* From the moment the consumer has the lock the whole delay counts as     *)
(* applied: writing it out slot by slot changes nothing any more.          *)
LEMMA LockingAppliesDelay ==
  ASSUME Inv, LockExclusive
  PROVE  Atomic!ApplyDelay(msg)
<1>1. Completed = times
  BY CompletedAtRest DEF Inv, LockExclusive
<1>2. /\ cpc' = "slot" /\ i' = 1 /\ UNCHANGED <<times, msg, answer>>
  BY DEF LockExclusive, queryVars
<1>3. \A s \in Slots : Pending(s)' <=> KeyOf[s] = msg.key
  BY <1>2, SlotsAssumption DEF Pending, Slots
<1>4. Completed' = Atomic!Moved(times, msg)
  <2>1. ASSUME NEW s \in Slots
        PROVE  Completed'[s] = IF KeyOf[s] = msg.key
                     THEN [arr_sec |-> (times[s].arr_sec + msg.delay) % W,
                           dep_sec |-> (times[s].dep_sec + msg.delay) % W]
                     ELSE times[s]
    <3>1. times[s] = [arr_sec |-> times[s].arr_sec, dep_sec |-> times[s].dep_sec]
      BY DEF Inv, TypeOK, Times
    <3>2. Completed'[s] =
            [arr_sec |-> IF KeyOf[s] = msg.key THEN Later(times[s].arr_sec)
                                               ELSE times[s].arr_sec,
             dep_sec |-> IF KeyOf[s] = msg.key THEN Later(times[s].dep_sec)
                                               ELSE times[s].dep_sec]
      BY <1>2, <1>3 DEF Completed, Later
    <3> QED
      BY <3>1, <3>2 DEF Later
  <2> QED
    BY <2>1 DEF Completed, Atomic!Moved, Atomic!Slots, Slots
<1> QED
  BY <1>1, <1>2, <1>4 DEF Atomic!ApplyDelay

LEMMA WritingKeepsCompleted ==
  ASSUME Inv, Update
  PROVE  Completed' = Completed
<1>t. /\ times \in Times /\ i \in 1 .. NumSlots + 1 /\ NumSlots \in Nat
      /\ \A s \in Slots : times[s] = [arr_sec |-> times[s].arr_sec, dep_sec |-> times[s].dep_sec]
  BY SlotsAssumption DEF Inv, TypeOK, Times
<1>1. CASE SkipSlot
  <2>1. \A s \in Slots : Pending(s)' <=> Pending(s)
    BY <1>1, <1>t DEF SkipSlot, Pending, Slots
  <2> QED
    BY <1>1, <2>1 DEF SkipSlot, Completed, Later
<1>2. CASE MoveArrival
  <2>1. \A s \in Slots : Pending(s)' <=> Pending(s)
    BY <1>2 DEF MoveArrival, Pending
  <2>2. ASSUME NEW s \in Slots, s # i
        PROVE  times'[s] = times[s]
    BY <1>2, <1>t, <2>2 DEF MoveArrival, Times
  <2>3. /\ times'[i].arr_sec = Later(times[i].arr_sec)
        /\ times'[i].dep_sec = times[i].dep_sec
        /\ Pending(i)
    BY <1>2, <1>t DEF MoveArrival, Times, Pending
  <2> QED
    BY <1>2, <2>1, <2>2, <2>3 DEF MoveArrival, Completed, Later
<1>3. CASE MoveDeparture
  <2>1. i \in Slots /\ KeyOf[i] = msg.key /\ cpc = "departure"
    BY <1>3 DEF MoveDeparture, Inv, TypeOK
  <2>2. \A s \in Slots : s # i => (Pending(s)' <=> Pending(s))
    BY <1>3, <1>t, <2>1 DEF MoveDeparture, Pending, Slots
  <2>3. ASSUME NEW s \in Slots, s # i
        PROVE  times'[s] = times[s]
    BY <1>3, <1>t, <2>3 DEF MoveDeparture, Times
  <2>4. /\ times'[i].dep_sec = Later(times[i].dep_sec)
        /\ times'[i].arr_sec = times[i].arr_sec
    BY <1>3, <1>t, <2>1 DEF MoveDeparture, Times
  <2>5. \A s \in Slots : s = i => Pending(s) /\ ~(Pending(s)')
    BY <1>3, <1>t, <2>1 DEF MoveDeparture, Pending, Slots
  <2>6. UNCHANGED msg /\ cpc' = "slot"
    BY <1>3 DEF MoveDeparture
  <2>7. ASSUME NEW s \in Slots PROVE Completed'[s] = Completed[s]
    <3>1. CASE s = i
      BY <2>1, <2>4, <2>5, <2>6, <3>1 DEF Completed, Later
    <3>2. CASE s # i
      BY <2>1, <2>2, <2>3, <2>6, <3>2 DEF Completed, Later
    <3> QED
      BY <3>1, <3>2
  <2> QED
    BY <2>7 DEF Completed
<1>4. CASE UnlockExclusive
  <2>1. \A s \in Slots : ~Pending(s) /\ ~Pending(s)'
    BY <1>4, <1>t DEF UnlockExclusive, Pending, Slots
  <2> QED
    BY <1>4, <2>1 DEF UnlockExclusive, Completed
<1> QED
  BY <1>1, <1>2, <1>3, <1>4 DEF Update

(* A reply is made from values of the completed timetable.                 *)
LEMMA UnlockAnswers ==
  ASSUME Inv, NEW q \in Queries, UnlockShared(q)
  PROVE  Atomic!Answer(q)
<1>1. seen[q] \subseteq Cells(times) /\ cpc \notin {"slot", "departure"}
  BY DEF UnlockShared, Inv, LockIsHeld, SearchSeesOneTimetable
<1>2. Completed = times
  BY <1>1, CompletedAtRest DEF Inv
<1>3. UNCHANGED <<times, cpc, msg, i>> /\ answer' = [answer EXCEPT ![q] = seen[q]]
  BY DEF UnlockShared, consumerVars
<1>4. UNCHANGED Completed
  BY <1>3 DEF Completed, Pending, Later
<1>5. seen[q] \in SUBSET Atomic!Cells(Completed)
  BY <1>1, <1>2 DEF Cells, Atomic!Cells, Atomic!Slots, Slots
<1> QED
  BY <1>3, <1>4, <1>5 DEF Atomic!Answer

LEMMA AtomicStep == Inv /\ [Next]_vars => [Atomic!Next]_<<Completed, answer>>
<1> SUFFICES ASSUME Inv, [Next]_vars
             PROVE  Atomic!Next \/ UNCHANGED <<Completed, answer>>
  OBVIOUS
<1>1. ASSUME NEW q \in Queries, UnlockShared(q) PROVE Atomic!Next
  BY <1>1, UnlockAnswers DEF Atomic!Next
<1>2. ASSUME NEW q \in Queries, Call(q) PROVE Atomic!Next
  <2>1. UNCHANGED Completed /\ answer' = [answer EXCEPT ![q] = {}]
    BY <1>2 DEF Call, Completed, Pending, Later, consumerVars
  <2> QED
    BY <2>1 DEF Atomic!Next, Atomic!Ask
<1>3. ASSUME NEW q \in Queries, LockShared(q) \/ Read(q)
      PROVE  UNCHANGED <<Completed, answer>>
  BY <1>3 DEF LockShared, Read, Completed, Pending, Later, consumerVars
<1>4. CASE Receive
  <2>1. Completed = times
    BY <1>4, CompletedAtRest DEF Inv, Receive
  <2>2. cpc' = "wait" /\ UNCHANGED <<times, answer>>
    BY <1>4 DEF Receive, queryVars
  <2>3. TypeOK'
    BY InvStep DEF Inv
  <2>4. Completed' = times'
    BY <2>2, <2>3 DEF TypeOK, Times, Completed, Pending
  <2> QED
    BY <2>1, <2>2, <2>4
<1>5. CASE LockExclusive
  <2>1. msg \in Atomic!Message
    BY DEF Inv, TypeOK, Message, Atomic!Message
  <2> QED
    BY <1>5, <2>1, LockingAppliesDelay DEF Atomic!Next
<1>6. CASE Update
  BY <1>6, WritingKeepsCompleted
     DEF Update, SkipSlot, MoveArrival, MoveDeparture, UnlockExclusive, queryVars
<1>7. CASE UNCHANGED vars
  BY <1>7 DEF vars, queryVars, consumerVars, Completed, Pending, Later
<1> QED
  BY <1>1, <1>2, <1>3, <1>4, <1>5, <1>6, <1>7 DEF Next, Query

(* A delay that is written stop time by stop time, and searches that read  *)
(* value by value, look as if each delay were applied and each request     *)
(* answered at one moment.                                                 *)
THEOREM LockImplementsAtomicTimetable == Spec => IsAtomic
<1>1. Init => Atomic!Init
  BY CompletedAtRest, InitInv DEF Init, Inv, Atomic!Init
<1> QED
  BY <1>1, AtomicStep, Invariant, PTL DEF Spec, IsAtomic, Atomic!Spec
==============================================================================
