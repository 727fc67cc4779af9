--------------------------- MODULE RouteOptionsProofs ---------------------------
(***************************************************************************)
(* Proofs about RaptorEngine and RouteOptions, for any days that           *)
(* DaysAssumption allows and any requests: the plans of the engine can be  *)
(* ridden, its search implements LabelSearch and finds the earliest        *)
(* arrivals in an orderly timetable, and what /api/route makes of them     *)
(* fits, gets later from option to option and leaves nothing out.          *)
(***************************************************************************)
EXTENDS RouteOptions, EarliestArrivalProofs, SequenceTheorems, TLAPS
LOCAL INSTANCE FiniteSetsExt
LOCAL INSTANCE SequencesExt

USE NumStopsAssumption, WordAssumption DEF Stops, Time, INF, FOOTPATH_ROUTE_ID

-----------------------------------------------------------------------------
(***************************************************************************)
(* Sorting by counting who comes before.                                   *)
(***************************************************************************)
Below(S, key, i) == {j \in S : Precedes(key, j, i)}

(* Some set of m that nobody of the rest precedes.                         *)
IsFirst(S, key, D) == D \in SUBSET S /\ \A i \in D : \A j \in S \ D : Precedes(key, i, j)

LEMMA PrecedesIsAnOrder ==
  ASSUME NEW S \in SUBSET Nat, NEW key, \A i \in S : key[i] \in Nat
  PROVE  /\ \A i \in S : ~Precedes(key, i, i)
         /\ \A i, j \in S : Precedes(key, i, j) \/ i = j \/ Precedes(key, j, i)
         /\ \A i, j, l \in S : Precedes(key, i, j) /\ Precedes(key, j, l) => Precedes(key, i, l)
BY DEF Precedes

LEMMA FirstOne ==
  ASSUME NEW S \in SUBSET Nat, NEW key, \A i \in S : key[i] \in Nat, S # {}
  PROVE  \E i \in S : \A j \in S \ {i} : Precedes(key, i, j)
<1> DEFINE K == {key[i] : i \in S}
<1>1. PICK m \in K : \A n \in K : m <= n
  <2>1. K \in SUBSET Nat /\ K # {}
    OBVIOUS
  <2> HIDE DEF K
  <2> QED
    BY <2>1, NatMin
<1> DEFINE T == {i \in S : key[i] = m}
<1>2. PICK i \in T : \A j \in T : i <= j
  <2>1. T \in SUBSET Nat /\ T # {}
    BY <1>1
  <2> HIDE DEF T
  <2> QED
    BY <2>1, NatMin
<1>3. ASSUME NEW j \in S \ {i} PROVE Precedes(key, i, j)
  <2>1. m <= key[j] /\ key[j] \in Nat /\ key[i] = m /\ m \in Nat /\ i \in Nat /\ j \in Nat
    BY <1>1, <1>2
  <2>2. key[j] = m => i <= j
    BY <1>2
  <2> QED
    BY <2>1, <2>2 DEF Precedes
<1> QED
  BY <1>2, <1>3

(* For every m there are m first ones, and one that they precede.          *)
LEMMA FirstOnes ==
  ASSUME NEW S \in SUBSET Nat, IsFiniteSet(S), NEW key, \A i \in S : key[i] \in Nat,
         NEW m \in Nat, m < Cardinality(S), NEW D, IsFirst(S, key, D), Cardinality(D) = m
  PROVE  \E i \in S : /\ Below(S, key, i) = D
                      /\ IsFirst(S, key, D \cup {i}) /\ Cardinality(D \cup {i}) = m + 1
<1>1. D \in SUBSET S /\ IsFiniteSet(D)
  BY FS_Subset DEF IsFirst
<1>2. S \ D # {}
  <2> SUFFICES ASSUME S \ D = {} PROVE FALSE
    OBVIOUS
  <2>1. S = D
    BY <1>1
  <2> QED
    BY <2>1
<1>3. PICK i \in S \ D : \A j \in (S \ D) \ {i} : Precedes(key, i, j)
  <2>1. S \ D \in SUBSET Nat /\ \A j \in S \ D : key[j] \in Nat
    OBVIOUS
  <2> QED
    BY <1>2, <2>1, FirstOne
<1>4. Below(S, key, i) = D
  <2>1. ASSUME NEW j \in D PROVE Precedes(key, j, i)
    BY <1>3, <2>1 DEF IsFirst
  <2>2. ASSUME NEW j \in S, Precedes(key, j, i) PROVE j \in D
    BY <1>3, <2>2, PrecedesIsAnOrder
  <2> QED
    BY <1>1, <2>1, <2>2 DEF Below
<1>5. IsFirst(S, key, D \cup {i})
  BY <1>1, <1>3 DEF IsFirst
<1>6. Cardinality(D \cup {i}) = m + 1
  BY <1>1, <1>3, FS_AddElement
<1> QED
  BY <1>3, <1>4, <1>5, <1>6

LEMMA OneOfEachRank ==
  ASSUME NEW S \in SUBSET Nat, IsFiniteSet(S), NEW key, \A i \in S : key[i] \in Nat,
         NEW n \in 1 .. Cardinality(S)
  PROVE  \E i \in S : Cardinality(Below(S, key, i)) = n - 1
<1> DEFINE Firsts(m) == \E D : IsFirst(S, key, D) /\ Cardinality(D) = m
           Without == {m \in 0 .. Cardinality(S) : ~Firsts(m)}
<1>0. Cardinality(S) \in Nat
  BY FS_CardinalityType
<1>1. Firsts(0)
  BY FS_EmptySet DEF IsFirst
<1>2. ASSUME NEW m \in Nat, m < Cardinality(S), Firsts(m)
      PROVE  Firsts(m + 1)
  <2>1. PICK D : IsFirst(S, key, D) /\ Cardinality(D) = m
    BY <1>2
  <2>2. \E i \in S : IsFirst(S, key, D \cup {i}) /\ Cardinality(D \cup {i}) = m + 1
    BY <1>2, <2>1, FirstOnes
  <2> QED
    BY <2>2
<1> HIDE DEF Firsts
<1>3. Without = {}
  <2> SUFFICES ASSUME Without # {} PROVE FALSE
    OBVIOUS
  <2>1. PICK m \in Without : \A j \in Without : m <= j
    <3>1. Without \in SUBSET Nat
      BY <1>0
    <3> HIDE DEF Without
    <3> QED
      BY <3>1, NatMin
  <2>2. m # 0 /\ m - 1 \in Nat /\ m - 1 < Cardinality(S) /\ m - 1 \notin Without /\ m \in Nat
    BY <1>0, <1>1, <2>1
  <2>3. Firsts(m - 1)
    BY <1>0, <2>2
  <2>4. Firsts((m - 1) + 1)
    BY <1>2, <2>2, <2>3
  <2> QED
    BY <2>1, <2>2, <2>4
<1>4. Firsts(n - 1)
  BY <1>0, <1>3
<1>5. PICK m \in Nat : m = n - 1 /\ m < Cardinality(S)
  BY <1>0
<1>6. PICK D : IsFirst(S, key, D) /\ Cardinality(D) = m
  BY <1>4, <1>5 DEF Firsts
<1>7. PICK i \in S : /\ Below(S, key, i) = D
                     /\ IsFirst(S, key, D \cup {i}) /\ Cardinality(D \cup {i}) = m + 1
  <2>1. m \in Nat /\ m < Cardinality(S)
    BY <1>5
  <2>2. IsFirst(S, key, D) /\ Cardinality(D) = m
    BY <1>6
  <2>3. S \in SUBSET Nat /\ IsFiniteSet(S) /\ \A i \in S : key[i] \in Nat
    OBVIOUS
  <2> QED
    BY <2>1, <2>2, <2>3, FirstOnes
<1> QED
  BY <1>5, <1>6, <1>7

(* So sorting gives elements of S, each preceding those after it.          *)
LEMMA SortedIs ==
  ASSUME NEW S \in SUBSET Nat, IsFiniteSet(S), NEW key, \A i \in S : key[i] \in Nat
  PROVE  /\ DOMAIN Sorted(S, key) = 1 .. Cardinality(S) /\ Cardinality(S) \in Nat
         /\ \A n \in 1 .. Cardinality(S) : Sorted(S, key)[n] \in S
         /\ \A m, n \in 1 .. Cardinality(S) : m < n =>
              Precedes(key, Sorted(S, key)[m], Sorted(S, key)[n])
<1> DEFINE c == Cardinality(S)
           sorted == Sorted(S, key)
<1>0. c \in Nat
  BY FS_CardinalityType
<1>1. DOMAIN sorted = 1 .. c
  BY DEF Sorted
<1>2. ASSUME NEW n \in 1 .. c
      PROVE  sorted[n] \in S /\ Cardinality(Below(S, key, sorted[n])) = n - 1
  <2>1. sorted[n] = CHOOSE i \in S : Cardinality(Below(S, key, i)) = n - 1
    BY DEF Sorted, Below
  <2>2. \E i \in S : Cardinality(Below(S, key, i)) = n - 1
    BY OneOfEachRank
  <2> QED
    BY <2>1, <2>2
<1> HIDE DEF sorted
<1>3. ASSUME NEW m \in 1 .. c, NEW n \in 1 .. c, m < n
      PROVE  Precedes(key, sorted[m], sorted[n])
  <2> DEFINE a == sorted[m]
             b == sorted[n]
  <2>1. a \in S /\ b \in S /\ Cardinality(Below(S, key, a)) = m - 1 /\ Cardinality(Below(S, key, b)) = n - 1
    BY <1>2
  <2> HIDE DEF a, b
  <2>2. a # b
    BY <1>0, <1>3, <2>1
  <2>3. ~Precedes(key, b, a)
    <3> SUFFICES ASSUME Precedes(key, b, a) PROVE FALSE
      OBVIOUS
    <3>1. Below(S, key, b) \in SUBSET Below(S, key, a)
      BY <2>1, PrecedesIsAnOrder DEF Below
    <3>2. IsFiniteSet(Below(S, key, a))
      BY FS_Subset DEF Below
    <3>3. Cardinality(Below(S, key, b)) <= Cardinality(Below(S, key, a))
      BY <3>1, <3>2, FS_Subset
    <3> QED
      BY <1>0, <1>3, <2>1, <3>3
  <2>4. Precedes(key, a, b)
    BY <2>1, <2>2, <2>3, PrecedesIsAnOrder
  <2> QED
    BY <2>4 DEF a, b
<1> QED
  BY <1>0, <1>1, <1>2, <1>3 DEF sorted

LEMMA PermutedIs ==
  ASSUME NEW seq, NEW order
  PROVE  /\ DOMAIN Permuted(seq, order) = DOMAIN order
         /\ \A n \in DOMAIN order : Permuted(seq, order)[n] = seq[order[n]]
BY DEF Permuted

(* A sequence is a function on numbers up to its length.                   *)
IsSequence(f, n) == f = [i \in 1 .. n |-> f[i]]

LEMMA SequenceLength ==
  ASSUME NEW n \in Nat, NEW f, IsSequence(f, n)
  PROVE  DOMAIN f = 1 .. n /\ Len(f) = n
<1> DEFINE S == {f[i] : i \in 1 .. n}
<1>1. f \in [1 .. n -> S] /\ DOMAIN f = 1 .. n
  BY DEF IsSequence
<1> HIDE DEF S
<1>2. f \in Seq(S)
  BY <1>1, SeqDef
<1>3. DOMAIN f = 1 .. Len(f) /\ Len(f) \in Nat
  BY <1>2, LenProperties
<1> QED
  BY <1>1, <1>3

LEMMA FirstSeenIs ==
  ASSUME NEW n \in Nat, NEW seq, DOMAIN seq = 1 .. n
  PROVE  \E c \in 0 .. n :
           /\ DOMAIN FirstSeen(seq) = 1 .. c
           /\ \A i \in 1 .. c : \E j \in 1 .. n : FirstSeen(seq)[i] = seq[j]
<1> DEFINE S == {i \in DOMAIN seq : \A j \in 1 .. i - 1 : seq[j] # seq[i]}
           key == [i \in DOMAIN seq |-> i]
           order == Sorted(S, key)
           c == Cardinality(S)
<1>1. FirstSeen(seq) = Permuted(seq, order)
  BY DEF FirstSeen
<1>2. S \in SUBSET (1 .. n) /\ \A i \in S : key[i] \in Nat
  OBVIOUS
<1>3. IsFiniteSet(1 .. n) /\ Cardinality(1 .. n) = n
  BY FS_Interval
<1> HIDE DEF S, key
<1>4. IsFiniteSet(S) /\ c <= n
  BY <1>2, <1>3, FS_Subset
<1>5. S \in SUBSET Nat
  BY <1>2
<1>6. /\ DOMAIN order = 1 .. c /\ c \in Nat
      /\ \A i \in 1 .. c : order[i] \in S
  BY <1>2, <1>4, <1>5, SortedIs
<1> HIDE DEF order, c
<1>7. /\ DOMAIN FirstSeen(seq) = 1 .. c
      /\ \A i \in 1 .. c : FirstSeen(seq)[i] = seq[order[i]]
  BY <1>1, <1>6, PermutedIs
<1>8. c <= n
  BY <1>4 DEF c
<1>9. \A i \in 1 .. c : order[i] \in 1 .. n
  BY <1>2, <1>6
<1>10. c \in 0 .. n
  BY <1>6, <1>8
<1> QED
  BY <1>7, <1>9, <1>10

(* What a gateway's file may hold, row by row.                             *)
IsRows(rows) ==
  rows \in Seq([trip_id : Nat, stop_id : Stops, stop_sequence : Nat, arr_sec : Time, dep_sec : Time])

(* A trip holds rows of one trip_id, in their order.                       *)
RowComesBefore(rows, m, n) ==
  /\ rows[m].trip_id = rows[n].trip_id
  /\ \/ rows[m].stop_sequence < rows[n].stop_sequence
     \/ rows[m].stop_sequence = rows[n].stop_sequence /\ m < n

IsOrderOf(rows, order, size) ==
  /\ \A i \in 1 .. size : order[i] \in DOMAIN rows
  /\ \A i, j \in 1 .. size : i < j => RowComesBefore(rows, order[i], order[j])

IsTrip(rows, trip) ==
  \E size \in Nat \ {0} :
    /\ DOMAIN trip = 1 .. size
    /\ \E order : IsOrderOf(rows, order, size) /\ \A i \in 1 .. size : trip[i] = rows[order[i]]

LEMMA RowFields ==
  ASSUME NEW rows, IsRows(rows)
  PROVE  /\ Len(rows) \in Nat /\ DOMAIN rows = 1 .. Len(rows)
         /\ \A m \in DOMAIN rows : /\ rows[m].stop_id \in Stops /\ rows[m].stop_sequence \in Nat
                                   /\ rows[m].arr_sec \in Time /\ rows[m].dep_sec \in Time
<1> DEFINE Row == [trip_id : Nat, stop_id : Stops, stop_sequence : Nat, arr_sec : Time, dep_sec : Time]
<1>1. rows \in Seq(Row)
  BY DEF IsRows
<1> HIDE DEF Row
<1>2. Len(rows) \in Nat /\ DOMAIN rows = 1 .. Len(rows) /\ \A m \in DOMAIN rows : rows[m] \in Row
  BY <1>1, LenProperties
<1>3. \A m \in DOMAIN rows : /\ rows[m].stop_id \in Stops /\ rows[m].stop_sequence \in Nat
                             /\ rows[m].arr_sec \in Time /\ rows[m].dep_sec \in Time
  BY <1>2 DEF Row
<1> QED
  BY <1>2, <1>3

LEMMA TripsAre ==
  ASSUME NEW rows, IsRows(rows)
  PROVE  \E c \in 0 .. Len(rows) :
           /\ DOMAIN TripsOf(rows) = 1 .. c
           /\ \A n \in 1 .. c : IsTrip(rows, TripsOf(rows)[n])
<1> DEFINE trip_ids == [n \in DOMAIN rows |-> rows[n].trip_id]
           ids == FirstSeen(trip_ids)
           S(id) == {m \in DOMAIN rows : rows[m].trip_id = id}
           key == ByStopSequence(rows)
           order(id) == Sorted(S(id), key)
           trips == TripsOf(rows)
<1>1. trips = [n \in DOMAIN ids |-> Permuted(rows, order(ids[n]))]
  BY DEF TripsOf
<1>2. /\ Len(rows) \in Nat /\ DOMAIN rows = 1 .. Len(rows)
      /\ \A m \in DOMAIN rows : key[m] \in Nat /\ key[m] = rows[m].stop_sequence
  BY RowFields DEF ByStopSequence
<1>3. DOMAIN trip_ids = 1 .. Len(rows)
  BY <1>2
<1>4. PICK c \in 0 .. Len(rows) :
        /\ DOMAIN ids = 1 .. c
        /\ \A i \in 1 .. c : \E j \in 1 .. Len(rows) : ids[i] = trip_ids[j]
  <2> HIDE DEF trip_ids
  <2>1. PICK N \in Nat : N = Len(rows)
    BY <1>2
  <2>2. DOMAIN trip_ids = 1 .. N
    BY <1>3, <2>1
  <2>3. \E c \in 0 .. N : /\ DOMAIN FirstSeen(trip_ids) = 1 .. c
                          /\ \A i \in 1 .. c : \E j \in 1 .. N : FirstSeen(trip_ids)[i] = trip_ids[j]
    BY <2>1, <2>2, FirstSeenIs
  <2> QED
    BY <2>1, <2>3
<1>5. ASSUME NEW n \in 1 .. c PROVE IsTrip(rows, trips[n])
  <2> DEFINE id == ids[n]
             T == S(id)
             size == Cardinality(T)
             ord == order(id)
  <2>1. PICK j \in 1 .. Len(rows) : id = rows[j].trip_id
    BY <1>2, <1>4
  <2>2. T \in SUBSET (1 .. Len(rows)) /\ j \in T
    BY <1>2, <2>1
  <2>3. IsFiniteSet(T)
    <3>1. IsFiniteSet(1 .. Len(rows))
      BY <1>2, FS_Interval
    <3> HIDE DEF T
    <3> QED
      BY <2>2, <3>1, FS_Subset
  <2>4. trips[n] = Permuted(rows, ord)
    <3> HIDE DEF trips, ids, order
    <3> QED
      BY <1>1, <1>4
  <2>5. \A m \in T : m \in DOMAIN rows /\ rows[m].trip_id = id
    OBVIOUS
  <2> HIDE DEF T, id, trips, ids, S, key
  <2>6. T \in SUBSET Nat /\ \A m \in T : key[m] \in Nat
    BY <1>2, <2>2
  <2>7. ord = Sorted(T, key)
    BY DEF T
  <2>8. /\ DOMAIN ord = 1 .. size /\ size \in Nat
        /\ \A i \in 1 .. size : ord[i] \in T
        /\ \A i, l \in 1 .. size : i < l => Precedes(key, ord[i], ord[l])
    BY <2>3, <2>6, <2>7, SortedIs
  <2>9. size # 0
    BY <2>2, <2>3, FS_EmptySet
  <2> HIDE DEF ord, size
  <2>10. /\ DOMAIN trips[n] = 1 .. size
         /\ \A i \in 1 .. size : trips[n][i] = rows[ord[i]]
    BY <2>4, <2>8, PermutedIs
  <2>11. IsOrderOf(rows, ord, size)
    <3>1. \A i \in 1 .. size : ord[i] \in DOMAIN rows /\ rows[ord[i]].trip_id = id
      BY <2>5, <2>8
    <3>2. ASSUME NEW i \in 1 .. size, NEW l \in 1 .. size, i < l
          PROVE  RowComesBefore(rows, ord[i], ord[l])
      <4>1. Precedes(key, ord[i], ord[l])
        BY <2>8, <3>2
      <4>2. /\ key[ord[i]] = rows[ord[i]].stop_sequence /\ key[ord[l]] = rows[ord[l]].stop_sequence
            /\ rows[ord[i]].trip_id = rows[ord[l]].trip_id
        BY <1>2, <3>1
      <4> QED
        BY <4>1, <4>2, Zenon DEF Precedes, RowComesBefore
    <3> QED
      BY <3>1, <3>2 DEF IsOrderOf
  <2> QED
    BY <2>8, <2>9, <2>10, <2>11 DEF IsTrip
<1>6. DOMAIN trips = 1 .. c
  <2> HIDE DEF trips, ids, order
  <2> QED
    BY <1>1, <1>4
<1> QED
  BY <1>4, <1>5, <1>6

LEMMA TripFields ==
  ASSUME NEW rows, IsRows(rows), NEW trip, IsTrip(rows, trip)
  PROVE  \E size \in Nat \ {0} :
           /\ DOMAIN trip = 1 .. size
           /\ \A i \in 1 .. size :
                trip[i].stop_id \in Stops /\ trip[i].arr_sec \in Time /\ trip[i].dep_sec \in Time
<1>1. PICK size \in Nat \ {0} :
        /\ DOMAIN trip = 1 .. size
        /\ \E order : IsOrderOf(rows, order, size) /\ \A i \in 1 .. size : trip[i] = rows[order[i]]
  BY DEF IsTrip
<1>2. PICK order : IsOrderOf(rows, order, size) /\ \A i \in 1 .. size : trip[i] = rows[order[i]]
  BY <1>1
<1>3. \A i \in 1 .. size : order[i] \in DOMAIN rows
  BY <1>2 DEF IsOrderOf
<1>4. ASSUME NEW i \in 1 .. size
      PROVE  trip[i].stop_id \in Stops /\ trip[i].arr_sec \in Time /\ trip[i].dep_sec \in Time
  <2>1. trip[i] = rows[order[i]] /\ order[i] \in DOMAIN rows
    BY <1>2, <1>3
  <2> QED
    BY <2>1, RowFields, Zenon
<1> QED
  BY <1>1, <1>4

(* Routes, fewer than rows: each has trips with the stops of the route.    *)
IsRouteOf(rows, route) ==
  /\ \E n \in Nat : /\ IsSequence(route.trips, n)
                    /\ \A t \in 1 .. n : /\ IsTrip(rows, route.trips[t])
                                         /\ PatternOf(route.trips[t]) = route.stops
  /\ \E trip : IsTrip(rows, trip) /\ PatternOf(trip) = route.stops

LEMMA RoutesAre ==
  ASSUME NEW rows, IsRows(rows)
  PROVE  \E c \in 0 .. Len(rows) :
           /\ DOMAIN RoutesOf(rows) = 1 .. c
           /\ \A r \in 1 .. c : IsRouteOf(rows, RoutesOf(rows)[r])
<1> DEFINE trips == TripsOf(rows)
           trip_patterns == [n \in DOMAIN trips |-> PatternOf(trips[n])]
           patterns == FirstSeen(trip_patterns)
           along(seq) == {n \in DOMAIN trips : PatternOf(trips[n]) = seq}
           departures == [n \in DOMAIN trips |-> trips[n][1].dep_sec]
           routes == RoutesOf(rows)
<1>1. routes = [r \in DOMAIN patterns |->
                  [stops |-> patterns[r],
                   trips |-> Permuted(trips, Sorted(along(patterns[r]), departures))]]
  BY DEF RoutesOf
<1>2. PICK n \in 0 .. Len(rows) :
        DOMAIN trips = 1 .. n /\ \A m \in 1 .. n : IsTrip(rows, trips[m])
  BY TripsAre
<1>3. n \in Nat /\ n <= Len(rows) /\ Len(rows) \in Nat
  BY <1>2, RowFields
<1> HIDE DEF trips
<1>4. DOMAIN trip_patterns = 1 .. n /\ \A m \in 1 .. n : trip_patterns[m] = PatternOf(trips[m])
  BY <1>2
<1>5. PICK c \in 0 .. n :
        /\ DOMAIN patterns = 1 .. c
        /\ \A i \in 1 .. c : \E j \in 1 .. n : patterns[i] = trip_patterns[j]
  <2> HIDE DEF trip_patterns
  <2> QED
    BY <1>3, <1>4, FirstSeenIs
<1>6. \A m \in 1 .. n : departures[m] \in Nat
  BY <1>2, TripFields
<1>7. ASSUME NEW r \in 1 .. c PROVE IsRouteOf(rows, routes[r])
  <2> DEFINE S == along(patterns[r])
             order == Sorted(S, departures)
             size == Cardinality(S)
  <2>1. S \in SUBSET (1 .. n) /\ \A m \in S : PatternOf(trips[m]) = patterns[r]
    BY <1>2
  <2>2. routes[r].stops = patterns[r] /\ routes[r].trips = Permuted(trips, order)
    <3> HIDE DEF routes, patterns, along, departures
    <3> QED
      BY <1>1, <1>5
  <2> HIDE DEF patterns, departures, routes, S
  <2>3. IsFiniteSet(S)
    <3>1. IsFiniteSet(1 .. n)
      BY <1>3, FS_Interval
    <3> QED
      BY <2>1, <3>1, FS_Subset
  <2>4. S \in SUBSET Nat /\ \A m \in S : departures[m] \in Nat
    BY <1>6, <2>1
  <2>5. /\ DOMAIN order = 1 .. size /\ size \in Nat
        /\ \A i \in 1 .. size : order[i] \in S
    BY <2>3, <2>4, SortedIs
  <2> HIDE DEF order, size
  <2>6. /\ IsSequence(routes[r].trips, size)
        /\ \A t \in 1 .. size : routes[r].trips[t] = trips[order[t]] /\ order[t] \in S
    <3>1. IsSequence(Permuted(trips, order), size)
      BY <2>5 DEF Permuted, IsSequence
    <3> QED
      BY <2>2, <2>5, <3>1, PermutedIs
  <2>7. \A t \in 1 .. size : /\ IsTrip(rows, routes[r].trips[t])
                             /\ PatternOf(routes[r].trips[t]) = routes[r].stops
    BY <1>2, <2>1, <2>2, <2>6
  <2>8. \E trip : IsTrip(rows, trip) /\ PatternOf(trip) = routes[r].stops
    <3>1. PICK j \in 1 .. n : patterns[r] = trip_patterns[j]
      BY <1>5
    <3>2. IsTrip(rows, trips[j]) /\ PatternOf(trips[j]) = routes[r].stops
      BY <1>2, <1>4, <2>2, <3>1
    <3> QED
      BY <3>2
  <2> QED
    BY <2>5, <2>6, <2>7, <2>8 DEF IsRouteOf
<1>8. DOMAIN routes = 1 .. c
  <2> HIDE DEF routes, patterns, along, departures
  <2> QED
    BY <1>1, <1>5
<1>9. c \in 0 .. Len(rows)
  BY <1>3, <1>5
<1> QED
  BY <1>7, <1>8, <1>9

LEMMA MaxOfTwo ==
  ASSUME NEW a \in Int, NEW b \in Int
  PROVE  /\ Max({a, b}) \in {a, b} /\ Max({a, b}) \in Int
         /\ Max({a, b}) >= a /\ Max({a, b}) >= b
<1> DEFINE T == {a, b}
<1>1. \E m \in T : \A n \in T : m >= n
  <2>1. a >= b \/ b >= a
    OBVIOUS
  <2> QED
    BY <2>1
<1>2. Max(T) \in T /\ \A n \in T : Max(T) >= n
  <2> HIDE DEF T
  <2> QED
    BY <1>1, Zenon DEF Max
<1> QED
  BY <1>2

LEMMA MinOfTwo ==
  ASSUME NEW a \in Int, NEW b \in Int
  PROVE  /\ Min({a, b}) \in {a, b} /\ Min({a, b}) \in Int
         /\ Min({a, b}) <= a /\ Min({a, b}) <= b
<1> DEFINE T == {a, b}
<1>1. \E m \in T : \A n \in T : m <= n
  <2>1. a <= b \/ b <= a
    OBVIOUS
  <2> QED
    BY <2>1
<1>2. Min(T) \in T /\ \A n \in T : Min(T) <= n
  <2> HIDE DEF T
  <2> QED
    BY <1>1, Zenon DEF Min
<1> QED
  BY <1>2

(* Nobody walks for more than 400 seconds.                                 *)
LongestWalk == 400

LEMMA WalkingTimeIs ==
  ASSUME NEW m \in Int, 0 <= m, m <= MaxWalk
  PROVE  WalkingTime(m) \in 30 .. LongestWalk
<1> DEFINE secs == (m * 4) \div 5
<1>1. secs \in 0 .. 400
  BY DEF MaxWalk
<1> HIDE DEF secs
<1>2. PICK least \in Int : least = 30
  OBVIOUS
<1>3. secs \in Int
  BY <1>1
<1>4. Max({least, secs}) \in {least, secs} /\ Max({least, secs}) >= least
  BY <1>3, MaxOfTwo
<1>5. Max({30, secs}) \in {30, secs} /\ Max({30, secs}) >= 30
  BY <1>2, <1>4
<1> QED
  BY <1>1, <1>5 DEF WalkingTime, secs, LongestWalk

LEMMA DistanceIs ==
  ASSUME NEW place \in [Stops -> Nat], NEW s \in Stops, NEW t \in Stops
  PROVE  Distance(place, s, t) \in Nat
<1> DEFINE a == place[s]
           b == place[t]
<1>1. a \in Int /\ b \in Int
  OBVIOUS
<1> HIDE DEF a, b
<1>2. /\ Max({a, b}) \in Int /\ Max({a, b}) >= a
      /\ Min({a, b}) \in Int /\ Min({a, b}) <= a
  BY <1>1, MaxOfTwo, MinOfTwo
<1> HIDE DEF a, b
<1>3. Max({a, b}) - Min({a, b}) \in Nat
  BY <1>1, <1>2
<1> QED
  BY <1>3 DEF Distance, a, b

-----------------------------------------------------------------------------
(***************************************************************************)
(* The index of a day.                                                     *)
(***************************************************************************)
(* A ride of the index, as the rows have it.                               *)
RideRuns(day, g, x) ==
  \E m, n \in DOMAIN day.stop_times :
    /\ RowComesBefore(day.stop_times, m, n)
    /\ day.stop_times[m].stop_id = BoardedAt(g, x) /\ day.stop_times[m].dep_sec = DepartureOf(g, x)
    /\ day.stop_times[n].stop_id = LeftAt(g, x) /\ day.stop_times[n].arr_sec = ArrivalOf(g, x)

IsIndexOf(g, day) ==
  /\ g.day = day
  /\ DOMAIN g.routes = 1 .. Len(g.routes) /\ Len(g.routes) \in 0 .. FOOTPATH_ROUTE_ID - 1
  /\ \A r \in 1 .. Len(g.routes) : IsRouteOf(day.stop_times, g.routes[r])
  /\ \A s \in Stops : g.stop_to_routes[s] =
       {r \in 1 .. Len(g.routes) : s \in ToSet(g.routes[r].stops)}
  /\ \A u \in Stops :
       /\ DOMAIN g.walk[u] = {v \in Stops \ {u} : Distance(day.place, u, v) <= MaxWalk}
       /\ \A v \in DOMAIN g.walk[u] : g.walk[u][v] = WalkingTime(Distance(day.place, u, v))

LEMMA DayFields ==
  ASSUME NEW day \in Days
  PROVE  /\ IsRows(day.stop_times) /\ Len(day.stop_times) < FOOTPATH_ROUTE_ID
         /\ day.place \in [Stops -> Nat]
BY DaysAssumption DEF IsRows

LEMMA IndexIs ==
  ASSUME NEW day \in Days
  PROVE  IsIndexOf(Indexed(day), day)
<1> DEFINE g == Indexed(day)
           rows == day.stop_times
<1>1. /\ IsRows(rows) /\ Len(rows) < FOOTPATH_ROUTE_ID /\ Len(rows) \in Nat
      /\ day.place \in [Stops -> Nat]
  BY DayFields, RowFields
<1>2. /\ g.routes = RoutesOf(rows) /\ g.stop_to_routes = StopToRoutes(RoutesOf(rows))
      /\ g.walk = FootpathsOf(day.place) /\ g.day = day
  BY DEF Indexed
<1> HIDE DEF g
<1>3. PICK c \in 0 .. Len(rows) :
        /\ DOMAIN g.routes = 1 .. c
        /\ \A r \in 1 .. c : IsRouteOf(rows, g.routes[r])
  BY <1>1, <1>2, RoutesAre
<1>4. c \in Nat /\ c < FOOTPATH_ROUTE_ID
  BY <1>1, <1>3
<1>5. Len(g.routes) = c
  <2>1. g.routes = [r \in DOMAIN g.routes |-> g.routes[r]]
    BY <1>2 DEF RoutesOf
  <2>2. IsSequence(g.routes, c)
    BY <1>3, <2>1 DEF IsSequence
  <2> QED
    BY <1>4, <2>2, SequenceLength
<1>6. ASSUME NEW s \in Stops
      PROVE  g.stop_to_routes[s] = {r \in 1 .. Len(g.routes) : s \in ToSet(g.routes[r].stops)}
  BY <1>2, <1>3, <1>5 DEF StopToRoutes
<1>7. ASSUME NEW u \in Stops
      PROVE  /\ DOMAIN g.walk[u] = {v \in Stops \ {u} : Distance(day.place, u, v) <= MaxWalk}
             /\ \A v \in DOMAIN g.walk[u] : g.walk[u][v] = WalkingTime(Distance(day.place, u, v))
  <2>1. g.walk[u] = [v \in {x \in Stops \ {u} : Distance(day.place, u, x) <= MaxWalk} |->
                       WalkingTime(Distance(day.place, u, v))]
    BY <1>2 DEF FootpathsOf
  <2> QED
    BY <2>1
<1> QED
  BY <1>2, <1>3, <1>4, <1>5, <1>6, <1>7 DEF IsIndexOf, g


LEMMA RouteOfRows ==
  ASSUME NEW rows, IsRows(rows), NEW route, IsRouteOf(rows, route)
  PROVE  /\ DOMAIN route.stops = 1 .. Len(route.stops) /\ Len(route.stops) \in Nat \ {0}
         /\ DOMAIN route.trips = 1 .. Len(route.trips) /\ Len(route.trips) \in Nat
         /\ \A i \in DOMAIN route.stops : route.stops[i] \in Stops
         /\ \A t \in DOMAIN route.trips :
              /\ IsTrip(rows, route.trips[t]) /\ DOMAIN route.trips[t] = DOMAIN route.stops
              /\ \A i \in DOMAIN route.stops : /\ route.trips[t][i].stop_id = route.stops[i]
                                               /\ route.trips[t][i].arr_sec \in Time
                                               /\ route.trips[t][i].dep_sec \in Time
<1>1. PICK n \in Nat :
        /\ IsSequence(route.trips, n)
        /\ \A t \in 1 .. n : /\ IsTrip(rows, route.trips[t])
                             /\ PatternOf(route.trips[t]) = route.stops
  BY DEF IsRouteOf
<1>2. DOMAIN route.trips = 1 .. n /\ Len(route.trips) = n
  BY <1>1, SequenceLength
<1>3. PICK trip : IsTrip(rows, trip) /\ PatternOf(trip) = route.stops
  BY DEF IsRouteOf
<1>4. PICK size \in Nat \ {0} :
        DOMAIN trip = 1 .. size /\ \A i \in 1 .. size : trip[i].stop_id \in Stops
  BY <1>3, TripFields
<1>5. IsSequence(route.stops, size)
  BY <1>3, <1>4 DEF PatternOf, IsSequence
<1>6. DOMAIN route.stops = 1 .. size /\ Len(route.stops) = size
  BY <1>4, <1>5, SequenceLength
<1>7. \A i \in DOMAIN route.stops : route.stops[i] \in Stops
  BY <1>3, <1>4, <1>6 DEF PatternOf
<1>8. ASSUME NEW t \in DOMAIN route.trips
      PROVE  /\ IsTrip(rows, route.trips[t]) /\ DOMAIN route.trips[t] = DOMAIN route.stops
             /\ \A i \in DOMAIN route.stops : /\ route.trips[t][i].stop_id = route.stops[i]
                                              /\ route.trips[t][i].arr_sec \in Time
                                              /\ route.trips[t][i].dep_sec \in Time
  <2> DEFINE other == route.trips[t]
  <2>1. IsTrip(rows, other) /\ PatternOf(other) = route.stops
    BY <1>1, <1>2
  <2> HIDE DEF other
  <2>2. PICK length \in Nat \ {0} :
          /\ DOMAIN other = 1 .. length
          /\ \A i \in 1 .. length : other[i].arr_sec \in Time /\ other[i].dep_sec \in Time
    BY <2>1, TripFields
  <2>3. DOMAIN other = DOMAIN route.stops /\ \A i \in DOMAIN other : other[i].stop_id = route.stops[i]
    BY <2>1, <2>2 DEF PatternOf
  <2> QED
    BY <2>1, <2>2, <2>3 DEF other
<1> QED
  BY <1>2, <1>4, <1>6, <1>7, <1>8

LEMMA IndexIsATimetable ==
  ASSUME NEW day \in Days, NEW g, IsIndexOf(g, day)
  PROVE  IsTimetable(g)
<1>1. /\ IsRows(day.stop_times) /\ day.place \in [Stops -> Nat]
  BY DayFields
<1>2. \A r \in 1 .. Len(g.routes) : IsRouteOf(day.stop_times, g.routes[r])
  BY DEF IsIndexOf
<1>3. Len(g.routes) \in Nat
  BY DEF IsIndexOf
<1>4. ASSUME NEW u \in Stops
      PROVE  /\ DOMAIN g.walk[u] \subseteq Stops \ {u}
             /\ \A v \in DOMAIN g.walk[u] : g.walk[u][v] \in Nat
  <2>1. /\ DOMAIN g.walk[u] = {v \in Stops \ {u} : Distance(day.place, u, v) <= MaxWalk}
        /\ \A v \in DOMAIN g.walk[u] : g.walk[u][v] = WalkingTime(Distance(day.place, u, v))
    BY Zenon DEF IsIndexOf
  <2>2. ASSUME NEW v \in DOMAIN g.walk[u] PROVE g.walk[u][v] \in Nat
    <3>1. v \in Stops /\ Distance(day.place, u, v) <= MaxWalk
      BY <2>1
    <3>2. Distance(day.place, u, v) \in Nat
      BY <1>1, <3>1, DistanceIs
    <3>3. WalkingTime(Distance(day.place, u, v)) \in 30 .. LongestWalk
      BY <3>1, <3>2, WalkingTimeIs
    <3> QED
      BY <2>1, <3>3
  <2> QED
    BY <2>1, <2>2
<1> QED
  BY <1>1, <1>2, <1>3, <1>4, RouteOfRows DEF IsTimetable

(* What is ridden is two rows of a trip, in their order.                   *)
LEMMA RidesRun ==
  ASSUME NEW day \in Days, NEW g, IsIndexOf(g, day), NEW x \in Rides(g)
  PROVE  RideRuns(day, g, x)
<1> DEFINE rows == day.stop_times
           route == g.routes[x.r]
           trip == route.trips[x.t]
<1>1. IsTimetable(g)
  BY IndexIsATimetable
<1>2. /\ x.r \in 1 .. Len(g.routes) /\ x.t \in DOMAIN route.trips
      /\ x.i \in DOMAIN route.stops /\ x.j \in DOMAIN route.stops
      /\ x.i \in Nat /\ x.j \in Nat /\ x.i < x.j
  BY <1>1, RideFields
<1>3. IsRows(rows) /\ IsRouteOf(rows, route)
  BY <1>2, DayFields DEF IsIndexOf
<1>4. /\ IsTrip(rows, trip) /\ DOMAIN trip = DOMAIN route.stops
      /\ \A i \in DOMAIN route.stops : trip[i].stop_id = route.stops[i]
  <2> HIDE DEF rows, route
  <2> QED
    BY <1>2, <1>3, RouteOfRows
<1>5. /\ BoardedAt(g, x) = trip[x.i].stop_id /\ DepartureOf(g, x) = trip[x.i].dep_sec
      /\ LeftAt(g, x) = trip[x.j].stop_id /\ ArrivalOf(g, x) = trip[x.j].arr_sec
  BY <1>2, <1>4 DEF BoardedAt, DepartureOf, LeftAt, ArrivalOf
<1> HIDE DEF trip, route, rows
<1>6. PICK size \in Nat \ {0} :
        /\ DOMAIN trip = 1 .. size
        /\ \E order : IsOrderOf(rows, order, size) /\ \A i \in 1 .. size : trip[i] = rows[order[i]]
  BY <1>4 DEF IsTrip
<1>7. PICK order : IsOrderOf(rows, order, size) /\ \A i \in 1 .. size : trip[i] = rows[order[i]]
  BY <1>6
<1>8. x.i \in 1 .. size /\ x.j \in 1 .. size
  BY <1>2, <1>4, <1>6
<1>9. /\ order[x.i] \in DOMAIN rows /\ order[x.j] \in DOMAIN rows
      /\ RowComesBefore(rows, order[x.i], order[x.j])
      /\ trip[x.i] = rows[order[x.i]] /\ trip[x.j] = rows[order[x.j]]
  BY <1>2, <1>7, <1>8 DEF IsOrderOf
<1> QED
  BY <1>5, <1>9, Zenon DEF RideRuns, rows

LEMMA WalksReach ==
  ASSUME NEW day \in Days, NEW g, IsIndexOf(g, day), NEW u \in Stops, NEW v \in DOMAIN g.walk[u]
  PROVE  /\ v \in Stops /\ v # u /\ Distance(day.place, u, v) <= MaxWalk
         /\ g.walk[u][v] = WalkingTime(Distance(day.place, u, v))
         /\ g.walk[u][v] \in 30 .. LongestWalk
<1>1. /\ DOMAIN g.walk[u] = {y \in Stops \ {u} : Distance(day.place, u, y) <= MaxWalk}
      /\ \A y \in DOMAIN g.walk[u] : g.walk[u][y] = WalkingTime(Distance(day.place, u, y))
  BY Zenon DEF IsIndexOf
<1>2. v \in Stops /\ v # u /\ Distance(day.place, u, v) <= MaxWalk
  BY <1>1
<1>3. Distance(day.place, u, v) \in Nat
  BY <1>2, DayFields, DistanceIs
<1>4. WalkingTime(Distance(day.place, u, v)) \in 30 .. LongestWalk
  BY <1>2, <1>3, WalkingTimeIs
<1> QED
  BY <1>1, <1>2, <1>4

-----------------------------------------------------------------------------
(***************************************************************************)
(* Lowering labels.                                                        *)
(***************************************************************************)
Legs == [board_stop : Stops, alight_stop : Stops, route_id : Nat,
         board_time : Nat, alight_time : Nat, trip_idx : Nat]

Labels == [earliest_arrival : [Stops -> Nat], leg : [Stops -> Legs \cup {NoLeg}],
           next_marked : SUBSET Stops]

LEMMA LegIsNotNoLeg == \A leg \in Legs : leg # NoLeg
<1> SUFFICES ASSUME NEW leg \in Legs, leg = NoLeg PROVE FALSE
  OBVIOUS
<1>1. "trip_idx" \in DOMAIN leg
  BY DEF Legs
<1>2. DOMAIN NoLeg = {}
  BY DEF NoLeg
<1> QED
  BY <1>1, <1>2

Kept(old, new, s) ==
  new.earliest_arrival[s] = old.earliest_arrival[s] /\ new.leg[s] = old.leg[s]

CameDown(old, new, legs, s) ==
  /\ new.earliest_arrival[s] < old.earliest_arrival[s]
  /\ new.leg[s] \in legs
  /\ new.leg[s].alight_stop = s /\ new.leg[s].alight_time = new.earliest_arrival[s]

LoweredBy(old, new, legs) ==
  /\ new \in Labels
  /\ \A s \in Stops : Kept(old, new, s) \/ CameDown(old, new, legs, s)
  /\ new.next_marked =
       old.next_marked \cup {s \in Stops : new.earliest_arrival[s] # old.earliest_arrival[s]}

LEMMA LabelFields ==
  ASSUME NEW lab \in Labels, NEW s \in Stops
  PROVE  /\ lab.earliest_arrival[s] \in Nat
         /\ lab.leg[s] # NoLeg => lab.leg[s] \in Legs
BY DEF Labels

LEMMA LoweredIs ==
  ASSUME NEW lab \in Labels, NEW legs \in SUBSET Legs,
         \A a, b \in legs : a.alight_stop = b.alight_stop => a = b
  PROVE  /\ LoweredBy(lab, Lowered(lab, legs), legs)
         /\ \A leg \in legs :
              Lowered(lab, legs).earliest_arrival[leg.alight_stop] <= leg.alight_time
<1> DEFINE better(s) == {leg \in legs : leg.alight_stop = s /\ Improves(lab, leg)}
           lowered == {s \in Stops : better(s) # {}}
           by(s) == CHOOSE leg \in better(s) : TRUE
           ea == [s \in Stops |-> IF s \in lowered THEN by(s).alight_time ELSE lab.earliest_arrival[s]]
           leg_of == [s \in Stops |-> IF s \in lowered THEN by(s) ELSE lab.leg[s]]
           new == Lowered(lab, legs)
<1>1. new = [earliest_arrival |-> ea, leg |-> leg_of, next_marked |-> lab.next_marked \cup lowered]
  BY DEF Lowered
<1>2. \A s \in lowered : /\ by(s) \in legs /\ by(s) \in Legs /\ by(s).alight_stop = s
                         /\ by(s).alight_time < lab.earliest_arrival[s]
  BY DEF Improves
<1>3. \A s \in Stops : /\ new.earliest_arrival[s] = IF s \in lowered THEN by(s).alight_time
                                                    ELSE lab.earliest_arrival[s]
                       /\ new.leg[s] = IF s \in lowered THEN by(s) ELSE lab.leg[s]
  BY <1>1
<1>4. new.next_marked = lab.next_marked \cup lowered
  BY <1>1
<1>5. lab.next_marked \in SUBSET Stops
  BY DEF Labels
<1>6. new \in Labels
  <2> HIDE DEF by, lowered
  <2>1. lowered \in SUBSET Stops
    BY DEF lowered
  <2>2. \A s \in lowered : by(s) \in Legs /\ by(s).alight_time \in Nat
    BY <1>2 DEF Legs
  <2>3. ea \in [Stops -> Nat]
    BY <2>2, LabelFields
  <2>4. leg_of \in [Stops -> Legs \cup {NoLeg}]
    BY <2>2, LabelFields
  <2> HIDE DEF ea, leg_of, new
  <2> QED
    BY <1>1, <1>5, <2>1, <2>3, <2>4 DEF Labels
<1>7. ASSUME NEW s \in Stops
      PROVE  Kept(lab, new, s) \/ CameDown(lab, new, legs, s)
  <2> HIDE DEF by, lowered, new
  <2> QED
    BY <1>2, <1>3 DEF Kept, CameDown
<1>8. lowered = {s \in Stops : new.earliest_arrival[s] # lab.earliest_arrival[s]}
  <2>1. \A s \in lowered : s \in Stops
    OBVIOUS
  <2>2. \A s \in lowered : by(s).alight_time \in Nat /\ lab.earliest_arrival[s] \in Nat
    BY <1>2, <2>1, LabelFields DEF Legs
  <2> HIDE DEF by, lowered, new
  <2>3. \A s \in lowered : new.earliest_arrival[s] # lab.earliest_arrival[s]
    BY <1>2, <1>3, <2>1, <2>2
  <2>4. \A s \in Stops : s \notin lowered => new.earliest_arrival[s] = lab.earliest_arrival[s]
    BY <1>3
  <2> QED
    BY <2>1, <2>3, <2>4
<1>9. ASSUME NEW leg \in legs
      PROVE  new.earliest_arrival[leg.alight_stop] <= leg.alight_time
  <2> DEFINE s == leg.alight_stop
  <2>1. s \in Stops /\ leg.alight_time \in Nat /\ lab.earliest_arrival[s] \in Nat
    BY LabelFields DEF Legs
  <2>2. CASE s \in lowered
    <3>1. by(s) = leg
      BY <1>2, <2>2
    <3> HIDE DEF by, lowered, new
    <3> QED
      BY <1>3, <2>1, <2>2, <3>1
  <2>3. CASE s \notin lowered
    <3>1. ~(leg.alight_time < lab.earliest_arrival[s])
      BY <2>1, <2>3 DEF Improves
    <3>2. new.earliest_arrival[s] = lab.earliest_arrival[s]
      <4> HIDE DEF by, lowered, new
      <4> QED
        BY <1>3, <2>1, <2>3
    <3> HIDE DEF by, lowered, new
    <3>3. new.earliest_arrival[s] <= leg.alight_time
      <4> HIDE DEF s
      <4> QED
        BY <2>1, <3>1, <3>2
    <3> QED
      BY <3>3
  <2> QED
    BY <2>2, <2>3
<1> QED
  BY <1>4, <1>6, <1>7, <1>8, <1>9, Zenon DEF LoweredBy

LEMMA LoweredTwice ==
  ASSUME NEW a \in Labels, NEW b, NEW c, NEW legs, LoweredBy(a, b, legs), LoweredBy(b, c, legs)
  PROVE  LoweredBy(a, c, legs)
<1>1. b \in Labels /\ c \in Labels
  BY DEF LoweredBy
<1>2. ASSUME NEW s \in Stops
      PROVE  /\ Kept(a, c, s) \/ CameDown(a, c, legs, s)
             /\ c.earliest_arrival[s] # a.earliest_arrival[s] <=>
                  \/ b.earliest_arrival[s] # a.earliest_arrival[s]
                  \/ c.earliest_arrival[s] # b.earliest_arrival[s]
  <2>1. /\ Kept(a, b, s) \/ CameDown(a, b, legs, s)
        /\ Kept(b, c, s) \/ CameDown(b, c, legs, s)
    BY DEF LoweredBy
  <2>2. a.earliest_arrival[s] \in Nat /\ b.earliest_arrival[s] \in Nat /\ c.earliest_arrival[s] \in Nat
    BY <1>1, LabelFields
  <2> QED
    BY <2>1, <2>2 DEF Kept, CameDown
<1>3. c.next_marked = a.next_marked \cup {s \in Stops : c.earliest_arrival[s] # a.earliest_arrival[s]}
  <2>1. /\ b.next_marked = a.next_marked \cup {s \in Stops : b.earliest_arrival[s] # a.earliest_arrival[s]}
        /\ c.next_marked = b.next_marked \cup {s \in Stops : c.earliest_arrival[s] # b.earliest_arrival[s]}
    BY DEF LoweredBy
  <2> QED
    BY <1>2, <2>1
<1> QED
  BY <1>1, <1>2, <1>3 DEF LoweredBy

LEMMA LoweredNot ==
  ASSUME NEW a \in Labels, NEW legs
  PROVE  LoweredBy(a, a, legs)
BY DEF LoweredBy, Kept

-----------------------------------------------------------------------------
(***************************************************************************)
(* The scan of a route.                                                    *)
(***************************************************************************)
(* What the engine works on: the index of a day.                           *)
GraphOK == graph.day \in Days /\ IsIndexOf(graph, graph.day)

LEMMA GraphIsATimetable == GraphOK => IsTimetable(graph)
BY IndexIsATimetable DEF GraphOK

LEMMA RouteFields ==
  ASSUME GraphOK
  PROVE  /\ Len(graph.routes) \in 0 .. FOOTPATH_ROUTE_ID - 1
         /\ DOMAIN graph.routes = 1 .. Len(graph.routes)
         /\ \A r \in 1 .. Len(graph.routes) :
              /\ DOMAIN stopsOf(r) = 1 .. Len(stopsOf(r)) /\ Len(stopsOf(r)) \in Nat
              /\ DOMAIN tripsOf(r) = 1 .. Len(tripsOf(r)) /\ Len(tripsOf(r)) \in Nat
              /\ \A i \in DOMAIN stopsOf(r) : stopsOf(r)[i] \in Stops
              /\ \A t \in DOMAIN tripsOf(r) : \A i \in DOMAIN stopsOf(r) :
                   tripsOf(r)[t][i].arr_sec \in Time /\ tripsOf(r)[t][i].dep_sec \in Time
<1>1. /\ Len(graph.routes) \in 0 .. FOOTPATH_ROUTE_ID - 1
      /\ DOMAIN graph.routes = 1 .. Len(graph.routes)
  BY DEF GraphOK, IsIndexOf
<1>2. IsTimetable(graph)
  BY GraphIsATimetable
<1>3. \A r \in 1 .. Len(graph.routes) :
              /\ DOMAIN stopsOf(r) = 1 .. Len(stopsOf(r)) /\ Len(stopsOf(r)) \in Nat
              /\ DOMAIN tripsOf(r) = 1 .. Len(tripsOf(r)) /\ Len(tripsOf(r)) \in Nat
              /\ \A i \in DOMAIN stopsOf(r) : stopsOf(r)[i] \in Stops
              /\ \A t \in DOMAIN tripsOf(r) : \A i \in DOMAIN stopsOf(r) :
                   tripsOf(r)[t][i].arr_sec \in Time /\ tripsOf(r)[t][i].dep_sec \in Time
  BY <1>2, TimetableFields, Zenon DEF stopsOf, tripsOf
<1> QED
  BY <1>1, <1>3

(* The binary search.  What is above the range can be caught from the best *)
(* trip on, what is below cannot be caught if nobody overtakes.            *)
Ranges(last) == [low : 1 .. last + 1, high : 0 .. last, best_t : 0 .. last]

RangeIsSound(r, i, last, range) ==
  /\ range \in Ranges(last)
  /\ range.low <= range.high + 1
  /\ \/ range.best_t = NoTrip /\ range.high = last
     \/ /\ range.best_t # NoTrip /\ range.best_t = range.high + 1
        /\ Catchable(r, i, range.best_t)
  /\ NoOvertaking(graph) => \A t \in 1 .. range.low - 1 : ~Catchable(r, i, t)

LEMMA TripsInOrder ==
  ASSUME GraphOK, NoOvertaking(graph), NEW r \in 1 .. Len(graph.routes), NEW i \in DOMAIN stopsOf(r),
         NEW t \in DOMAIN tripsOf(r), NEW u \in DOMAIN tripsOf(r), t <= u
  PROVE  /\ tripsOf(r)[t][i].dep_sec <= tripsOf(r)[u][i].dep_sec
         /\ tripsOf(r)[t][i].arr_sec <= tripsOf(r)[u][i].arr_sec
<1>1. /\ tripsOf(r)[t][i].dep_sec \in Time /\ tripsOf(r)[t][i].arr_sec \in Time
      /\ DOMAIN tripsOf(r) = 1 .. Len(tripsOf(r)) /\ Len(tripsOf(r)) \in Nat
  BY RouteFields
<1>2. CASE t = u
  BY <1>1, <1>2
<1>3. CASE t < u
  BY <1>3 DEF NoOvertaking, stopsOf, tripsOf
<1> QED
  BY <1>1, <1>2, <1>3

LEMMA HalvedIsSound ==
  ASSUME GraphOK, prev_arrival \in [Stops -> Nat],
         NEW r \in 1 .. Len(graph.routes), NEW i \in DOMAIN stopsOf(r),
         NEW last \in 0 .. Len(tripsOf(r)),
         NEW range \in Ranges(last), range.low <= range.high + 1
  PROVE  /\ Halved(range, r, i) \in Ranges(last)
         /\ Halved(range, r, i).low <= Halved(range, r, i).high + 1
         /\ RangeIsSound(r, i, last, range) => RangeIsSound(r, i, last, Halved(range, r, i))
         /\ \/ range.low > range.high /\ Halved(range, r, i) = range
            \/ Halved(range, r, i).high - Halved(range, r, i).low < range.high - range.low
<1> DEFINE mid == (range.low + range.high) \div 2
           low == range.low
           high == range.high
           new == Halved(range, r, i)
<1>1. /\ Len(tripsOf(r)) \in Nat /\ last \in Nat /\ last <= Len(tripsOf(r))
      /\ DOMAIN tripsOf(r) = 1 .. Len(tripsOf(r))
      /\ low \in 1 .. last + 1 /\ high \in 0 .. last /\ range.best_t \in 0 .. last
      /\ low <= high + 1
  BY RouteFields DEF Ranges
<1>2. CASE low > high
  BY <1>2 DEF Halved
<1>3. CASE low <= high
  <2>1. mid \in low .. high
    <3>1. \A a, b \in Nat : a <= b => (a + b) \div 2 \in a .. b
      OBVIOUS
    <3>2. low \in Nat /\ high \in Nat /\ mid = (low + high) \div 2
      BY <1>1
    <3> HIDE DEF low, high, mid
    <3> QED
      BY <1>3, <3>1, <3>2
  <2>2. mid \in 1 .. last /\ mid \in DOMAIN tripsOf(r)
    BY <1>1, <2>1
  <2>3. CASE Catchable(r, i, mid)
    <3>1. new = [range EXCEPT !.high = mid - 1, !.best_t = mid]
      BY <1>1, <1>3, <2>3 DEF Halved
    <3>2. new = [low |-> low, high |-> mid - 1, best_t |-> mid]
      BY <3>1 DEF Ranges
    <3> HIDE DEF mid, new, low, high
    <3>3. new \in Ranges(last) /\ new.low <= new.high + 1 /\ new.high - new.low < high - low
      BY <1>1, <2>1, <2>2, <3>2 DEF Ranges
    <3>4. ASSUME RangeIsSound(r, i, last, range) PROVE RangeIsSound(r, i, last, new)
      BY <2>2, <2>3, <3>2, <3>3, <3>4 DEF RangeIsSound, NoTrip, low
    <3> QED
      BY <3>3, <3>4 DEF low, high, new
  <2>4. CASE ~Catchable(r, i, mid)
    <3>1. new = [range EXCEPT !.low = mid + 1]
      BY <1>1, <1>3, <2>4 DEF Halved
    <3>2. new = [low |-> mid + 1, high |-> high, best_t |-> range.best_t]
      BY <3>1 DEF Ranges
    <3>3. ASSUME NoOvertaking(graph), NEW t \in 1 .. mid PROVE ~Catchable(r, i, t)
      <4>1. t \in DOMAIN tripsOf(r) /\ t <= mid
        BY <1>1, <2>2, <3>3
      <4>2. tripsOf(r)[t][i].dep_sec <= tripsOf(r)[mid][i].dep_sec
        <5> HIDE DEF mid
        <5> QED
          BY <2>2, <3>3, <4>1, TripsInOrder
      <4>3. /\ tripsOf(r)[t][i].dep_sec \in Time /\ tripsOf(r)[mid][i].dep_sec \in Time
            /\ prev_arrival[stopsOf(r)[i]] \in Nat
        <5> HIDE DEF mid
        <5> QED
          BY <2>2, <4>1, RouteFields
      <4> HIDE DEF mid
      <4> DEFINE a == tripsOf(r)[t][i].dep_sec
                 b == tripsOf(r)[mid][i].dep_sec
                 p == prev_arrival[stopsOf(r)[i]]
      <4>4. ~(b >= p)
        BY <2>4 DEF Catchable
      <4>5. a <= b /\ a \in Nat /\ b \in Nat /\ p \in Nat
        BY <4>2, <4>3
      <4> HIDE DEF a, b, p
      <4>6. ~(a >= p)
        BY <4>4, <4>5
      <4> QED
        BY <4>6 DEF Catchable, a, p
    <3> HIDE DEF mid, new, low, high
    <3>4. new \in Ranges(last) /\ new.low <= new.high + 1 /\ new.high - new.low < high - low
      BY <1>1, <2>1, <2>2, <3>2 DEF Ranges
    <3>5. ASSUME RangeIsSound(r, i, last, range) PROVE RangeIsSound(r, i, last, new)
      <4>1. new.low - 1 = mid /\ new.high = range.high /\ new.best_t = range.best_t
        BY <2>2, <3>2 DEF high
      <4> QED
        BY <3>3, <3>4, <3>5, <4>1 DEF RangeIsSound
    <3> QED
      BY <3>4, <3>5 DEF low, high, new
  <2> QED
    BY <2>3, <2>4
<1> QED
  BY <1>1, <1>2, <1>3

(* The turns of the binary search are a function.                          *)
LEMMA TurnsExist ==
  ASSUME GraphOK, prev_arrival \in [Stops -> Nat],
         NEW r \in 1 .. Len(graph.routes), NEW i \in DOMAIN stopsOf(r),
         NEW last \in 0 .. Len(tripsOf(r))
  PROVE  \E range : /\ range[0] = [low |-> 1, high |-> last, best_t |-> NoTrip]
                    /\ \A n \in 1 .. last : range[n] = Halved(range[n - 1], r, i)
                    /\ TripFound(r, i, last) = range[last].best_t
<1> DEFINE all == [low |-> 1, high |-> last, best_t |-> NoTrip]
           Holds(f) == f = [n \in 0 .. last |-> IF n = 0 THEN all ELSE Halved(f[n - 1], r, i)]
           S == {range \in Ranges(last) : range.low <= range.high + 1}
           F == [n \in 1 .. last |-> [range \in S |-> Halved(range, r, i)]]
<1>0. last \in Nat
  BY RouteFields
<1>1. all \in S
  BY <1>0 DEF Ranges, NoTrip
<1>2. F \in [1 .. last -> [S -> S]]
  BY HalvedIsSound
<1>3. PICK f \in [0 .. last -> S] : IsRecursion(f, last, all, F)
  <2> HIDE DEF S, F, all
  <2> QED
    BY <1>0, <1>1, <1>2, RecursionExists
<1>4. Holds(f)
  <2>1. \A n \in 1 .. last : f[n] = Halved(f[n - 1], r, i)
    <3> SUFFICES ASSUME NEW n \in 1 .. last PROVE f[n] = Halved(f[n - 1], r, i)
      OBVIOUS
    <3>1. f[n - 1] \in S
      <4> HIDE DEF S
      <4> QED
        BY <1>0, <1>3
    <3>2. f[n] = F[n][f[n - 1]]
      <4> HIDE DEF S, F, all
      <4> QED
        BY <1>3 DEF IsRecursion
    <3> HIDE DEF S
    <3> QED
      BY <3>1, <3>2
  <2>2. f[0] = all
    BY <1>3 DEF IsRecursion
  <2> HIDE DEF S, F, all
  <2> QED
    BY <1>0, <1>3, <2>1, <2>2
<1> DEFINE range == CHOOSE h : Holds(h)
<1>5. TripFound(r, i, last) = range[last].best_t
  BY Zenon DEF TripFound
<1>6. Holds(range)
  <2> HIDE DEF Holds
  <2> QED
    BY <1>4, Zenon
<1> HIDE DEF range, all
<1>7. range[0] = all /\ \A n \in 1 .. last : range[n] = Halved(range[n - 1], r, i)
  BY <1>0, <1>6
<1> QED
  BY <1>5, <1>7 DEF all

LEMMA TripFoundIs ==
  ASSUME GraphOK, prev_arrival \in [Stops -> Nat],
         NEW r \in 1 .. Len(graph.routes), NEW i \in DOMAIN stopsOf(r),
         NEW last \in 0 .. Len(tripsOf(r))
  PROVE  /\ TripFound(r, i, last) \in 0 .. last
         /\ TripFound(r, i, last) # NoTrip => Catchable(r, i, TripFound(r, i, last))
         /\ NoOvertaking(graph) => \A t \in 1 .. last : Catchable(r, i, t) =>
              TripFound(r, i, last) # NoTrip /\ TripFound(r, i, last) <= t
<1> DEFINE all == [low |-> 1, high |-> last, best_t |-> NoTrip]
<1>0. last \in Nat
  BY RouteFields
<1>1. PICK range : /\ range[0] = all
                   /\ \A n \in 1 .. last : range[n] = Halved(range[n - 1], r, i)
                   /\ TripFound(r, i, last) = range[last].best_t
  BY TurnsExist
<1> DEFINE Turns == {n \in 0 .. last : /\ RangeIsSound(r, i, last, range[n])
                                       /\ range[n].high - range[n].low < last - n}
<1>2. 0 \in Turns
  <2>1. RangeIsSound(r, i, last, all)
    BY <1>0 DEF RangeIsSound, Ranges, NoTrip
  <2> QED
    BY <1>0, <1>1, <2>1
<1>3. ASSUME NEW n \in 0 .. last - 1, n \in Turns PROVE n + 1 \in Turns
  <2> DEFINE old == range[n]
             new == range[n + 1]
  <2>1. RangeIsSound(r, i, last, old) /\ old.high - old.low < last - n
    BY <1>3
  <2>2. new = Halved(old, r, i)
    <3>1. n + 1 \in 1 .. last /\ (n + 1) - 1 = n
      BY <1>0
    <3> QED
      BY <1>1, <3>1
  <2> HIDE DEF old, new
  <2>3. old \in Ranges(last) /\ old.low <= old.high + 1
    BY <2>1 DEF RangeIsSound
  <2>4. /\ RangeIsSound(r, i, last, new)
        /\ \/ old.low > old.high /\ new = old
           \/ new.high - new.low < old.high - old.low
    BY <2>1, <2>2, <2>3, HalvedIsSound
  <2>5. /\ old.low \in Nat /\ old.high \in Nat /\ new.low \in Nat /\ new.high \in Nat
    BY <1>0, <2>3, <2>4 DEF RangeIsSound, Ranges
  <2>6. new.high - new.low < last - (n + 1)
    BY <1>0, <2>1, <2>4, <2>5
  <2> QED
    BY <2>4, <2>6 DEF new
<1>4. last \in Turns
  <2> HIDE DEF Turns
  <2>1. \A n \in 0 .. last : n \in Turns
    BY <1>0, <1>2, <1>3, CountingUp
  <2> QED
    BY <1>0, <2>1
<1> DEFINE closed == range[last]
<1>5. RangeIsSound(r, i, last, closed) /\ closed.high - closed.low < 0
  BY <1>0, <1>4
<1>6. TripFound(r, i, last) = closed.best_t
  BY <1>1
<1> HIDE DEF closed
<1>7. /\ closed.low \in 1 .. last + 1 /\ closed.high \in 0 .. last /\ closed.best_t \in 0 .. last
      /\ closed.low <= closed.high + 1
  BY <1>5 DEF RangeIsSound, Ranges
<1>8. closed.low = closed.high + 1
  BY <1>0, <1>5, <1>7
<1>9. ASSUME NoOvertaking(graph), NEW t \in 1 .. last, Catchable(r, i, t)
      PROVE  closed.best_t # NoTrip /\ closed.best_t <= t
  <2>1. ~(t \in 1 .. closed.low - 1)
    BY <1>5, <1>9 DEF RangeIsSound
  <2>2. t >= closed.high + 1
    BY <1>0, <1>7, <1>8, <2>1
  <2> QED
    BY <1>0, <1>5, <1>7, <2>2 DEF RangeIsSound
<1>10. closed.best_t # NoTrip => Catchable(r, i, closed.best_t)
  BY <1>5 DEF RangeIsSound
<1> QED
  BY <1>6, <1>7, <1>9, <1>10

(***************************************************************************)
(* What the scan of r may have done after its first i stops.               *)
(***************************************************************************)
RideLeg(x) ==
  [board_stop |-> BoardedAt(graph, x), alight_stop |-> LeftAt(graph, x), route_id |-> x.r,
   board_time |-> DepartureOf(graph, x), alight_time |-> ArrivalOf(graph, x), trip_idx |-> x.t]

(* The rides of r that start at a marked stop and can be caught.           *)
RidesOn(r) ==
  {x \in Rides(graph) : x.r = r /\ BoardedAt(graph, x) \in marked_stops /\ Caught(graph, x, prev_arrival)}

RideLegs(r) == {RideLeg(x) : x \in RidesOn(r)}

ScanStates(r) ==
  {scan \in [trip : 0 .. Len(tripsOf(r)), stop : Nat, time : Nat, labels : Labels] :
     scan.trip # NoTrip => scan.stop \in Stops}

(* Where a trip of r can be boarded and when.                              *)
BoardsAt(r, t, b) ==
  /\ stopsOf(r)[b] \in marked_stops /\ prev_arrival[stopsOf(r)[b]] # INF
  /\ Catchable(r, b, t)

ScanIsSound(r, i, scan) ==
  /\ scan \in ScanStates(r)
  /\ LoweredBy(labels, scan.labels, RideLegs(r))
  /\ scan.trip # NoTrip => \E b \in 1 .. i : /\ BoardsAt(r, scan.trip, b)
                                             /\ scan.stop = stopsOf(r)[b]
                                             /\ scan.time = tripsOf(r)[scan.trip][b].dep_sec

(* If nobody overtakes, the trip is the earliest one can be on, and every  *)
(* ride that has ended counts.                                             *)
ScanIsOnTime(r, i, scan) ==
  /\ \A b \in 1 .. i : \A t \in DOMAIN tripsOf(r) :
       BoardsAt(r, t, b) => scan.trip # NoTrip /\ scan.trip <= t
  /\ \A x \in RidesOn(r) : x.j <= i => RideCounts(graph, x, scan.labels.earliest_arrival)

ScanReady == GraphOK /\ prev_arrival \in [Stops -> Nat] /\ labels \in Labels /\ marked_stops \in SUBSET Stops

LEMMA RideLegIsALeg ==
  ASSUME GraphOK, NEW x \in Rides(graph)
  PROVE  RideLeg(x) \in Legs
<1>1. IsTimetable(graph)
  BY GraphIsATimetable
<1>2. /\ x.r \in 1 .. Len(graph.routes) /\ x.t \in Nat
      /\ BoardedAt(graph, x) \in Stops /\ LeftAt(graph, x) \in Stops
      /\ DepartureOf(graph, x) \in Nat /\ ArrivalOf(graph, x) \in Nat
  BY <1>1, RideFields
<1> QED
  BY <1>2 DEF RideLeg, Legs

LEMMA ScanTypes ==
  ASSUME ScanReady, NEW r \in 1 .. Len(graph.routes), NEW i \in DOMAIN stopsOf(r)
  PROVE  /\ Len(tripsOf(r)) \in Nat /\ DOMAIN tripsOf(r) = 1 .. Len(tripsOf(r))
         /\ stopsOf(r)[i] \in Stops /\ prev_arrival[stopsOf(r)[i]] \in Nat
         /\ i \in 1 .. Len(stopsOf(r)) /\ i \in Nat /\ i >= 1
         /\ \A t \in DOMAIN tripsOf(r) :
              tripsOf(r)[t][i].arr_sec \in Time /\ tripsOf(r)[t][i].dep_sec \in Time
<1>1. GraphOK /\ prev_arrival \in [Stops -> Nat]
  BY DEF ScanReady
<1>2. /\ Len(tripsOf(r)) \in Nat /\ DOMAIN tripsOf(r) = 1 .. Len(tripsOf(r))
      /\ DOMAIN stopsOf(r) = 1 .. Len(stopsOf(r)) /\ Len(stopsOf(r)) \in Nat
      /\ stopsOf(r)[i] \in Stops
  BY <1>1, RouteFields
<1>3. \A t \in DOMAIN tripsOf(r) :
        tripsOf(r)[t][i].arr_sec \in Time /\ tripsOf(r)[t][i].dep_sec \in Time
  BY <1>1, RouteFields
<1> QED
  BY <1>1, <1>2, <1>3

(* The leg on which somebody in the scan alights at the i-th stop.         *)
AlightingLeg(scan, r, i) ==
  [board_stop |-> scan.stop, alight_stop |-> stopsOf(r)[i], route_id |-> r,
   board_time |-> scan.time, alight_time |-> tripsOf(r)[scan.trip][i].arr_sec,
   trip_idx |-> scan.trip]

LEMMA AlightedIs ==
  ASSUME ScanReady, NEW r \in 1 .. Len(graph.routes), NEW i \in DOMAIN stopsOf(r),
         NEW scan \in ScanStates(r)
  PROVE  LET new == Alighted(scan, r, i)
             leg == AlightingLeg(scan, r, i)
         IN /\ new \in ScanStates(r)
            /\ new.trip = scan.trip /\ new.stop = scan.stop /\ new.time = scan.time
            /\ scan.trip = NoTrip => new.labels = scan.labels
            /\ scan.trip # NoTrip => /\ LoweredBy(scan.labels, new.labels, {leg})
                                     /\ new.labels.earliest_arrival[stopsOf(r)[i]] <=
                                          tripsOf(r)[scan.trip][i].arr_sec
<1> DEFINE new == Alighted(scan, r, i)
           leg == AlightingLeg(scan, r, i)
<1>1. CASE scan.trip = NoTrip
  BY <1>1 DEF Alighted
<1>2. CASE scan.trip # NoTrip
  <2>1. scan.trip \in DOMAIN tripsOf(r) /\ scan.stop \in Stops /\ scan.time \in Nat
        /\ scan.labels \in Labels /\ scan.trip \in Nat
    BY <1>2, ScanTypes DEF ScanStates, NoTrip
  <2>2. leg \in Legs
    BY <2>1, ScanTypes DEF Legs, AlightingLeg
  <2>3. /\ LoweredBy(scan.labels, Lowered(scan.labels, {leg}), {leg})
        /\ Lowered(scan.labels, {leg}).earliest_arrival[leg.alight_stop] <= leg.alight_time
    <3> HIDE DEF leg
    <3> QED
      BY <2>1, <2>2, LoweredIs
  <2>4. leg.alight_stop = stopsOf(r)[i] /\ leg.alight_time = tripsOf(r)[scan.trip][i].arr_sec
    BY DEF AlightingLeg
  <2>5. new = [scan EXCEPT !.labels = Lowered(scan.labels, {leg})]
    BY <1>2 DEF Alighted, AlightingLeg
  <2>6. scan = [trip |-> scan.trip, stop |-> scan.stop, time |-> scan.time, labels |-> scan.labels]
    BY DEF ScanStates
  <2> HIDE DEF leg, new
  <2>7. new = [trip |-> scan.trip, stop |-> scan.stop, time |-> scan.time,
               labels |-> Lowered(scan.labels, {leg})]
    BY <2>5, <2>6
  <2>8. Lowered(scan.labels, {leg}) \in Labels
    BY <2>3 DEF LoweredBy
  <2>9. /\ new.trip = scan.trip /\ new.stop = scan.stop /\ new.time = scan.time
        /\ new.labels = Lowered(scan.labels, {leg})
    BY <2>7
  <2>10. new \in ScanStates(r)
    BY <2>1, <2>7, <2>8, <2>9 DEF ScanStates
  <2>11. /\ LoweredBy(scan.labels, new.labels, {leg})
         /\ new.labels.earliest_arrival[stopsOf(r)[i]] <= tripsOf(r)[scan.trip][i].arr_sec
    BY <2>3, <2>4, <2>9
  <2> QED
    BY <1>2, <2>9, <2>10, <2>11 DEF new, leg
<1> QED
  BY <1>1, <1>2

LEMMA BoardedIs ==
  ASSUME ScanReady, NEW r \in 1 .. Len(graph.routes), NEW i \in DOMAIN stopsOf(r),
         NEW scan \in ScanStates(r)
  PROVE  LET new == Boarded(scan, r, i)
         IN /\ new \in ScanStates(r) /\ new.labels = scan.labels
            /\ \/ new = scan
               \/ /\ new.trip # NoTrip /\ BoardsAt(r, new.trip, i)
                  /\ scan.trip # NoTrip => new.trip < scan.trip
                  /\ new.stop = stopsOf(r)[i] /\ new.time = tripsOf(r)[new.trip][i].dep_sec
            /\ NoOvertaking(graph) =>
                 \A t \in DOMAIN tripsOf(r) : BoardsAt(r, t, i) =>
                   new.trip # NoTrip /\ new.trip <= t
<1> DEFINE new == Boarded(scan, r, i)
           s == stopsOf(r)[i]
           n == Len(tripsOf(r))
           last == IF scan.trip = NoTrip THEN n ELSE scan.trip - 1
           found == TripFound(r, i, last)
           t == IF s \in marked_stops /\ prev_arrival[s] # INF THEN found ELSE NoTrip
<1>1. /\ n \in Nat /\ DOMAIN tripsOf(r) = 1 .. n /\ s \in Stops /\ prev_arrival[s] \in Nat
      /\ GraphOK /\ prev_arrival \in [Stops -> Nat]
  BY ScanTypes DEF ScanReady
<1>2. scan.trip \in 0 .. n /\ scan.labels \in Labels /\ scan.stop \in Nat /\ scan.time \in Nat
  BY DEF ScanStates
<1>3. last \in 0 .. n
  BY <1>1, <1>2 DEF NoTrip
<1>4. /\ found \in 0 .. last
      /\ found # NoTrip => Catchable(r, i, found)
      /\ NoOvertaking(graph) => \A u \in 1 .. last : Catchable(r, i, u) => found # NoTrip /\ found <= u
  <2> HIDE DEF last
  <2> QED
    BY <1>1, <1>3, TripFoundIs
<1>5. new = IF t = NoTrip THEN scan
            ELSE [scan EXCEPT !.trip = t, !.stop = s, !.time = tripsOf(r)[t][i].dep_sec]
  BY DEF Boarded
<1>6. scan = [trip |-> scan.trip, stop |-> scan.stop, time |-> scan.time, labels |-> scan.labels]
  BY DEF ScanStates
<1> HIDE DEF found
<1>7. CASE t = NoTrip
  <2>1. new = scan
    BY <1>5, <1>7
  <2>2. ASSUME NoOvertaking(graph), NEW u \in DOMAIN tripsOf(r), BoardsAt(r, u, i)
        PROVE  scan.trip # NoTrip /\ scan.trip <= u
    <3>1. t = found /\ Catchable(r, i, u)
      BY <2>2 DEF BoardsAt
    <3>2. u \notin 1 .. last
      BY <1>4, <1>7, <2>2, <3>1
    <3> QED
      BY <1>1, <1>2, <3>2 DEF NoTrip
  <2> HIDE DEF new
  <2> QED
    BY <2>1, <2>2 DEF new
<1>8. CASE t # NoTrip
  <2>1. t = found /\ s \in marked_stops /\ prev_arrival[s] # INF
    BY <1>8
  <2>2. t \in 1 .. last /\ t \in 1 .. n
    BY <1>1, <1>2, <1>3, <1>4, <1>8, <2>1 DEF NoTrip
  <2>3. BoardsAt(r, t, i)
    BY <1>4, <1>8, <2>1 DEF BoardsAt
  <2>4. new = [scan EXCEPT !.trip = t, !.stop = s, !.time = tripsOf(r)[t][i].dep_sec]
    BY <1>5, <1>8
  <2>5. tripsOf(r)[t][i].dep_sec \in Nat
    BY <1>1, <2>2, ScanTypes
  <2>6. scan.trip # NoTrip => t < scan.trip
    BY <1>2, <2>2
  <2>7. ASSUME NoOvertaking(graph), NEW u \in DOMAIN tripsOf(r), BoardsAt(r, u, i)
        PROVE  t # NoTrip /\ t <= u
    <3>1. Catchable(r, i, u)
      BY <2>7 DEF BoardsAt
    <3>2. CASE u \in 1 .. last
      BY <1>4, <1>8, <2>1, <2>7, <3>1, <3>2
    <3>3. CASE u \notin 1 .. last
      <4>1. u >= last
        BY <1>1, <1>3, <3>3
      <4> QED
        BY <1>1, <1>3, <1>8, <2>2, <4>1
    <3> QED
      BY <3>2, <3>3
  <2> HIDE DEF new, t, s
  <2>8. new = [trip |-> t, stop |-> s, time |-> tripsOf(r)[t][i].dep_sec, labels |-> scan.labels]
    BY <1>6, <2>4
  <2>9. new.trip = t /\ new.stop = s /\ new.time = tripsOf(r)[t][i].dep_sec /\ new.labels = scan.labels
    BY <2>8
  <2>10. new \in ScanStates(r)
    BY <1>1, <1>2, <2>2, <2>5, <2>8, <2>9 DEF ScanStates
  <2> QED
    BY <1>8, <2>3, <2>6, <2>7, <2>9, <2>10 DEF new, s
<1> QED
  BY <1>7, <1>8

LEMMA LoweredByMore ==
  ASSUME NEW a \in Labels, NEW b, NEW legs, NEW more, legs \subseteq more, LoweredBy(a, b, legs)
  PROVE  LoweredBy(a, b, more)
BY DEF LoweredBy, CameDown

LEMMA LoweredFalls ==
  ASSUME NEW a \in Labels, NEW b, NEW legs, LoweredBy(a, b, legs), NEW s \in Stops
  PROVE  /\ b \in Labels
         /\ a.earliest_arrival[s] \in Nat /\ b.earliest_arrival[s] \in Nat
         /\ b.earliest_arrival[s] <= a.earliest_arrival[s]
<1>1. b \in Labels
  BY DEF LoweredBy
<1>2. a.earliest_arrival[s] \in Nat /\ b.earliest_arrival[s] \in Nat
  BY <1>1, LabelFields
<1>3. Kept(a, b, s) \/ CameDown(a, b, legs, s)
  BY DEF LoweredBy
<1> QED
  BY <1>1, <1>2, <1>3 DEF Kept, CameDown

(* Whoever alights has been on a ride.                                     *)
LEMMA AlightingRide ==
  ASSUME ScanReady, NEW r \in 1 .. Len(graph.routes), NEW i \in DOMAIN stopsOf(r),
         NEW scan, ScanIsSound(r, i - 1, scan), scan.trip # NoTrip
  PROVE  AlightingLeg(scan, r, i) \in RideLegs(r)
<1>1. PICK b \in 1 .. i - 1 : /\ BoardsAt(r, scan.trip, b)
                              /\ scan.stop = stopsOf(r)[b]
                              /\ scan.time = tripsOf(r)[scan.trip][b].dep_sec
  BY DEF ScanIsSound
<1>2. IsTimetable(graph) /\ DOMAIN stopsOf(r) = 1 .. Len(stopsOf(r)) /\ Len(stopsOf(r)) \in Nat
  BY GraphIsATimetable, RouteFields DEF ScanReady
<1>3. b \in DOMAIN stopsOf(r) /\ b < i
  BY <1>2
<1>4. scan.trip \in DOMAIN tripsOf(r)
  BY ScanTypes DEF ScanIsSound, ScanStates, NoTrip
<1>5. \E x \in Rides(graph) : x.r = r /\ x.t = scan.trip /\ x.i = b /\ x.j = i
  <2>1. /\ scan.trip \in DOMAIN graph.routes[r].trips
        /\ b \in DOMAIN graph.routes[r].stops /\ i \in DOMAIN graph.routes[r].stops
    BY <1>3, <1>4 DEF stopsOf, tripsOf
  <2> DEFINE t == scan.trip
  <2> HIDE DEF t
  <2>2. t \in DOMAIN graph.routes[r].trips
    BY <2>1 DEF t
  <2>3. \E x \in Rides(graph) : x.r = r /\ x.t = t /\ x.i = b /\ x.j = i
    BY <1>2, <1>3, <2>1, <2>2, IsRide
  <2> QED
    BY <2>3 DEF t
<1>6. PICK x \in Rides(graph) : x.r = r /\ x.t = scan.trip /\ x.i = b /\ x.j = i
  BY <1>5
<1>7. /\ BoardedAt(graph, x) = stopsOf(r)[b] /\ LeftAt(graph, x) = stopsOf(r)[i]
      /\ DepartureOf(graph, x) = tripsOf(r)[scan.trip][b].dep_sec
      /\ ArrivalOf(graph, x) = tripsOf(r)[scan.trip][i].arr_sec
  BY <1>6 DEF BoardedAt, LeftAt, DepartureOf, ArrivalOf, stopsOf, tripsOf
<1>8. AlightingLeg(scan, r, i) = RideLeg(x)
  BY <1>1, <1>6, <1>7 DEF AlightingLeg, RideLeg
<1>9. tripsOf(r)[scan.trip][b].dep_sec \in Nat /\ prev_arrival[stopsOf(r)[b]] \in Nat
  <2>1. /\ prev_arrival[stopsOf(r)[b]] \in Nat
        /\ \A t \in DOMAIN tripsOf(r) : tripsOf(r)[t][b].dep_sec \in Time
    BY <1>3, ScanTypes
  <2> QED
    BY <1>4, <2>1
<1>10. Caught(graph, x, prev_arrival)
  <2>1. /\ stopsOf(r)[b] \in marked_stops /\ prev_arrival[stopsOf(r)[b]] # INF
        /\ tripsOf(r)[scan.trip][b].dep_sec >= prev_arrival[stopsOf(r)[b]]
    BY <1>1 DEF BoardsAt, Catchable
  <2> QED
    BY <1>7, <1>9, <2>1 DEF Caught
<1>11. x \in RidesOn(r)
  BY <1>1, <1>6, <1>7, <1>10 DEF RidesOn, BoardsAt
<1> QED
  BY <1>8, <1>11 DEF RideLegs

LEMMA ScanStaysSound ==
  ASSUME ScanReady, NEW r \in 1 .. Len(graph.routes), NEW i \in DOMAIN stopsOf(r),
         NEW scan, ScanIsSound(r, i - 1, scan)
  PROVE  ScanIsSound(r, i, Boarded(Alighted(scan, r, i), r, i))
<1> DEFINE mid == Alighted(scan, r, i)
           new == Boarded(mid, r, i)
<1>1. scan \in ScanStates(r) /\ LoweredBy(labels, scan.labels, RideLegs(r))
  BY DEF ScanIsSound
<1>2. labels \in Labels /\ scan.labels \in Labels
  BY <1>1 DEF ScanReady, LoweredBy
<1>3. /\ mid \in ScanStates(r) /\ mid.trip = scan.trip /\ mid.stop = scan.stop /\ mid.time = scan.time
      /\ scan.trip = NoTrip => mid.labels = scan.labels
      /\ scan.trip # NoTrip => LoweredBy(scan.labels, mid.labels, {AlightingLeg(scan, r, i)})
  BY <1>1, AlightedIs
<1>4. LoweredBy(scan.labels, mid.labels, RideLegs(r))
  <2>1. CASE scan.trip = NoTrip
    BY <1>2, <1>3, <2>1, LoweredNot
  <2>2. CASE scan.trip # NoTrip
    <3>1. {AlightingLeg(scan, r, i)} \subseteq RideLegs(r)
      BY <2>2, AlightingRide
    <3> HIDE DEF mid
    <3> QED
      BY <1>2, <1>3, <2>2, <3>1, LoweredByMore
  <2> QED
    BY <2>1, <2>2
<1> HIDE DEF mid
<1>5. LoweredBy(labels, mid.labels, RideLegs(r))
  BY <1>1, <1>2, <1>4, LoweredTwice
<1>6. /\ new \in ScanStates(r) /\ new.labels = mid.labels
      /\ \/ new = mid
         \/ /\ new.trip # NoTrip /\ BoardsAt(r, new.trip, i)
            /\ new.stop = stopsOf(r)[i] /\ new.time = tripsOf(r)[new.trip][i].dep_sec
  BY <1>3, BoardedIs
<1> HIDE DEF new
<1>7. i \in Nat /\ i >= 1
  BY ScanTypes
<1>8. ASSUME new.trip # NoTrip
      PROVE  \E b \in 1 .. i : /\ BoardsAt(r, new.trip, b)
                               /\ new.stop = stopsOf(r)[b]
                               /\ new.time = tripsOf(r)[new.trip][b].dep_sec
  <2>1. CASE new = mid
    <3>1. PICK b \in 1 .. i - 1 : /\ BoardsAt(r, scan.trip, b)
                                  /\ scan.stop = stopsOf(r)[b]
                                  /\ scan.time = tripsOf(r)[scan.trip][b].dep_sec
      BY <1>3, <1>8, <2>1 DEF ScanIsSound
    <3>2. b \in 1 .. i
      BY <1>7
    <3> QED
      BY <1>3, <2>1, <3>1, <3>2
  <2>2. CASE new # mid
    <3>1. i \in 1 .. i
      BY <1>7
    <3> QED
      BY <1>6, <2>2, <3>1
  <2> QED
    BY <2>1, <2>2
<1>9. LoweredBy(labels, new.labels, RideLegs(r))
  BY <1>5, <1>6
<1> QED
  BY <1>6, <1>8, <1>9 DEF ScanIsSound, new, mid

LEMMA ScanStaysOnTime ==
  ASSUME ScanReady, NoOvertaking(graph),
         NEW r \in 1 .. Len(graph.routes), NEW i \in DOMAIN stopsOf(r),
         NEW scan, ScanIsSound(r, i - 1, scan), ScanIsOnTime(r, i - 1, scan)
  PROVE  ScanIsOnTime(r, i, Boarded(Alighted(scan, r, i), r, i))
<1> DEFINE mid == Alighted(scan, r, i)
           new == Boarded(mid, r, i)
<1>1. scan \in ScanStates(r) /\ scan.labels \in Labels
  BY DEF ScanIsSound, ScanStates
<1>2. /\ mid \in ScanStates(r) /\ mid.trip = scan.trip
      /\ scan.trip = NoTrip => mid.labels = scan.labels
      /\ scan.trip # NoTrip => /\ LoweredBy(scan.labels, mid.labels, {AlightingLeg(scan, r, i)})
                               /\ mid.labels.earliest_arrival[stopsOf(r)[i]] <=
                                    tripsOf(r)[scan.trip][i].arr_sec
  BY <1>1, AlightedIs
<1> HIDE DEF mid
<1>3. /\ new \in ScanStates(r) /\ new.labels = mid.labels
      /\ new = mid \/ (new.trip # NoTrip /\ (mid.trip # NoTrip => new.trip < mid.trip))
      /\ \A t \in DOMAIN tripsOf(r) : BoardsAt(r, t, i) => new.trip # NoTrip /\ new.trip <= t
  BY <1>2, BoardedIs
<1> HIDE DEF new
<1>4. i \in Nat /\ i >= 1 /\ DOMAIN tripsOf(r) = 1 .. Len(tripsOf(r)) /\ Len(tripsOf(r)) \in Nat
  BY ScanTypes
<1>5. new.trip \in Nat /\ mid.trip \in Nat /\ mid.labels \in Labels
  BY <1>2, <1>3, <1>4 DEF ScanStates
<1>6. ASSUME NEW b \in 1 .. i, NEW t \in DOMAIN tripsOf(r), BoardsAt(r, t, b)
      PROVE  new.trip # NoTrip /\ new.trip <= t
  <2>1. CASE b = i
    BY <1>3, <1>6, <2>1
  <2>2. CASE b # i
    <3>1. b \in 1 .. i - 1
      BY <1>4, <2>2
    <3>2. mid.trip # NoTrip /\ mid.trip <= t
      BY <1>2, <1>6, <3>1 DEF ScanIsOnTime
    <3> QED
      BY <1>3, <1>4, <1>5, <3>2
  <2> QED
    BY <2>1, <2>2
<1>7. \A s \in Stops : mid.labels.earliest_arrival[s] <= scan.labels.earliest_arrival[s]
  <2> TAKE s \in Stops
  <2>1. CASE scan.trip = NoTrip
    <3>1. scan.labels.earliest_arrival[s] \in Nat
      BY <1>1, LabelFields
    <3> QED
      BY <1>2, <2>1, <3>1
  <2>2. CASE scan.trip # NoTrip
    BY <1>1, <1>2, <2>2, LoweredFalls
  <2> QED
    BY <2>1, <2>2
<1>8. ASSUME NEW x \in RidesOn(r), x.j <= i
      PROVE  RideCounts(graph, x, new.labels.earliest_arrival)
  <2>1. /\ x \in Rides(graph) /\ x.r = r /\ BoardedAt(graph, x) \in marked_stops
        /\ Caught(graph, x, prev_arrival)
    BY DEF RidesOn
  <2>2. /\ IsTimetable(graph) /\ GraphOK
    BY GraphIsATimetable DEF ScanReady
  <2>3. /\ x.t \in DOMAIN tripsOf(r) /\ x.i \in DOMAIN stopsOf(r) /\ x.j \in DOMAIN stopsOf(r)
        /\ x.i \in Nat /\ x.j \in Nat /\ x.i < x.j
        /\ LeftAt(graph, x) \in Stops /\ ArrivalOf(graph, x) \in Nat
    BY <2>1, <2>2, RideFields DEF stopsOf, tripsOf
  <2> DEFINE z == LeftAt(graph, x)
             old == scan.labels.earliest_arrival[z]
             now == mid.labels.earliest_arrival[z]
             arr == ArrivalOf(graph, x)
  <2>4. old \in Nat /\ now \in Nat /\ now <= old
    BY <1>1, <1>5, <1>7, <2>3, LabelFields
  <2>5. now <= arr
    <3>1. CASE x.j # i
      <4>1. x.j <= i - 1
        BY <1>4, <1>8, <2>3, <3>1
      <4>2. old <= arr
        BY <4>1 DEF ScanIsOnTime, RideCounts
      <4> HIDE DEF old, now, arr
      <4>3. arr \in Nat
        BY <2>3 DEF arr
      <4> QED
        BY <2>4, <4>2, <4>3
    <3>2. CASE x.j = i
      <4>1. x.i \in 1 .. i - 1
        BY <1>4, <2>3, <3>2, ScanTypes
      <4>2. BoardsAt(r, x.t, x.i)
        <5>1. BoardedAt(graph, x) = stopsOf(r)[x.i] /\ DepartureOf(graph, x) = tripsOf(r)[x.t][x.i].dep_sec
          BY <2>1 DEF BoardedAt, DepartureOf, stopsOf, tripsOf
        <5>2. tripsOf(r)[x.t][x.i].dep_sec \in Nat /\ prev_arrival[stopsOf(r)[x.i]] \in Nat
          <6>1. /\ prev_arrival[stopsOf(r)[x.i]] \in Nat
                /\ \A t \in DOMAIN tripsOf(r) : tripsOf(r)[t][x.i].dep_sec \in Time
            <7> DEFINE b == x.i
            <7>1. b \in DOMAIN stopsOf(r)
              BY <2>3
            <7> HIDE DEF b
            <7>2. /\ prev_arrival[stopsOf(r)[b]] \in Nat
                  /\ \A t \in DOMAIN tripsOf(r) : tripsOf(r)[t][b].dep_sec \in Time
              BY <7>1, ScanTypes
            <7> QED
              BY <7>2 DEF b
          <6> QED
            BY <2>3, <6>1
        <5>3. /\ prev_arrival[stopsOf(r)[x.i]] # INF
              /\ prev_arrival[stopsOf(r)[x.i]] <= tripsOf(r)[x.t][x.i].dep_sec
          BY <2>1, <5>1 DEF Caught
        <5> QED
          BY <2>1, <5>1, <5>2, <5>3 DEF BoardsAt, Catchable
      <4>3. scan.trip # NoTrip /\ scan.trip <= x.t
        BY <2>3, <4>1, <4>2 DEF ScanIsOnTime
      <4>4. scan.trip \in DOMAIN tripsOf(r)
        BY <1>1, <1>4, <4>3 DEF ScanStates, NoTrip
      <4>5. tripsOf(r)[scan.trip][i].arr_sec <= tripsOf(r)[x.t][i].arr_sec
        BY <2>2, <2>3, <4>3, <4>4, TripsInOrder
      <4>6. z = stopsOf(r)[i] /\ arr = tripsOf(r)[x.t][i].arr_sec
        BY <2>1, <3>2 DEF LeftAt, ArrivalOf, stopsOf, tripsOf
      <4>7. now <= tripsOf(r)[scan.trip][i].arr_sec
        BY <1>2, <4>3, <4>6
      <4>8. tripsOf(r)[scan.trip][i].arr_sec \in Nat
        BY <4>4, ScanTypes
      <4> HIDE DEF now, arr
      <4>9. arr \in Nat
        BY <2>3 DEF arr
      <4> DEFINE q == tripsOf(r)[scan.trip][i].arr_sec
      <4>10. q \in Nat /\ now <= q /\ q <= arr /\ now \in Nat
        BY <2>4, <4>5, <4>6, <4>7, <4>8
      <4> HIDE DEF q
      <4> QED
        BY <4>9, <4>10
    <3> QED
      BY <3>1, <3>2
  <2> QED
    BY <1>3, <2>5 DEF RideCounts
<1> QED
  BY <1>6, <1>8 DEF ScanIsOnTime, new, mid

(* The whole scan.                                                         *)
LEMMA ScannedIs ==
  ASSUME ScanReady, NEW r \in 1 .. Len(graph.routes)
  PROVE  LET after == Scanned(r)[Len(stopsOf(r))].labels IN
         /\ LoweredBy(labels, after, RideLegs(r))
         /\ NoOvertaking(graph) => \A x \in RidesOn(r) : RideCounts(graph, x, after.earliest_arrival)
<1> DEFINE first == [trip |-> NoTrip, stop |-> INF, time |-> 0, labels |-> labels]
           Move(scan, i) == Boarded(Alighted(scan, r, i), r, i)
           Holds(f) == f = [i \in 0 .. Len(stopsOf(r)) |-> IF i = 0 THEN first ELSE Move(f[i - 1], i)]
           S == ScanStates(r)
           scan == Scanned(r)
<1>0. /\ DOMAIN stopsOf(r) = 1 .. Len(stopsOf(r)) /\ Len(stopsOf(r)) \in Nat
      /\ Len(tripsOf(r)) \in Nat
  BY RouteFields DEF ScanReady
<1>1. PICK n \in Nat : n = Len(stopsOf(r))
  BY <1>0
<1> DEFINE F == [i \in 1 .. n |-> [x \in S |-> Move(x, i)]]
<1>2. first \in S
  BY <1>0 DEF ScanStates, NoTrip, ScanReady
<1>3. F \in [1 .. n -> [S -> S]]
  <2>1. \A i \in 1 .. n : \A x \in S : Move(x, i) \in S
    <3> TAKE i \in 1 .. n
    <3> TAKE x \in S
    <3>1. Alighted(x, r, i) \in ScanStates(r)
      BY <1>0, <1>1, AlightedIs
    <3> QED
      BY <1>0, <1>1, <3>1, BoardedIs
  <2> HIDE DEF S, Move
  <2> QED
    BY <2>1
<1>4. PICK f \in [0 .. n -> S] : IsRecursion(f, n, first, F)
  <2> HIDE DEF S, F, first
  <2> QED
    BY <1>2, <1>3, RecursionExists
<1>5. Holds(f)
  <2>1. \A i \in 1 .. n : f[i] = Move(f[i - 1], i)
    <3> SUFFICES ASSUME NEW i \in 1 .. n PROVE f[i] = Move(f[i - 1], i)
      OBVIOUS
    <3>1. f[i - 1] \in S
      <4> HIDE DEF S
      <4> QED
        BY <1>4
    <3>2. f[i] = F[i][f[i - 1]]
      <4> HIDE DEF S, F, first
      <4> QED
        BY <1>4 DEF IsRecursion
    <3> HIDE DEF S, Move
    <3> QED
      BY <3>1, <3>2
  <2>2. f[0] = first
    BY <1>4 DEF IsRecursion
  <2> HIDE DEF S, F, first, Move
  <2> QED
    BY <1>1, <1>4, <2>1, <2>2
<1>6. Holds(scan)
  <2>1. scan = CHOOSE h : Holds(h)
    BY Zenon DEF Scanned
  <2> HIDE DEF Holds, scan
  <2> QED
    BY <1>5, <2>1, Zenon
<1>7. scan[0] = first /\ \A i \in 1 .. n : scan[i] = Move(scan[i - 1], i)
  <2> HIDE DEF first, Move, scan
  <2> QED
    BY <1>1, <1>6
<1> DEFINE Ok == {i \in 0 .. n : /\ ScanIsSound(r, i, scan[i])
                                 /\ NoOvertaking(graph) => ScanIsOnTime(r, i, scan[i])}
<1>8. 0 \in Ok
  <2>1. ScanIsSound(r, 0, first)
    BY <1>2, LoweredNot DEF ScanIsSound, ScanReady
  <2>2. ScanIsOnTime(r, 0, first)
    <3>1. \A x \in RidesOn(r) : ~(x.j <= 0)
      <4> TAKE x \in RidesOn(r)
      <4>1. x \in Rides(graph) /\ IsTimetable(graph)
        BY GraphIsATimetable DEF RidesOn, ScanReady
      <4>2. x.i \in DOMAIN graph.routes[x.r].stops /\ x.i < x.j /\ x.i \in Nat /\ x.j \in Nat
        BY <4>1, RideFields
      <4> QED
        BY <4>2
    <3> QED
      BY <3>1 DEF ScanIsOnTime
  <2> HIDE DEF scan, first
  <2> QED
    BY <1>1, <1>7, <2>1, <2>2
<1>9. ASSUME NEW i \in 0 .. n - 1, i \in Ok PROVE i + 1 \in Ok
  <2>1. i + 1 \in DOMAIN stopsOf(r) /\ (i + 1) - 1 = i /\ i + 1 \in 1 .. n
    BY <1>0, <1>1
  <2>2. PICK j \in DOMAIN stopsOf(r) : j = i + 1 /\ j - 1 = i /\ j \in 1 .. n
    BY <2>1
  <2>3. scan[j] = Boarded(Alighted(scan[i], r, j), r, j)
    BY <1>7, <2>2
  <2> HIDE DEF scan
  <2>4. ScanIsSound(r, j - 1, scan[i]) /\ (NoOvertaking(graph) => ScanIsOnTime(r, j - 1, scan[i]))
    BY <1>9, <2>2
  <2>5. ScanIsSound(r, j, Boarded(Alighted(scan[i], r, j), r, j))
    BY <2>4, ScanStaysSound
  <2>6. NoOvertaking(graph) => ScanIsOnTime(r, j, Boarded(Alighted(scan[i], r, j), r, j))
    BY <2>4, ScanStaysOnTime
  <2>7. j \in 0 .. n
    BY <2>2
  <2> QED
    BY <2>2, <2>3, <2>5, <2>6, <2>7
<1>10. n \in Ok
  <2> HIDE DEF Ok
  <2>1. \A i \in 0 .. n : i \in Ok
    BY <1>8, <1>9, CountingUp
  <2> QED
    BY <2>1
<1>11. ScanIsSound(r, n, scan[n]) /\ (NoOvertaking(graph) => ScanIsOnTime(r, n, scan[n]))
  BY <1>10
<1> HIDE DEF scan
<1>12. \A x \in RidesOn(r) : x.j <= n
  <2> TAKE x \in RidesOn(r)
  <2>1. x \in Rides(graph) /\ IsTimetable(graph) /\ x.r = r
    BY GraphIsATimetable DEF RidesOn, ScanReady
  <2>2. x.j \in DOMAIN stopsOf(r)
    BY <2>1, RideFields DEF stopsOf
  <2> QED
    BY <1>0, <1>1, <2>2
<1> QED
  BY <1>1, <1>11, <1>12 DEF ScanIsSound, ScanIsOnTime, scan

-----------------------------------------------------------------------------
(***************************************************************************)
(* The inductive invariant of the search.                                  *)
(***************************************************************************)
Searching == pc \notin {"idle", "done"}

Reached(s) == labels.earliest_arrival[s] < INF

EngineTypeOK ==
  /\ GraphOK
  /\ pc \in {"idle", "first_walks", "round", "routes", "walks", "trace", "done"}
  /\ source_stop \in Nat /\ target_stop \in Nat /\ departure_time \in Nat
  /\ labels \in Labels
  /\ k \in 0 .. MAX_ROUNDS
  /\ prev_arrival \in [Stops -> Nat] /\ marked_stops \in SUBSET Stops
  /\ pc = "first_walks" => k = 0
  /\ pc \in {"round", "routes", "walks"} => k < MAX_ROUNDS
  /\ pc = "routes" => todo \subseteq 1 .. Len(graph.routes)
  /\ pc = "walks" => todo \subseteq Stops
  /\ Searching => source_stop \in Stops /\ target_stop \in Stops /\ source_stop # target_stop

(* What a leg may be: a ride or a footpath.                                *)
IsRideLeg(leg) == \E x \in Rides(graph) : leg = RideLeg(x)

IsFootLeg(leg) ==
  /\ leg.route_id = FOOTPATH_ROUTE_ID
  /\ leg.alight_stop \in DOMAIN graph.walk[leg.board_stop]
  /\ leg.alight_time = leg.board_time + graph.walk[leg.board_stop][leg.alight_stop]

(* The legs somebody who is where the labels say could take.               *)
Offered ==
  {leg \in Legs :
     /\ IsRideLeg(leg) \/ IsFootLeg(leg)
     /\ Reached(leg.board_stop) /\ labels.earliest_arrival[leg.board_stop] <= leg.board_time}

LegIsSound(s) ==
  /\ departure_time < INF /\ Reached(s)
  /\ labels.leg[s] \in Offered
  /\ labels.leg[s].alight_stop = s
  /\ labels.leg[s].alight_time = labels.earliest_arrival[s]

LabelsAreSound ==
  /\ \A s \in Stops :
       IF labels.leg[s] = NoLeg
         THEN \/ labels.earliest_arrival[s] = INF
              \/ s = source_stop /\ labels.earliest_arrival[s] = departure_time
         ELSE LegIsSound(s)
  /\ \A s \in labels.next_marked : labels.leg[s] # NoLeg
  /\ pc = "first_walks" =>
       labels = [Unlabelled EXCEPT !.earliest_arrival[source_stop] = departure_time]
  /\ pc = "routes" => \A s \in Stops : labels.earliest_arrival[s] <= prev_arrival[s]
  /\ pc = "walks" => \A u \in todo : labels.leg[u] # NoLeg

(* A step of the search: labels come down by legs on offer.                *)
LabelsFall ==
  /\ labels' \in Labels
  /\ \A s \in Stops : Kept(labels, labels', s) \/ CameDown(labels, labels', Offered, s)

(* Where time runs forward the legs lead back to the source.               *)
Circular(C) == \A s \in C : labels.leg[s] # NoLeg /\ labels.leg[s].board_stop \in C

LegsLeadToTheSource ==
  /\ labels.leg[source_stop] = NoLeg /\ labels.earliest_arrival[source_stop] = departure_time
  /\ \A s \in Stops : \/ departure_time <= labels.earliest_arrival[s]
                      \/ labels.earliest_arrival[s] = INF
  /\ \A C \in SUBSET Stops : Circular(C) => C = {}

(* Nobody walks on who has walked there from the source.                   *)
CameByFootFromSource(s) ==
  /\ labels.leg[s] # NoLeg /\ labels.leg[s].route_id = FOOTPATH_ROUTE_ID
  /\ labels.leg[s].board_stop = source_stop

WalkersCameByBus ==
  /\ \A s \in Stops :
       /\ labels.leg[s] # NoLeg /\ labels.leg[s].route_id = FOOTPATH_ROUTE_ID
       /\ labels.leg[s].board_stop # source_stop
       => ~CameByFootFromSource(labels.leg[s].board_stop)
  /\ pc = "walks" => \A u \in todo : u # source_stop /\ ~CameByFootFromSource(u)

ForwardSearch ==
  RunsForward(graph) /\ Searching => LegsLeadToTheSource /\ WalkersCameByBus

(* The plan that was found.                                                *)
PlanIsAJourney ==
  /\ plan \in Seq(Legs) /\ Len(plan) > 0
  /\ \A n \in DOMAIN plan : IsRideLeg(plan[n]) \/ IsFootLeg(plan[n])
  /\ \A n \in 1 .. Len(plan) - 1 :
       /\ plan[n].alight_stop = plan[n + 1].board_stop
       /\ plan[n].alight_time <= plan[n + 1].board_time
  /\ plan[Len(plan)].alight_stop = target_stop
  /\ plan[Len(plan)].alight_time = labels.earliest_arrival[target_stop]
  /\ RunsForward(graph) =>
       /\ plan[1].board_stop = source_stop /\ plan[1].board_time >= departure_time
       /\ Len(plan) > 1 => ~(IsWalking(plan[1]) /\ IsWalking(plan[2]))

PlanIsSound == pc = "done" /\ plan # None => PlanIsAJourney

(***************************************************************************)
(* In an orderly timetable the labels of a round are those of the          *)
(* reference.                                                              *)
(***************************************************************************)
BestWith(n) == Best(graph, source_stop, departure_time)[n]

BeforeRound ==
  pc = "round" =>
    /\ labels.earliest_arrival = BestWith(k)
    /\ WalkedOut(graph, labels.earliest_arrival)
    /\ OthersCount(graph, marked_stops, labels.earliest_arrival, labels.earliest_arrival)

RoundIsSound ==
  pc \in {"routes", "walks"} =>
    /\ prev_arrival = BestWith(k)
    /\ WalkedOut(graph, prev_arrival)
    /\ \A s \in Stops :
         /\ labels.earliest_arrival[s] <= prev_arrival[s]
         /\ s \in labels.next_marked <=> labels.earliest_arrival[s] # prev_arrival[s]
         /\ IsExplained(graph, s, prev_arrival, labels.earliest_arrival)
    /\ OthersCount(graph, marked_stops, prev_arrival, labels.earliest_arrival)

ScansCount ==
  pc = "routes" =>
    /\ \A s \in labels.next_marked : labels.leg[s].route_id # FOOTPATH_ROUTE_ID
    /\ \A x \in Rides(graph) :
         /\ Caught(graph, x, prev_arrival) /\ BoardedAt(graph, x) \in marked_stops
         /\ x.r \notin todo
         => RideCounts(graph, x, labels.earliest_arrival)

WalksGoOn ==
  pc = "walks" =>
    /\ todo \subseteq labels.next_marked
    /\ \A x \in Rides(graph) : Caught(graph, x, prev_arrival) =>
         /\ RideCounts(graph, x, labels.earliest_arrival)
         /\ LeftAt(graph, x) \notin todo => WalksCount(graph, x, labels.earliest_arrival)

SearchIsOver == pc = "trace" => labels.earliest_arrival = BestWith(MAX_ROUNDS)

OrderlySearch ==
  Orderly /\ Searching /\ departure_time < INF =>
    BeforeRound /\ RoundIsSound /\ ScansCount /\ WalksGoOn /\ SearchIsOver

(* There is a plan if the target can be reached, and it arrives earliest.  *)
ArrivalIsEarliest ==
  Orderly /\ pc = "done" =>
    IF plan = None
      THEN source_stop \in Stops /\ target_stop \in Stops \ {source_stop} =>
             BestWith(MAX_ROUNDS)[target_stop] = INF
      ELSE /\ source_stop \in Stops /\ target_stop \in Stops \ {source_stop}
           /\ plan[Len(plan)].alight_time = BestWith(MAX_ROUNDS)[target_stop]
           /\ plan[Len(plan)].alight_time # INF

-----------------------------------------------------------------------------
(***************************************************************************)
(* What the steps of the search do to the labels.                          *)
(***************************************************************************)
FootLeg(lab, u, v) ==
  [board_stop |-> u, alight_stop |-> v, route_id |-> FOOTPATH_ROUTE_ID,
   board_time |-> lab.earliest_arrival[u],
   alight_time |-> lab.earliest_arrival[u] + graph.walk[u][v],
   trip_idx |-> NoTrip]

FootLegs(lab, u) == {FootLeg(lab, u, v) : v \in DOMAIN graph.walk[u]}

LEMMA WalkFields ==
  ASSUME GraphOK, NEW u \in Stops, NEW v \in DOMAIN graph.walk[u]
  PROVE  v \in Stops /\ v # u /\ graph.walk[u][v] \in Nat /\ graph.walk[u][v] >= 30
                     /\ graph.walk[u][v] <= 400
<1>1. v \in Stops /\ v # u /\ graph.walk[u][v] \in 30 .. LongestWalk
  BY WalksReach DEF GraphOK
<1> QED
  BY <1>1, SMTT(30) DEF LongestWalk

LEMMA FootLegIs ==
  ASSUME GraphOK, NEW lab \in Labels, NEW u \in Stops, NEW v \in DOMAIN graph.walk[u]
  PROVE  LET leg == FootLeg(lab, u, v) IN
         /\ leg \in Legs /\ IsFootLeg(leg)
         /\ leg.board_stop = u /\ leg.alight_stop = v /\ leg.route_id = FOOTPATH_ROUTE_ID
         /\ leg.board_time = lab.earliest_arrival[u]
         /\ leg.alight_time = lab.earliest_arrival[u] + graph.walk[u][v]
<1> DEFINE a == lab.earliest_arrival[u]
           w == graph.walk[u][v]
           leg == FootLeg(lab, u, v)
<1>1. a \in Nat /\ w \in Nat /\ v \in Stops /\ FOOTPATH_ROUTE_ID \in Nat
  BY LabelFields, WalkFields
<1>2. leg = [board_stop |-> u, alight_stop |-> v, route_id |-> FOOTPATH_ROUTE_ID,
             board_time |-> a, alight_time |-> a + w, trip_idx |-> NoTrip]
  BY DEF FootLeg
<1>3. a + w \in Nat
  <2> HIDE DEF a, w
  <2> QED
    BY <1>1
<1> HIDE DEF a, w
<1>4. leg \in Legs
  BY <1>1, <1>2, <1>3 DEF Legs, NoTrip
<1>5. /\ leg.board_stop = u /\ leg.alight_stop = v /\ leg.route_id = FOOTPATH_ROUTE_ID
      /\ leg.board_time = a /\ leg.alight_time = a + w
  BY <1>2
<1> HIDE DEF leg
<1>6. IsFootLeg(leg)
  BY <1>5 DEF IsFootLeg, w
<1> QED
  BY <1>4, <1>5, <1>6 DEF a, w, leg

LEMMA WalkedFromIs ==
  ASSUME GraphOK, NEW lab \in Labels, NEW u \in Stops
  PROVE  /\ LoweredBy(lab, WithWalksFrom(lab, u), FootLegs(lab, u))
         /\ \A v \in DOMAIN graph.walk[u] :
              WithWalksFrom(lab, u).earliest_arrival[v] <= lab.earliest_arrival[u] + graph.walk[u][v]
<1> DEFINE legs == FootLegs(lab, u)
<1>1. WithWalksFrom(lab, u) = Lowered(lab, legs)
  BY DEF WithWalksFrom, FootLegs, FootLeg
<1>2. legs \in SUBSET Legs
  BY FootLegIs DEF FootLegs
<1>3. \A a, b \in legs : a.alight_stop = b.alight_stop => a = b
  <2> SUFFICES ASSUME NEW v \in DOMAIN graph.walk[u], NEW w \in DOMAIN graph.walk[u],
                      FootLeg(lab, u, v).alight_stop = FootLeg(lab, u, w).alight_stop
               PROVE  v = w
    BY DEF FootLegs
  <2> QED
    BY FootLegIs
<1> HIDE DEF legs
<1>4. /\ LoweredBy(lab, Lowered(lab, legs), legs)
      /\ \A leg \in legs : Lowered(lab, legs).earliest_arrival[leg.alight_stop] <= leg.alight_time
  BY <1>2, <1>3, LoweredIs
<1>5. ASSUME NEW v \in DOMAIN graph.walk[u]
      PROVE  Lowered(lab, legs).earliest_arrival[v] <= lab.earliest_arrival[u] + graph.walk[u][v]
  <2>1. FootLeg(lab, u, v) \in legs
    BY DEF legs, FootLegs
  <2>2. /\ FootLeg(lab, u, v).alight_stop = v
        /\ FootLeg(lab, u, v).alight_time = lab.earliest_arrival[u] + graph.walk[u][v]
    BY FootLegIs
  <2>3. Lowered(lab, legs).earliest_arrival[FootLeg(lab, u, v).alight_stop] <= FootLeg(lab, u, v).alight_time
    BY <1>4, <2>1
  <2> QED
    BY <2>2, <2>3
<1> QED
  BY <1>1, <1>4, <1>5 DEF legs

(* Walks from a stop that is reached are on offer.                         *)
LEMMA WalksAreOffered ==
  ASSUME GraphOK, labels \in Labels, NEW u \in Stops, Reached(u)
  PROVE  FootLegs(labels, u) \subseteq Offered
<1> SUFFICES ASSUME NEW v \in DOMAIN graph.walk[u] PROVE FootLeg(labels, u, v) \in Offered
  BY DEF FootLegs
<1> DEFINE leg == FootLeg(labels, u, v)
<1>1. leg \in Legs /\ IsFootLeg(leg) /\ leg.board_stop = u /\ leg.board_time = labels.earliest_arrival[u]
  BY FootLegIs
<1>2. labels.earliest_arrival[u] \in Nat
  BY LabelFields
<1> HIDE DEF leg
<1>3. leg \in Offered
  BY <1>1, <1>2 DEF Offered
<1> QED
  BY <1>3 DEF leg

(* So are the rides that can be caught, once labels are below prev_arrival.*)
LEMMA RidesAreOffered ==
  ASSUME GraphOK, labels \in Labels, prev_arrival \in [Stops -> Nat],
         \A s \in Stops : labels.earliest_arrival[s] <= prev_arrival[s],
         NEW r \in 1 .. Len(graph.routes)
  PROVE  RideLegs(r) \subseteq Offered
<1> SUFFICES ASSUME NEW x \in RidesOn(r) PROVE RideLeg(x) \in Offered
  BY DEF RideLegs
<1>1. x \in Rides(graph) /\ Caught(graph, x, prev_arrival) /\ IsTimetable(graph)
  BY GraphIsATimetable DEF RidesOn
<1>2. BoardedAt(graph, x) \in Stops /\ DepartureOf(graph, x) \in Time
  BY <1>1, RideFields
<1> DEFINE s == BoardedAt(graph, x)
           dep == DepartureOf(graph, x)
           prev == prev_arrival[s]
           now == labels.earliest_arrival[s]
<1>3. prev # INF /\ prev <= dep /\ prev \in Nat /\ now \in Nat /\ now <= prev /\ dep \in 0 .. W - 1
  BY <1>1, <1>2, LabelFields DEF Caught
<1>4. now < INF /\ now <= dep
  <2> HIDE DEF prev, now, dep
  <2> QED
    BY <1>3
<1>5. RideLeg(x) \in Legs /\ RideLeg(x).board_stop = s /\ RideLeg(x).board_time = dep
  <2>1. RideLeg(x) \in Legs
    BY <1>1, RideLegIsALeg
  <2> QED
    BY <2>1 DEF RideLeg
<1>6. IsRideLeg(RideLeg(x))
  BY <1>1 DEF IsRideLeg
<1> QED
  BY <1>4, <1>5, <1>6 DEF Offered, Reached

(***************************************************************************)
(* One lemma for each step that lowers labels.                             *)
(***************************************************************************)
FieldsOf(lab) ==
  lab = [earliest_arrival |-> lab.earliest_arrival, leg |-> lab.leg, next_marked |-> lab.next_marked]

LEMMA LabelRecord == ASSUME NEW lab \in Labels PROVE FieldsOf(lab)
BY DEF Labels, FieldsOf

LEMMA AtFirst ==
  ASSUME EngineTypeOK, LabelsAreSound, pc = "first_walks"
  PROVE  /\ labels.earliest_arrival = StartingAt(source_stop, departure_time)
         /\ \A s \in Stops : labels.leg[s] = NoLeg
         /\ labels.next_marked = {}
<1>1. labels = [Unlabelled EXCEPT !.earliest_arrival[source_stop] = departure_time]
  BY DEF LabelsAreSound
<1>2. source_stop \in Stops
  BY DEF EngineTypeOK, Searching
<1> QED
  BY <1>1, <1>2 DEF Unlabelled, StartingAt

LEMMA FirstWalksLower ==
  ASSUME EngineTypeOK, LabelsAreSound, FirstWalks
  PROVE  /\ LoweredBy(labels, labels', FootLegs(labels, source_stop))
         /\ LoweredBy(labels, labels', Offered)
<1>1. /\ GraphOK /\ labels \in Labels /\ source_stop \in Stops /\ departure_time \in Nat
      /\ labels' = WithWalksFrom(labels, source_stop) /\ pc = "first_walks"
  BY DEF EngineTypeOK, Searching, FirstWalks
<1>2. LoweredBy(labels, labels', FootLegs(labels, source_stop))
  BY <1>1, WalkedFromIs
<1>3. \A s \in Stops : labels.earliest_arrival[s] = IF s = source_stop THEN departure_time ELSE INF
  BY <1>1, AtFirst DEF StartingAt
<1>4. CASE Reached(source_stop)
  BY <1>1, <1>2, <1>4, WalksAreOffered, LoweredByMore
<1>5. CASE ~Reached(source_stop)
  <2>1. ASSUME NEW s \in Stops, CameDown(labels, labels', FootLegs(labels, source_stop), s)
        PROVE  FALSE
    <3>1. PICK v \in DOMAIN graph.walk[source_stop] : labels'.leg[s] = FootLeg(labels, source_stop, v)
      BY <2>1 DEF CameDown, FootLegs
    <3>2. s = v /\ labels'.earliest_arrival[s] = labels.earliest_arrival[source_stop] + graph.walk[source_stop][v]
      BY <1>1, <2>1, <3>1, FootLegIs DEF CameDown
    <3>3. v # source_stop /\ graph.walk[source_stop][v] \in Nat
      BY <1>1, WalkFields
    <3>4. departure_time >= INF
      BY <1>1, <1>3, <1>5 DEF Reached
    <3>5. labels.earliest_arrival[s] = INF /\ labels.earliest_arrival[source_stop] = departure_time
      BY <1>1, <1>3, <3>2, <3>3
    <3> DEFINE w == graph.walk[source_stop][v]
    <3> HIDE DEF w
    <3>6. w \in Nat /\ labels'.earliest_arrival[s] = departure_time + w /\ labels'.earliest_arrival[s] < INF
      BY <2>1, <3>2, <3>3, <3>5 DEF CameDown, w
    <3> QED
      BY <1>1, <3>4, <3>6
  <2>2. LoweredBy(labels, labels', {})
    BY <1>2, <2>1 DEF LoweredBy
  <2> QED
    BY <1>1, <1>2, <2>2, LoweredByMore
<1> QED
  BY <1>2, <1>4, <1>5

LEMMA ScanLowers ==
  ASSUME EngineTypeOK, LabelsAreSound, ScanRoute
  PROVE  \E r \in todo :
           /\ r \in 1 .. Len(graph.routes) /\ todo' = todo \ {r}
           /\ LoweredBy(labels, labels', RideLegs(r)) /\ RideLegs(r) \subseteq Offered
           /\ NoOvertaking(graph) => \A x \in RidesOn(r) : RideCounts(graph, x, labels'.earliest_arrival)
<1>1. PICK r \in todo : todo' = todo \ {r} /\ labels' = Scanned(r)[Len(stopsOf(r))].labels
  BY DEF ScanRoute
<1>2. /\ r \in 1 .. Len(graph.routes) /\ ScanReady
      /\ \A s \in Stops : labels.earliest_arrival[s] <= prev_arrival[s]
  BY DEF EngineTypeOK, ScanReady, ScanRoute, LabelsAreSound
<1>3. /\ LoweredBy(labels, labels', RideLegs(r))
      /\ NoOvertaking(graph) => \A x \in RidesOn(r) : RideCounts(graph, x, labels'.earliest_arrival)
  BY <1>1, <1>2, ScannedIs
<1>4. RideLegs(r) \subseteq Offered
  BY <1>2, RidesAreOffered DEF ScanReady
<1> QED
  BY <1>1, <1>2, <1>3, <1>4

LEMMA WalkOnLowers ==
  ASSUME EngineTypeOK, LabelsAreSound, WalkOn
  PROVE  \E u \in todo :
           /\ u \in Stops /\ labels.leg[u] # NoLeg /\ Reached(u) /\ todo' = todo \ {u}
           /\ LoweredBy(labels, labels', FootLegs(labels, u)) /\ FootLegs(labels, u) \subseteq Offered
           /\ \A v \in DOMAIN graph.walk[u] :
                labels'.earliest_arrival[v] <= labels.earliest_arrival[u] + graph.walk[u][v]
<1>1. PICK u \in todo : labels' = WithWalksFrom(labels, u) /\ todo' = todo \ {u}
  BY DEF WalkOn
<1>2. u \in Stops /\ GraphOK /\ labels \in Labels /\ labels.leg[u] # NoLeg
  BY DEF EngineTypeOK, WalkOn, LabelsAreSound
<1>3. Reached(u)
  BY <1>2 DEF LabelsAreSound, LegIsSound
<1>4. /\ LoweredBy(labels, labels', FootLegs(labels, u)) /\ FootLegs(labels, u) \subseteq Offered
      /\ \A v \in DOMAIN graph.walk[u] :
           labels'.earliest_arrival[v] <= labels.earliest_arrival[u] + graph.walk[u][v]
  BY <1>1, <1>2, <1>3, WalkedFromIs, WalksAreOffered
<1> QED
  BY <1>1, <1>2, <1>3, <1>4

(* Every step.                                                             *)
LEMMA EngineStepKeeps ==
  ASSUME EngineStep
  PROVE  UNCHANGED <<graph, source_stop, target_stop, departure_time>> /\ Searching
BY Zenon DEF EngineStep, FirstWalks, BeginRound, ScanRoute, RoutesDone, WalkOn, EndRound, ReturnPlan,
   call, Searching

LEMMA LabelsFallBy ==
  ASSUME labels \in Labels, LoweredBy(labels, labels', Offered)
  PROVE  LabelsFall
BY DEF LoweredBy, LabelsFall

LEMMA StepFalls ==
  ASSUME EngineTypeOK, LabelsAreSound, EngineStep
  PROVE  LabelsFall
<1>1. labels \in Labels
  BY DEF EngineTypeOK
<1>2. CASE FirstWalks
  BY <1>1, <1>2, FirstWalksLower, LabelsFallBy
<1>3. CASE BeginRound
  <2>1. labels' = [labels EXCEPT !.next_marked = {}]
    BY <1>3 DEF BeginRound
  <2>2. labels' = [earliest_arrival |-> labels.earliest_arrival, leg |-> labels.leg, next_marked |-> {}]
    <3>1. labels = [earliest_arrival |-> labels.earliest_arrival, leg |-> labels.leg,
                    next_marked |-> labels.next_marked]
      BY <1>1, LabelRecord DEF FieldsOf
    <3> QED
      BY <2>1, <3>1
  <2> QED
    BY <1>1, <2>2 DEF LabelsFall, Kept, Labels
<1>4. CASE ScanRoute
  <2>1. PICK r \in todo : LoweredBy(labels, labels', RideLegs(r)) /\ RideLegs(r) \subseteq Offered
    BY <1>4, ScanLowers
  <2> QED
    BY <1>1, <2>1, LoweredByMore, LabelsFallBy
<1>5. CASE RoutesDone \/ EndRound \/ ReturnPlan
  BY <1>1, <1>5 DEF RoutesDone, EndRound, ReturnPlan, LabelsFall, Kept
<1>6. CASE WalkOn
  <2>1. PICK u \in todo : LoweredBy(labels, labels', FootLegs(labels, u)) /\ FootLegs(labels, u) \subseteq Offered
    BY <1>6, WalkOnLowers
  <2> QED
    BY <1>1, <2>1, LoweredByMore, LabelsFallBy
<1> QED
  BY <1>2, <1>3, <1>4, <1>5, <1>6 DEF EngineStep

LEMMA StepEngineTypes ==
  ASSUME EngineTypeOK, LabelsAreSound, EngineStep
  PROVE  EngineTypeOK'
<1>1. LabelsFall /\ UNCHANGED <<graph, source_stop, target_stop, departure_time>> /\ Searching
  BY StepFalls, EngineStepKeeps
<1>2. /\ GraphOK' /\ source_stop' \in Nat /\ target_stop' \in Nat /\ departure_time' \in Nat
      /\ labels' \in Labels
      /\ source_stop' \in Stops /\ target_stop' \in Stops /\ source_stop' # target_stop'
  BY <1>1 DEF EngineTypeOK, LabelsFall, GraphOK
<1>3. labels \in Labels /\ labels'.next_marked \in SUBSET Stops
  BY <1>2 DEF EngineTypeOK, Labels
<1>4. CASE FirstWalks
  BY <1>2, <1>3, <1>4 DEF EngineTypeOK, FirstWalks, Searching, MAX_ROUNDS
<1>5. CASE BeginRound
  <2>1. \A s \in Stops : graph.stop_to_routes[s] \subseteq 1 .. Len(graph.routes)
    <3>1. GraphOK
      BY DEF EngineTypeOK
    <3> QED
      BY <3>1, RouteFields DEF GraphOK, IsIndexOf
  <2>2. todo' \subseteq 1 .. Len(graph.routes)
    BY <1>5, <2>1 DEF BeginRound, EngineTypeOK
  <2>3. prev_arrival' \in [Stops -> Nat]
    BY <1>3, <1>5 DEF BeginRound, Labels
  <2>4. todo' \subseteq 1 .. Len(graph'.routes)
    BY <1>1, <2>2
  <2> QED
    BY <1>2, <1>3, <1>5, <2>3, <2>4 DEF EngineTypeOK, BeginRound, Searching
<1>6. CASE ScanRoute
  <2>1. todo' \subseteq 1 .. Len(graph'.routes)
    BY <1>1, <1>6 DEF EngineTypeOK, ScanRoute
  <2> QED
    BY <1>2, <1>3, <1>6, <2>1 DEF EngineTypeOK, ScanRoute, Searching
<1>7. CASE RoutesDone
  BY <1>2, <1>3, <1>7 DEF EngineTypeOK, RoutesDone, Searching
<1>8. CASE WalkOn
  BY <1>2, <1>3, <1>8 DEF EngineTypeOK, WalkOn, Searching
<1>9. CASE EndRound
  <2>1. k' = k + 1 /\ k \in 0 .. 3 /\ k' \in 0 .. MAX_ROUNDS
    BY <1>9 DEF EngineTypeOK, EndRound, MAX_ROUNDS
  <2>2. pc' \in {"trace", "round"} /\ (pc' = "round" => k' # MAX_ROUNDS)
    BY <1>9 DEF EndRound
  <2>3. pc' = "round" => k' < MAX_ROUNDS
    BY <2>1, <2>2 DEF MAX_ROUNDS
  <2> QED
    BY <1>2, <1>3, <1>9, <2>1, <2>2, <2>3 DEF EngineTypeOK, EndRound, Searching
<1>10. CASE ReturnPlan
  BY <1>2, <1>3, <1>10 DEF EngineTypeOK, ReturnPlan, Searching
<1> QED
  BY <1>4, <1>5, <1>6, <1>7, <1>8, <1>9, <1>10 DEF EngineStep

(* A stop that came down has been given a sound leg.                       *)
LEMMA LegsStaySound ==
  ASSUME EngineTypeOK, LabelsAreSound, EngineStep, NEW s \in Stops
  PROVE  /\ labels'.leg[s] # NoLeg => LegIsSound(s)'
         /\ labels'.leg[s] = NoLeg => Kept(labels, labels', s)
         /\ CameDown(labels, labels', Offered, s) => labels'.leg[s] # NoLeg
<1>1. LabelsFall /\ UNCHANGED <<graph, source_stop, target_stop, departure_time>>
  BY StepFalls, EngineStepKeeps
<1>2. Kept(labels, labels', s) \/ CameDown(labels, labels', Offered, s)
  BY <1>1 DEF LabelsFall
<1>3. \A y \in Stops : /\ labels.earliest_arrival[y] \in Nat /\ labels'.earliest_arrival[y] \in Nat
                       /\ labels'.earliest_arrival[y] <= labels.earliest_arrival[y]
  <2> TAKE y \in Stops
  <2>1. Kept(labels, labels', y) \/ CameDown(labels, labels', Offered, y)
    BY <1>1 DEF LabelsFall
  <2>2. labels.earliest_arrival[y] \in Nat /\ labels'.earliest_arrival[y] \in Nat
    BY <1>1, LabelFields DEF LabelsFall, EngineTypeOK
  <2> QED
    BY <2>1, <2>2 DEF Kept, CameDown
<1>4. ASSUME NEW leg \in Offered
      PROVE  leg \in Offered' /\ departure_time < INF /\ leg # NoLeg
  <2>1. /\ leg \in Legs /\ (IsRideLeg(leg) \/ IsFootLeg(leg)) /\ leg.board_stop \in Stops
        /\ Reached(leg.board_stop) /\ labels.earliest_arrival[leg.board_stop] <= leg.board_time
        /\ leg.board_time \in Nat
    BY DEF Offered, Legs
  <2> DEFINE b == leg.board_stop
             old == labels.earliest_arrival[b]
             new == labels'.earliest_arrival[b]
             dep == leg.board_time
  <2>2. old \in Nat /\ new \in Nat /\ new <= old /\ old < INF /\ old <= dep /\ dep \in Nat
    BY <1>3, <2>1 DEF Reached
  <2>3. new < INF /\ new <= dep
    <3> HIDE DEF old, new, dep
    <3> QED
      BY <2>2
  <2>4. (IsRideLeg(leg) \/ IsFootLeg(leg))'
    BY <1>1, <2>1 DEF IsRideLeg, IsFootLeg, RideLeg
  <2>5. leg \in Offered'
    BY <2>1, <2>3, <2>4 DEF Offered, Reached
  <2>6. departure_time < INF
    <3>1. CASE labels.leg[b] = NoLeg
      BY <2>1, <2>2, <3>1 DEF LabelsAreSound
    <3>2. CASE labels.leg[b] # NoLeg
      BY <2>1, <3>2 DEF LabelsAreSound, LegIsSound
    <3> QED
      BY <3>1, <3>2
  <2>7. leg # NoLeg
    BY <2>1, LegIsNotNoLeg
  <2> QED
    BY <2>5, <2>6, <2>7
<1>5. CASE CameDown(labels, labels', Offered, s)
  <2>1. /\ labels'.earliest_arrival[s] < labels.earliest_arrival[s]
        /\ labels'.leg[s] \in Offered
        /\ labels'.leg[s].alight_stop = s /\ labels'.leg[s].alight_time = labels'.earliest_arrival[s]
    BY <1>5 DEF CameDown
  <2>2. labels'.leg[s] \in Offered' /\ departure_time < INF /\ labels'.leg[s] # NoLeg
    BY <1>4, <2>1
  <2>3. labels.earliest_arrival[s] <= INF
    <3>1. CASE labels.leg[s] = NoLeg
      BY <1>3, <2>2, <3>1 DEF LabelsAreSound, EngineTypeOK
    <3>2. CASE labels.leg[s] # NoLeg
      BY <1>3, <3>2 DEF LabelsAreSound, LegIsSound, Reached
    <3> QED
      BY <3>1, <3>2
  <2>4. labels'.earliest_arrival[s] < INF
    BY <1>3, <2>1, <2>3
  <2> QED
    BY <1>1, <2>1, <2>2, <2>4 DEF LegIsSound, Reached
<1>6. CASE Kept(labels, labels', s) /\ labels.leg[s] # NoLeg
  <2>1. /\ Reached(s) /\ labels.leg[s] \in Offered
        /\ labels.leg[s].alight_stop = s /\ labels.leg[s].alight_time = labels.earliest_arrival[s]
    BY <1>6 DEF LabelsAreSound, LegIsSound
  <2>2. labels.leg[s] \in Offered' /\ departure_time < INF
    BY <1>4, <2>1
  <2>3. LegIsSound(s)'
    BY <1>1, <1>6, <2>1, <2>2 DEF LegIsSound, Kept, Reached
  <2>4. ~CameDown(labels, labels', Offered, s)
    BY <1>3, <1>6 DEF CameDown, Kept
  <2> QED
    BY <1>6, <2>3, <2>4 DEF Kept
<1>7. CASE Kept(labels, labels', s) /\ labels.leg[s] = NoLeg
  <2>1. ~CameDown(labels, labels', Offered, s)
    BY <1>3, <1>7 DEF CameDown, Kept
  <2> QED
    BY <1>7, <2>1 DEF Kept
<1> QED
  BY <1>2, <1>5, <1>6, <1>7

LEMMA StepSound ==
  ASSUME EngineTypeOK, LabelsAreSound, EngineStep
  PROVE  LabelsAreSound'
<1>1. LabelsFall /\ UNCHANGED <<graph, source_stop, target_stop, departure_time>> /\ labels \in Labels
  BY StepFalls, EngineStepKeeps DEF EngineTypeOK
<1>2. \A s \in Stops :
        IF labels'.leg[s] = NoLeg
          THEN \/ labels'.earliest_arrival[s] = INF
               \/ s = source_stop' /\ labels'.earliest_arrival[s] = departure_time'
          ELSE LegIsSound(s)'
  <2> TAKE s \in Stops
  <2>1. CASE labels'.leg[s] # NoLeg
    BY <2>1, LegsStaySound
  <2>2. CASE labels'.leg[s] = NoLeg
    <3>1. Kept(labels, labels', s)
      BY <2>2, LegsStaySound
    <3> QED
      BY <1>1, <2>2, <3>1 DEF LabelsAreSound, Kept
  <2> QED
    BY <2>1, <2>2
<1>3. \A s \in Stops : labels.leg[s] # NoLeg => labels'.leg[s] # NoLeg
  <2> TAKE s \in Stops
  <2>1. Kept(labels, labels', s) \/ CameDown(labels, labels', Offered, s)
    BY <1>1 DEF LabelsFall
  <2> QED
    BY <2>1, LegsStaySound DEF Kept
<1>4. labels.next_marked \subseteq Stops
  BY <1>1 DEF Labels
<1>5. ASSUME NEW legs, LoweredBy(labels, labels', legs), legs \subseteq Offered
      PROVE  \A s \in labels'.next_marked : labels'.leg[s] # NoLeg
  <2> TAKE s \in labels'.next_marked
  <2>1. CASE s \in labels.next_marked
    BY <1>3, <1>4, <2>1 DEF LabelsAreSound
  <2>2. CASE s \in Stops /\ labels'.earliest_arrival[s] # labels.earliest_arrival[s]
    <3>1. ~Kept(labels, labels', s)
      BY <2>2 DEF Kept
    <3>2. CameDown(labels, labels', Offered, s)
      BY <1>1, <2>2, <3>1 DEF LabelsFall
    <3> QED
      BY <2>2, <3>2, LegsStaySound
  <2> QED
    BY <1>5, <2>1, <2>2 DEF LoweredBy
<1>6. \A s \in Stops : /\ labels.earliest_arrival[s] \in Nat /\ labels'.earliest_arrival[s] \in Nat
                       /\ labels'.earliest_arrival[s] <= labels.earliest_arrival[s]
  <2> TAKE s \in Stops
  <2>1. labels.earliest_arrival[s] \in Nat /\ labels'.earliest_arrival[s] \in Nat
    BY <1>1, LabelFields DEF LabelsFall
  <2> QED
    BY <1>1, <2>1 DEF LabelsFall, Kept, CameDown
<1>7. CASE FirstWalks
  <2>1. \A s \in labels'.next_marked : labels'.leg[s] # NoLeg
    BY <1>5, <1>7, FirstWalksLower
  <2>2. pc' = "round"
    BY <1>7 DEF FirstWalks
  <2> QED
    BY <1>2, <2>1, <2>2 DEF LabelsAreSound
<1>8. CASE BeginRound
  <2>1. labels'.next_marked = {} /\ labels'.earliest_arrival = labels.earliest_arrival /\ pc' = "routes"
        /\ prev_arrival' = labels.earliest_arrival
    BY <1>1, <1>8, LabelRecord DEF BeginRound, FieldsOf
  <2>2. \A s \in Stops : labels'.earliest_arrival[s] <= prev_arrival'[s]
    BY <1>6, <2>1
  <2> QED
    BY <1>2, <2>1, <2>2 DEF LabelsAreSound
<1>9. CASE ScanRoute
  <2>1. \E r \in todo : LoweredBy(labels, labels', RideLegs(r)) /\ RideLegs(r) \subseteq Offered
    BY <1>9, ScanLowers
  <2>2. \A s \in labels'.next_marked : labels'.leg[s] # NoLeg
    BY <1>5, <2>1
  <2>3. pc = "routes" /\ pc' = "routes" /\ prev_arrival' = prev_arrival /\ prev_arrival \in [Stops -> Nat]
    BY <1>9 DEF ScanRoute, EngineTypeOK
  <2>4. \A s \in Stops : labels'.earliest_arrival[s] <= prev_arrival'[s]
    <3> TAKE s \in Stops
    <3>1. labels.earliest_arrival[s] <= prev_arrival[s] /\ prev_arrival[s] \in Nat
      BY <2>3 DEF LabelsAreSound
    <3> QED
      BY <1>6, <2>3, <3>1
  <2> QED
    BY <1>2, <2>2, <2>3, <2>4 DEF LabelsAreSound
<1>10. CASE RoutesDone
  <2>1. labels' = labels /\ pc' = "walks" /\ todo' \subseteq labels.next_marked
    BY <1>10 DEF RoutesDone
  <2>2. \A s \in labels.next_marked : labels.leg[s] # NoLeg
    BY DEF LabelsAreSound
  <2> QED
    BY <1>2, <2>1, <2>2 DEF LabelsAreSound
<1>11. CASE WalkOn
  <2>1. PICK u \in todo : /\ LoweredBy(labels, labels', FootLegs(labels, u)) /\ FootLegs(labels, u) \subseteq Offered
                          /\ todo' = todo \ {u}
    BY <1>11, WalkOnLowers
  <2>2. \A s \in labels'.next_marked : labels'.leg[s] # NoLeg
    BY <1>5, <2>1
  <2>3. pc = "walks" /\ pc' = "walks"
    BY <1>11 DEF WalkOn
  <2>4. \A s \in todo' : labels'.leg[s] # NoLeg
    <3>1. \A s \in todo : s \in Stops /\ labels.leg[s] # NoLeg
      BY <2>3 DEF LabelsAreSound, EngineTypeOK
    <3> QED
      BY <1>3, <2>1, <3>1
  <2> QED
    BY <1>2, <2>2, <2>3, <2>4 DEF LabelsAreSound
<1>12. CASE EndRound
  BY <1>2, <1>12 DEF LabelsAreSound, EndRound
<1>13. CASE ReturnPlan
  BY <1>2, <1>13 DEF LabelsAreSound, ReturnPlan
<1> QED
  BY <1>7, <1>8, <1>9, <1>10, <1>11, <1>12, <1>13 DEF EngineStep

-----------------------------------------------------------------------------
(***************************************************************************)
(* Where time runs forward, the legs lead back to the source.              *)
(***************************************************************************)
LEMMA LegRunsForward ==
  ASSUME GraphOK, RunsForward(graph), NEW leg \in Legs, IsRideLeg(leg) \/ IsFootLeg(leg)
  PROVE  leg.board_time <= leg.alight_time
<1>1. CASE IsRideLeg(leg)
  <2>1. PICK x \in Rides(graph) : leg = RideLeg(x)
    BY <1>1 DEF IsRideLeg
  <2>2. /\ x.r \in 1 .. Len(graph.routes) /\ x.t \in DOMAIN graph.routes[x.r].trips
        /\ x.i \in DOMAIN graph.routes[x.r].stops /\ x.j \in DOMAIN graph.routes[x.r].stops
        /\ x.i < x.j
    BY GraphIsATimetable, RideFields
  <2>3. TripRunsForward(graph.routes[x.r], x.t)
    BY <2>2 DEF RunsForward
  <2>4. graph.routes[x.r].trips[x.t][x.i].dep_sec <= graph.routes[x.r].trips[x.t][x.j].arr_sec
    BY <2>2, <2>3 DEF TripRunsForward
  <2> QED
    BY <2>1, <2>4 DEF RideLeg, DepartureOf, ArrivalOf
<1>2. CASE IsFootLeg(leg)
  <2>1. leg.board_stop \in Stops /\ leg.board_time \in Nat
    BY DEF Legs
  <2>2. graph.walk[leg.board_stop][leg.alight_stop] \in Nat
    BY <1>2, <2>1, WalkFields DEF IsFootLeg
  <2> QED
    BY <1>2, <2>1, <2>2 DEF IsFootLeg
<1> QED
  BY <1>1, <1>2

(* A ride is not a walk.                                                   *)
LEMMA RideLegRoute ==
  ASSUME GraphOK, NEW x \in Rides(graph)
  PROVE  RideLeg(x).route_id # FOOTPATH_ROUTE_ID
<1>1. x.r \in 1 .. Len(graph.routes) /\ Len(graph.routes) \in 0 .. FOOTPATH_ROUTE_ID - 1
  BY GraphIsATimetable, RideFields, RouteFields
<1>2. RideLeg(x).route_id = x.r
  BY DEF RideLeg
<1> QED
  BY <1>1, <1>2

LEMMA NewLabelIsLater ==
  ASSUME EngineTypeOK, LabelsAreSound, RunsForward(graph), LegsLeadToTheSource, EngineStep,
         NEW s \in Stops, CameDown(labels, labels', Offered, s)
  PROVE  departure_time <= labels'.earliest_arrival[s]
<1> DEFINE leg == labels'.leg[s]
<1>1. leg \in Offered /\ leg.alight_time = labels'.earliest_arrival[s]
  BY DEF CameDown
<1> HIDE DEF leg
<1>2. /\ leg \in Legs /\ leg.board_stop \in Stops /\ leg.board_time \in Nat /\ leg.alight_time \in Nat
      /\ labels.earliest_arrival[leg.board_stop] < INF
      /\ labels.earliest_arrival[leg.board_stop] <= leg.board_time
      /\ IsRideLeg(leg) \/ IsFootLeg(leg)
  BY <1>1 DEF Offered, Legs, Reached
<1>3. leg.board_time <= leg.alight_time
  BY <1>2, LegRunsForward DEF EngineTypeOK
<1> DEFINE old == labels.earliest_arrival[leg.board_stop]
<1>4. old \in Nat /\ departure_time \in Nat /\ (departure_time <= old \/ old = INF)
  BY <1>2, LabelFields DEF LegsLeadToTheSource, EngineTypeOK
<1>5. old < INF /\ old <= leg.board_time
  BY <1>2
<1> HIDE DEF old
<1> QED
  BY <1>1, <1>2, <1>3, <1>4, <1>5

LEMMA NoCircleCloses ==
  ASSUME EngineTypeOK, LabelsAreSound, RunsForward(graph), LegsLeadToTheSource, EngineStep,
         NEW C \in SUBSET Stops, Circular(C)'
  PROVE  C = {}
<1> DEFINE old(s) == labels.earliest_arrival[s]
           new(s) == labels'.earliest_arrival[s]
<1> SUFFICES ASSUME C # {} PROVE FALSE
  OBVIOUS
<1>1. LabelsFall /\ labels \in Labels /\ labels' \in Labels
  BY StepFalls DEF EngineTypeOK, LabelsFall
<1>2. \A s \in Stops : /\ old(s) \in Nat /\ new(s) \in Nat /\ new(s) <= old(s)
                       /\ Kept(labels, labels', s) \/ CameDown(labels, labels', Offered, s)
                       /\ CameDown(labels, labels', Offered, s) => new(s) < old(s)
  <2> TAKE s \in Stops
  <2>1. old(s) \in Nat /\ new(s) \in Nat
    BY <1>1, LabelFields
  <2>2. Kept(labels, labels', s) \/ CameDown(labels, labels', Offered, s)
    BY <1>1 DEF LabelsFall
  <2> QED
    BY <2>1, <2>2 DEF Kept, CameDown
<1>3. ASSUME NEW s \in C
      PROVE  /\ labels'.leg[s] # NoLeg /\ labels'.leg[s].board_stop \in C
             /\ old(labels'.leg[s].board_stop) <= new(s)
  <2>1. s \in Stops /\ labels'.leg[s] # NoLeg /\ labels'.leg[s].board_stop \in C
    BY DEF Circular
  <2> DEFINE leg == labels'.leg[s]
  <2>2. leg \in Offered /\ leg.alight_time = new(s)
    <3>1. CASE Kept(labels, labels', s)
      <4>1. labels.leg[s] # NoLeg /\ LegIsSound(s)
        BY <2>1, <3>1 DEF Kept, LabelsAreSound
      <4> QED
        BY <3>1, <4>1 DEF Kept, LegIsSound
    <3>2. CASE CameDown(labels, labels', Offered, s)
      BY <3>2 DEF CameDown
    <3> QED
      BY <1>2, <2>1, <3>1, <3>2
  <2> HIDE DEF leg
  <2>3. /\ leg \in Legs /\ leg.board_time \in Nat /\ leg.board_stop \in Stops
        /\ old(leg.board_stop) <= leg.board_time
        /\ IsRideLeg(leg) \/ IsFootLeg(leg)
    BY <2>2 DEF Offered, Legs
  <2>4. leg.board_time <= leg.alight_time
    BY <2>3, LegRunsForward DEF EngineTypeOK
  <2>5. old(leg.board_stop) \in Nat /\ new(s) \in Nat
    BY <1>2, <2>1, <2>3
  <2> HIDE DEF old, new
  <2>6. old(leg.board_stop) <= new(s)
    BY <2>2, <2>3, <2>4, <2>5
  <2> QED
    BY <2>1, <2>6 DEF leg
<1>4. PICK m \in {new(s) : s \in C} : \A n \in {new(s) : s \in C} : m <= n
  <2>1. {new(s) : s \in C} \in SUBSET Nat
    BY <1>2
  <2>2. {new(s) : s \in C} # {}
    OBVIOUS
  <2> QED
    BY <2>1, <2>2, NatMin
<1>5. m \in Nat /\ \A s \in C : m <= new(s)
  BY <1>2, <1>4
<1> DEFINE D == {s \in C : new(s) = m /\ old(s) = m}
<1>6. ASSUME NEW s \in C, new(s) = m
      PROVE  labels'.leg[s].board_stop \in D
  <2> DEFINE b == labels'.leg[s].board_stop
  <2>1. b \in C /\ b \in Stops /\ old(b) <= m
    BY <1>3, <1>6
  <2> HIDE DEF b
  <2>2. m <= new(b) /\ new(b) <= old(b) /\ new(b) \in Nat /\ old(b) \in Nat
    BY <1>2, <1>5, <2>1
  <2>3. new(b) = m /\ old(b) = m
    <3> HIDE DEF old, new
    <3> QED
      BY <1>5, <2>1, <2>2
  <2> QED
    BY <2>1, <2>3 DEF b
<1>7. D # {} /\ D \in SUBSET Stops
  <2>1. PICK s \in C : new(s) = m
    BY <1>4
  <2> QED
    BY <1>6, <2>1
<1>8. ASSUME NEW s \in D
      PROVE  labels.leg[s] # NoLeg /\ labels.leg[s].board_stop \in D
  <2>1. s \in C /\ s \in Stops /\ new(s) = m /\ old(s) = m
    OBVIOUS
  <2>2. ~CameDown(labels, labels', Offered, s)
    BY <1>2, <1>5, <2>1
  <2>3. labels'.leg[s] = labels.leg[s]
    BY <1>2, <2>1, <2>2 DEF Kept
  <2> QED
    BY <1>3, <1>6, <2>1, <2>3
<1> HIDE DEF D
<1> QED
  BY <1>7, <1>8 DEF LegsLeadToTheSource, Circular

LEMMA StepLeadsToTheSource ==
  ASSUME EngineTypeOK, LabelsAreSound, RunsForward(graph), LegsLeadToTheSource, EngineStep
  PROVE  LegsLeadToTheSource'
<1>1. LabelsFall /\ UNCHANGED <<graph, source_stop, target_stop, departure_time>> /\ source_stop \in Stops
  BY StepFalls, EngineStepKeeps DEF EngineTypeOK
<1>2. /\ labels.leg[source_stop] = NoLeg /\ labels.earliest_arrival[source_stop] = departure_time
      /\ departure_time \in Nat
  BY DEF LegsLeadToTheSource, EngineTypeOK
<1>3. Kept(labels, labels', source_stop)
  <2>1. ASSUME CameDown(labels, labels', Offered, source_stop) PROVE FALSE
    <3>1. departure_time <= labels'.earliest_arrival[source_stop]
      BY <1>1, <2>1, NewLabelIsLater
    <3>2. labels'.earliest_arrival[source_stop] < departure_time /\ labels'.earliest_arrival[source_stop] \in Nat
      BY <1>1, <1>2, <2>1, LabelFields DEF CameDown, LabelsFall
    <3> QED
      BY <1>2, <3>1, <3>2
  <2> QED
    BY <1>1, <2>1 DEF LabelsFall
<1>4. ASSUME NEW s \in Stops
      PROVE  \/ departure_time' <= labels'.earliest_arrival[s]
             \/ labels'.earliest_arrival[s] = INF
  <2>1. CASE Kept(labels, labels', s)
    BY <1>1, <2>1 DEF Kept, LegsLeadToTheSource
  <2>2. CASE CameDown(labels, labels', Offered, s)
    BY <1>1, <2>2, NewLabelIsLater
  <2> QED
    BY <1>1, <2>1, <2>2 DEF LabelsFall
<1>5. ASSUME NEW C \in SUBSET Stops, Circular(C)' PROVE C = {}
  BY <1>5, NoCircleCloses
<1> QED
  BY <1>1, <1>2, <1>3, <1>4, <1>5 DEF LegsLeadToTheSource, Kept

(* New legs that are no walks from the source let nobody seem to have      *)
(* walked from there.                                                      *)
LEMMA StillByBus ==
  ASSUME NEW legs, LoweredBy(labels, labels', legs), source_stop' = source_stop,
         \A leg \in legs : leg.route_id # FOOTPATH_ROUTE_ID \/ leg.board_stop # source_stop,
         NEW s \in Stops, ~CameByFootFromSource(s)
  PROVE  ~CameByFootFromSource(s)'
<1>1. Kept(labels, labels', s) \/ CameDown(labels, labels', legs, s)
  BY DEF LoweredBy
<1>2. CASE Kept(labels, labels', s)
  BY <1>2 DEF Kept, CameByFootFromSource
<1>3. CASE CameDown(labels, labels', legs, s)
  BY <1>3 DEF CameDown, CameByFootFromSource
<1> QED
  BY <1>1, <1>2, <1>3

WalksOn(s) ==
  /\ labels.leg[s] # NoLeg /\ labels.leg[s].route_id = FOOTPATH_ROUTE_ID
  /\ labels.leg[s].board_stop # source_stop

LEMMA WalkersStillCameByBus ==
  ASSUME EngineTypeOK, NEW legs \in SUBSET Legs, LoweredBy(labels, labels', legs), source_stop' = source_stop,
         \A leg \in legs : leg.route_id = FOOTPATH_ROUTE_ID =>
           leg.board_stop # source_stop /\ ~CameByFootFromSource(leg.board_stop),
         \A s \in Stops : WalksOn(s) => ~CameByFootFromSource(labels.leg[s].board_stop)
  PROVE  /\ \A s \in Stops : ~CameByFootFromSource(s) => ~CameByFootFromSource(s)'
         /\ \A s \in Stops : WalksOn(s)' => ~CameByFootFromSource(labels.leg[s].board_stop)'
<1>1. ASSUME NEW s \in Stops, ~CameByFootFromSource(s) PROVE ~CameByFootFromSource(s)'
  BY <1>1, StillByBus
<1>2. ASSUME NEW s \in Stops, WalksOn(s)', NEW b \in Stops, labels'.leg[s].board_stop = b
      PROVE  ~CameByFootFromSource(b)'
  <2>1. Kept(labels, labels', s) \/ CameDown(labels, labels', legs, s)
    BY DEF LoweredBy
  <2>2. CASE Kept(labels, labels', s)
    <3>1. WalksOn(s) /\ labels.leg[s].board_stop = b
      BY <1>2, <2>2 DEF WalksOn, Kept
    <3>2. ~CameByFootFromSource(b)
      BY <3>1
    <3> QED
      BY <1>1, <3>2
  <2>3. CASE CameDown(labels, labels', legs, s)
    <3>1. labels'.leg[s] \in legs /\ labels'.leg[s].route_id = FOOTPATH_ROUTE_ID
      BY <1>2, <2>3 DEF WalksOn, CameDown
    <3>2. ~CameByFootFromSource(b)
      BY <1>2, <3>1
    <3> QED
      BY <1>1, <3>2
  <2> QED
    BY <2>1, <2>2, <2>3
<1>3. ASSUME NEW s \in Stops, WalksOn(s)' PROVE ~CameByFootFromSource(labels.leg[s].board_stop)'
  <2>1. labels'.leg[s].board_stop \in Stops
    <3>1. labels' \in Labels /\ labels'.leg[s] # NoLeg
      BY <1>3 DEF LoweredBy, WalksOn
    <3> QED
      BY <3>1, LabelFields DEF Legs
  <2>2. PICK b \in Stops : labels'.leg[s].board_stop = b
    BY <2>1
  <2>3. ~CameByFootFromSource(b)'
    BY <1>2, <1>3, <2>2
  <2> QED
    BY <2>2, <2>3 DEF CameByFootFromSource
<1> QED
  BY <1>1, <1>3

LEMMA StepWalkersCameByBus ==
  ASSUME EngineTypeOK, LabelsAreSound, RunsForward(graph), LegsLeadToTheSource, WalkersCameByBus,
         EngineStep
  PROVE  WalkersCameByBus'
<1>1. /\ UNCHANGED <<graph, source_stop, target_stop, departure_time>> /\ source_stop \in Stops
      /\ labels \in Labels /\ GraphOK /\ LabelsFall
  BY EngineStepKeeps, StepFalls DEF EngineTypeOK
<1>2. \A s \in Stops : WalksOn(s) => ~CameByFootFromSource(labels.leg[s].board_stop)
  BY DEF WalkersCameByBus, WalksOn
<1>3. SUFFICES /\ \A s \in Stops : WalksOn(s)' => ~CameByFootFromSource(labels.leg[s].board_stop)'
               /\ pc' = "walks" => \A u \in todo' : u # source_stop /\ ~CameByFootFromSource(u)'
  BY <1>1 DEF WalkersCameByBus, WalksOn
<1>4. CASE FirstWalks
  <2>1. LoweredBy(labels, labels', FootLegs(labels, source_stop)) /\ pc = "first_walks" /\ pc' = "round"
    BY <1>4, FirstWalksLower DEF FirstWalks
  <2>2. ASSUME NEW s \in Stops PROVE ~WalksOn(s)'
    <3>1. labels.leg[s] = NoLeg
      BY <2>1, AtFirst
    <3>2. CASE CameDown(labels, labels', FootLegs(labels, source_stop), s)
      <4>1. labels'.leg[s].board_stop = source_stop
        BY <1>1, <3>2, FootLegIs DEF CameDown, FootLegs
      <4> QED
        BY <1>1, <4>1 DEF WalksOn
    <3> QED
      BY <2>1, <3>1, <3>2 DEF LoweredBy, Kept, WalksOn
  <2> QED
    BY <2>1, <2>2
<1>5. CASE ScanRoute
  <2>1. PICK r \in todo : LoweredBy(labels, labels', RideLegs(r)) /\ r \in 1 .. Len(graph.routes)
    BY <1>5, ScanLowers
  <2>2. \A leg \in RideLegs(r) : leg.route_id # FOOTPATH_ROUTE_ID
    BY <1>1, RideLegRoute DEF RideLegs, RidesOn
  <2>3. RideLegs(r) \in SUBSET Legs
    BY <1>1, RideLegIsALeg DEF RideLegs, RidesOn
  <2>4. \A s \in Stops : WalksOn(s)' => ~CameByFootFromSource(labels.leg[s].board_stop)'
    BY <1>1, <1>2, <2>1, <2>2, <2>3, WalkersStillCameByBus
  <2>5. pc' = "routes"
    BY <1>5 DEF ScanRoute
  <2> QED
    BY <2>4, <2>5
<1>6. CASE WalkOn
  <2>1. PICK u \in todo : LoweredBy(labels, labels', FootLegs(labels, u)) /\ u \in Stops /\ todo' = todo \ {u}
    BY <1>6, WalkOnLowers
  <2>2. pc = "walks" /\ todo \subseteq Stops
    BY <1>6 DEF WalkOn, EngineTypeOK
  <2>3. u # source_stop /\ ~CameByFootFromSource(u)
    BY <2>1, <2>2 DEF WalkersCameByBus
  <2>4. \A leg \in FootLegs(labels, u) : leg \in Legs /\ leg.board_stop = u
    BY <1>1, <2>1, FootLegIs DEF FootLegs
  <2>5. /\ \A s \in Stops : ~CameByFootFromSource(s) => ~CameByFootFromSource(s)'
        /\ \A s \in Stops : WalksOn(s)' => ~CameByFootFromSource(labels.leg[s].board_stop)'
    <3>1. FootLegs(labels, u) \in SUBSET Legs
      BY <2>4
    <3>2. \A leg \in FootLegs(labels, u) : leg.route_id = FOOTPATH_ROUTE_ID =>
            leg.board_stop # source_stop /\ ~CameByFootFromSource(leg.board_stop)
      BY <2>3, <2>4
    <3> QED
      BY <1>1, <1>2, <2>1, <3>1, <3>2, WalkersStillCameByBus
  <2>6. \A x \in todo' : x # source_stop /\ ~CameByFootFromSource(x)'
    <3> TAKE x \in todo'
    <3>1. x \in todo /\ x \in Stops
      BY <2>1, <2>2
    <3>2. x # source_stop /\ ~CameByFootFromSource(x)
      BY <2>2, <3>1 DEF WalkersCameByBus
    <3> QED
      BY <2>5, <3>1, <3>2
  <2> QED
    BY <2>5, <2>6
<1>7. CASE BeginRound \/ RoutesDone \/ EndRound \/ ReturnPlan
  <2>1. labels'.leg = labels.leg
    BY <1>1, <1>7, LabelRecord DEF BeginRound, RoutesDone, EndRound, ReturnPlan, FieldsOf
  <2>2. \A s \in Stops : WalksOn(s)' => ~CameByFootFromSource(labels.leg[s].board_stop)'
    BY <1>1, <1>2, <2>1 DEF WalksOn, CameByFootFromSource
  <2>3. CASE RoutesDone
    <3>1. /\ labels' = labels
          /\ todo' = {s \in labels.next_marked : labels.leg[s].route_id # FOOTPATH_ROUTE_ID}
      BY <2>3 DEF RoutesDone
    <3>2. \A u \in todo' : u # source_stop /\ ~CameByFootFromSource(u)'
      <4> TAKE u \in todo'
      <4>1. labels.leg[u] # NoLeg /\ labels.leg[u].route_id # FOOTPATH_ROUTE_ID
        BY <3>1 DEF LabelsAreSound
      <4> QED
        BY <3>1, <4>1 DEF LegsLeadToTheSource, CameByFootFromSource
    <3> QED
      BY <2>2, <3>2
  <2>4. CASE BeginRound \/ EndRound \/ ReturnPlan
    <3>1. pc' # "walks"
      BY <2>4 DEF BeginRound, EndRound, ReturnPlan
    <3> QED
      BY <2>2, <3>1
  <2> QED
    BY <1>7, <2>3, <2>4
<1> QED
  BY <1>4, <1>5, <1>6, <1>7 DEF EngineStep

LEMMA StepForward ==
  ASSUME EngineTypeOK, LabelsAreSound, ForwardSearch, EngineStep
  PROVE  ForwardSearch'
<1>1. graph' = graph /\ Searching
  BY EngineStepKeeps
<1> SUFFICES ASSUME RunsForward(graph) PROVE LegsLeadToTheSource' /\ WalkersCameByBus'
  BY <1>1 DEF ForwardSearch
<1>2. LegsLeadToTheSource /\ WalkersCameByBus
  BY <1>1 DEF ForwardSearch
<1> QED
  BY <1>2, StepLeadsToTheSource, StepWalkersCameByBus

-----------------------------------------------------------------------------
(***************************************************************************)
(* The legs, followed back from the target.                                *)
(***************************************************************************)
BackStates == [curr : Stops, visited : SUBSET Stops, path : Seq(Legs)]

PathIsSound(back) ==
  /\ back \in BackStates
  /\ Reached(back.curr)
  /\ \A n \in 1 .. Len(back.path) :
       /\ back.path[n].alight_stop \in back.visited
       /\ labels.leg[back.path[n].alight_stop] = back.path[n]
  /\ \A n \in 1 .. Len(back.path) - 1 : back.path[n].alight_stop = back.path[n + 1].board_stop
  /\ Len(back.path) = 0 => back.curr = target_stop
  /\ Len(back.path) > 0 => /\ back.path[1].board_stop = back.curr
                           /\ back.path[Len(back.path)].alight_stop = target_stop

(* Where the legs lead to the source, every turn is at another stop until  *)
(* it is reached.                                                          *)
PathGoesOn(n, back) ==
  /\ source_stop \notin back.visited
  /\ \A s \in back.visited : labels.leg[s] # NoLeg /\ labels.leg[s].board_stop \in back.visited \cup {back.curr}
  /\ back.curr = source_stop \/ Cardinality(back.visited) = n

TracingOK == EngineTypeOK /\ LabelsAreSound /\ pc = "trace"

LEMMA SoundLegOf ==
  ASSUME TracingOK, NEW s \in Stops, labels.leg[s] # NoLeg
  PROVE  /\ labels.leg[s] \in Legs /\ labels.leg[s] \in Offered
         /\ labels.leg[s].alight_stop = s /\ labels.leg[s].alight_time = labels.earliest_arrival[s]
         /\ labels.leg[s].board_stop \in Stops /\ Reached(labels.leg[s].board_stop)
         /\ labels.earliest_arrival[labels.leg[s].board_stop] <= labels.leg[s].board_time
<1>1. LegIsSound(s)
  BY DEF TracingOK, LabelsAreSound
<1> QED
  BY <1>1 DEF LegIsSound, Offered, Legs

LEMMA WalkedBackIsSound ==
  ASSUME TracingOK, NEW back, PathIsSound(back)
  PROVE  PathIsSound(WalkedBack(back))
<1> DEFINE curr == back.curr
           leg == labels.leg[curr]
           new == WalkedBack(back)
<1>1. curr \in Stops /\ back.visited \in SUBSET Stops /\ back.path \in Seq(Legs) /\ Reached(curr)
  BY DEF PathIsSound, BackStates
<1>2. CASE curr = source_stop \/ leg = NoLeg \/ curr \in back.visited
  <2>1. new = back
    BY <1>2 DEF WalkedBack
  <2> HIDE DEF new
  <2> QED
    BY <2>1 DEF new
<1>3. CASE ~(curr = source_stop \/ leg = NoLeg \/ curr \in back.visited)
  <2>1. new = [curr |-> leg.board_stop, visited |-> back.visited \cup {curr}, path |-> <<leg>> \o back.path]
    BY <1>3 DEF WalkedBack
  <2>2. /\ leg \in Legs /\ leg.alight_stop = curr /\ leg.board_stop \in Stops /\ Reached(leg.board_stop)
    BY <1>1, <1>3, SoundLegOf
  <2> DEFINE path == <<leg>> \o back.path
  <2>3. leg = labels.leg[curr]
    OBVIOUS
  <2> HIDE DEF leg, new, curr
  <2>4. PICK len \in Nat : len = Len(back.path)
    BY <1>1
  <2>5. /\ path \in Seq(Legs) /\ Len(path) = len + 1 /\ path[1] = leg
        /\ \A n \in 2 .. len + 1 : path[n] = back.path[n - 1]
    BY <1>1, <2>2, <2>4
  <2>6. new.curr = leg.board_stop /\ new.visited = back.visited \cup {curr} /\ new.path = path
    BY <2>1
  <2> HIDE DEF path
  <2>7. new \in BackStates
    <3>1. back.visited \cup {curr} \in SUBSET Stops
      BY <1>1
    <3>2. new = [curr |-> leg.board_stop, visited |-> back.visited \cup {curr}, path |-> path]
      BY <2>1 DEF path
    <3> QED
      BY <2>2, <2>5, <3>1, <3>2 DEF BackStates
  <2>8. ASSUME NEW n \in 1 .. len + 1
        PROVE  path[n].alight_stop \in new.visited /\ labels.leg[path[n].alight_stop] = path[n]
    <3>1. CASE n = 1
      BY <2>2, <2>3, <2>5, <2>6, <3>1
    <3>2. CASE n # 1
      <4>1. n - 1 \in 1 .. len /\ n \in 2 .. len + 1
        BY <2>4, <3>2
      <4>2. PICK m \in 1 .. len : m = n - 1
        BY <4>1
      <4>3. path[n] = back.path[m]
        BY <2>5, <4>1, <4>2
      <4>4. back.path[m].alight_stop \in back.visited /\ labels.leg[back.path[m].alight_stop] = back.path[m]
        BY <2>4 DEF PathIsSound
      <4> QED
        BY <2>6, <4>3, <4>4
    <3> QED
      BY <3>1, <3>2
  <2>9. ASSUME NEW n \in 1 .. len
        PROVE  path[n].alight_stop = path[n + 1].board_stop
    <3>1. n + 1 \in 2 .. len + 1 /\ (n + 1) - 1 = n
      BY <2>4
    <3>2. path[n + 1] = back.path[n]
      BY <2>5, <3>1
    <3>3. CASE n = 1
      <4>1. len > 0
        BY <2>4
      <4>2. back.path[1].board_stop = curr
        BY <2>4, <4>1 DEF PathIsSound, curr
      <4> QED
        BY <2>2, <2>5, <3>2, <3>3, <4>2
    <3>4. CASE n # 1
      <4>1. PICK m \in 1 .. len - 1 : m + 1 = n /\ m = n - 1
        BY <2>4, <3>4
      <4>2. back.path[m].alight_stop = back.path[m + 1].board_stop
        BY <2>4 DEF PathIsSound
      <4>3. n \in 2 .. len + 1
        BY <2>4, <3>4
      <4>4. path[n] = back.path[m]
        BY <2>5, <4>1, <4>3
      <4> QED
        BY <3>2, <4>1, <4>2, <4>4
    <3> QED
      BY <3>3, <3>4
  <2>10. path[len + 1].alight_stop = target_stop
    <3>1. CASE len = 0
      BY <2>2, <2>4, <2>5, <3>1 DEF PathIsSound, curr
    <3>2. CASE len > 0
      <4>1. back.path[len].alight_stop = target_stop
        BY <2>4, <3>2 DEF PathIsSound
      <4>2. len + 1 \in 2 .. len + 1 /\ (len + 1) - 1 = len
        BY <2>4, <3>2
      <4>3. path[len + 1] = back.path[len]
        BY <2>5, <4>2
      <4> QED
        BY <4>1, <4>3
    <3> QED
      BY <2>4, <3>1, <3>2
  <2>11. (len + 1) - 1 = len /\ len + 1 > 0 /\ len + 1 # 0
    BY <2>4
  <2>12. PathIsSound(new)
    BY <2>2, <2>5, <2>6, <2>7, <2>8, <2>9, <2>10, <2>11 DEF PathIsSound
  <2> QED
    BY <2>12 DEF new
<1> QED
  BY <1>2, <1>3

LEMMA WalkedBackGoesOn ==
  ASSUME TracingOK, LegsLeadToTheSource, NEW back, PathIsSound(back),
         NEW n \in Nat, PathGoesOn(n, back)
  PROVE  PathGoesOn(n + 1, WalkedBack(back))
<1> DEFINE curr == back.curr
           leg == labels.leg[curr]
           new == WalkedBack(back)
<1>1. curr \in Stops /\ back.visited \in SUBSET Stops /\ Reached(curr)
  BY DEF PathIsSound, BackStates
<1>2. CASE curr = source_stop
  <2>1. new = back
    BY <1>2 DEF WalkedBack
  <2> QED
    BY <1>2, <2>1 DEF PathGoesOn
<1>3. CASE curr # source_stop
  <2>1. leg # NoLeg
    <3>1. labels.earliest_arrival[curr] # INF
      BY <1>1, LabelFields DEF Reached, TracingOK, EngineTypeOK
    <3> QED
      BY <1>1, <1>3, <3>1 DEF TracingOK, LabelsAreSound
  <2>2. curr \notin back.visited
    <3> SUFFICES ASSUME curr \in back.visited PROVE FALSE
      OBVIOUS
    <3>1. Circular(back.visited)
      BY DEF PathGoesOn, Circular
    <3> QED
      BY <1>1, <3>1 DEF LegsLeadToTheSource
  <2>3. new = [curr |-> leg.board_stop, visited |-> back.visited \cup {curr}, path |-> <<leg>> \o back.path]
    BY <1>3, <2>1, <2>2 DEF WalkedBack
  <2>4. IsFiniteSet(back.visited)
    <3>1. IsFiniteSet(Stops)
      BY FS_Interval
    <3> QED
      BY <1>1, <3>1, FS_Subset
  <2>5. Cardinality(back.visited \cup {curr}) = n + 1
    <3>1. Cardinality(back.visited) = n
      BY <1>3 DEF PathGoesOn
    <3>2. Cardinality(back.visited \cup {curr}) = Cardinality(back.visited) + 1
      BY <2>2, <2>4, FS_AddElement
    <3> QED
      BY <3>1, <3>2
  <2>6. new.curr = leg.board_stop /\ new.visited = back.visited \cup {curr}
    BY <2>3
  <2>7. source_stop \notin back.visited \cup {curr}
    BY <1>3 DEF PathGoesOn
  <2>8. \A s \in back.visited \cup {curr} :
          labels.leg[s] # NoLeg /\ labels.leg[s].board_stop \in (back.visited \cup {curr}) \cup {leg.board_stop}
    BY <2>1 DEF PathGoesOn
  <2> HIDE DEF new
  <2>9. PathGoesOn(n + 1, new)
    BY <2>5, <2>6, <2>7, <2>8 DEF PathGoesOn
  <2> QED
    BY <2>9 DEF new
<1> QED
  BY <1>2, <1>3

LEMMA PathIs ==
  ASSUME TracingOK, labels.earliest_arrival[target_stop] # INF
  PROVE  \E back : /\ PathTo(target_stop) = back.path
                   /\ PathIsSound(back) /\ Len(back.path) > 0
                   /\ LegsLeadToTheSource => back.curr = source_stop
<1> DEFINE first == [curr |-> target_stop, visited |-> {}, path |-> <<>>]
           Holds(f) == f = [n \in 0 .. NumStops |-> IF n = 0 THEN first ELSE WalkedBack(f[n - 1])]
           S == {back \in BackStates : PathIsSound(back)}
           F == [n \in 1 .. NumStops |-> [back \in S |-> WalkedBack(back)]]
<1>1. target_stop \in Stops /\ target_stop # source_stop /\ source_stop \in Stops /\ NumStops \in Nat \ {0}
  BY DEF TracingOK, EngineTypeOK, Searching
<1>2. labels.leg[target_stop] # NoLeg /\ Reached(target_stop)
  <2>1. labels.leg[target_stop] # NoLeg
    BY <1>1 DEF TracingOK, LabelsAreSound
  <2> QED
    BY <1>1, <2>1 DEF TracingOK, LabelsAreSound, LegIsSound
<1>3. PathIsSound(first)
  <2>1. first.curr = target_stop /\ first.path = <<>> /\ Len(first.path) = 0 /\ first \in BackStates
    BY <1>1 DEF BackStates
  <2> HIDE DEF first
  <2> QED
    BY <1>2, <2>1 DEF PathIsSound
<1>4. first \in S
  BY <1>3 DEF PathIsSound
<1>5. F \in [1 .. NumStops -> [S -> S]]
  <2>1. \A back \in S : WalkedBack(back) \in S
    <3> TAKE back \in S
    <3>1. PathIsSound(WalkedBack(back))
      BY WalkedBackIsSound
    <3> QED
      BY <3>1 DEF PathIsSound
  <2> HIDE DEF S
  <2> QED
    BY <2>1
<1>6. PICK f \in [0 .. NumStops -> S] : IsRecursion(f, NumStops, first, F)
  <2> HIDE DEF S, F, first
  <2> QED
    BY <1>1, <1>4, <1>5, RecursionExists
<1>7. Holds(f)
  <2>1. \A n \in 1 .. NumStops : f[n] = WalkedBack(f[n - 1])
    <3> SUFFICES ASSUME NEW n \in 1 .. NumStops PROVE f[n] = WalkedBack(f[n - 1])
      OBVIOUS
    <3>1. f[n - 1] \in S
      <4> HIDE DEF S
      <4> QED
        BY <1>1, <1>6
    <3>2. f[n] = F[n][f[n - 1]]
      <4> HIDE DEF S, F, first
      <4> QED
        BY <1>6 DEF IsRecursion
    <3> HIDE DEF S
    <3> QED
      BY <3>1, <3>2
  <2>2. f[0] = first
    BY <1>6 DEF IsRecursion
  <2> HIDE DEF S, F, first
  <2> QED
    BY <1>1, <1>6, <2>1, <2>2
<1> DEFINE back == CHOOSE h : Holds(h)
<1>8. PathTo(target_stop) = back[NumStops].path
  BY Zenon DEF PathTo
<1>9. Holds(back)
  <2> HIDE DEF Holds
  <2> QED
    BY <1>7, Zenon
<1> HIDE DEF back, first
<1>10. back[0] = first /\ \A n \in 1 .. NumStops : back[n] = WalkedBack(back[n - 1])
  <2>1. back = [n \in 0 .. NumStops |-> IF n = 0 THEN first ELSE WalkedBack(back[n - 1])]
    BY <1>9
  <2>2. back[0] = first
    BY <1>1, <2>1
  <2>3. ASSUME NEW n \in 1 .. NumStops PROVE back[n] = WalkedBack(back[n - 1])
    <3>1. n \in 0 .. NumStops /\ n # 0
      BY <1>1
    <3> HIDE DEF Holds
    <3> QED
      BY <2>1, <3>1
  <2> QED
    BY <2>2, <2>3
<1> DEFINE Ok == {n \in 0 .. NumStops : /\ PathIsSound(back[n])
                                        /\ LegsLeadToTheSource => PathGoesOn(n, back[n])
                                        /\ n > 0 => Len(back[n].path) > 0}
<1>11. 0 \in Ok
  <2>1. PathGoesOn(0, first)
    <3>1. Cardinality({}) = 0
      BY FS_EmptySet
    <3> QED
      BY <3>1 DEF PathGoesOn, first
  <2> QED
    BY <1>1, <1>3, <1>10, <2>1
<1>12. ASSUME NEW n \in 0 .. NumStops - 1, n \in Ok PROVE n + 1 \in Ok
  <2>1. n + 1 \in 1 .. NumStops /\ (n + 1) - 1 = n /\ n \in Nat
    BY <1>1
  <2>2. back[n + 1] = WalkedBack(back[n])
    BY <1>10, <2>1
  <2> DEFINE old == back[n]
             new == back[n + 1]
  <2>3. PathIsSound(old) /\ (LegsLeadToTheSource => PathGoesOn(n, old)) /\ (n > 0 => Len(old.path) > 0)
    BY <1>12
  <2> HIDE DEF old, new
  <2>4. new = WalkedBack(old)
    BY <2>2 DEF old, new
  <2>5. PathIsSound(new)
    BY <2>3, <2>4, WalkedBackIsSound
  <2>6. LegsLeadToTheSource => PathGoesOn(n + 1, new)
    BY <2>1, <2>3, <2>4, WalkedBackGoesOn
  <2>7. old.path \in Seq(Legs)
    BY <2>3 DEF PathIsSound, BackStates
  <2>8. Len(new.path) > 0
    <3>1. CASE old.curr = source_stop \/ labels.leg[old.curr] = NoLeg \/ old.curr \in old.visited
      <4>1. new = old
        BY <2>4, <3>1 DEF WalkedBack
      <4>2. n > 0
        <5>1. n = 0 => old = first
          BY <1>10 DEF old
        <5>2. n # 0
          BY <1>1, <1>2, <3>1, <5>1 DEF first
        <5> QED
          BY <2>1, <5>2
      <4> QED
        BY <2>3, <4>1, <4>2
    <3>2. CASE ~(old.curr = source_stop \/ labels.leg[old.curr] = NoLeg \/ old.curr \in old.visited)
      <4>1. new.path = <<labels.leg[old.curr]>> \o old.path
        BY <2>4, <3>2 DEF WalkedBack
      <4> QED
        BY <2>7, <4>1
    <3> QED
      BY <3>1, <3>2
  <2> QED
    BY <2>1, <2>5, <2>6, <2>8 DEF new
<1>13. NumStops \in Ok
  <2> HIDE DEF Ok
  <2>1. \A n \in 0 .. NumStops : n \in Ok
    BY <1>1, <1>11, <1>12, CountingUp
  <2> QED
    BY <1>1, <2>1
<1> DEFINE end == back[NumStops]
<1>14. /\ PathIsSound(end) /\ Len(end.path) > 0
       /\ LegsLeadToTheSource => PathGoesOn(NumStops, end)
  BY <1>1, <1>13
<1>15. PathTo(target_stop) = end.path
  BY <1>8
<1> HIDE DEF end
<1>16. ASSUME LegsLeadToTheSource PROVE end.curr = source_stop
  <2>1. PathGoesOn(NumStops, end)
    BY <1>14, <1>16
  <2>2. end.visited \in SUBSET (Stops \ {source_stop})
    BY <1>14, <2>1 DEF PathIsSound, BackStates, PathGoesOn
  <2>3. IsFiniteSet(Stops) /\ Cardinality(Stops) = NumStops
    <3> DEFINE top == NumStops - 1
    <3>1. top \in Int /\ 0 \in Int /\ ~(0 > top) /\ top - 0 + 1 = NumStops
      BY <1>1
    <3> HIDE DEF top
    <3>2. IsFiniteSet(0 .. top) /\ Cardinality(0 .. top) = top - 0 + 1
      BY <3>1, FS_Interval
    <3> QED
      BY <3>1, <3>2 DEF top
  <2>4. IsFiniteSet(Stops \ {source_stop}) /\ Cardinality(Stops \ {source_stop}) = NumStops - 1
    <3> DEFINE All == Stops
    <3>1. IsFiniteSet(All) /\ Cardinality(All) = NumStops /\ source_stop \in All
      BY <1>1, <2>3
    <3> HIDE DEF All
    <3>2. IsFiniteSet(All \ {source_stop}) /\ Cardinality(All \ {source_stop}) = Cardinality(All) - 1
      BY <3>1, FS_RemoveElement
    <3> QED
      BY <3>1, <3>2 DEF All
  <2>5. Cardinality(end.visited) <= NumStops - 1
    BY <2>2, <2>4, FS_Subset
  <2>6. Cardinality(end.visited) # NumStops
    BY <1>1, <2>5
  <2> QED
    BY <2>1, <2>6 DEF PathGoesOn
<1> QED
  BY <1>14, <1>15, <1>16

LEMMA PathIsAJourney ==
  ASSUME TracingOK, NEW back, PathIsSound(back)
  PROVE  /\ back.path \in Seq(Legs)
         /\ \A n \in 1 .. Len(back.path) :
              /\ IsRideLeg(back.path[n]) \/ IsFootLeg(back.path[n])
              /\ back.path[n].alight_time = labels.earliest_arrival[back.path[n].alight_stop]
              /\ labels.earliest_arrival[back.path[n].board_stop] <= back.path[n].board_time
              /\ back.path[n].alight_stop \in Stops /\ back.path[n].board_stop \in Stops
              /\ labels.leg[back.path[n].alight_stop] = back.path[n]
              /\ back.path[n] # NoLeg
<1>1. back.path \in Seq(Legs) /\ back.visited \in SUBSET Stops
  BY DEF PathIsSound, BackStates
<1>2. PICK len \in Nat : len = Len(back.path)
  BY <1>1
<1>3. ASSUME NEW n \in 1 .. len
      PROVE  /\ IsRideLeg(back.path[n]) \/ IsFootLeg(back.path[n])
             /\ back.path[n].alight_time = labels.earliest_arrival[back.path[n].alight_stop]
             /\ labels.earliest_arrival[back.path[n].board_stop] <= back.path[n].board_time
             /\ back.path[n].alight_stop \in Stops /\ back.path[n].board_stop \in Stops
             /\ labels.leg[back.path[n].alight_stop] = back.path[n]
             /\ back.path[n] # NoLeg
  <2> DEFINE leg == back.path[n]
             s == leg.alight_stop
  <2>1. leg \in Legs
    BY <1>1, <1>2
  <2>2. s \in Stops /\ labels.leg[s] = leg
    BY <1>1, <1>2 DEF PathIsSound
  <2>3. leg # NoLeg
    BY <2>1, LegIsNotNoLeg
  <2> HIDE DEF leg, s
  <2>4. /\ leg \in Offered /\ leg.alight_time = labels.earliest_arrival[s] /\ leg.board_stop \in Stops
        /\ labels.earliest_arrival[leg.board_stop] <= leg.board_time
    BY <2>2, <2>3, SoundLegOf
  <2>5. IsRideLeg(leg) \/ IsFootLeg(leg)
    BY <2>4 DEF Offered
  <2> QED
    BY <2>2, <2>3, <2>4, <2>5 DEF leg, s
<1> QED
  BY <1>1, <1>2, <1>3

LEMMA PlanFound ==
  ASSUME EngineTypeOK, LabelsAreSound, ForwardSearch, ReturnPlan
  PROVE  PlanIsSound'
<1> SUFFICES ASSUME plan' # None PROVE PlanIsAJourney'
  BY DEF PlanIsSound
<1>1. /\ TracingOK /\ Searching /\ labels' = labels
      /\ UNCHANGED <<graph, source_stop, target_stop, departure_time>>
      /\ source_stop \in Stops /\ labels \in Labels
  BY DEF TracingOK, ReturnPlan, Searching, call, EngineTypeOK
<1>2. labels.earliest_arrival[target_stop] # INF /\ plan' = PathTo(target_stop)
  BY DEF ReturnPlan
<1>3. PICK back : /\ PathTo(target_stop) = back.path
                  /\ PathIsSound(back) /\ Len(back.path) > 0
                  /\ LegsLeadToTheSource => back.curr = source_stop
  BY <1>1, <1>2, PathIs
<1> DEFINE path == back.path
<1>4. /\ path \in Seq(Legs)
      /\ \A n \in 1 .. Len(path) :
           /\ IsRideLeg(path[n]) \/ IsFootLeg(path[n])
           /\ path[n].alight_time = labels.earliest_arrival[path[n].alight_stop]
           /\ labels.earliest_arrival[path[n].board_stop] <= path[n].board_time
           /\ path[n].alight_stop \in Stops /\ path[n].board_stop \in Stops
           /\ labels.leg[path[n].alight_stop] = path[n]
           /\ path[n] # NoLeg
  BY <1>1, <1>3, PathIsAJourney
<1>5. /\ \A n \in 1 .. Len(path) - 1 : path[n].alight_stop = path[n + 1].board_stop
      /\ path[1].board_stop = back.curr /\ path[Len(path)].alight_stop = target_stop
  BY <1>3 DEF PathIsSound
<1>6. PICK len \in Nat : len = Len(path) /\ len > 0 /\ 1 \in 1 .. len /\ len \in 1 .. len
  BY <1>3, <1>4
<1> HIDE DEF path
<1>7. plan' = path
  BY <1>2, <1>3 DEF path
<1>8. ASSUME NEW n \in 1 .. len - 1
      PROVE  path[n].alight_stop = path[n + 1].board_stop /\ path[n].alight_time <= path[n + 1].board_time
  <2>1. n \in 1 .. len /\ n + 1 \in 1 .. len
    BY <1>6
  <2>2. path[n].alight_stop = path[n + 1].board_stop
    BY <1>5, <1>6
  <2>3. path[n].alight_time = labels.earliest_arrival[path[n].alight_stop]
    BY <1>4, <1>6, <2>1
  <2>4. labels.earliest_arrival[path[n + 1].board_stop] <= path[n + 1].board_time
    BY <1>4, <1>6, <2>1
  <2> QED
    BY <2>2, <2>3, <2>4
<1>9. ASSUME RunsForward(graph)
      PROVE  /\ path[1].board_stop = source_stop /\ path[1].board_time >= departure_time
             /\ len > 1 => ~(IsWalking(path[1]) /\ IsWalking(path[2]))
  <2>1. LegsLeadToTheSource /\ WalkersCameByBus
    BY <1>1, <1>9 DEF ForwardSearch
  <2>2. path[1].board_stop = source_stop
    BY <1>3, <1>5, <2>1
  <2>3. path[1].board_time >= departure_time
    <3>1. labels.earliest_arrival[source_stop] <= path[1].board_time
      BY <1>4, <1>6, <2>2
    <3>2. labels.earliest_arrival[source_stop] = departure_time
      BY <2>1 DEF LegsLeadToTheSource
    <3>3. path[1] \in Legs
      BY <1>4, <1>6
    <3>4. path[1].board_time \in Nat /\ departure_time \in Nat
      BY <3>3 DEF Legs, EngineTypeOK
    <3> DEFINE t == path[1].board_time
    <3> HIDE DEF t
    <3>5. t >= departure_time
      BY <3>1, <3>2, <3>4 DEF t
    <3> QED
      BY <3>5 DEF t
  <2>4. ASSUME len > 1, IsWalking(path[1]), IsWalking(path[2]) PROVE FALSE
    <3>1. 1 \in 1 .. len - 1 /\ 1 + 1 = 2 /\ 2 \in 1 .. len
      BY <1>6, <2>4
    <3> DEFINE s == path[1].alight_stop
               v == path[2].alight_stop
    <3>2. s = path[2].board_stop
      BY <1>8, <3>1
    <3>3. s \in Stops /\ labels.leg[s] = path[1] /\ path[1] # NoLeg
      BY <1>4, <1>6
    <3>4. v \in Stops /\ labels.leg[v] = path[2] /\ path[2] # NoLeg
      BY <1>4, <1>6, <3>1
    <3> HIDE DEF s, v
    <3>5. CameByFootFromSource(s)
      BY <2>2, <2>4, <3>3 DEF CameByFootFromSource, IsWalking
    <3>6. s # source_stop
      BY <2>1, <3>3 DEF LegsLeadToTheSource
    <3> QED
      BY <2>1, <2>4, <3>2, <3>4, <3>5, <3>6 DEF WalkersCameByBus, IsWalking
  <2> QED
    BY <2>2, <2>3, <2>4
<1>10. path[len].alight_stop = target_stop /\ path[len].alight_time = labels.earliest_arrival[target_stop]
  BY <1>4, <1>5, <1>6
<1>11. \A n \in 1 .. len : (IsRideLeg(path[n]) \/ IsFootLeg(path[n]))
  BY <1>4, <1>6
<1>12. \A n \in DOMAIN path : (IsRideLeg(path[n]) \/ IsFootLeg(path[n]))'
  <2> TAKE n \in DOMAIN path
  <2>1. n \in 1 .. len
    BY <1>4, <1>6
  <2> DEFINE leg == path[n]
  <2>2. IsRideLeg(leg) \/ IsFootLeg(leg)
    BY <1>11, <2>1
  <2> HIDE DEF leg
  <2>3. leg' = leg
    BY DEF leg, path
  <2>4. (IsRideLeg(leg) \/ IsFootLeg(leg))'
    BY <1>1, <2>2, <2>3 DEF IsRideLeg, IsFootLeg, RideLeg
  <2> QED
    BY <2>4 DEF leg
<1> QED
  BY <1>1, <1>4, <1>6, <1>7, <1>8, <1>9, <1>10, <1>12 DEF PlanIsAJourney, IsWalking, IsRideLeg, IsFootLeg, RideLeg

-----------------------------------------------------------------------------
(***************************************************************************)
(* The option that is made of a plan.                                      *)
(***************************************************************************)
LEMMA BusLegsAre ==
  ASSUME NEW legs \in Seq(Legs)
  PROVE  /\ DOMAIN legs = 1 .. Len(legs) /\ Len(legs) \in Nat
         /\ BusLegs(legs) \in SUBSET (1 .. Len(legs))
         /\ \A n \in 1 .. Len(legs) : legs[n] \in Legs /\ (n \in BusLegs(legs) <=> ~IsWalking(legs[n]))
BY DEF BusLegs

LEMMA FirstBusIs ==
  ASSUME NEW legs \in Seq(Legs), BusLegs(legs) # {}
  PROVE  /\ Min(BusLegs(legs)) \in 1 .. Len(legs) /\ ~IsWalking(legs[Min(BusLegs(legs))])
         /\ \A m \in 1 .. Len(legs) : ~IsWalking(legs[m]) => Min(BusLegs(legs)) <= m
         /\ FirstBus(legs) = legs[Min(BusLegs(legs))] /\ FirstBus(legs) \in Legs
<1> DEFINE buses == BusLegs(legs)
<1>1. buses \in SUBSET (1 .. Len(legs)) /\ Len(legs) \in Nat
  BY BusLegsAre
<1>2. buses \in SUBSET Nat /\ buses # {}
  BY <1>1
<1> HIDE DEF buses
<1>3. Min(buses) \in buses /\ \A n \in buses : Min(buses) <= n
  BY <1>2, LeastOf
<1>4. Min(buses) \in 1 .. Len(legs)
  BY <1>1, <1>3
<1> QED
  BY <1>3, <1>4, BusLegsAre DEF buses, FirstBus

MovesSoundly(leg, new, comes) ==
  LET walk == leg.alight_time - leg.board_time IN
  /\ new \in Legs /\ new.alight_time = comes
  /\ new.board_stop = leg.board_stop /\ new.alight_stop = leg.alight_stop
  /\ new.route_id = leg.route_id
  /\ new.board_time >= departure_time
  /\ departure_time + walk <= comes => comes - new.board_time >= walk
  /\ departure_time <= comes => new.board_time <= comes
  /\ comes - new.board_time <= 60 \/ comes - new.board_time <= walk

LEMMA MovedUpIs ==
  ASSUME NEW leg \in Legs, NEW bus_sec \in Nat, departure_time \in Nat
  PROVE  MovesSoundly(leg, MovedUp(leg, bus_sec), bus_sec)
<1> DEFINE walk == leg.alight_time - leg.board_time
           lead == Max({60, walk})
           at == Max({departure_time, bus_sec - lead})
           new == MovedUp(leg, bus_sec)
<1>1. walk \in Int
  BY DEF Legs
<1>2. PICK least \in Int : least = 60
  OBVIOUS
<1>3. /\ Max({least, walk}) \in Int /\ Max({least, walk}) >= least /\ Max({least, walk}) >= walk
      /\ Max({least, walk}) \in {least, walk}
  <2> HIDE DEF walk
  <2> QED
    BY <1>1, MaxOfTwo
<1>4. lead \in Int /\ lead >= 60 /\ lead >= walk /\ (lead = 60 \/ lead = walk)
  BY <1>2, <1>3
<1>5. new = [leg EXCEPT !.alight_time = bus_sec, !.board_time = at]
  BY DEF MovedUp
<1> HIDE DEF lead
<1> DEFINE early == bus_sec - lead
<1>6. early \in Int /\ departure_time \in Int
  BY <1>4
<1>7. at = Max({departure_time, early})
  OBVIOUS
<1> HIDE DEF early, at
<1>8. at \in Int /\ at >= departure_time /\ at >= early /\ at \in {departure_time, early}
  BY <1>6, <1>7, MaxOfTwo
<1>9. /\ new.alight_time = bus_sec /\ new.board_time = at
      /\ new.board_stop = leg.board_stop /\ new.alight_stop = leg.alight_stop
      /\ new.route_id = leg.route_id /\ new \in Legs
  <2>1. at \in Nat
    BY <1>8
  <2>2. leg = [board_stop |-> leg.board_stop, alight_stop |-> leg.alight_stop, route_id |-> leg.route_id,
               board_time |-> leg.board_time, alight_time |-> leg.alight_time, trip_idx |-> leg.trip_idx]
    BY DEF Legs
  <2>3. new = [board_stop |-> leg.board_stop, alight_stop |-> leg.alight_stop, route_id |-> leg.route_id,
               board_time |-> at, alight_time |-> bus_sec, trip_idx |-> leg.trip_idx]
    <3> HIDE DEF new
    <3> QED
      BY <1>5, <2>2
  <2>4. leg.board_stop \in Stops /\ leg.alight_stop \in Stops /\ leg.route_id \in Nat /\ leg.trip_idx \in Nat
    BY DEF Legs
  <2> HIDE DEF new
  <2> QED
    BY <2>1, <2>3, <2>4 DEF Legs
<1> HIDE DEF new, walk
<1>10. departure_time + walk <= bus_sec => bus_sec - at >= walk
  BY <1>1, <1>4, <1>8 DEF early
<1>11. departure_time <= bus_sec => at <= bus_sec
  BY <1>4, <1>8 DEF early
<1>12. bus_sec - at <= 60 \/ bus_sec - at <= walk
  <2>1. bus_sec - at <= lead
    BY <1>4, <1>8 DEF early
  <2> QED
    BY <1>4, <2>1
<1> QED
  BY <1>8, <1>9, <1>10, <1>11, <1>12 DEF MovesSoundly, new, walk

(* Only a walk at the start is moved.                                      *)
LEMMA RetimedIs ==
  ASSUME NEW legs \in Seq(Legs), Len(legs) > 0, departure_time \in Nat
  PROVE  LET shown == Retimed(legs) IN
         /\ shown \in Seq(Legs) /\ Len(shown) = Len(legs)
         /\ \A n \in 2 .. Len(legs) : shown[n] = legs[n]
         /\ BusLegs(shown) = BusLegs(legs)
         /\ BusLegs(legs) # {} => FirstBus(shown).board_time = FirstBus(legs).board_time
         /\ IsWalking(shown[1]) <=> IsWalking(legs[1])
         /\ IF IsWalking(legs[1]) /\ BusLegs(legs) # {}
              THEN shown[1] = MovedUp(legs[1], FirstBus(legs).board_time)
              ELSE shown[1] = legs[1]
<1> DEFINE shown == Retimed(legs)
<1>1. /\ DOMAIN legs = 1 .. Len(legs) /\ Len(legs) \in Nat /\ 1 \in 1 .. Len(legs)
      /\ \A n \in 1 .. Len(legs) : legs[n] \in Legs
  BY BusLegsAre
<1>2. CASE ~(IsWalking(legs[1]) /\ BusLegs(legs) # {})
  <2>1. shown = legs
    BY <1>2 DEF Retimed
  <2> HIDE DEF shown
  <2> QED
    BY <1>2, <2>1 DEF shown
<1>3. CASE IsWalking(legs[1]) /\ BusLegs(legs) # {}
  <2> DEFINE first == MovedUp(legs[1], FirstBus(legs).board_time)
  <2>1. shown = [legs EXCEPT ![1] = first]
    BY <1>3 DEF Retimed
  <2>2. first \in Legs /\ first.route_id = legs[1].route_id
    <3>1. FirstBus(legs).board_time \in Nat
      BY <1>3, FirstBusIs DEF Legs
    <3> QED
      BY <1>1, <3>1, MovedUpIs DEF MovesSoundly
  <2> HIDE DEF first, shown
  <2>3. shown \in Seq(Legs) /\ Len(shown) = Len(legs) /\ shown[1] = first
        /\ \A n \in 2 .. Len(legs) : shown[n] = legs[n]
    BY <1>1, <2>1, <2>2
  <2>4. \A n \in 1 .. Len(legs) : IsWalking(shown[n]) <=> IsWalking(legs[n])
    <3> TAKE n \in 1 .. Len(legs)
    <3>1. n = 1 \/ n \in 2 .. Len(legs)
      BY <1>1
    <3> QED
      BY <2>2, <2>3, <3>1 DEF IsWalking
  <2>5. BusLegs(shown) = BusLegs(legs)
    <3>1. DOMAIN shown = DOMAIN legs
      BY <2>1
    <3> QED
      BY <1>1, <2>4, <3>1 DEF BusLegs
  <2>6. FirstBus(shown).board_time = FirstBus(legs).board_time
    <3>1. Min(BusLegs(legs)) \in 1 .. Len(legs) /\ Min(BusLegs(legs)) # 1
      BY <1>3, FirstBusIs
    <3>2. Min(BusLegs(legs)) \in 2 .. Len(legs)
      BY <1>1, <3>1
    <3> QED
      BY <2>3, <2>5, <3>2 DEF FirstBus
  <2> QED
    BY <1>1, <1>3, <2>3, <2>4, <2>5, <2>6 DEF shown, first
<1> QED
  BY <1>2, <1>3

LEMMA OptionIs ==
  ASSUME NEW legs \in Seq(Legs), Len(legs) > 0, departure_time \in Nat
  PROVE  LET option == OptionOf(legs)
             shown == Retimed(legs)
         IN /\ option.itinerary = shown
            /\ option.departure_sec = shown[1].board_time
            /\ option.arrival_sec = shown[Len(legs)].alight_time
            /\ option.departure_sec \in Nat /\ option.arrival_sec \in Nat /\ option.first_bus_sec \in Nat
            /\ \/ option.first_bus_sec = option.departure_sec + 300
               \/ BusLegs(legs) # {} /\ option.first_bus_sec = FirstBus(legs).board_time
<1> DEFINE shown == Retimed(legs)
           bus_sec == IF BusLegs(shown) = {} THEN 0 ELSE FirstBus(shown).board_time
           option == OptionOf(legs)
           len == Len(legs)
<1>1. /\ shown \in Seq(Legs) /\ Len(shown) = len /\ BusLegs(shown) = BusLegs(legs)
      /\ BusLegs(legs) # {} => FirstBus(shown).board_time = FirstBus(legs).board_time
  BY RetimedIs
<1>2. option.itinerary = shown /\ option.departure_sec = shown[1].board_time
      /\ option.arrival_sec = Last(shown).alight_time
      /\ option.first_bus_sec = IF bus_sec = 0 THEN shown[1].board_time + 300 ELSE bus_sec
  BY DEF OptionOf
<1> HIDE DEF option, shown
<1>3. len \in Nat /\ 1 \in 1 .. len /\ len \in 1 .. len
  BY BusLegsAre
<1>4. shown[1] \in Legs /\ shown[len] \in Legs /\ Last(shown) = shown[len]
  BY <1>1, <1>3 DEF Last
<1>5. shown[1].board_time \in Nat /\ shown[len].alight_time \in Nat
  BY <1>4 DEF Legs
<1>6. BusLegs(legs) # {} => FirstBus(legs).board_time \in Nat
  BY FirstBusIs DEF Legs
<1>7. option.first_bus_sec \in Nat
  <2>1. bus_sec \in Nat
    BY <1>1, <1>6
  <2> HIDE DEF bus_sec
  <2> QED
    BY <1>2, <1>5, <2>1
<1>8. \/ option.first_bus_sec = option.departure_sec + 300
      \/ BusLegs(legs) # {} /\ option.first_bus_sec = FirstBus(legs).board_time
  BY <1>1, <1>2
<1> HIDE DEF bus_sec, len
<1> QED
  BY <1>2, <1>4, <1>5, <1>7, <1>8 DEF shown, option, len

(* What ShownLegsFit says of one option.                                   *)
LegsFit(legs, from) ==
  /\ legs[1].board_time >= from
  /\ \A n \in DOMAIN legs : legs[n].board_time <= legs[n].alight_time
  /\ \A n \in 1 .. Len(legs) - 1 : legs[n].alight_time <= legs[n + 1].board_time
  /\ IsWalking(legs[1]) /\ Len(legs) > 1 =>
       /\ legs[1].alight_time = legs[2].board_time
       /\ legs[1].alight_time - legs[1].board_time >=
            graph.walk[legs[1].board_stop][legs[1].alight_stop]

(* The first bus is the first leg or the second.                           *)
LEMMA JourneyStarts ==
  ASSUME EngineTypeOK, PlanIsAJourney, RunsForward(graph)
  PROVE  /\ plan \in Seq(Legs) /\ Len(plan) \in Nat \ {0}
         /\ \A n \in 1 .. Len(plan) :
              plan[n] \in Legs /\ plan[n].board_time <= plan[n].alight_time
         /\ departure_time <= plan[1].board_time
         /\ BusLegs(plan) = {} => Len(plan) = 1 /\ IsWalking(plan[1])
         /\ BusLegs(plan) # {} =>
              IF IsWalking(plan[1])
                THEN /\ Len(plan) > 1 /\ FirstBus(plan) = plan[2]
                     /\ plan[1].alight_time <= plan[2].board_time
                ELSE FirstBus(plan) = plan[1]
<1>1. plan \in Seq(Legs) /\ Len(plan) \in Nat \ {0}
  BY BusLegsAre DEF PlanIsAJourney
<1>2. PICK len \in Nat \ {0} : len = Len(plan)
  BY <1>1
<1>3. DOMAIN plan = 1 .. len /\ \A n \in 1 .. len : plan[n] \in Legs /\ (n \in BusLegs(plan) <=> ~IsWalking(plan[n]))
  BY <1>1, <1>2, BusLegsAre
<1>4. \A n \in 1 .. len : plan[n].board_time <= plan[n].alight_time
  <2> TAKE n \in 1 .. len
  <2> DEFINE leg == plan[n]
  <2>1. leg \in Legs /\ (IsRideLeg(leg) \/ IsFootLeg(leg))
    BY <1>3 DEF PlanIsAJourney
  <2> HIDE DEF leg
  <2>2. leg.board_time <= leg.alight_time
    BY <2>1, LegRunsForward DEF EngineTypeOK
  <2> QED
    BY <2>2 DEF leg
<1>5. departure_time <= plan[1].board_time /\ (len > 1 => ~(IsWalking(plan[1]) /\ IsWalking(plan[2])))
  <2>1. plan[1].board_time >= departure_time
    BY DEF PlanIsAJourney
  <2>2. plan[1].board_time \in Nat /\ departure_time \in Nat
    BY <1>3 DEF Legs, EngineTypeOK
  <2> DEFINE t == plan[1].board_time
  <2>3. t >= departure_time /\ t \in Nat
    BY <2>1, <2>2
  <2> HIDE DEF t
  <2>4. departure_time <= t
    BY <2>2, <2>3
  <2> QED
    BY <1>2, <2>4 DEF PlanIsAJourney, t
<1>6. CASE BusLegs(plan) = {}
  <2>1. IsWalking(plan[1])
    BY <1>3, <1>6
  <2>2. len = 1
    <3>1. len > 1 => 2 \in 1 .. len
      OBVIOUS
    <3>2. ~(len > 1)
      BY <1>3, <1>5, <1>6, <2>1, <3>1
    <3> QED
      BY <3>2
  <2> QED
    BY <1>1, <1>2, <1>3, <1>4, <1>5, <1>6, <2>1, <2>2
<1>7. CASE BusLegs(plan) # {}
  <2> DEFINE b == Min(BusLegs(plan))
  <2>1. /\ b \in 1 .. len /\ ~IsWalking(plan[b]) /\ FirstBus(plan) = plan[b]
        /\ \A m \in 1 .. len : ~IsWalking(plan[m]) => b <= m
    BY <1>1, <1>2, <1>7, FirstBusIs
  <2> HIDE DEF b
  <2>2. CASE ~IsWalking(plan[1])
    <3>1. b <= 1
      BY <2>1, <2>2
    <3>2. b = 1
      BY <2>1, <3>1
    <3> QED
      BY <1>1, <1>2, <1>3, <1>4, <1>5, <1>7, <2>1, <2>2, <3>2
  <2>3. CASE IsWalking(plan[1])
    <3>1. b # 1 /\ len > 1
      BY <2>1, <2>3
    <3>2. 2 \in 1 .. len /\ ~IsWalking(plan[2])
      BY <1>5, <2>3, <3>1
    <3>3. b <= 2
      BY <2>1, <3>2
    <3>4. b = 2
      BY <2>1, <3>1, <3>3
    <3>5. plan[1].alight_time <= plan[2].board_time
      <4>1. 1 \in 1 .. Len(plan) - 1 /\ 1 + 1 = 2
        BY <1>2, <3>1
      <4> QED
        BY <4>1 DEF PlanIsAJourney
    <3> QED
      BY <1>1, <1>2, <1>3, <1>4, <1>5, <1>7, <2>1, <2>3, <3>1, <3>4, <3>5
  <2> QED
    BY <2>2, <2>3
<1> QED
  BY <1>6, <1>7

LEMMA OptionFits ==
  ASSUME EngineTypeOK, PlanIsAJourney, RunsForward(graph)
  PROVE  LET option == OptionOf(plan) IN
         /\ LegsFit(option.itinerary, departure_time)
         /\ departure_time <= option.departure_sec
         /\ option.departure_sec <= option.first_bus_sec
         /\ BusLegs(plan) # {} =>
              /\ option.departure_sec <= FirstBus(plan).board_time
              /\ FirstBus(plan).board_time <= option.departure_sec + LongestWalk
<1> DEFINE shown == Retimed(plan)
           option == OptionOf(plan)
<1>1. PICK len \in Nat \ {0} : len = Len(plan)
  BY JourneyStarts
<1>2. /\ plan \in Seq(Legs) /\ Len(plan) > 0 /\ departure_time \in Nat /\ 1 \in 1 .. len
      /\ \A n \in 1 .. len : plan[n] \in Legs /\ plan[n].board_time <= plan[n].alight_time
      /\ departure_time <= plan[1].board_time
  BY <1>1, JourneyStarts DEF EngineTypeOK
<1>3. /\ shown \in Seq(Legs) /\ Len(shown) = len
      /\ \A n \in 2 .. len : shown[n] = plan[n]
      /\ IsWalking(shown[1]) <=> IsWalking(plan[1])
      /\ IF IsWalking(plan[1]) /\ BusLegs(plan) # {}
           THEN shown[1] = MovedUp(plan[1], FirstBus(plan).board_time)
           ELSE shown[1] = plan[1]
  BY <1>1, <1>2, RetimedIs
<1>4. /\ option.itinerary = shown /\ option.departure_sec = shown[1].board_time
      /\ option.departure_sec \in Nat /\ option.first_bus_sec \in Nat
      /\ \/ option.first_bus_sec = option.departure_sec + 300
         \/ BusLegs(plan) # {} /\ option.first_bus_sec = FirstBus(plan).board_time
  BY <1>2, OptionIs
<1> HIDE DEF shown, option
<1>5. \A n \in 1 .. len - 1 : plan[n].alight_time <= plan[n + 1].board_time
  BY <1>1 DEF PlanIsAJourney
<1>6. DOMAIN shown = 1 .. len
  BY <1>3
<1> DEFINE Fits(at) ==
             /\ shown[1].board_time >= departure_time
             /\ shown[1].board_time <= shown[1].alight_time
             /\ len > 1 => shown[1].alight_time <= plan[2].board_time
             /\ IsWalking(shown[1]) /\ len > 1 =>
                  /\ shown[1].alight_time = plan[2].board_time
                  /\ shown[1].alight_time - shown[1].board_time >=
                       graph.walk[shown[1].board_stop][shown[1].alight_stop]
             /\ BusLegs(plan) # {} =>
                  /\ shown[1].board_time <= FirstBus(plan).board_time
                  /\ FirstBus(plan).board_time <= shown[1].board_time + LongestWalk
<1>7. Fits(1)
  <2>1. CASE ~(IsWalking(plan[1]) /\ BusLegs(plan) # {})
    <3>1. shown[1] = plan[1]
      BY <1>3, <2>1
    <3>2. len > 1 => plan[1].alight_time <= plan[2].board_time
      <4>1. len > 1 => 1 \in 1 .. len - 1 /\ 1 + 1 = 2
        OBVIOUS
      <4> QED
        BY <1>5, <4>1
    <3>3. ~(IsWalking(shown[1]) /\ len > 1)
      BY <1>1, <1>3, <2>1, JourneyStarts
    <3>4. plan[1].board_time \in Nat
      BY <1>2 DEF Legs
    <3> DEFINE t == plan[1].board_time
    <3>5. t >= departure_time /\ t <= t /\ t <= t + LongestWalk
      <4> HIDE DEF t
      <4>1. t \in Nat /\ departure_time <= t
        BY <1>2, <3>4 DEF t
      <4> QED
        BY <1>2, <4>1 DEF LongestWalk
    <3>6. BusLegs(plan) # {} => FirstBus(plan) = plan[1]
      BY <2>1, JourneyStarts
    <3> QED
      BY <1>2, <3>1, <3>2, <3>3, <3>5, <3>6
  <2>2. CASE IsWalking(plan[1]) /\ BusLegs(plan) # {}
    <3> DEFINE comes == plan[2].board_time
               begin == plan[1].board_time
               end == plan[1].alight_time
               walk == graph.walk[plan[1].board_stop][plan[1].alight_stop]
    <3>1. len > 1 /\ FirstBus(plan) = plan[2] /\ end <= comes
      BY <1>1, <2>2, JourneyStarts
    <3>2. 2 \in 1 .. len
      BY <3>1
    <3>3. comes \in Nat /\ begin \in Nat /\ end \in Nat /\ plan[1] \in Legs /\ departure_time <= begin
      BY <1>2, <3>2 DEF Legs
    <3>4. IsFootLeg(plan[1])
      <4>1. IsRideLeg(plan[1]) \/ IsFootLeg(plan[1])
        BY <1>2, <1>1 DEF PlanIsAJourney
      <4>2. ~IsRideLeg(plan[1])
        BY <2>2, RideLegRoute DEF IsRideLeg, IsWalking, EngineTypeOK
      <4> QED
        BY <4>1, <4>2
    <3>5. walk \in Nat /\ walk <= LongestWalk /\ end = begin + walk
      <4>1. plan[1].board_stop \in Stops
        BY <3>3 DEF Legs
      <4>2. walk \in Nat /\ walk <= 400
        BY <3>4, <4>1, WalkFields, SMTT(30) DEF IsFootLeg, EngineTypeOK
      <4> QED
        BY <3>4, <4>2 DEF IsFootLeg, LongestWalk
    <3> HIDE DEF comes, begin, end, walk
    <3>6. end - begin = walk /\ departure_time + walk <= comes /\ departure_time <= comes
      BY <1>2, <3>1, <3>3, <3>5, SMTT(30)
    <3>7. shown[1] = MovedUp(plan[1], comes)
      BY <1>3, <2>2, <3>1 DEF comes
    <3> DEFINE one == plan[1]
    <3> HIDE DEF one
    <3>8. one \in Legs
      BY <3>3 DEF one
    <3>9. MovesSoundly(one, MovedUp(one, comes), comes)
      BY <1>2, <3>3, <3>8, MovedUpIs
    <3>10. /\ MovedUp(plan[1], comes).alight_time = comes
           /\ MovedUp(plan[1], comes).board_stop = plan[1].board_stop
           /\ MovedUp(plan[1], comes).alight_stop = plan[1].alight_stop
           /\ MovedUp(plan[1], comes).board_time >= departure_time
           /\ departure_time + (plan[1].alight_time - plan[1].board_time) <= comes =>
                comes - MovedUp(plan[1], comes).board_time >= plan[1].alight_time - plan[1].board_time
           /\ departure_time <= comes => MovedUp(plan[1], comes).board_time <= comes
           /\ \/ comes - MovedUp(plan[1], comes).board_time <= 60
              \/ comes - MovedUp(plan[1], comes).board_time <= plan[1].alight_time - plan[1].board_time
           /\ MovedUp(plan[1], comes) \in Legs
      BY <3>9 DEF one, MovesSoundly
    <3>11. /\ shown[1].alight_time = comes /\ shown[1].board_time >= departure_time
           /\ shown[1].board_time <= comes /\ comes - shown[1].board_time >= walk
           /\ walk = graph.walk[shown[1].board_stop][shown[1].alight_stop]
           /\ comes <= shown[1].board_time + LongestWalk
      <4> DEFINE moved == MovedUp(plan[1], comes)
      <4>1. walk = graph.walk[plan[1].board_stop][plan[1].alight_stop]
        BY DEF walk
      <4>2. shown[1] = moved
        BY <3>7
      <4>3. /\ moved.alight_time = comes /\ moved.board_time >= departure_time
            /\ moved.board_stop = plan[1].board_stop /\ moved.alight_stop = plan[1].alight_stop
            /\ departure_time + (end - begin) <= comes => comes - moved.board_time >= end - begin
            /\ departure_time <= comes => moved.board_time <= comes
            /\ comes - moved.board_time <= 60 \/ comes - moved.board_time <= end - begin
            /\ moved \in Legs
        BY <3>10 DEF begin, end
      <4> HIDE DEF moved
      <4>4. moved.board_time \in Nat
        BY <4>3 DEF Legs
      <4> DEFINE at == moved.board_time
      <4>5. at \in Nat /\ (comes - at <= 60 \/ comes - at <= walk)
        BY <3>6, <4>3, <4>4
      <4> HIDE DEF at
      <4>6. comes <= at + LongestWalk
        BY <3>3, <3>5, <4>5 DEF LongestWalk
      <4> QED
        BY <3>6, <4>1, <4>2, <4>3, <4>6 DEF at
    <3> QED
      BY <3>1, <3>3, <3>11 DEF comes
  <2> QED
    BY <2>1, <2>2
<1>8. ASSUME NEW n \in 2 .. len
      PROVE  shown[n].board_time <= shown[n].alight_time
  <2>1. n \in 1 .. len
    BY <1>1
  <2> QED
    BY <1>2, <1>3, <2>1
<1>9. \A n \in 1 .. len : shown[n].board_time <= shown[n].alight_time
  <2> TAKE n \in 1 .. len
  <2>1. n = 1 \/ n \in 2 .. len
    BY <1>1
  <2> QED
    BY <1>7, <1>8, <2>1
<1>10. ASSUME NEW n \in 1 .. len - 1
       PROVE  shown[n].alight_time <= shown[n + 1].board_time
  <2>1. n + 1 \in 2 .. len /\ (n = 1 \/ n \in 2 .. len)
    BY <1>1
  <2>2. shown[n + 1] = plan[n + 1]
    BY <1>3, <2>1
  <2>3. CASE n = 1
    <3>1. len > 1 /\ 1 + 1 = 2
      BY <1>1, <2>3
    <3> QED
      BY <1>7, <2>2, <2>3, <3>1
  <2>4. CASE n \in 2 .. len
    BY <1>3, <1>5, <2>2, <2>4
  <2> QED
    BY <2>1, <2>3, <2>4
<1>11. len > 1 => shown[2] = plan[2]
  <2>1. len > 1 => 2 \in 2 .. len
    BY <1>1
  <2> QED
    BY <1>3, <2>1
<1>12. LegsFit(shown, departure_time)
  BY <1>3, <1>6, <1>7, <1>9, <1>10, <1>11 DEF LegsFit
<1>13. option.departure_sec <= option.first_bus_sec
  <2>1. CASE option.first_bus_sec = option.departure_sec + 300
    BY <1>4, <2>1
  <2>2. CASE BusLegs(plan) # {} /\ option.first_bus_sec = FirstBus(plan).board_time
    BY <1>4, <1>7, <2>2
  <2> QED
    BY <1>4, <2>1, <2>2
<1>14. departure_time <= option.departure_sec
  <2>1. option.departure_sec >= departure_time
    BY <1>4, <1>7
  <2> QED
    BY <1>2, <1>4, <2>1
<1>15. BusLegs(plan) # {} =>
         /\ option.departure_sec <= FirstBus(plan).board_time
         /\ FirstBus(plan).board_time <= option.departure_sec + LongestWalk
  BY <1>4, <1>7
<1> QED
  BY <1>4, <1>12, <1>13, <1>14, <1>15 DEF option

-----------------------------------------------------------------------------
(***************************************************************************)
(* The engine under the loop of /api/route: calls, steps and rest.         *)
(***************************************************************************)
EngineInv == EngineTypeOK /\ LabelsAreSound /\ ForwardSearch /\ PlanIsSound

LEMMA EngineRests ==
  ASSUME EngineInv, UNCHANGED engineVars
  PROVE  EngineInv'
<1>1. /\ UNCHANGED <<graph, source_stop, target_stop, departure_time, pc, labels, k, prev_arrival>>
      /\ UNCHANGED <<marked_stops, todo, plan>>
  BY DEF engineVars, call
<1>2. EngineTypeOK'
  BY <1>1 DEF EngineInv, EngineTypeOK, GraphOK, Searching
<1>3. LabelsAreSound'
  BY <1>1 DEF EngineInv, LabelsAreSound, LegIsSound, Offered, IsRideLeg, IsFootLeg, RideLeg, Reached
<1>4. ForwardSearch'
  BY <1>1 DEF EngineInv, ForwardSearch, LegsLeadToTheSource, WalkersCameByBus, Circular,
     CameByFootFromSource, Searching
<1>5. PlanIsSound'
  BY <1>1 DEF EngineInv, PlanIsSound, PlanIsAJourney, IsRideLeg, IsFootLeg, RideLeg
<1> QED
  BY <1>2, <1>3, <1>4, <1>5 DEF EngineInv

LEMMA EngineIsCalled ==
  ASSUME EngineInv, NEW s \in Nat, NEW t \in Nat, NEW d \in Nat, PlanRoute(s, t, d)
  PROVE  /\ EngineInv'
         /\ graph' = graph /\ source_stop' = s /\ target_stop' = t /\ departure_time' = d
         /\ labels' = IF pc' = "done" THEN Unlabelled ELSE [Unlabelled EXCEPT !.earliest_arrival[s] = d]
         /\ IF pc' = "done" THEN s = t \/ s \notin Stops \/ t \notin Stops ELSE pc' = "first_walks"
<1> DEFINE refused == s = t \/ s \notin Stops \/ t \notin Stops
<1>1. /\ graph' = graph /\ source_stop' = s /\ target_stop' = t /\ departure_time' = d
      /\ labels' = IF refused THEN Unlabelled ELSE [Unlabelled EXCEPT !.earliest_arrival[s] = d]
      /\ k' = 0 /\ plan' = None /\ pc' = IF refused THEN "done" ELSE "first_walks"
      /\ UNCHANGED <<prev_arrival, marked_stops>>
  BY DEF PlanRoute
<1>2. labels' \in Labels /\ (\A x \in Stops : labels'.leg[x] = NoLeg) /\ labels'.next_marked = {}
  <2>1. Unlabelled = [earliest_arrival |-> [x \in Stops |-> INF], leg |-> [x \in Stops |-> NoLeg],
                      next_marked |-> {}]
    BY DEF Unlabelled
  <2>2. [x \in Stops |-> INF] \in [Stops -> Nat] /\ [x \in Stops |-> NoLeg] \in [Stops -> Legs \cup {NoLeg}]
    OBVIOUS
  <2> DEFINE ea == IF refused THEN [x \in Stops |-> INF] ELSE [[x \in Stops |-> INF] EXCEPT ![s] = d]
  <2>3. ea \in [Stops -> Nat]
    BY <2>2
  <2>4. labels' = [earliest_arrival |-> ea, leg |-> [x \in Stops |-> NoLeg], next_marked |-> {}]
    BY <1>1, <2>1
  <2> HIDE DEF ea
  <2> QED
    BY <2>2, <2>3, <2>4 DEF Labels
<1>3. EngineTypeOK'
  BY <1>1, <1>2 DEF EngineInv, EngineTypeOK, GraphOK, Searching, MAX_ROUNDS
<1>4. \A x \in Stops : \/ labels'.earliest_arrival[x] = INF
                       \/ ~refused /\ x = s /\ labels'.earliest_arrival[x] = d
  BY <1>1 DEF Unlabelled
<1>5. LabelsAreSound'
  BY <1>1, <1>2, <1>4 DEF LabelsAreSound
<1>6. ForwardSearch'
  <2> SUFFICES ASSUME ~refused PROVE LegsLeadToTheSource' /\ WalkersCameByBus'
    BY <1>1 DEF ForwardSearch, Searching
  <2>1. labels'.earliest_arrival[s] = d
    BY <1>1 DEF Unlabelled
  <2>2. \A C \in SUBSET Stops : Circular(C)' => C = {}
    BY <1>2 DEF Circular
  <2>3. LegsLeadToTheSource'
    <3>1. \A x \in Stops : d <= labels'.earliest_arrival[x] \/ labels'.earliest_arrival[x] = INF
      BY <1>4
    <3> QED
      BY <1>1, <1>2, <2>1, <2>2, <3>1 DEF LegsLeadToTheSource
  <2>4. WalkersCameByBus'
    BY <1>1, <1>2 DEF WalkersCameByBus
  <2> QED
    BY <2>3, <2>4
<1>7. PlanIsSound'
  BY <1>1 DEF PlanIsSound
<1> QED
  BY <1>1, <1>3, <1>5, <1>6, <1>7 DEF EngineInv

LEMMA EngineGoesOn ==
  ASSUME EngineInv, EngineStep
  PROVE  EngineInv'
<1>1. EngineTypeOK' /\ LabelsAreSound' /\ ForwardSearch'
  BY StepEngineTypes, StepSound, StepForward DEF EngineInv
<1>2. PlanIsSound'
  <2>1. CASE ReturnPlan
    BY <2>1, PlanFound DEF EngineInv
  <2>2. CASE ~ReturnPlan
    <3>1. pc' # "done"
      BY <2>2 DEF EngineStep, FirstWalks, BeginRound, ScanRoute, RoutesDone, WalkOn, EndRound, EngineInv, EngineTypeOK
    <3> QED
      BY <3>1 DEF PlanIsSound
  <2> QED
    BY <2>1, <2>2
<1> QED
  BY <1>1, <1>2 DEF EngineInv

LEMMA InitEngine == EngineInit => EngineInv
<1> SUFFICES ASSUME EngineInit PROVE EngineInv
  OBVIOUS
<1>1. GraphOK
  <2>1. PICK day \in Days : graph = Indexed(day)
    BY DEF EngineInit, Graphs
  <2>2. IsIndexOf(graph, day) /\ graph.day = day
    BY <2>1, IndexIs, SMTT(30) DEF IsIndexOf
  <2> QED
    BY <2>2 DEF GraphOK
<1>2. /\ pc = "idle" /\ source_stop = INF /\ target_stop = INF /\ departure_time = 0
      /\ labels = Unlabelled /\ k = 0 /\ prev_arrival = [s \in Stops |-> INF]
      /\ marked_stops = {} /\ plan = None
  BY DEF EngineInit, Unlabelled
<1>3. labels \in Labels /\ (\A s \in Stops : labels.leg[s] = NoLeg /\ labels.earliest_arrival[s] = INF)
      /\ labels.next_marked = {}
  BY <1>2 DEF Unlabelled, Labels
<1>4. EngineTypeOK
  BY <1>1, <1>2, <1>3 DEF EngineTypeOK, Searching, MAX_ROUNDS
<1>5. LabelsAreSound
  BY <1>2, <1>3 DEF LabelsAreSound
<1>6. ForwardSearch /\ PlanIsSound
  BY <1>2 DEF ForwardSearch, Searching, PlanIsSound
<1> QED
  BY <1>4, <1>5, <1>6 DEF EngineInv

(***************************************************************************)
(* The loop.                                                               *)
(***************************************************************************)
OptionRecords ==
  [departure_sec : Nat, arrival_sec : Nat, first_bus_sec : Nat,
   itinerary : Seq(Legs), is_stay_on_bus : Seq(BOOLEAN)]

RequestTypeOK ==
  /\ rpc \in {"idle", "loop", "plan", "answer", "done"}
  /\ source \in Nat /\ target \in Nat /\ dep_sec \in Nat
  /\ current_search_dep \in Nat /\ dep_sec <= current_search_dep
  /\ options \in Seq(OptionRecords)
  /\ rpc = "plan" => source_stop = source /\ target_stop = target /\ departure_time = current_search_dep

(* Each option leaves a minute or more after the bus of the one before it, *)
(* and so will whatever is found next.                                     *)
OptionsAreInOrder ==
  RunsForward(graph) =>
    /\ \A n \in DOMAIN options :
         /\ LegsFit(options[n].itinerary, dep_sec)
         /\ options[n].departure_sec <= options[n].first_bus_sec
         /\ options[n].first_bus_sec + 60 <= current_search_dep
    /\ \A m, n \in DOMAIN options : m < n =>
         options[m].first_bus_sec + 60 <= options[n].departure_sec

LEMMA NextSearchIs ==
  ASSUME current_search_dep \in Nat, NEW option, option.first_bus_sec \in Nat
  PROVE  /\ NextSearch(option) \in Nat
         /\ NextSearch(option) >= current_search_dep + 120
         /\ NextSearch(option) >= option.first_bus_sec + 60
         /\ NextSearch(option) \in {current_search_dep + 120, option.first_bus_sec + 60}
<1> DEFINE a == current_search_dep + 120
           b == option.first_bus_sec + 60
<1>1. a \in Nat /\ b \in Nat
  OBVIOUS
<1> HIDE DEF a, b
<1>2. Max({a, b}) \in {a, b} /\ Max({a, b}) >= a /\ Max({a, b}) >= b
  BY <1>1, MaxOfTwo
<1>3. NextSearch(option) = Max({a, b})
  BY DEF NextSearch, a, b
<1>4. NextSearch(option) \in Nat
  BY <1>1, <1>2, <1>3
<1> QED
  BY <1>2, <1>3, <1>4 DEF a, b

LEMMA OptionRecord ==
  ASSUME EngineTypeOK, PlanIsAJourney
  PROVE  OptionOf(plan) \in OptionRecords
<1> DEFINE shown == Retimed(plan)
           stays == [n \in DOMAIN shown |-> StaysOnBus(shown, n)]
           option == OptionOf(plan)
<1>1. plan \in Seq(Legs) /\ Len(plan) > 0 /\ departure_time \in Nat
  BY DEF PlanIsAJourney, EngineTypeOK
<1>2. shown \in Seq(Legs)
  BY <1>1, RetimedIs
<1>3. stays \in Seq(BOOLEAN)
  <2>1. \A n \in DOMAIN shown : StaysOnBus(shown, n) \in BOOLEAN
    BY DEF StaysOnBus
  <2>2. DOMAIN shown = 1 .. Len(shown) /\ Len(shown) \in Nat
    BY <1>2
  <2> HIDE DEF shown
  <2>3. stays \in [1 .. Len(shown) -> BOOLEAN]
    BY <2>1, <2>2
  <2> QED
    BY <2>2, <2>3
<1>4. /\ option.departure_sec \in Nat /\ option.arrival_sec \in Nat /\ option.first_bus_sec \in Nat
      /\ option.itinerary = shown
  BY <1>1, OptionIs
<1>5. option.is_stay_on_bus = stays
  BY DEF OptionOf
<1>6. option = [departure_sec |-> option.departure_sec, arrival_sec |-> option.arrival_sec,
                first_bus_sec |-> option.first_bus_sec, itinerary |-> option.itinerary,
                is_stay_on_bus |-> option.is_stay_on_bus]
  BY DEF OptionOf
<1> HIDE DEF option, stays, shown
<1> QED
  BY <1>2, <1>3, <1>4, <1>5, <1>6 DEF OptionRecords, option

LEMMA FitsFromEarlier ==
  ASSUME NEW legs, NEW from \in Nat, NEW before \in Nat, before <= from, LegsFit(legs, from),
         legs[1].board_time \in Nat
  PROVE  LegsFit(legs, before)
BY DEF LegsFit

RouteInv == EngineInv /\ RequestTypeOK /\ OptionsAreInOrder

LEMMA InitRoute == RouteInit => RouteInv
<1> SUFFICES ASSUME RouteInit PROVE RouteInv
  OBVIOUS
<1>1. EngineInv
  BY InitEngine DEF RouteInit
<1>2. RequestTypeOK
  BY DEF RouteInit, RequestTypeOK
<1>3. OptionsAreInOrder
  BY DEF RouteInit, OptionsAreInOrder
<1> QED
  BY <1>1, <1>2, <1>3 DEF RouteInv

LEMMA RequestHandled ==
  ASSUME RouteInv, NEW s \in 0 .. NumStops, NEW t \in 0 .. NumStops, NEW d \in Departures,
         NEW wish \in Wishes, HandleRequest(s, t, d, wish)
  PROVE  RouteInv'
<1>1. EngineInv'
  BY EngineRests DEF HandleRequest, RouteInv
<1>2. /\ source' = s /\ target' = t /\ dep_sec' = d /\ current_search_dep' = d
      /\ options' = <<>> /\ rpc' \in {"loop", "done"}
  BY DEF HandleRequest
<1>3. RequestTypeOK'
  BY <1>2, DeparturesAssumption DEF RequestTypeOK
<1>4. OptionsAreInOrder'
  BY <1>2 DEF OptionsAreInOrder
<1> QED
  BY <1>1, <1>3, <1>4 DEF RouteInv

(* What the options say stays as long as they and the graph do, and the    *)
(* next search is no earlier.                                              *)
LEMMA OrderStays ==
  ASSUME OptionsAreInOrder, RequestTypeOK, UNCHANGED <<graph, options, dep_sec>>,
         current_search_dep' \in Nat, current_search_dep <= current_search_dep'
  PROVE  OptionsAreInOrder'
<1> SUFFICES ASSUME RunsForward(graph)
             PROVE  /\ \A n \in DOMAIN options :
                         /\ LegsFit(options[n].itinerary, dep_sec)'
                         /\ options[n].departure_sec <= options[n].first_bus_sec
                         /\ options[n].first_bus_sec + 60 <= current_search_dep'
                    /\ \A m, n \in DOMAIN options : m < n =>
                         options[m].first_bus_sec + 60 <= options[n].departure_sec
  BY DEF OptionsAreInOrder
<1>1. /\ \A n \in DOMAIN options :
           /\ LegsFit(options[n].itinerary, dep_sec)
           /\ options[n].departure_sec <= options[n].first_bus_sec
           /\ options[n].first_bus_sec + 60 <= current_search_dep
      /\ \A m, n \in DOMAIN options : m < n =>
           options[m].first_bus_sec + 60 <= options[n].departure_sec
  BY DEF OptionsAreInOrder
<1>2. ASSUME NEW n \in DOMAIN options
      PROVE  /\ LegsFit(options[n].itinerary, dep_sec)'
             /\ options[n].first_bus_sec + 60 <= current_search_dep'
  <2>0. options[n] \in OptionRecords
    BY DEF RequestTypeOK
  <2>1. options[n].first_bus_sec \in Nat /\ current_search_dep \in Nat
    BY <2>0 DEF RequestTypeOK, OptionRecords
  <2>2. LegsFit(options[n].itinerary, dep_sec)
    BY <1>1
  <2>3. LegsFit(options[n].itinerary, dep_sec)'
    BY <2>2 DEF LegsFit
  <2>4. options[n].first_bus_sec + 60 <= current_search_dep
    BY <1>1
  <2> QED
    BY <2>1, <2>3, <2>4
<1> QED
  BY <1>1, <1>2

LEMMA SearchBegun ==
  ASSUME RouteInv, Search
  PROVE  RouteInv'
<1>1. /\ PlanRoute(source, target, current_search_dep) /\ rpc' = "plan"
      /\ UNCHANGED <<source, target, dep_sec, current_search_dep, options>>
  BY DEF Search, requestVars
<1>2. source \in Nat /\ target \in Nat /\ current_search_dep \in Nat
  BY DEF RouteInv, RequestTypeOK
<1>3. /\ EngineInv' /\ graph' = graph
      /\ source_stop' = source /\ target_stop' = target /\ departure_time' = current_search_dep
  BY <1>1, <1>2, EngineIsCalled DEF RouteInv
<1>4. RequestTypeOK'
  BY <1>1, <1>3 DEF RouteInv, RequestTypeOK
<1>5. OptionsAreInOrder'
  BY <1>1, <1>2, <1>3, OrderStays DEF RouteInv
<1> QED
  BY <1>3, <1>4, <1>5 DEF RouteInv

LEMMA PlanGoesOn ==
  ASSUME RouteInv, Plan
  PROVE  RouteInv'
<1>1. EngineStep /\ UNCHANGED <<rpc, source, target, dep_sec, current_search_dep, options>>
  BY DEF Plan, requestVars, loopVars
<1>2. EngineInv' /\ UNCHANGED <<graph, source_stop, target_stop, departure_time>>
  BY <1>1, EngineGoesOn, EngineStepKeeps DEF RouteInv
<1>3. RequestTypeOK'
  BY <1>1, <1>2 DEF RouteInv, RequestTypeOK
<1>4. OptionsAreInOrder'
  <2>1. current_search_dep \in Nat
    BY DEF RouteInv, RequestTypeOK
  <2> QED
    BY <1>1, <1>2, <2>1, OrderStays DEF RouteInv
<1> QED
  BY <1>2, <1>3, <1>4 DEF RouteInv

LEMMA OptionTaken ==
  ASSUME RouteInv, TakeOption
  PROVE  RouteInv'
<1> DEFINE option == OptionOf(plan)
           csd == current_search_dep
           next == NextSearch(option)
<1>1. /\ rpc = "plan" /\ pc = "done" /\ plan # None
      /\ options' = options \/ options' = Append(options, option)
      /\ current_search_dep' = next /\ rpc' = "loop"
      /\ UNCHANGED <<source, target, dep_sec>>
  BY DEF TakeOption, requestVars
<1>2. UNCHANGED engineVars
  BY DEF TakeOption
<1>3. EngineInv' /\ graph' = graph
  BY <1>2, EngineRests DEF RouteInv, engineVars, call
<1>4. /\ EngineTypeOK /\ PlanIsAJourney
      /\ csd \in Nat /\ departure_time = csd /\ dep_sec \in Nat /\ dep_sec <= csd
      /\ options \in Seq(OptionRecords)
  BY <1>1 DEF RouteInv, EngineInv, PlanIsSound, RequestTypeOK
<1>5. option \in OptionRecords
  BY <1>4, OptionRecord
<1>6. option.first_bus_sec \in Nat /\ option.departure_sec \in Nat
  BY <1>5 DEF OptionRecords
<1>7. next \in Nat /\ next >= csd + 120 /\ next >= option.first_bus_sec + 60
  <2> HIDE DEF option
  <2> QED
    BY <1>4, <1>6, NextSearchIs
<1>8. RunsForward(graph) => /\ LegsFit(option.itinerary, departure_time)
                            /\ departure_time <= option.departure_sec
                            /\ option.departure_sec <= option.first_bus_sec
  BY <1>4, OptionFits
<1> HIDE DEF option, next
<1>9. RequestTypeOK'
  <2>1. options' \in Seq(OptionRecords)
    BY <1>1, <1>4, <1>5
  <2> QED
    BY <1>1, <1>4, <1>7, <2>1 DEF RouteInv, RequestTypeOK
<1>10. OptionsAreInOrder'
  <2>1. CASE options' = options
    BY <1>1, <1>3, <1>4, <1>7, <2>1, OrderStays DEF RouteInv
  <2>2. CASE options' = Append(options, option)
    <3> SUFFICES ASSUME RunsForward(graph) PROVE OptionsAreInOrder'
      BY <1>3 DEF OptionsAreInOrder
    <3>1. PICK len \in Nat : len = Len(options)
      BY <1>4
    <3>2. /\ DOMAIN options' = 1 .. len + 1 /\ DOMAIN options = 1 .. len
          /\ \A n \in 1 .. len : options'[n] = options[n] /\ options[n] \in OptionRecords
          /\ options'[len + 1] = option
      BY <1>4, <1>5, <2>2, <3>1
    <3>3. /\ \A n \in 1 .. len :
               /\ LegsFit(options[n].itinerary, dep_sec)
               /\ options[n].departure_sec <= options[n].first_bus_sec
               /\ options[n].first_bus_sec + 60 <= csd
          /\ \A m, n \in 1 .. len : m < n => options[m].first_bus_sec + 60 <= options[n].departure_sec
      BY <3>2 DEF RouteInv, OptionsAreInOrder
    <3>4. ASSUME NEW n \in 1 .. len + 1
          PROVE  /\ LegsFit(options[n].itinerary, dep_sec)'
                 /\ options'[n].departure_sec <= options'[n].first_bus_sec
                 /\ options'[n].first_bus_sec + 60 <= next
      <4>1. CASE n = len + 1
        <5>1. options'[n] = option
          BY <3>2, <4>1
        <5>2. LegsFit(option.itinerary, dep_sec)
          <6>1. option.itinerary[1].board_time \in Nat
            <7>1. LegsFit(option.itinerary, departure_time)
              BY <1>8
            <7>2. option.itinerary[1] \in Legs
              <8>1. option.itinerary = Retimed(plan) /\ plan \in Seq(Legs) /\ Len(plan) \in Nat \ {0}
                BY <1>4 DEF option, OptionOf, PlanIsAJourney
              <8>2. Retimed(plan) \in Seq(Legs) /\ Len(Retimed(plan)) = Len(plan)
                BY <1>4, <8>1, RetimedIs DEF EngineTypeOK
              <8> QED
                BY <8>1, <8>2
            <7> QED
              BY <7>2 DEF Legs
          <6> DEFINE legs == option.itinerary
          <6>2. LegsFit(legs, csd) /\ legs[1].board_time \in Nat
            BY <1>4, <1>8, <6>1
          <6> HIDE DEF legs
          <6>3. LegsFit(legs, dep_sec)
            BY <1>4, <6>2, FitsFromEarlier
          <6> QED
            BY <6>3 DEF legs
        <5>3. LegsFit(options[n].itinerary, dep_sec)'
          BY <1>1, <1>3, <5>1, <5>2 DEF LegsFit, IsWalking
        <5> QED
          BY <1>7, <1>8, <5>1, <5>3, <1>6
      <4>2. CASE n \in 1 .. len
        <5>1. options'[n] = options[n] /\ options[n].first_bus_sec \in Nat
          BY <3>2, <4>2 DEF OptionRecords
        <5>2. LegsFit(options[n].itinerary, dep_sec)
          BY <3>3, <4>2
        <5>3. LegsFit(options[n].itinerary, dep_sec)'
          BY <1>1, <1>3, <5>1, <5>2 DEF LegsFit
        <5>4. options[n].departure_sec <= options[n].first_bus_sec /\ options[n].first_bus_sec + 60 <= csd
          BY <3>3, <4>2
        <5> HIDE DEF csd
        <5> QED
          BY <1>4, <1>7, <5>1, <5>3, <5>4
      <4> QED
        BY <4>1, <4>2
    <3>5. ASSUME NEW m \in 1 .. len + 1, NEW n \in 1 .. len + 1, m < n
          PROVE  options'[m].first_bus_sec + 60 <= options'[n].departure_sec
      <4>1. m \in 1 .. len /\ options'[m] = options[m] /\ options[m].first_bus_sec \in Nat
        BY <3>2, <3>5 DEF OptionRecords
      <4>2. CASE n = len + 1
        <5>1. options[m].first_bus_sec + 60 <= csd
          BY <3>3, <4>1
        <5> QED
          BY <1>4, <1>6, <1>8, <3>2, <4>1, <4>2, <5>1
      <4>3. CASE n \in 1 .. len
        BY <3>2, <3>3, <3>5, <4>1, <4>3
      <4> QED
        BY <4>2, <4>3
    <3>6. \A n \in DOMAIN options' :
            /\ LegsFit(options[n].itinerary, dep_sec)'
            /\ options'[n].departure_sec <= options'[n].first_bus_sec
            /\ options'[n].first_bus_sec + 60 <= current_search_dep'
      BY <1>1, <3>2, <3>4
    <3>7. \A m, n \in DOMAIN options' : m < n =>
            options'[m].first_bus_sec + 60 <= options'[n].departure_sec
      BY <3>2, <3>5
    <3> QED
      BY <3>6, <3>7 DEF OptionsAreInOrder
  <2> QED
    BY <1>1, <2>1, <2>2
<1> QED
  BY <1>3, <1>9, <1>10 DEF RouteInv

(* No plan, the answer, or nothing at all: the options stay.               *)
LEMMA OptionsStay ==
  ASSUME RouteInv, UNCHANGED <<engineVars, source, target, dep_sec, options>>,
         rpc' \in {"idle", "loop", "plan", "answer", "done"}, rpc' = "plan" => rpc = "plan",
         current_search_dep' \in Nat, current_search_dep <= current_search_dep',
         rpc' = "plan" => current_search_dep' = current_search_dep
  PROVE  RouteInv'
<1>1. EngineInv'
  BY EngineRests DEF RouteInv
<1>2. UNCHANGED <<graph, source_stop, target_stop, departure_time>>
  BY DEF engineVars, call
<1>3. RequestTypeOK'
  BY <1>2 DEF RouteInv, RequestTypeOK
<1>4. OptionsAreInOrder'
  BY <1>2, OrderStays DEF RouteInv
<1> QED
  BY <1>1, <1>3, <1>4 DEF RouteInv

LEMMA RouteStep ==
  ASSUME RouteInv, [RouteNext]_routeVars
  PROVE  RouteInv'
<1>1. current_search_dep \in Nat /\ rpc \in {"idle", "loop", "plan", "answer", "done"}
  BY DEF RouteInv, RequestTypeOK
<1>2. CASE \E s, t \in 0 .. NumStops, d \in Departures, wish \in Wishes : HandleRequest(s, t, d, wish)
  BY <1>2, RequestHandled
<1>3. CASE Search
  BY <1>3, SearchBegun
<1>4. CASE Plan
  BY <1>4, PlanGoesOn
<1>5. CASE TakeOption
  BY <1>5, OptionTaken
<1>6. CASE NoOption
  <2>1. /\ UNCHANGED <<engineVars, source, target, dep_sec, options>> /\ rpc' \in {"answer", "loop"}
        /\ current_search_dep' = current_search_dep + 900
    BY <1>6 DEF NoOption, requestVars
  <2> QED
    BY <1>1, <2>1, OptionsStay
<1>7. CASE Answer
  <2>1. /\ UNCHANGED <<engineVars, source, target, dep_sec, options>> /\ rpc' = "done"
        /\ current_search_dep' = current_search_dep
    BY <1>7 DEF Answer, requestVars, loopVars
  <2> QED
    BY <1>1, <2>1, OptionsStay
<1>8. CASE UNCHANGED routeVars
  <2>1. /\ UNCHANGED <<engineVars, source, target, dep_sec, options>> /\ rpc' = rpc
        /\ current_search_dep' = current_search_dep
    BY <1>8 DEF routeVars, requestVars, loopVars
  <2> QED
    BY <1>1, <2>1, OptionsStay
<1> QED
  BY <1>2, <1>3, <1>4, <1>5, <1>6, <1>7, <1>8 DEF RouteNext

LEMMA RouteIsSound == RouteSpec => []RouteInv
<1>1. RouteInit => RouteInv
  BY InitRoute
<1>2. RouteInv /\ [RouteNext]_routeVars => RouteInv'
  BY RouteStep
<1> QED
  BY <1>1, <1>2, PTL DEF RouteSpec

(* Every plan of plan_route can be ridden: its legs are rides of one trip  *)
(* or walks within reach, each starts where and not before the last one    *)
(* ended, they end at the target at its earliest_arrival, and where time   *)
(* runs forward they begin at the source, not before departure_time.       *)
THEOREM PlansCanBeRidden == RouteSpec => []PlanCanBeRidden
<1>1. RouteInv => PlanCanBeRidden
  <2> SUFFICES ASSUME RouteInv, pc = "done", plan # None PROVE PlanCanBeRidden
    BY DEF PlanCanBeRidden
  <2>1. PlanIsAJourney /\ GraphOK
    BY DEF RouteInv, EngineInv, EngineTypeOK, PlanIsSound
  <2>2. graph.day \in Days /\ IsIndexOf(graph, graph.day)
    BY <2>1 DEF GraphOK
  <2>3. ASSUME NEW n \in DOMAIN plan
        PROVE  IF plan[n].route_id = FOOTPATH_ROUTE_ID THEN InReach(graph.day, plan[n])
                                                       ELSE RunsOn(graph.day, plan[n])
    <3>1. plan[n] \in Legs /\ (IsRideLeg(plan[n]) \/ IsFootLeg(plan[n]))
      BY <2>1 DEF PlanIsAJourney
    <3>2. CASE IsRideLeg(plan[n])
      <4>1. PICK x \in Rides(graph) : plan[n] = RideLeg(x)
        BY <3>2 DEF IsRideLeg
      <4>2. plan[n].route_id # FOOTPATH_ROUTE_ID
        BY <2>1, <4>1, RideLegRoute
      <4> DEFINE day == graph.day
                 g == graph
      <4>3. day \in Days /\ IsIndexOf(g, day) /\ x \in Rides(g)
        BY <2>2
      <4> HIDE DEF day, g
      <4>4. RideRuns(day, g, x)
        BY <4>3, RidesRun
      <4>5. RunsOn(graph.day, plan[n])
        <5> DEFINE leg == plan[n]
                   rows == day.stop_times
        <5>1. /\ leg.board_stop = BoardedAt(g, x) /\ leg.alight_stop = LeftAt(g, x)
              /\ leg.board_time = DepartureOf(g, x) /\ leg.alight_time = ArrivalOf(g, x)
          BY <4>1 DEF RideLeg, g
        <5> HIDE DEF leg
        <5>2. RunsOn(day, leg)
          BY <4>4, <5>1, Zenon DEF RideRuns, RunsOn, RowComesBefore
        <5> QED
          BY <5>2 DEF day, leg
      <4> QED
        BY <4>2, <4>5
    <3>3. CASE IsFootLeg(plan[n])
      <4> DEFINE u == plan[n].board_stop
                 v == plan[n].alight_stop
                 day == graph.day
                 g == graph
      <4>1. /\ u \in Stops /\ v \in DOMAIN graph.walk[u] /\ plan[n].route_id = FOOTPATH_ROUTE_ID
            /\ plan[n].board_time \in Nat /\ plan[n].alight_time = plan[n].board_time + graph.walk[u][v]
        BY <3>1, <3>3 DEF IsFootLeg, Legs
      <4>2. day \in Days /\ IsIndexOf(g, day) /\ v \in DOMAIN g.walk[u]
        BY <2>2, <4>1
      <4> HIDE DEF u, v, day, g
      <4>3. /\ Distance(day.place, u, v) <= MaxWalk
            /\ g.walk[u][v] = WalkingTime(Distance(day.place, u, v)) /\ g.walk[u][v] \in 30 .. LongestWalk
        BY <4>1, <4>2, WalksReach
      <4>4. g.walk[u][v] \in Nat
        BY <4>3
      <4>5. plan[n].alight_time - plan[n].board_time = g.walk[u][v]
        BY <4>1, <4>4 DEF g
      <4> QED
        BY <4>1, <4>3, <4>5 DEF InReach, u, v, day, g
    <3> QED
      BY <3>1, <3>2, <3>3
  <2> QED
    BY <2>1, <2>3 DEF PlanCanBeRidden, PlanIsAJourney
<1> QED
  BY <1>1, RouteIsSound, PTL

(* The legs of every option that /api/route shows still fit after          *)
(* calculate_single_itinerary moved the walk to the first bus: none starts *)
(* before it was asked for, ends before it starts or starts before the     *)
(* last one ended, and the walk takes its time and ends when the bus goes. *)
THEOREM OptionsCanBeTaken == RouteSpec => []ShownLegsFit
<1>1. RouteInv => ShownLegsFit
  BY DEF RouteInv, OptionsAreInOrder, ShownLegsFit, LegsFit
<1> QED
  BY <1>1, RouteIsSound, PTL

-----------------------------------------------------------------------------
(***************************************************************************)
(* The engine is a label search.                                           *)
(***************************************************************************)
(* LabelSearch's names for the timetable stand for the same things.        *)
LEMMA SameTerms ==
  /\ Promise!Stops = Stops /\ Promise!Time = Time /\ Promise!INF = INF
  /\ \A g, leg : Promise!IsLeg(g, leg) <=> IsLeg(g, leg)
<1>1. /\ Promise!Stops = Stops /\ Promise!Time = Time /\ Promise!INF = INF
  BY DEF Promise!Stops, Promise!Time, Promise!INF
<1>2. ASSUME NEW g, NEW leg PROVE Promise!IsLeg(g, leg) <=> IsLeg(g, leg)
  BY DEF Promise!IsLeg, Promise!IsBusLeg, Promise!IsWalkLeg, IsLeg, IsBusLeg, IsWalkLeg,
         Promise!FOOTPATH_ROUTE_ID
<1> QED
  BY <1>1, <1>2

(* The function that plays the part of LabelSearch's parent.               *)
Parent == [s \in Stops |-> ParentOf(labels.leg[s])]

LegFrom(par, s) ==
  [board_stop |-> par.stop, alight_stop |-> s, route_id |-> par.route,
   board_time |-> par.board, alight_time |-> par.alight]

(* A leg on offer is one of the timetable, in words of 32 bits.            *)
LEMMA OfferedIsALeg ==
  ASSUME GraphOK, NEW leg \in Offered, leg.alight_time < INF
  PROVE  /\ ParentOf(leg) = [stop |-> leg.board_stop, route |-> leg.route_id,
                             board |-> leg.board_time, alight |-> leg.alight_time]
         /\ leg.board_stop \in Stops /\ leg.route_id \in Time
         /\ leg.board_time \in Time /\ leg.alight_time \in Time
         /\ IsLeg(graph, LegFrom(ParentOf(leg), leg.alight_stop))
<1> DEFINE par == ParentOf(leg)
           made == LegFrom(par, leg.alight_stop)
<1>1. leg \in Legs /\ (IsRideLeg(leg) \/ IsFootLeg(leg))
  BY DEF Offered
<1>2. par = [stop |-> leg.board_stop, route |-> leg.route_id,
             board |-> leg.board_time, alight |-> leg.alight_time]
  BY <1>1, LegIsNotNoLeg DEF ParentOf
<1> HIDE DEF par
<1>3. /\ made.board_stop = leg.board_stop /\ made.alight_stop = leg.alight_stop
      /\ made.route_id = leg.route_id
      /\ made.board_time = leg.board_time /\ made.alight_time = leg.alight_time
  BY <1>2 DEF LegFrom
<1> HIDE DEF made
<1>4. leg.board_stop \in Stops /\ leg.board_time \in Nat /\ leg.alight_time \in Time
  BY <1>1 DEF Legs
<1>5. CASE IsRideLeg(leg)
  <2>1. PICK x \in Rides(graph) : leg = RideLeg(x)
    BY <1>5 DEF IsRideLeg
  <2>2. /\ x.r \in 1 .. Len(graph.routes) /\ x.t \in DOMAIN graph.routes[x.r].trips
        /\ x.i \in DOMAIN graph.routes[x.r].stops /\ x.j \in DOMAIN graph.routes[x.r].stops
        /\ x.i < x.j /\ DepartureOf(graph, x) \in Time
    BY GraphIsATimetable, RideFields
  <2>3. /\ leg.route_id = x.r /\ leg.board_stop = graph.routes[x.r].stops[x.i]
        /\ leg.alight_stop = graph.routes[x.r].stops[x.j]
        /\ leg.board_time = graph.routes[x.r].trips[x.t][x.i].dep_sec
        /\ leg.alight_time = graph.routes[x.r].trips[x.t][x.j].arr_sec
        /\ leg.board_time = DepartureOf(graph, x)
    BY <2>1 DEF RideLeg, BoardedAt, LeftAt, DepartureOf, ArrivalOf
  <2>4. IsBusLeg(graph, made)
    BY <1>3, <2>2, <2>3, Zenon DEF IsBusLeg
  <2>5. leg.route_id \in Time
    <3>1. Len(graph.routes) \in 0 .. FOOTPATH_ROUTE_ID - 1
      BY RouteFields
    <3> QED
      BY <2>2, <2>3, <3>1, SMTT(30)
  <2> QED
    BY <1>2, <1>4, <2>2, <2>3, <2>4, <2>5 DEF IsLeg, made, par
<1>6. CASE IsFootLeg(leg)
  <2> DEFINE w == graph.walk[leg.board_stop][leg.alight_stop]
  <2>1. /\ leg.route_id = FOOTPATH_ROUTE_ID /\ leg.alight_stop \in DOMAIN graph.walk[leg.board_stop]
        /\ leg.alight_time = leg.board_time + w
    BY <1>6 DEF IsFootLeg
  <2>2. w \in Nat
    BY <1>4, <2>1, WalkFields
  <2>3. leg.board_time \in Time /\ leg.route_id \in Time
    <3> HIDE DEF w
    <3> QED
      BY <1>4, <2>1, <2>2
  <2>4. leg.alight_time = (leg.board_time + w) % W
    <3> HIDE DEF w
    <3>1. leg.board_time + w \in 0 .. W - 1
      BY <1>4, <2>1
    <3>2. (leg.board_time + w) % W = leg.board_time + w
      BY <3>1
    <3> QED
      BY <2>1, <3>2
  <2>5. IsWalkLeg(graph, made)
    BY <1>3, <2>1, <2>4 DEF IsWalkLeg
  <2> QED
    BY <1>2, <1>4, <2>3, <2>5 DEF IsLeg, made, par
<1> QED
  BY <1>1, <1>5, <1>6

(* Too late a departure reaches nothing.                                   *)
LEMMA NothingOnOffer ==
  ASSUME EngineTypeOK, LabelsAreSound, departure_time >= INF
  PROVE  \A s \in Stops : ~Reached(s)
<1> TAKE s \in Stops
<1>1. labels.earliest_arrival[s] \in Nat /\ departure_time \in Nat
  BY LabelFields DEF EngineTypeOK
<1>2. CASE labels.leg[s] = NoLeg
  BY <1>1, <1>2 DEF LabelsAreSound, Reached
<1>3. CASE labels.leg[s] # NoLeg
  <2>1. departure_time < INF
    BY <1>3 DEF LabelsAreSound, LegIsSound
  <2> QED
    BY <1>1, <2>1
<1> QED
  BY <1>2, <1>3

LEMMA LabelsAreWords ==
  ASSUME EngineTypeOK, LabelsAreSound, departure_time < INF
  PROVE  \A s \in Stops : labels.earliest_arrival[s] \in Time
<1> TAKE s \in Stops
<1>1. labels.earliest_arrival[s] \in Nat /\ departure_time \in Nat
  BY LabelFields DEF EngineTypeOK
<1>2. CASE labels.leg[s] = NoLeg
  BY <1>1, <1>2 DEF LabelsAreSound
<1>3. CASE labels.leg[s] # NoLeg
  <2>1. Reached(s)
    BY <1>3 DEF LabelsAreSound, LegIsSound
  <2> QED
    BY <1>1, <2>1 DEF Reached
<1> QED
  BY <1>2, <1>3

LEMMA StepImproves ==
  ASSUME EngineTypeOK, LabelsAreSound, EngineStep, departure_time < INF
  PROVE  Promise!Improve
<1> DEFINE new == labels'.earliest_arrival
           old == labels.earliest_arrival
<1>1. /\ EngineTypeOK' /\ LabelsAreSound' /\ LabelsFall
      /\ UNCHANGED <<graph, source_stop, departure_time>>
  BY StepEngineTypes, StepSound, StepFalls, EngineStepKeeps
<1>2. /\ \A s \in Stops : old[s] \in Time /\ new[s] \in Time
      /\ labels \in Labels /\ labels' \in Labels /\ GraphOK
  <2>1. \A s \in Stops : old[s] \in Time
    BY LabelsAreWords
  <2>2. ASSUME NEW s \in Stops PROVE new[s] \in Time
    <3>1. Kept(labels, labels', s) \/ CameDown(labels, labels', Offered, s)
      BY <1>1 DEF LabelsFall
    <3>2. new[s] \in Nat /\ old[s] \in Time
      BY <1>1, <2>1, LabelFields DEF LabelsFall
    <3> QED
      BY <3>1, <3>2 DEF Kept, CameDown
  <2> QED
    BY <1>1, <2>1, <2>2 DEF EngineTypeOK
<1>3. labels'.earliest_arrival \in [Stops -> Time]
  BY <1>2 DEF Labels
<1>4. ASSUME NEW s \in Stops PROVE Promise!Lowers(s) \/ Promise!Keeps(s)
  <2>1. Kept(labels, labels', s) \/ CameDown(labels, labels', Offered, s)
    BY <1>1 DEF LabelsFall
  <2>2. CASE Kept(labels, labels', s)
    <3>1. Promise!Keeps(s)
      BY <2>2 DEF Kept, Promise!Keeps, ParentOf
    <3> QED
      BY <3>1
  <2>3. CASE CameDown(labels, labels', Offered, s)
    <3> DEFINE leg == labels'.leg[s]
    <3>1. leg \in Offered /\ leg.alight_stop = s /\ leg.alight_time = new[s] /\ new[s] < old[s]
      BY <2>3 DEF CameDown
    <3> HIDE DEF leg
    <3>2. leg.alight_time < INF
      BY <1>2, <3>1
    <3>3. /\ ParentOf(leg) = [stop |-> leg.board_stop, route |-> leg.route_id,
                              board |-> leg.board_time, alight |-> leg.alight_time]
          /\ leg.board_stop \in Stops /\ leg.route_id \in Time
          /\ leg.board_time \in Time /\ leg.alight_time \in Time
          /\ IsLeg(graph, LegFrom(ParentOf(leg), leg.alight_stop))
      BY <1>2, <3>1, <3>2, OfferedIsALeg
    <3>4. Parent'[s] = ParentOf(leg)
      BY DEF Parent, leg, ParentOf
    <3>5. Promise!LegTo(Parent', s) = LegFrom(ParentOf(leg), leg.alight_stop)
      BY <3>1, <3>4 DEF Promise!LegTo, LegFrom
    <3>6. old[leg.board_stop] <= leg.board_time
      BY <3>1 DEF Offered
    <3>7. /\ Parent'[s] \in Promise!Parents /\ Parent'[s].stop \in Promise!Stops
          /\ Promise!IsLeg(graph, Promise!LegTo(Parent', s))
          /\ new[s] = Parent'[s].alight /\ old[Parent'[s].stop] <= Parent'[s].board
      BY <3>1, <3>3, <3>4, <3>5, <3>6, SameTerms DEF Promise!Parents
    <3>8. Promise!Lowers(s)
      BY <3>1, <3>7 DEF Promise!Lowers, Parent
    <3> QED
      BY <3>8
  <2> QED
    BY <2>1, <2>2, <2>3
<1> QED
  BY <1>1, <1>3, <1>4, SameTerms DEF Promise!Improve

LEMMA TooLateToImprove ==
  ASSUME EngineTypeOK, LabelsAreSound, EngineStep, departure_time >= INF
  PROVE  UNCHANGED Promise!vars
<1>1. LabelsFall /\ UNCHANGED <<graph, source_stop, departure_time>> /\ labels \in Labels
  BY StepFalls, EngineStepKeeps DEF EngineTypeOK
<1>2. ASSUME NEW s \in Stops PROVE Kept(labels, labels', s)
  <2>1. Kept(labels, labels', s) \/ CameDown(labels, labels', Offered, s)
    BY <1>1 DEF LabelsFall
  <2>2. Offered = {}
    BY NothingOnOffer DEF Offered, Legs
  <2> QED
    BY <2>1, <2>2 DEF CameDown
<1>3. labels'.earliest_arrival = labels.earliest_arrival
  BY <1>1, <1>2 DEF LabelsFall, Kept, Labels
<1>4. \A s \in Stops : labels'.leg[s] = labels.leg[s]
  BY <1>2 DEF Kept
<1>5. Parent' = Parent
  BY <1>4 DEF Parent, ParentOf
<1> QED
  BY <1>1, <1>3, <1>5 DEF Promise!vars, Parent

LEMMA NewLabels ==
  ASSUME NEW s \in Nat, NEW t \in Nat, NEW d \in Nat, PlanRoute(s, t, d)
  PROVE  Promise!NoSearch \/ Promise!NewSearch
<1> DEFINE refused == s = t \/ s \notin Stops \/ t \notin Stops
<1>1. /\ graph' = graph /\ source_stop' = s /\ departure_time' = d
      /\ labels' = IF refused THEN Unlabelled ELSE [Unlabelled EXCEPT !.earliest_arrival[s] = d]
  BY DEF PlanRoute
<1>2. \A x \in Stops : labels'.leg[x] = NoLeg
  BY <1>1 DEF Unlabelled
<1>3. Parent' = [x \in Stops |-> [stop |-> INF, route |-> INF, board |-> 0, alight |-> 0]]
  BY <1>2 DEF Parent, ParentOf
<1>4. Parent' = Promise!NoParents
  BY <1>3, SameTerms DEF Promise!NoParents, Promise!NoParent
<1>5. CASE refused
  <2>1. labels'.earliest_arrival = Promise!Unreached
    BY <1>1, <1>5, SameTerms DEF Promise!Unreached, Unlabelled
  <2> QED
    BY <1>1, <1>4, <2>1 DEF Promise!NoSearch, Parent
<1>6. CASE ~refused
  <2>1. labels'.earliest_arrival = [[x \in Stops |-> INF] EXCEPT ![s] = d]
    BY <1>1, <1>6 DEF Unlabelled
  <2>2. labels'.earliest_arrival = [Promise!Unreached EXCEPT ![s] = d]
    BY <2>1, SameTerms DEF Promise!Unreached
  <2> QED
    BY <1>1, <1>4, <1>6, <2>2, SameTerms DEF Promise!NewSearch, Parent
<1> QED
  BY <1>5, <1>6

(* The rounds, scans and walks of plan_route are a label search like the   *)
(* router's: a call starts one, a step lowers the earliest_arrival of      *)
(* stops by legs that somebody already at the parent_stop can catch, or    *)
(* does not touch them.                                                    *)
THEOREM EngineImplementsLabelSearch == RouteSpec => KeepsPromise
<1>1. RouteInit => Promise!Init
  <2> SUFFICES ASSUME RouteInit PROVE Promise!Init
    OBVIOUS
  <2>1. graph \in Graphs /\ source_stop = INF /\ departure_time = 0 /\ labels = Unlabelled
    BY DEF RouteInit, EngineInit
  <2>2. labels.earliest_arrival = Promise!Unreached
    BY <2>1, SameTerms DEF Promise!Unreached, Unlabelled
  <2>3. \A s \in Stops : labels.leg[s] = NoLeg
    BY <2>1 DEF Unlabelled
  <2>4. Parent = [x \in Stops |-> [stop |-> INF, route |-> INF, board |-> 0, alight |-> 0]]
    BY <2>3 DEF Parent, ParentOf
  <2>5. Parent = Promise!NoParents
    BY <2>4, SameTerms DEF Promise!NoParents, Promise!NoParent
  <2> QED
    BY <2>1, <2>2, <2>5, SameTerms DEF Promise!Init, Parent
<1>2. RouteInv /\ [RouteNext]_routeVars => [Promise!Next]_(Promise!vars)
  <2> SUFFICES ASSUME RouteInv, RouteNext \/ UNCHANGED routeVars
               PROVE  Promise!Next \/ UNCHANGED Promise!vars
    OBVIOUS
  <2>1. ASSUME UNCHANGED engineVars PROVE UNCHANGED Promise!vars
    BY <2>1 DEF engineVars, call, Promise!vars, ParentOf
  <2>2. CASE Search
    <3>1. /\ PlanRoute(source, target, current_search_dep)
          /\ source \in Nat /\ target \in Nat /\ current_search_dep \in Nat
      BY <2>2 DEF Search, RouteInv, RequestTypeOK
    <3> QED
      BY <3>1, NewLabels DEF Promise!Next
  <2>3. CASE Plan
    <3>1. EngineStep /\ EngineTypeOK /\ LabelsAreSound
      BY <2>3 DEF Plan, RouteInv, EngineInv
    <3>2. departure_time < INF \/ departure_time >= INF
      BY <3>1 DEF EngineTypeOK
    <3> QED
      BY <3>1, <3>2, StepImproves, TooLateToImprove DEF Promise!Next
  <2>4. CASE ~(Search \/ Plan)
    BY <2>1, <2>4 DEF RouteNext, HandleRequest, TakeOption, NoOption, Answer, routeVars
  <2> QED
    BY <2>2, <2>3, <2>4
<1> QED
  BY <1>1, <1>2, RouteIsSound, PTL DEF RouteSpec, KeepsPromise, Promise!Spec

-----------------------------------------------------------------------------
(***************************************************************************)
(* In an orderly timetable the search finds the earliest arrivals.         *)
(***************************************************************************)
(* What the steps of such a search may rely on.                            *)
EngineReady == EngineInv /\ Orderly /\ departure_time < INF

LEMMA StepLabels ==
  ASSUME EngineReady, EngineStep
  PROVE  /\ labels.earliest_arrival \in [Stops -> Time]
         /\ labels'.earliest_arrival \in [Stops -> Time]
         /\ \A s \in Stops : labels'.earliest_arrival[s] <= labels.earliest_arrival[s]
         /\ IsTimetable(graph) /\ source_stop \in Stops /\ departure_time \in Time
         /\ UNCHANGED <<graph, source_stop, target_stop, departure_time>>
         /\ labels \in Labels /\ labels' \in Labels
<1> DEFINE old == labels.earliest_arrival
           new == labels'.earliest_arrival
<1>1. EngineTypeOK /\ LabelsAreSound /\ departure_time < INF
  BY DEF EngineReady, EngineInv
<1>2. /\ LabelsFall /\ Searching
      /\ UNCHANGED <<graph, source_stop, target_stop, departure_time>>
  BY <1>1, StepFalls, EngineStepKeeps
<1>3. labels \in Labels /\ labels' \in Labels
  BY <1>1, <1>2 DEF EngineTypeOK, LabelsFall
<1>4. \A s \in Stops : old[s] \in Time
  BY <1>1, LabelsAreWords
<1>5. ASSUME NEW s \in Stops PROVE new[s] \in Time /\ new[s] <= old[s]
  <2>1. Kept(labels, labels', s) \/ CameDown(labels, labels', Offered, s)
    BY <1>2 DEF LabelsFall
  <2>2. new[s] \in Nat /\ old[s] \in Time
    BY <1>3, <1>4, LabelFields
  <2> QED
    BY <2>1, <2>2 DEF Kept, CameDown
<1>6. old \in [Stops -> Time] /\ new \in [Stops -> Time]
  BY <1>3, <1>4, <1>5 DEF Labels
<1>7. IsTimetable(graph) /\ source_stop \in Stops /\ departure_time \in Time
  BY <1>1, <1>2, GraphIsATimetable DEF EngineTypeOK
<1> QED
  BY <1>2, <1>3, <1>5, <1>6, <1>7

LEMMA BestWithIs ==
  ASSUME EngineReady, Searching
  PROVE  /\ \A n \in 0 .. 4 : BestWith(n) \in [Stops -> Time]
         /\ BestWith(0) = Walked(graph, StartingAt(source_stop, departure_time))
         /\ \A n \in 0 .. 3 : BestWith(n + 1) = Later(graph, BestWith(n))
         /\ \A n \in 0 .. 3 : BestWith(n + 1) = BestWith(n) => BestWith(4) = BestWith(n)
<1> DEFINE g == graph
           s == source_stop
           d == departure_time
<1>1. IsTimetable(g) /\ s \in Stops /\ d \in Time
  BY GraphIsATimetable DEF EngineReady, EngineInv, EngineTypeOK
<1> HIDE DEF g, s, d
<1>2. \A n \in 0 .. 4 : Best(g, s, d)[n] \in [Stops -> Time]
  BY <1>1, BestTypes
<1>3. Best(g, s, d)[0] = Walked(g, StartingAt(s, d))
  BY BestFirst
<1>4. \A n \in 0 .. 3 : Best(g, s, d)[n + 1] = Later(g, Best(g, s, d)[n])
  BY BestOneMore
<1>5. ASSUME NEW n \in 0 .. 3, Best(g, s, d)[n + 1] = Best(g, s, d)[n]
      PROVE  Best(g, s, d)[4] = Best(g, s, d)[n]
  BY <1>5, BestStays
<1> QED
  BY <1>2, <1>3, <1>4, <1>5, Zenon DEF BestWith, g, s, d

(* The walks out of the source give the reference's first labels.          *)
LEMMA FirstWalksAreBest ==
  ASSUME EngineReady, FirstWalks
  PROVE  /\ labels'.earliest_arrival = BestWith(0)
         /\ WalkedOut(graph, labels'.earliest_arrival)
         /\ OthersCount(graph, marked_stops', labels'.earliest_arrival, labels'.earliest_arrival)
<1> DEFINE d == departure_time
           s == source_stop
           w == graph.walk[s]
           old == labels.earliest_arrival
           new == labels'.earliest_arrival
           legs == FootLegs(labels, s)
<1>1. EngineStep /\ EngineTypeOK /\ LabelsAreSound /\ pc = "first_walks" /\ Searching
  BY DEF EngineStep, FirstWalks, EngineReady, EngineInv, Searching
<1>2. /\ IsTimetable(graph) /\ s \in Stops /\ d \in Time /\ labels \in Labels
      /\ new \in [Stops -> Time] /\ GraphOK /\ WalksClosed(graph)
  BY <1>1, StepLabels DEF EngineReady, Orderly, EngineTypeOK
<1>3. /\ LoweredBy(labels, labels', legs)
      /\ \A x \in Stops : old[x] = IF x = s THEN d ELSE INF
      /\ labels.next_marked = {}
  <2>1. old = StartingAt(s, d)
    BY <1>1, AtFirst
  <2>2. \A x \in Stops : StartingAt(s, d)[x] = IF x = s THEN d ELSE INF
    BY DEF StartingAt
  <2> QED
    BY <1>1, <2>1, <2>2, AtFirst, FirstWalksLower
<1>4. \A v \in DOMAIN w : new[v] <= old[s] + w[v]
  <2>1. labels' = WithWalksFrom(labels, s)
    BY DEF FirstWalks
  <2> QED
    BY <1>2, <2>1, WalkedFromIs
<1>5. \A v \in DOMAIN w : v \in Stops /\ v # s /\ w[v] \in Nat
  BY <1>2, WalkFields
<1>6. ASSUME NEW x \in Stops, CameDown(labels, labels', legs, x)
      PROVE  x \in DOMAIN w /\ new[x] = d + w[x] /\ new[x] < old[x]
  <2>1. PICK v \in DOMAIN w : labels'.leg[x] = FootLeg(labels, s, v)
    BY <1>6 DEF CameDown, FootLegs
  <2>2. FootLeg(labels, s, v).alight_stop = v /\ FootLeg(labels, s, v).alight_time = old[s] + w[v]
    BY DEF FootLeg
  <2> QED
    BY <1>2, <1>3, <1>6, <2>1, <2>2 DEF CameDown
<1> HIDE DEF new, old, w, legs
<1>7. ASSUME NEW x \in Stops PROVE new[x] = FirstLabel(w, s, d, x)
  <2>1. \/ new[x] = old[x]
        \/ CameDown(labels, labels', legs, x)
    BY <1>3 DEF LoweredBy, Kept, new, old
  <2>2. new[x] \in Time /\ d \in Nat /\ d < INF /\ old[s] = d
    BY <1>2, <1>3 DEF EngineReady
  <2>3. CASE x = s
    BY <1>3, <1>5, <1>6, <2>1, <2>3 DEF FirstLabel
  <2>4. CASE x # s /\ x \in DOMAIN w
    <3>1. new[x] <= d + w[x] /\ w[x] \in Nat /\ old[x] = INF
      BY <1>3, <1>4, <1>5, <2>2, <2>4
    <3> QED
      BY <1>6, <2>1, <2>2, <2>4, <3>1 DEF FirstLabel
  <2>5. CASE x # s /\ x \notin DOMAIN w
    BY <1>3, <1>6, <2>1, <2>5 DEF FirstLabel
  <2> QED
    BY <2>3, <2>4, <2>5
<1>8. new = Walked(graph, StartingAt(s, d))
  <2> DEFINE walked == Walked(graph, StartingAt(s, d))
  <2>1. walked \in [Stops -> Time] /\ \A x \in Stops : walked[x] = FirstLabel(w, s, d, x)
    BY <1>2, FirstLabels DEF w
  <2> HIDE DEF walked
  <2>2. \A x \in Stops : new[x] = walked[x]
    BY <1>7, <2>1
  <2>3. new = walked
    BY <1>2, <2>1, <2>2
  <2> QED
    BY <2>3 DEF walked
<1>9. WalkedOut(graph, new)
  BY <1>2, <1>8, FirstLabelsAreWalkedOut
<1>10. OthersCount(graph, marked_stops', new, new)
  <2>1. \A x \in Stops : x \in labels'.next_marked <=> new[x] # old[x]
    BY <1>3 DEF LoweredBy, new, old
  <2>2. marked_stops' = {s} \cup labels'.next_marked
    BY DEF FirstWalks
  <2>3. ASSUME NEW x \in Rides(graph), Caught(graph, x, new)
        PROVE  BoardedAt(graph, x) \in marked_stops'
    <3>1. BoardedAt(graph, x) \in Stops /\ new[BoardedAt(graph, x)] # INF
      BY <1>2, <2>3, RideFields DEF Caught
    <3> QED
      BY <1>3, <2>1, <2>2, <3>1
  <2> QED
    BY <2>3 DEF OthersCount
<1>11. new = BestWith(0)
  BY <1>1, <1>8, BestWithIs
<1> QED
  BY <1>9, <1>10, <1>11 DEF new

(* Labels that come down by legs that explain them.                        *)
LEMMA RoundGoesOnSoundly ==
  ASSUME EngineReady, RoundIsSound, EngineStep, pc \in {"routes", "walks"},
         UNCHANGED <<k, prev_arrival, marked_stops>>,
         NEW legs, LoweredBy(labels, labels', legs),
         \A s \in Stops : CameDown(labels, labels', legs, s) =>
           IsExplained(graph, s, prev_arrival, labels'.earliest_arrival)
  PROVE  RoundIsSound'
<1> DEFINE old == labels.earliest_arrival
           new == labels'.earliest_arrival
           prev == prev_arrival
<1>1. /\ old \in [Stops -> Time] /\ new \in [Stops -> Time]
      /\ \A s \in Stops : new[s] <= old[s]
      /\ IsTimetable(graph) /\ UNCHANGED <<graph, source_stop, departure_time>>
  BY StepLabels
<1>2. /\ prev = BestWith(k) /\ WalkedOut(graph, prev)
      /\ \A s \in Stops : /\ old[s] <= prev[s]
                          /\ s \in labels.next_marked <=> old[s] # prev[s]
                          /\ IsExplained(graph, s, prev, old)
      /\ OthersCount(graph, marked_stops, prev, old)
  BY DEF RoundIsSound
<1>3. prev \in [Stops -> Time]
  <2>1. Searching /\ k \in 0 .. 4
    BY DEF Searching, EngineReady, EngineInv, EngineTypeOK, MAX_ROUNDS
  <2> QED
    BY <1>2, <2>1, BestWithIs
<1>4. /\ \A s \in Stops : new[s] = old[s] \/ CameDown(labels, labels', legs, s)
      /\ \A s \in Stops : s \in labels'.next_marked <=> s \in labels.next_marked \/ new[s] # old[s]
      /\ \A s \in Stops : CameDown(labels, labels', legs, s) => new[s] < old[s]
  BY DEF LoweredBy, Kept, CameDown
<1> HIDE DEF old, new
<1>5. /\ \A s \in Stops : IsExplained(graph, s, prev, old) /\ new[s] = old[s] =>
             IsExplained(graph, s, prev, new)
      /\ OthersCount(graph, marked_stops, prev, new)
  <2> DEFINE g == graph
             p == prev
             m == marked_stops
  <2>1. /\ IsTimetable(g) /\ p \in [Stops -> Time] /\ old \in [Stops -> Time] /\ new \in [Stops -> Time]
        /\ \A s \in Stops : new[s] <= old[s]
    BY <1>1, <1>3
  <2> HIDE DEF g, p, m
  <2>2. /\ \A s \in Stops : IsExplained(g, s, p, old) /\ new[s] = old[s] => IsExplained(g, s, p, new)
        /\ OthersCount(g, m, p, old) => OthersCount(g, m, p, new)
    BY <2>1, FallingLabelsCount
  <2> QED
    BY <1>2, <2>2 DEF g, p, m
<1>6. ASSUME NEW s \in Stops
      PROVE  /\ new[s] <= prev[s]
             /\ s \in labels'.next_marked <=> new[s] # prev[s]
             /\ IsExplained(graph, s, prev, new)
  <2>1. /\ old[s] \in Nat /\ new[s] \in Nat /\ prev[s] \in Nat /\ old[s] <= prev[s] /\ new[s] <= old[s]
        /\ s \in labels.next_marked <=> old[s] # prev[s]
        /\ IsExplained(graph, s, prev, old)
    BY <1>1, <1>2, <1>3
  <2>2. IsExplained(graph, s, prev, new)
    BY <1>4, <1>5, <2>1 DEF new
  <2> QED
    BY <1>4, <2>1, <2>2
<1>7. BestWith(k)' = BestWith(k)
  BY <1>1 DEF BestWith
<1> QED
  BY <1>1, <1>2, <1>5, <1>6, <1>7, Zenon DEF RoundIsSound, new

LEMMA StepRoundIsSound ==
  ASSUME EngineReady, BeforeRound, RoundIsSound, WalksGoOn, EngineStep
  PROVE  RoundIsSound'
<1> DEFINE old == labels.earliest_arrival
           new == labels'.earliest_arrival
<1>1. /\ old \in [Stops -> Time] /\ new \in [Stops -> Time]
      /\ \A s \in Stops : new[s] <= old[s]
      /\ IsTimetable(graph) /\ UNCHANGED <<graph, source_stop, departure_time>>
      /\ EngineTypeOK /\ LabelsAreSound /\ GraphOK /\ labels \in Labels
      /\ WalksClosed(graph)
  BY StepLabels DEF EngineReady, EngineInv, EngineTypeOK, Orderly
<1>2. CASE BeginRound
  <2>1. /\ pc = "round" /\ prev_arrival' = old /\ labels'.next_marked = {} /\ new = old
        /\ UNCHANGED <<k, marked_stops>>
    <3>1. labels' = [labels EXCEPT !.next_marked = {}]
      BY <1>2 DEF BeginRound
    <3> QED
      BY <1>1, <1>2, <3>1 DEF BeginRound, Labels
  <2>2. old = BestWith(k) /\ WalkedOut(graph, old) /\ OthersCount(graph, marked_stops, old, old)
    BY <2>1 DEF BeforeRound
  <2>3. \A s \in Stops : old[s] <= old[s] /\ IsExplained(graph, s, old, old)
    BY <1>1 DEF IsExplained
  <2>4. BestWith(k)' = BestWith(k)
    BY <1>1, <2>1 DEF BestWith
  <2> QED
    BY <1>1, <2>1, <2>2, <2>3, <2>4 DEF RoundIsSound
<1>3. CASE ScanRoute
  <2>1. PICK r \in todo : LoweredBy(labels, labels', RideLegs(r))
    BY <1>1, <1>3, ScanLowers
  <2>2. ASSUME NEW s \in Stops, CameDown(labels, labels', RideLegs(r), s)
        PROVE  IsExplained(graph, s, prev_arrival, new)
    <3>1. PICK x \in RidesOn(r) : labels'.leg[s] = RideLeg(x)
      BY <2>2 DEF CameDown, RideLegs
    <3>2. x \in Rides(graph) /\ Caught(graph, x, prev_arrival)
      BY DEF RidesOn
    <3>3. s = LeftAt(graph, x) /\ new[s] = ArrivalOf(graph, x)
      BY <2>2, <3>1 DEF CameDown, RideLeg
    <3> QED
      BY <3>2, <3>3 DEF IsExplained, CameBy
  <2>3. pc \in {"routes", "walks"} /\ UNCHANGED <<k, prev_arrival, marked_stops>>
    BY <1>3 DEF ScanRoute
  <2> QED
    BY <2>1, <2>2, <2>3, RoundGoesOnSoundly
<1>4. CASE RoutesDone
  <2>1. pc \in {"routes", "walks"} /\ UNCHANGED <<k, prev_arrival, marked_stops, labels>>
    BY <1>4 DEF RoutesDone
  <2>2. LoweredBy(labels, labels', {})
    BY <1>1, <2>1, LoweredNot
  <2>3. \A s \in Stops : ~CameDown(labels, labels', {}, s)
    BY DEF CameDown
  <2> QED
    BY <2>1, <2>2, <2>3, RoundGoesOnSoundly
<1>5. CASE WalkOn
  <2>1. PICK u \in todo :
          /\ u \in Stops
          /\ LoweredBy(labels, labels', FootLegs(labels, u))
          /\ \A v \in DOMAIN graph.walk[u] : new[v] <= old[u] + graph.walk[u][v]
    BY <1>1, <1>5, WalkOnLowers
  <2>2. pc = "walks" /\ UNCHANGED <<k, prev_arrival, marked_stops>>
    BY <1>5 DEF WalkOn
  <2>3. /\ IsExplained(graph, u, prev_arrival, old) /\ old[u] # prev_arrival[u]
    BY <2>1, <2>2 DEF RoundIsSound, WalksGoOn
  <2>4. ASSUME NEW s \in Stops, CameDown(labels, labels', FootLegs(labels, u), s)
        PROVE  s \in DOMAIN graph.walk[u] /\ s # u /\ new[s] = old[u] + graph.walk[u][s] /\ new[s] < old[s]
    <3>1. PICK v \in DOMAIN graph.walk[u] : labels'.leg[s] = FootLeg(labels, u, v)
      BY <2>4 DEF CameDown, FootLegs
    <3>2. /\ FootLeg(labels, u, v).alight_stop = v
          /\ FootLeg(labels, u, v).alight_time = old[u] + graph.walk[u][v]
      BY DEF FootLeg
    <3>3. v # u
      BY <1>1, <2>1, WalkFields
    <3> QED
      BY <2>4, <3>1, <3>2, <3>3 DEF CameDown
  <2>5. new[u] = old[u]
    BY <2>1, <2>4 DEF LoweredBy, Kept
  <2>6. ASSUME NEW s \in Stops, CameDown(labels, labels', FootLegs(labels, u), s)
        PROVE  IsExplained(graph, s, prev_arrival, new)
    <3> DEFINE g == graph
               prev == prev_arrival
    <3>1. s \in DOMAIN g.walk[u] /\ new[s] = old[u] + g.walk[u][s] /\ new[s] < old[s]
      BY <2>4, <2>6
    <3>2. /\ IsTimetable(g) /\ WalksClosed(g) /\ old \in [Stops -> Time] /\ new \in [Stops -> Time]
          /\ IsExplained(g, u, prev, old) /\ old[u] # prev[u]
          /\ \A v \in DOMAIN g.walk[u] : new[v] <= old[u] + g.walk[u][v]
      BY <1>1, <2>1, <2>3
    <3> HIDE DEF g, prev, old, new
    <3>3. IsExplained(g, s, prev, new)
      BY <2>1, <2>5, <3>1, <3>2, FootIsExplained
    <3> QED
      BY <3>3 DEF g, prev, new
  <2> QED
    BY <2>1, <2>2, <2>6, RoundGoesOnSoundly
<1>6. CASE FirstWalks \/ EndRound \/ ReturnPlan
  BY <1>6 DEF FirstWalks, EndRound, ReturnPlan, RoundIsSound
<1> QED
  BY <1>2, <1>3, <1>4, <1>5, <1>6 DEF EngineStep

(* Labels that have come down count the rides they counted before.         *)
LEMMA RidesStillCount ==
  ASSUME EngineReady, EngineStep
  PROVE  \A x \in Rides(graph) :
           /\ RideCounts(graph, x, labels.earliest_arrival) => RideCounts(graph, x, labels'.earliest_arrival)
           /\ WalksCount(graph, x, labels.earliest_arrival) => WalksCount(graph, x, labels'.earliest_arrival)
<1> DEFINE g == graph
           a == labels.earliest_arrival
           b == labels'.earliest_arrival
<1>1. /\ IsTimetable(g) /\ a \in [Stops -> Time] /\ b \in [Stops -> Time]
      /\ \A s \in Stops : b[s] <= a[s]
  BY StepLabels
<1> HIDE DEF g, a, b
<1>2. \A x \in Rides(g) : /\ RideCounts(g, x, a) => RideCounts(g, x, b)
                          /\ WalksCount(g, x, a) => WalksCount(g, x, b)
  BY <1>1, FallingLabelsCount
<1> QED
  BY <1>2, Zenon DEF g, a, b

LEMMA RideIsOnARouteOf ==
  ASSUME GraphOK, NEW x \in Rides(graph)
  PROVE  x.r \in graph.stop_to_routes[BoardedAt(graph, x)]
<1>1. /\ x.r \in 1 .. Len(graph.routes) /\ x.i \in DOMAIN graph.routes[x.r].stops
      /\ BoardedAt(graph, x) \in Stops
  BY GraphIsATimetable, RideFields
<1>2. BoardedAt(graph, x) \in ToSet(graph.routes[x.r].stops)
  BY <1>1 DEF BoardedAt, ToSet
<1>3. graph.stop_to_routes[BoardedAt(graph, x)] =
        {r \in 1 .. Len(graph.routes) : BoardedAt(graph, x) \in ToSet(graph.routes[r].stops)}
  BY <1>1 DEF GraphOK, IsIndexOf
<1> QED
  BY <1>1, <1>2, <1>3

LEMMA StepScansCount ==
  ASSUME EngineReady, ScansCount, EngineStep
  PROVE  ScansCount'
<1>1. /\ EngineTypeOK /\ LabelsAreSound /\ GraphOK /\ NoOvertaking(graph) /\ graph' = graph
  BY EngineStepKeeps DEF EngineReady, EngineInv, EngineTypeOK, Orderly
<1>2. CASE BeginRound
  <2>1. /\ labels'.next_marked = {} /\ UNCHANGED marked_stops
        /\ todo' = UNION {graph.stop_to_routes[s] : s \in marked_stops}
    <3>1. labels' = [labels EXCEPT !.next_marked = {}]
      BY <1>2 DEF BeginRound
    <3> QED
      BY <1>1, <1>2, <3>1 DEF BeginRound, EngineTypeOK, Labels
  <2>2. ASSUME NEW x \in Rides(graph), BoardedAt(graph, x) \in marked_stops
        PROVE  x.r \in todo'
    BY <1>1, <2>1, <2>2, RideIsOnARouteOf
  <2> QED
    BY <1>1, <2>1, <2>2 DEF ScansCount
<1>3. CASE ScanRoute
  <2>1. PICK r \in todo :
          /\ r \in 1 .. Len(graph.routes) /\ todo' = todo \ {r}
          /\ LoweredBy(labels, labels', RideLegs(r))
          /\ \A x \in RidesOn(r) : RideCounts(graph, x, labels'.earliest_arrival)
    BY <1>1, <1>3, ScanLowers
  <2>2. pc = "routes" /\ UNCHANGED <<prev_arrival, marked_stops>>
    BY <1>3 DEF ScanRoute
  <2>3. /\ \A s \in labels.next_marked : labels.leg[s].route_id # FOOTPATH_ROUTE_ID
        /\ \A x \in Rides(graph) :
             /\ Caught(graph, x, prev_arrival) /\ BoardedAt(graph, x) \in marked_stops
             /\ x.r \notin todo
             => RideCounts(graph, x, labels.earliest_arrival)
    BY <2>2 DEF ScansCount
  <2>4. ASSUME NEW s \in labels'.next_marked
        PROVE  labels'.leg[s].route_id # FOOTPATH_ROUTE_ID
    <3>1. s \in Stops
      <4>1. labels' \in Labels
        BY <2>1 DEF LoweredBy
      <4> QED
        BY <4>1 DEF Labels
    <3>2. CASE CameDown(labels, labels', RideLegs(r), s)
      <4>1. PICK x \in RidesOn(r) : labels'.leg[s] = RideLeg(x)
        BY <3>2 DEF CameDown, RideLegs
      <4>2. x \in Rides(graph)
        BY DEF RidesOn
      <4> QED
        BY <1>1, <4>1, <4>2, RideLegRoute
    <3>3. CASE Kept(labels, labels', s)
      <4>1. s \in labels.next_marked
        BY <2>1, <3>3 DEF LoweredBy, Kept
      <4> QED
        BY <2>3, <3>3, <4>1 DEF Kept
    <3> QED
      BY <2>1, <3>1, <3>2, <3>3 DEF LoweredBy
  <2>5. ASSUME NEW x \in Rides(graph), Caught(graph, x, prev_arrival),
               BoardedAt(graph, x) \in marked_stops, x.r \notin todo'
        PROVE  RideCounts(graph, x, labels'.earliest_arrival)
    <3>1. CASE x.r = r
      <4>1. x \in RidesOn(r)
        BY <2>5, <3>1 DEF RidesOn
      <4> QED
        BY <2>1, <4>1
    <3>2. CASE x.r # r
      <4>1. RideCounts(graph, x, labels.earliest_arrival)
        BY <2>1, <2>3, <2>5, <3>2
      <4> QED
        BY <4>1, RidesStillCount
    <3> QED
      BY <3>1, <3>2
  <2> QED
    BY <1>1, <2>2, <2>4, <2>5 DEF ScansCount
<1>4. CASE pc' # "routes"
  BY <1>4 DEF ScansCount
<1> QED
  BY <1>2, <1>3, <1>4
     DEF EngineStep, FirstWalks, RoutesDone, WalkOn, EndRound, ReturnPlan

LEMMA StepWalksGoOn ==
  ASSUME EngineReady, RoundIsSound, ScansCount, WalksGoOn, EngineStep
  PROVE  WalksGoOn'
<1> DEFINE old == labels.earliest_arrival
           new == labels'.earliest_arrival
           prev == prev_arrival
<1>1. /\ EngineTypeOK /\ LabelsAreSound /\ GraphOK /\ graph' = graph
      /\ IsTimetable(graph) /\ old \in [Stops -> Time] /\ new \in [Stops -> Time]
  BY StepLabels DEF EngineReady, EngineInv, EngineTypeOK
<1>2. CASE RoutesDone
  <2>1. /\ pc = "routes" /\ todo = {}
        /\ UNCHANGED <<labels, prev_arrival>>
        /\ todo' = {s \in labels.next_marked : labels.leg[s].route_id # FOOTPATH_ROUTE_ID}
    BY <1>2 DEF RoutesDone
  <2>2. todo' = labels.next_marked
    BY <2>1 DEF ScansCount
  <2>3. /\ WalkedOut(graph, prev) /\ OthersCount(graph, marked_stops, prev, old)
        /\ \A s \in Stops : old[s] <= prev[s] /\ (s \in labels.next_marked <=> old[s] # prev[s])
    BY <2>1 DEF RoundIsSound
  <2>4. prev \in [Stops -> Time]
    <3>1. Searching /\ k \in 0 .. 4 /\ prev = BestWith(k)
      BY <2>1 DEF Searching, EngineReady, EngineInv, EngineTypeOK, MAX_ROUNDS, RoundIsSound
    <3> QED
      BY <3>1, BestWithIs
  <2>5. ASSUME NEW x \in Rides(graph), Caught(graph, x, prev)
        PROVE  RideCounts(graph, x, old)
    BY <2>1, <2>3, <2>5 DEF ScansCount, OthersCount
  <2>6. ASSUME NEW x \in Rides(graph), Caught(graph, x, prev), LeftAt(graph, x) \notin labels.next_marked
        PROVE  WalksCount(graph, x, old)
    <3>1. RideCounts(graph, x, old)
      BY <2>5, <2>6
    <3>2. LeftAt(graph, x) \in Stops
      BY <1>1, RideFields
    <3>3. old[LeftAt(graph, x)] = prev[LeftAt(graph, x)]
      BY <2>3, <2>6, <3>2
    <3> DEFINE g == graph
    <3>4. /\ IsTimetable(g) /\ WalkedOut(g, prev) /\ x \in Rides(g) /\ RideCounts(g, x, old)
          /\ old[LeftAt(g, x)] = prev[LeftAt(g, x)] /\ \A s \in Stops : old[s] <= prev[s]
      BY <1>1, <2>3, <3>1, <3>3
    <3> HIDE DEF g, old, prev
    <3>5. WalksCount(g, x, old)
      BY <1>1, <2>4, <3>4, OldWalksCount
    <3> QED
      BY <3>5 DEF g
  <2> QED
    BY <1>1, <2>1, <2>2, <2>5, <2>6 DEF WalksGoOn
<1>3. CASE WalkOn
  <2>1. PICK u \in todo :
          /\ u \in Stops /\ todo' = todo \ {u}
          /\ LoweredBy(labels, labels', FootLegs(labels, u))
          /\ \A v \in DOMAIN graph.walk[u] : new[v] <= old[u] + graph.walk[u][v]
    BY <1>1, <1>3, WalkOnLowers
  <2>2. pc = "walks" /\ UNCHANGED prev_arrival
    BY <1>3 DEF WalkOn
  <2>3. /\ todo \subseteq labels.next_marked
        /\ \A x \in Rides(graph) : Caught(graph, x, prev) =>
             /\ RideCounts(graph, x, old)
             /\ LeftAt(graph, x) \notin todo => WalksCount(graph, x, old)
    BY <2>2 DEF WalksGoOn
  <2>4. todo' \subseteq labels'.next_marked
    BY <2>1, <2>3 DEF LoweredBy
  <2>5. ASSUME NEW x \in Rides(graph), Caught(graph, x, prev)
        PROVE  /\ RideCounts(graph, x, new)
               /\ WalksCount(graph, x, old) => WalksCount(graph, x, new)
    BY <2>3, <2>5, RidesStillCount, Zenon
  <2>6. ASSUME NEW x \in Rides(graph), Caught(graph, x, prev), LeftAt(graph, x) = u
        PROVE  WalksCount(graph, x, new)
    <3> DEFINE g == graph
    <3>1. /\ IsTimetable(g) /\ x \in Rides(g) /\ RideCounts(g, x, old) /\ LeftAt(g, x) = u
          /\ \A v \in DOMAIN g.walk[u] : new[v] <= old[u] + g.walk[u][v]
      BY <1>1, <2>1, <2>3, <2>6
    <3> HIDE DEF g, old, new
    <3>2. WalksCount(g, x, new)
      BY <1>1, <2>1, <3>1, NewWalksCount
    <3> QED
      BY <3>2 DEF g
  <2>7. \A x \in Rides(graph) : Caught(graph, x, prev) =>
          /\ RideCounts(graph, x, new)
          /\ LeftAt(graph, x) \notin todo' => WalksCount(graph, x, new)
    BY <2>1, <2>3, <2>5, <2>6
  <2> QED
    BY <1>1, <2>2, <2>4, <2>7, Zenon DEF WalksGoOn
<1>4. CASE pc' # "walks"
  BY <1>4 DEF WalksGoOn
<1> QED
  BY <1>2, <1>3, <1>4
     DEF EngineStep, FirstWalks, BeginRound, ScanRoute, EndRound, ReturnPlan

(* What a round adds is one bus.                                           *)
LEMMA RoundAddsOneBus ==
  ASSUME EngineReady, RoundIsSound, WalksGoOn, EndRound
  PROVE  /\ k \in 0 .. 3
         /\ labels.earliest_arrival = BestWith(k + 1)
         /\ WalkedOut(graph, labels.earliest_arrival)
         /\ OthersCount(graph, labels.next_marked, labels.earliest_arrival, labels.earliest_arrival)
         /\ labels.next_marked = {} => labels.earliest_arrival = BestWith(k)
<1> DEFINE g == graph
           old == prev_arrival
           new == labels.earliest_arrival
           marked == labels.next_marked
<1>1. pc = "walks" /\ todo = {} /\ EngineStep /\ Searching /\ EngineTypeOK
  BY DEF EndRound, EngineStep, Searching, EngineReady, EngineInv
<1>2. k \in 0 .. 3
  BY <1>1 DEF EngineTypeOK, MAX_ROUNDS
<1>3. IsTimetable(g) /\ WalksClosed(g) /\ new \in [Stops -> Time]
  BY <1>1, StepLabels DEF EngineReady, Orderly
<1>4. /\ old = BestWith(k) /\ WalkedOut(g, old)
      /\ \A s \in Stops : new[s] <= old[s] /\ IsExplained(g, s, old, new)
      /\ \A s \in Stops : s \in marked <=> new[s] # old[s]
  BY <1>1 DEF RoundIsSound
<1>5. \A x \in Rides(g) : Caught(g, x, old) => RideCounts(g, x, new) /\ WalksCount(g, x, new)
  BY <1>1 DEF WalksGoOn
<1>6. old \in [Stops -> Time] /\ BestWith(k + 1) = Later(g, BestWith(k))
  <2>1. k \in 0 .. 4
    BY <1>2
  <2>2. BestWith(k) \in [Stops -> Time]
    BY <1>1, <2>1, BestWithIs
  <2>3. BestWith(k + 1) = Later(graph, BestWith(k))
    BY <1>1, <1>2, BestWithIs
  <2> QED
    BY <1>4, <2>2, <2>3
<1> HIDE DEF g, old, new, marked
<1>7. OneMoreBus(g, old, new)
  BY <1>4, <1>5 DEF OneMoreBus
<1>8. new = Later(g, old)
  BY <1>3, <1>6, <1>7, OneMoreBusIsLater
<1>9. WalkedOut(g, new)
  BY <1>3, <1>4, <1>6, <1>7, OneMoreBusIsWalkedOut
<1>10. OthersCount(g, marked, new, new)
  BY <1>3, <1>4, <1>7, OthersCountOn
<1>11. marked = {} => new = old
  BY <1>3, <1>4, <1>6
<1>12. new = BestWith(k + 1)
  BY <1>4, <1>6, <1>8
<1> QED
  BY <1>2, <1>4, <1>9, <1>10, <1>11, <1>12 DEF g, old, new, marked

LEMMA StepBeforeRound ==
  ASSUME EngineReady, RoundIsSound, WalksGoOn, EngineStep
  PROVE  BeforeRound'
<1>1. UNCHANGED <<graph, source_stop, departure_time>>
  BY EngineStepKeeps
<1>2. CASE FirstWalks
  <2>1. k' = 0
    BY <1>2 DEF FirstWalks, EngineReady, EngineInv, EngineTypeOK
  <2>2. BestWith(k)' = BestWith(0)
    BY <1>1, <2>1 DEF BestWith
  <2> QED
    BY <1>1, <1>2, <2>2, FirstWalksAreBest DEF BeforeRound
<1>3. CASE EndRound
  <2>1. k' = k + 1 /\ marked_stops' = labels.next_marked /\ labels' = labels
    BY <1>3 DEF EndRound
  <2>2. BestWith(k)' = BestWith(k + 1)
    BY <1>1, <2>1 DEF BestWith
  <2> QED
    BY <1>1, <1>3, <2>1, <2>2, RoundAddsOneBus DEF BeforeRound
<1>4. CASE pc' # "round"
  BY <1>4 DEF BeforeRound
<1> QED
  BY <1>2, <1>3, <1>4 DEF EngineStep, BeginRound, ScanRoute, RoutesDone, WalkOn, ReturnPlan

LEMMA StepSearchIsOver ==
  ASSUME EngineReady, RoundIsSound, WalksGoOn, EngineStep
  PROVE  SearchIsOver'
<1>1. UNCHANGED <<graph, source_stop, departure_time>> /\ Searching
  BY EngineStepKeeps
<1>2. CASE EndRound /\ pc' = "trace"
  <2>1. labels' = labels /\ (labels.next_marked = {} \/ k + 1 = 4)
    BY <1>2 DEF EndRound, MAX_ROUNDS
  <2>2. /\ k \in 0 .. 3
        /\ labels.earliest_arrival = BestWith(k + 1)
        /\ labels.next_marked = {} => labels.earliest_arrival = BestWith(k)
    BY <1>2, RoundAddsOneBus
  <2>3. labels.earliest_arrival = BestWith(4)
    BY <1>1, <2>1, <2>2, BestWithIs
  <2>4. BestWith(MAX_ROUNDS)' = BestWith(4)
    BY <1>1 DEF BestWith, MAX_ROUNDS
  <2> QED
    BY <2>1, <2>3, <2>4 DEF SearchIsOver
<1>3. CASE pc' # "trace"
  BY <1>3 DEF SearchIsOver
<1> QED
  BY <1>2, <1>3
     DEF EngineStep, FirstWalks, BeginRound, ScanRoute, RoutesDone, WalkOn, EndRound, ReturnPlan

(* The plan is that of the earliest arrival, and whoever sets out later    *)
(* than any label finds nothing.                                           *)
LEMMA PlanIsEarliest ==
  ASSUME EngineInv, Orderly, departure_time < INF => SearchIsOver, ReturnPlan
  PROVE  ArrivalIsEarliest'
<1> DEFINE ea == labels.earliest_arrival
           s == source_stop
           t == target_stop
           d == departure_time
           best == Best(graph, s, d)[4][t]
<1>1. /\ pc = "trace" /\ TracingOK /\ Searching /\ EngineTypeOK /\ LabelsAreSound /\ ForwardSearch
      /\ s \in Stops /\ t \in Stops \ {s} /\ d \in Nat /\ IsTimetable(graph)
      /\ UNCHANGED <<graph, source_stop, target_stop, departure_time, labels>>
  BY GraphIsATimetable
     DEF ReturnPlan, TracingOK, Searching, EngineInv, EngineTypeOK, call
<1>2. ea[t] = best
  <2>1. CASE d < INF
    BY <2>1, <1>1 DEF SearchIsOver, BestWith, MAX_ROUNDS
  <2>2. CASE d >= INF
    <3>1. ~Reached(t)
      BY <1>1, <2>2, NothingOnOffer
    <3>2. ea[t] = INF
      BY <1>1, <3>1 DEF LabelsAreSound, LegIsSound
    <3> DEFINE g == graph
    <3>3. IsTimetable(g) /\ s \in Stops /\ d \in Nat /\ t \in Stops /\ t # s /\ 4 \in 0 .. 4
      BY <1>1
    <3> HIDE DEF g, s, t, d
    <3>4. Best(g, s, d)[4][t] = INF
      BY <2>2, <3>3, BestTooLate
    <3> QED
      BY <3>2, <3>4 DEF g
  <2> QED
    BY <1>1, <2>1, <2>2
<1>3. plan' = IF ea[t] = INF THEN None ELSE PathTo(t)
  BY DEF ReturnPlan
<1>4. (BestWith(MAX_ROUNDS)[target_stop])' = best
  BY <1>1 DEF BestWith, MAX_ROUNDS
<1>5. CASE ea[t] = INF
  BY <1>2, <1>3, <1>4, <1>5 DEF ArrivalIsEarliest
<1>6. CASE ea[t] # INF
  <2>1. plan' # None
    <3>1. PICK back : /\ PathTo(t) = back.path
                      /\ PathIsSound(back) /\ Len(back.path) > 0
                      /\ LegsLeadToTheSource => back.curr = source_stop
      BY <1>1, <1>6, PathIs
    <3>2. Len(plan') > 0
      BY <1>3, <1>6, <3>1
    <3> QED
      BY <3>2 DEF None
  <2>2. PlanIsAJourney'
    <3>1. PlanIsSound' /\ pc' = "done"
      BY <1>1, PlanFound DEF ReturnPlan
    <3> QED
      BY <2>1, <3>1 DEF PlanIsSound
  <2>3. plan'[Len(plan')].alight_time = ea[t]
    BY <1>1, <2>2 DEF PlanIsAJourney
  <2> QED
    BY <1>1, <1>2, <1>4, <1>6, <2>1, <2>3 DEF ArrivalIsEarliest
<1> QED
  BY <1>5, <1>6

(* All of it goes on, whatever happens to the engine.                      *)
EngineFinds == OrderlySearch /\ ArrivalIsEarliest

LEMMA EngineStillFinds ==
  ASSUME EngineInv, EngineFinds,
         \/ EngineStep
         \/ UNCHANGED engineVars
         \/ \E s, t, d \in Nat : PlanRoute(s, t, d)
  PROVE  EngineFinds'
<1>1. CASE EngineStep
  <2>1. UNCHANGED <<graph, source_stop, target_stop, departure_time>> /\ Searching
    BY <1>1, EngineStepKeeps
  <2> SUFFICES ASSUME Orderly PROVE EngineFinds'
    BY <2>1 DEF EngineFinds, OrderlySearch, ArrivalIsEarliest, Orderly
  <2>2. ASSUME departure_time < INF
        PROVE  /\ EngineReady
               /\ BeforeRound /\ RoundIsSound /\ ScansCount /\ WalksGoOn /\ SearchIsOver
    BY <2>1, <2>2 DEF EngineReady, EngineFinds, OrderlySearch
  <2>3. OrderlySearch'
    <3>1. ASSUME departure_time < INF
          PROVE  (BeforeRound /\ RoundIsSound /\ ScansCount /\ WalksGoOn /\ SearchIsOver)'
      BY <1>1, <2>2, <3>1, StepBeforeRound, StepRoundIsSound, StepScansCount, StepWalksGoOn, StepSearchIsOver
    <3> QED
      BY <2>1, <3>1 DEF OrderlySearch
  <2>4. ArrivalIsEarliest'
    <3>1. CASE ReturnPlan
      BY <2>2, <3>1, PlanIsEarliest
    <3>2. CASE ~ReturnPlan
      <4>1. pc' # "done"
        BY <1>1, <3>2
           DEF EngineStep, FirstWalks, BeginRound, ScanRoute, RoutesDone, WalkOn, EndRound, EngineInv, EngineTypeOK
      <4> QED
        BY <4>1 DEF ArrivalIsEarliest
    <3> QED
      BY <3>1, <3>2
  <2> QED
    BY <2>3, <2>4 DEF EngineFinds
<1>2. CASE UNCHANGED engineVars
  <2>1. /\ UNCHANGED <<graph, source_stop, target_stop, departure_time, pc, labels, k, prev_arrival>>
        /\ UNCHANGED <<marked_stops, todo, plan>>
    BY <1>2 DEF engineVars, call
  <2>2. OrderlySearch'
    BY <2>1 DEF EngineFinds, OrderlySearch, Orderly, Searching, BeforeRound, RoundIsSound, ScansCount,
       WalksGoOn, SearchIsOver, BestWith
  <2>3. ArrivalIsEarliest'
    BY <2>1 DEF EngineFinds, ArrivalIsEarliest, Orderly, BestWith
  <2> QED
    BY <2>2, <2>3 DEF EngineFinds
<1>3. ASSUME NEW s \in Nat, NEW t \in Nat, NEW d \in Nat, PlanRoute(s, t, d)
      PROVE  EngineFinds'
  <2>1. /\ source_stop' = s /\ target_stop' = t /\ plan' = None
        /\ IF pc' = "done" THEN s = t \/ s \notin Stops \/ t \notin Stops ELSE pc' = "first_walks"
    BY <1>3, EngineIsCalled DEF PlanRoute
  <2>2. OrderlySearch'
    BY <2>1 DEF OrderlySearch, Searching, BeforeRound, RoundIsSound, ScansCount, WalksGoOn, SearchIsOver
  <2>3. ArrivalIsEarliest'
    BY <2>1 DEF ArrivalIsEarliest
  <2> QED
    BY <2>2, <2>3 DEF EngineFinds
<1> QED
  BY <1>1, <1>2, <1>3

-----------------------------------------------------------------------------
(***************************************************************************)
(* The options follow the earliest arrivals.                               *)
(***************************************************************************)
TwoStops == source \in Stops /\ target \in Stops \ {source}

(* The earliest arrival of who leaves at d.                                *)
BestAt(d) == Best(graph, source, d)[MAX_ROUNDS][target]

LEMMA JourneysGetLater ==
  ASSUME IsTimetable(graph), TwoStops, NEW d \in Nat, NEW e \in Nat, d <= e
  PROVE  BestAt(d) \in Nat /\ BestAt(e) \in Nat /\ BestAt(d) <= BestAt(e) /\ BestAt(e) <= INF
<1> DEFINE g == graph
           s == source
           t == target
<1>1. IsTimetable(g) /\ s \in Stops /\ t \in Stops /\ t # s /\ MAX_ROUNDS \in 0 .. 4
  BY DEF TwoStops, MAX_ROUNDS
<1> DEFINE n == MAX_ROUNDS
<1> HIDE DEF g, s, t, n
<1>2. ASSUME NEW c \in Nat
      PROVE  Best(g, s, c)[n][t] \in Nat /\ Best(g, s, c)[n][t] <= INF
                                        /\ (c >= INF => Best(g, s, c)[n][t] = INF)
  <2>1. CASE c >= INF
    <3>1. Best(g, s, c)[n][t] = INF
      BY <1>1, <2>1, BestTooLate DEF n
    <3> QED
      BY <3>1
  <2>2. CASE c < INF
    <3>1. Best(g, s, c)[n] \in [Stops -> Time]
      BY <1>1, <2>2, BestTypes, SMTT(30) DEF n
    <3>2. Best(g, s, c)[n][t] \in Time
      BY <1>1, <3>1
    <3> QED
      BY <2>2, <3>2
  <2> QED
    BY <2>1, <2>2
<1>3. Best(g, s, d)[n][t] <= Best(g, s, e)[n][t]
  <2>1. CASE e >= INF
    BY <1>2, <2>1
  <2>2. CASE e < INF
    <3>1. d \in Time /\ e \in Time
      BY <2>2
    <3> QED
      BY <1>1, <3>1, BestIsMonotone DEF n
  <2> QED
    BY <2>1, <2>2
<1> QED
  BY <1>2, <1>3 DEF BestAt, g, s, t, n

(* The last leg of a plan is shown as it is.                               *)
LEMMA OptionArrives ==
  ASSUME EngineTypeOK, PlanIsAJourney, RunsForward(graph)
  PROVE  OptionOf(plan).arrival_sec = plan[Len(plan)].alight_time
<1>1. PICK len \in Nat \ {0} : len = Len(plan)
  BY JourneyStarts
<1>2. plan \in Seq(Legs) /\ Len(plan) > 0 /\ departure_time \in Nat
  BY <1>1, JourneyStarts DEF EngineTypeOK
<1>3. OptionOf(plan).arrival_sec = Retimed(plan)[len].alight_time
  BY <1>1, <1>2, OptionIs
<1>4. Retimed(plan)[len] = plan[len]
  <2>1. CASE len = 1
    <3>1. ~(IsWalking(plan[1]) /\ BusLegs(plan) # {})
      BY <1>1, <2>1, JourneyStarts
    <3> QED
      BY <1>2, <2>1, <3>1, RetimedIs
  <2>2. CASE len # 1
    <3>1. len \in 2 .. Len(plan)
      BY <1>1, <2>2
    <3> QED
      BY <1>2, <3>1, RetimedIs
  <2> QED
    BY <2>1, <2>2
<1> QED
  BY <1>1, <1>3, <1>4

(* What the loop has before it when the engine has an answer.              *)
LEMMA AnswerIsEarliest ==
  ASSUME RouteInv, EngineFinds, Orderly, rpc = "plan", pc = "done"
  PROVE  IF plan = None
           THEN TwoStops => BestAt(current_search_dep) = INF
           ELSE /\ TwoStops
                /\ OptionOf(plan).arrival_sec = BestAt(current_search_dep)
                /\ BestAt(current_search_dep) # INF
<1>1. source_stop = source /\ target_stop = target /\ departure_time = current_search_dep
  BY DEF RouteInv, RequestTypeOK
<1>2. BestWith(MAX_ROUNDS)[target_stop] = BestAt(current_search_dep)
  BY <1>1 DEF BestWith, BestAt
<1>3. IF plan = None
        THEN source_stop \in Stops /\ target_stop \in Stops \ {source_stop} =>
               BestWith(MAX_ROUNDS)[target_stop] = INF
        ELSE /\ source_stop \in Stops /\ target_stop \in Stops \ {source_stop}
             /\ plan[Len(plan)].alight_time = BestWith(MAX_ROUNDS)[target_stop]
             /\ plan[Len(plan)].alight_time # INF
  BY DEF EngineFinds, ArrivalIsEarliest
<1>4. plan # None => OptionOf(plan).arrival_sec = plan[Len(plan)].alight_time
  BY OptionArrives DEF RouteInv, EngineInv, PlanIsSound, Orderly
<1> QED
  BY <1>1, <1>2, <1>3, <1>4 DEF TwoStops

LEMMA OptionAt ==
  ASSUME options \in Seq(OptionRecords), NEW n \in DOMAIN options
  PROVE  /\ options[n].departure_sec \in Nat /\ options[n].arrival_sec \in Nat
         /\ options[n].first_bus_sec \in Nat
<1>1. options[n] \in OptionRecords
  OBVIOUS
<1> DEFINE o == options[n]
<1> HIDE DEF o
<1>2. o \in OptionRecords
  BY <1>1 DEF o
<1>3. o.departure_sec \in Nat /\ o.arrival_sec \in Nat /\ o.first_bus_sec \in Nat
  BY <1>2 DEF OptionRecords
<1> QED
  BY <1>3 DEF o

(* No option arrives later than the next, or than what is found next.      *)
OptionsGetLater ==
  Orderly =>
    /\ \A n \in DOMAIN options :
         TwoStops /\ options[n].arrival_sec <= BestAt(current_search_dep)
    /\ \A m, n \in DOMAIN options : m < n => options[m].arrival_sec <= options[n].arrival_sec

LEMMA EarliestOptionTaken ==
  ASSUME RouteInv, EngineFinds, OptionsGetLater, TakeOption
  PROVE  OptionsGetLater'
<1> DEFINE option == OptionOf(plan)
           csd == current_search_dep
           next == NextSearch(option)
<1>1. /\ rpc = "plan" /\ pc = "done" /\ plan # None
      /\ options' = options \/ options' = Append(options, option)
      /\ current_search_dep' = next
      /\ UNCHANGED <<graph, source, target>>
  BY DEF TakeOption, requestVars, engineVars, call
<1> SUFFICES ASSUME Orderly PROVE OptionsGetLater'
  BY <1>1 DEF OptionsGetLater, Orderly
<1>2. TwoStops /\ option.arrival_sec = BestAt(csd)
  BY <1>1, AnswerIsEarliest
<1>3. /\ EngineTypeOK /\ PlanIsAJourney /\ csd \in Nat /\ options \in Seq(OptionRecords)
      /\ IsTimetable(graph)
  BY <1>1, GraphIsATimetable DEF RouteInv, EngineInv, PlanIsSound, RequestTypeOK, EngineTypeOK
<1>4. option \in OptionRecords
  BY <1>3, OptionRecord
<1>5. option.first_bus_sec \in Nat /\ option.arrival_sec \in Nat
  BY <1>4 DEF OptionRecords
<1> HIDE DEF option
<1>6. next \in Nat /\ csd <= next
  <2>1. next \in Nat /\ next >= csd + 120
    BY <1>3, <1>5, NextSearchIs
  <2> HIDE DEF next
  <2> QED
    BY <1>3, <2>1
<1> HIDE DEF next, csd
<1>7. BestAt(csd) \in Nat /\ BestAt(next) \in Nat /\ BestAt(csd) <= BestAt(next)
  BY <1>2, <1>3, <1>6, JourneysGetLater
<1>8. BestAt(current_search_dep)' = BestAt(next)
  BY <1>1 DEF BestAt
<1>9. \A n \in DOMAIN options : options[n].arrival_sec \in Nat /\ options[n].arrival_sec <= BestAt(csd)
  BY <1>3, OptionAt DEF OptionsGetLater, csd
<1>10. \A n \in DOMAIN options : options[n].arrival_sec <= BestAt(next)
  <2> TAKE n \in DOMAIN options
  <2> DEFINE a == options[n].arrival_sec
             b == BestAt(csd)
             c == BestAt(next)
  <2>1. a \in Nat /\ b \in Nat /\ c \in Nat /\ a <= b /\ b <= c
    BY <1>7, <1>9
  <2> HIDE DEF a, b, c
  <2>2. a <= c
    BY <2>1
  <2> QED
    BY <2>2 DEF a, c
<1>11. CASE options' = options
  BY <1>1, <1>2, <1>8, <1>10, <1>11 DEF OptionsGetLater, TwoStops
<1>12. CASE options' = Append(options, option)
  <2>1. PICK len \in Nat : len = Len(options)
    BY <1>3
  <2>2. /\ DOMAIN options' = 1 .. len + 1 /\ DOMAIN options = 1 .. len
        /\ \A n \in 1 .. len : options'[n] = options[n]
        /\ options'[len + 1] = option
    BY <1>3, <1>4, <1>12, <2>1
  <2>3. ASSUME NEW n \in 1 .. len + 1
        PROVE  options'[n].arrival_sec <= BestAt(next)
    <3>1. n = len + 1 \/ n \in 1 .. len
      BY <2>1
    <3> QED
      BY <1>2, <1>7, <1>10, <2>2, <3>1 DEF csd
  <2>4. ASSUME NEW m \in 1 .. len + 1, NEW n \in 1 .. len + 1, m < n
        PROVE  options'[m].arrival_sec <= options'[n].arrival_sec
    <3>1. m \in 1 .. len /\ (n = len + 1 \/ n \in 1 .. len)
      BY <2>1, <2>4
    <3>2. CASE n = len + 1
      BY <1>2, <1>9, <2>2, <3>1, <3>2 DEF csd
    <3>3. CASE n \in 1 .. len
      BY <2>2, <2>4, <3>1, <3>3 DEF OptionsGetLater
    <3> QED
      BY <3>1, <3>2, <3>3
  <2> QED
    BY <1>1, <1>2, <1>8, <2>2, <2>3, <2>4 DEF OptionsGetLater, TwoStops
<1> QED
  BY <1>1, <1>11, <1>12

(* The options stay, and the next search is no earlier.                    *)
LEMMA OptionsStillGetLater ==
  ASSUME RouteInv, OptionsGetLater, UNCHANGED <<graph, source, target, options>>,
         current_search_dep' \in Nat, current_search_dep <= current_search_dep'
  PROVE  OptionsGetLater'
<1> SUFFICES ASSUME Orderly PROVE OptionsGetLater'
  BY DEF OptionsGetLater, Orderly
<1> DEFINE csd == current_search_dep
           next == current_search_dep'
<1>1. csd \in Nat /\ IsTimetable(graph) /\ options \in Seq(OptionRecords)
  BY GraphIsATimetable DEF RouteInv, RequestTypeOK, EngineInv, EngineTypeOK
<1>2. BestAt(current_search_dep)' = BestAt(next)
  BY DEF BestAt
<1>3. ASSUME NEW n \in DOMAIN options
      PROVE  TwoStops /\ options[n].arrival_sec <= BestAt(next)
  <2>1. TwoStops /\ options[n].arrival_sec <= BestAt(csd) /\ options[n].arrival_sec \in Nat
    BY <1>1, OptionAt DEF OptionsGetLater
  <2>2. next \in Nat /\ csd <= next
    OBVIOUS
  <2> DEFINE a == options[n].arrival_sec
             b == BestAt(csd)
             c == BestAt(next)
  <2> HIDE DEF next, csd
  <2>3. b \in Nat /\ c \in Nat /\ b <= c
    BY <1>1, <2>1, <2>2, JourneysGetLater
  <2>4. a \in Nat /\ a <= b
    BY <2>1
  <2> HIDE DEF a, b, c
  <2>5. a <= c
    BY <2>3, <2>4
  <2> QED
    BY <2>1, <2>5 DEF a, c
<1> QED
  BY <1>2, <1>3 DEF OptionsGetLater, TwoStops

RouteFinds == RouteInv /\ EngineFinds /\ OptionsGetLater

LEMMA EngineFindsOn ==
  ASSUME RouteInv, EngineFinds, [RouteNext]_routeVars
  PROVE  EngineFinds'
<1>1. EngineInv /\ source \in Nat /\ target \in Nat /\ current_search_dep \in Nat
  BY DEF RouteInv, RequestTypeOK
<1>2. \/ EngineStep
      \/ UNCHANGED engineVars
      \/ PlanRoute(source, target, current_search_dep)
  BY DEF RouteNext, HandleRequest, Search, Plan, TakeOption, NoOption, Answer, routeVars
<1> QED
  BY <1>1, <1>2, EngineStillFinds

LEMMA RouteFindsOn ==
  ASSUME RouteFinds, [RouteNext]_routeVars
  PROVE  RouteFinds'
<1>1. RouteInv /\ EngineFinds /\ OptionsGetLater
  BY DEF RouteFinds
<1>2. RouteInv' /\ EngineFinds'
  BY <1>1, RouteStep, EngineFindsOn
<1>3. current_search_dep \in Nat
  BY <1>1 DEF RouteInv, RequestTypeOK
<1>4. CASE \E s, t \in 0 .. NumStops, d \in Departures, wish \in Wishes : HandleRequest(s, t, d, wish)
  <2>1. options' = <<>>
    BY <1>4 DEF HandleRequest
  <2>2. OptionsGetLater'
    BY <2>1 DEF OptionsGetLater
  <2> QED
    BY <1>2, <2>2 DEF RouteFinds
<1>5. CASE TakeOption
  BY <1>1, <1>2, <1>5, EarliestOptionTaken DEF RouteFinds
<1>6. CASE Search \/ Plan \/ NoOption \/ Answer \/ UNCHANGED routeVars
  <2>1. UNCHANGED graph
    <3>1. CASE Search
      BY <3>1 DEF Search, PlanRoute
    <3>2. CASE Plan
      BY <3>2, EngineStepKeeps DEF Plan
    <3>3. CASE NoOption \/ Answer \/ UNCHANGED routeVars
      BY <3>3 DEF NoOption, Answer, routeVars, engineVars, call
    <3> QED
      BY <1>6, <3>1, <3>2, <3>3
  <2>2. /\ UNCHANGED <<source, target, options>>
        /\ current_search_dep' \in {current_search_dep, current_search_dep + 15 * 60}
    BY <1>6 DEF Search, Plan, NoOption, Answer, routeVars, requestVars, loopVars
  <2>3. current_search_dep' \in Nat /\ current_search_dep <= current_search_dep'
    BY <1>3, <2>2
  <2> QED
    BY <1>1, <1>2, <2>1, <2>2, <2>3, OptionsStillGetLater DEF RouteFinds
<1> QED
  BY <1>4, <1>5, <1>6 DEF RouteNext

LEMMA RouteFindsEarliest == RouteSpec => []RouteFinds
<1>1. RouteInit => RouteFinds
  <2> SUFFICES ASSUME RouteInit PROVE RouteFinds
    OBVIOUS
  <2>1. RouteInv
    BY InitRoute
  <2>2. EngineFinds /\ OptionsGetLater
    BY DEF RouteInit, EngineInit, EngineFinds, OrderlySearch, ArrivalIsEarliest, Searching, OptionsGetLater
  <2> QED
    BY <2>1, <2>2 DEF RouteFinds
<1>2. RouteFinds /\ [RouteNext]_routeVars => RouteFinds'
  BY RouteFindsOn
<1> QED
  BY <1>1, <1>2, PTL DEF RouteSpec

(* No option of /api/route is worse than one below it: each leaves, and    *)
(* gets on its bus, later than the one before it and, in an orderly        *)
(* timetable, arrives no earlier.                                          *)
THEOREM OptionsGoForward == RouteSpec => []OptionsAdvance
<1>1. RouteFinds => OptionsAdvance
  <2> SUFFICES ASSUME RouteFinds, RunsForward(graph), NEW m \in DOMAIN options, NEW n \in DOMAIN options,
                      m < n
               PROVE  /\ options[m].departure_sec < options[n].departure_sec
                      /\ options[m].first_bus_sec < options[n].first_bus_sec
                      /\ Orderly => options[m].arrival_sec <= options[n].arrival_sec
    BY DEF OptionsAdvance
  <2>1. RouteInv /\ OptionsGetLater
    BY DEF RouteFinds
  <2> DEFINE first == options[m]
             second == options[n]
  <2>2. first \in OptionRecords /\ second \in OptionRecords
    BY <2>1 DEF RouteInv, RequestTypeOK
  <2>3. /\ first.departure_sec \in Nat /\ first.first_bus_sec \in Nat
        /\ second.departure_sec \in Nat /\ second.first_bus_sec \in Nat
    BY <2>2 DEF OptionRecords
  <2>4. /\ first.departure_sec <= first.first_bus_sec /\ second.departure_sec <= second.first_bus_sec
        /\ first.first_bus_sec + 60 <= second.departure_sec
    BY <2>1 DEF RouteInv, OptionsAreInOrder
  <2>5. Orderly => first.arrival_sec <= second.arrival_sec
    BY <2>1 DEF OptionsGetLater
  <2> HIDE DEF first, second
  <2>6. first.departure_sec < second.departure_sec /\ first.first_bus_sec < second.first_bus_sec
    BY <2>3, <2>4
  <2> QED
    BY <2>5, <2>6 DEF first, second
<1> QED
  BY <1>1, RouteFindsEarliest, PTL

-----------------------------------------------------------------------------
(***************************************************************************)
(* Nothing is left out.                                                    *)
(***************************************************************************)
(* More buses are no later than none.                                      *)
LEMMA BusesOnlyHelp ==
  ASSUME NEW g, IsTimetable(g), NEW s \in Stops, NEW d \in Time, NEW n \in 0 .. 4, NEW x \in Stops
  PROVE  Best(g, s, d)[n][x] <= FirstLabel(g.walk[s], s, d, x)
<1> DEFINE b(m) == Best(g, s, d)[m]
           S == {m \in 0 .. 4 : b(m)[x] <= b(0)[x]}
<1>1. \A m \in 0 .. 4 : b(m) \in [Stops -> Time]
  BY BestTypes
<1>2. ASSUME NEW m \in 0 .. 3, m \in S
      PROVE  m + 1 \in S
  <2>1. b(m) \in [Stops -> Time] /\ b(m + 1) \in [Stops -> Time] /\ b(0) \in [Stops -> Time]
    <3>1. m \in 0 .. 4 /\ m + 1 \in 0 .. 4 /\ 0 \in 0 .. 4
      OBVIOUS
    <3> HIDE DEF b
    <3> QED
      BY <1>1, <3>1
  <2>2. b(m + 1) = Later(g, b(m))
    BY BestOneMore
  <2> DEFINE lab == b(m)
             new == b(m + 1)
             first == b(0)
  <2>3. lab \in [Stops -> Time] /\ new = Later(g, lab) /\ new \in [Stops -> Time] /\ first \in [Stops -> Time]
        /\ lab[x] <= first[x]
    BY <1>2, <2>1, <2>2
  <2> HIDE DEF lab, new, first
  <2>4. OneMoreBus(g, lab, new)
    BY <2>3, LaterIsOneMoreBus
  <2>5. new[x] <= lab[x]
    BY <2>4 DEF OneMoreBus
  <2>6. new[x] <= first[x]
    BY <2>3, <2>5
  <2> QED
    BY <2>6 DEF new, first
<1>3. 0 \in S
  <2>1. 0 \in 0 .. 4
    OBVIOUS
  <2>4. b(0) \in [Stops -> Time]
    <3> HIDE DEF b
    <3> QED
      BY <1>1, <2>1
  <2> HIDE DEF b
  <2>2. b(0)[x] \in Nat
    BY <2>4
  <2>3. b(0)[x] <= b(0)[x]
    BY <2>2
  <2> QED
    BY <2>1, <2>3
<1> HIDE DEF S
<1>4. n \in S
  BY <1>2, <1>3, UpToFour
<1>5. b(n)[x] <= b(0)[x]
  BY <1>4 DEF S
<1>6. b(0)[x] = FirstLabel(g.walk[s], s, d, x)
  <2>1. b(0) = Walked(g, StartingAt(s, d))
    BY BestFirst
  <2>2. \A y \in Stops : Walked(g, StartingAt(s, d))[y] = FirstLabel(g.walk[s], s, d, y)
    BY FirstLabels, ZenonT(60)
  <2> HIDE DEF b
  <2> QED
    BY <2>1, <2>2
<1> QED
  BY <1>5, <1>6

(* Whoever can walk there is there within the time of a walk.              *)
LEMMA WalkIsThere ==
  ASSUME GraphOK, TwoStops, target \in DOMAIN graph.walk[source], NEW d \in Nat, BestAt(d) # INF
  PROVE  BestAt(d) <= d + LongestWalk
<1> DEFINE g == graph
           s == source
           t == target
           w == g.walk[s]
           n == MAX_ROUNDS
<1>1. /\ IsTimetable(g) /\ s \in Stops /\ t \in Stops /\ t # s /\ n \in 0 .. 4
      /\ t \in DOMAIN w /\ w[t] \in Nat /\ w[t] <= 400
  BY GraphIsATimetable, WalkFields DEF TwoStops, MAX_ROUNDS
<1>2. Best(g, s, d)[n][t] # INF
  BY DEF BestAt
<1> HIDE DEF g, s, t, n
<1>3. d < INF
  BY <1>1, <1>2, BestTooLate
<1>4. d \in Time
  BY <1>3
<1>5. Best(g, s, d)[n][t] <= FirstLabel(w, s, d, t)
  BY <1>1, <1>4, BusesOnlyHelp
<1>6. Best(g, s, d)[n][t] \in Time
  <2>1. Best(g, s, d)[n] \in [Stops -> Time]
    BY <1>1, <1>4, BestTypes
  <2> QED
    BY <1>1, <2>1
<1> DEFINE best == Best(g, s, d)[n][t]
           walk == w[t]
<1>7. FirstLabel(w, s, d, t) = IF d + walk < INF THEN d + walk ELSE INF
  BY <1>1 DEF FirstLabel
<1>8. best \in Nat /\ best < INF /\ walk \in Nat /\ walk <= 400
      /\ best <= IF d + walk < INF THEN d + walk ELSE INF
  BY <1>1, <1>2, <1>5, <1>6, <1>7
<1> HIDE DEF best, walk
<1>9. best <= d + 400
  BY <1>8
<1> QED
  BY <1>9 DEF best, BestAt, g, s, t, n, LongestWalk

(* The clock tells times of a day apart that are a minute apart.           *)
LEMMA ClockTells ==
  ASSUME NEW a \in Nat, NEW b \in Nat, a + 60 <= b, b <= a + 86280
  PROVE  Clock(a) # Clock(b)
<1> DEFINE p == a \div 60
           q == b \div 60
<1>1. p \in Nat /\ q \in Nat /\ 60 * p <= a /\ a < 60 * p + 60 /\ 60 * q <= b /\ b < 60 * q + 60
  OBVIOUS
<1> HIDE DEF p, q
<1>2. p + 1 <= q /\ q <= p + 1438
  BY <1>1
<1>3. p % 1440 # q % 1440
  BY <1>1, <1>2
<1> QED
  BY <1>3 DEF Clock, p, q

LEMMA FewOptions ==
  ASSUME NEW wish \in Int
  PROVE  OptionsFor(wish) \in 1 .. 5
<1> DEFINE asked == IF wish = 0 THEN 3 ELSE wish
           least == Max({1, asked})
<1>1. PICK one \in Int : one = 1
  OBVIOUS
<1>2. PICK five \in Int : five = 5
  OBVIOUS
<1>3. asked \in Int
  OBVIOUS
<1> HIDE DEF asked
<1>4. Max({one, asked}) \in Int /\ Max({one, asked}) >= one
  BY <1>3, MaxOfTwo
<1>5. least \in Int /\ least >= 1
  BY <1>1, <1>4
<1> HIDE DEF least
<1>6. Min({five, least}) \in {five, least} /\ Min({five, least}) <= five
  BY <1>5, MinOfTwo
<1>7. OptionsFor(wish) = Min({five, least})
  BY <1>2 DEF OptionsFor, least, asked
<1> QED
  BY <1>2, <1>5, <1>6, <1>7

(* In legs that fit nobody gets on after the end.                          *)
LEMMA LegsGoOn ==
  ASSUME NEW legs \in Seq(Legs), NEW len \in Nat \ {0}, len = Len(legs),
         \A i \in 1 .. len : legs[i].board_time <= legs[i].alight_time,
         \A i \in 1 .. len - 1 : legs[i].alight_time <= legs[i + 1].board_time,
         NEW m \in 1 .. len
  PROVE  legs[m].board_time <= legs[len].alight_time
<1> DEFINE S == {i \in 0 .. len - m : legs[m].board_time <= legs[m + i].alight_time}
<1>1. \A i \in 1 .. len : legs[i].board_time \in Nat /\ legs[i].alight_time \in Nat
  <2>1. \A i \in 1 .. len : legs[i] \in Legs
    OBVIOUS
  <2> QED
    BY <2>1 DEF Legs
<1>2. 0 \in S
  BY <1>1
<1>3. ASSUME NEW i \in 0 .. len - m - 1, i \in S
      PROVE  i + 1 \in S
  <2>1. /\ m + i \in 1 .. len - 1 /\ m + i \in 1 .. len /\ m + i + 1 \in 1 .. len
        /\ m + (i + 1) = m + i + 1 /\ i + 1 \in 0 .. len - m
    OBVIOUS
  <2> DEFINE n == m + i
             first == legs[m].board_time
             left == legs[n].alight_time
             on == legs[n + 1].board_time
             off == legs[n + 1].alight_time
  <2>2. first <= left
    BY <1>3
  <2>3. first \in Nat /\ left \in Nat /\ on \in Nat /\ off \in Nat /\ left <= on /\ on <= off
    BY <1>1, <2>1
  <2> HIDE DEF first, left, on, off
  <2>4. first <= off
    BY <2>2, <2>3
  <2> QED
    BY <2>1, <2>4 DEF first, off
<1>4. len - m \in Nat /\ len - m \in 0 .. len - m /\ m + (len - m) = len
  OBVIOUS
<1>5. \A i \in 0 .. len - m : i \in S
  <2> DEFINE upto == len - m
  <2>1. upto \in Nat /\ 0 \in S /\ \A i \in 0 .. upto - 1 : i \in S => i + 1 \in S
    BY <1>2, <1>3, <1>4
  <2> HIDE DEF upto, S
  <2>2. \A i \in 0 .. upto : i \in S
    BY <2>1, CountingUp
  <2> QED
    BY <2>2 DEF upto
<1>6. len - m \in S
  BY <1>4, <1>5
<1> QED
  BY <1>4, <1>6

(* The bus, and whoever takes it, leaves before it gets there.             *)
LEMMA OptionEnds ==
  ASSUME EngineTypeOK, PlanIsAJourney, RunsForward(graph)
  PROVE  LET option == OptionOf(plan) IN
         /\ option.departure_sec <= option.arrival_sec
         /\ option.first_bus_sec <= option.arrival_sec + 300
<1> DEFINE shown == Retimed(plan)
           option == OptionOf(plan)
<1>1. PICK len \in Nat \ {0} : len = Len(plan)
  BY JourneyStarts
<1>2. /\ plan \in Seq(Legs) /\ Len(plan) > 0 /\ departure_time \in Nat /\ 1 \in 1 .. len
      /\ \A n \in 1 .. len : plan[n] \in Legs /\ plan[n].board_time <= plan[n].alight_time
  BY <1>1, JourneyStarts DEF EngineTypeOK
<1>3. shown \in Seq(Legs) /\ Len(shown) = len
  BY <1>1, <1>2, RetimedIs
<1>4. /\ option.itinerary = shown /\ option.departure_sec = shown[1].board_time
      /\ option.arrival_sec = shown[len].alight_time
      /\ option.departure_sec \in Nat /\ option.arrival_sec \in Nat
      /\ \/ option.first_bus_sec = option.departure_sec + 300
         \/ BusLegs(plan) # {} /\ option.first_bus_sec = FirstBus(plan).board_time
  BY <1>1, <1>2, OptionIs
<1>5. option.arrival_sec = plan[len].alight_time
  BY <1>1, OptionArrives
<1>6. LegsFit(option.itinerary, departure_time)
  BY OptionFits
<1> HIDE DEF shown, option
<1>7. option.departure_sec <= option.arrival_sec
  <2>1. /\ \A i \in 1 .. len : shown[i].board_time <= shown[i].alight_time
        /\ \A i \in 1 .. len - 1 : shown[i].alight_time <= shown[i + 1].board_time
    <3>1. LegsFit(shown, departure_time)
      BY <1>4, <1>6
    <3>2. DOMAIN shown = 1 .. len
      BY <1>3
    <3> QED
      BY <1>3, <3>1, <3>2 DEF LegsFit
  <2>2. shown[1].board_time <= shown[len].alight_time
    BY <1>2, <1>3, <2>1, LegsGoOn
  <2> QED
    BY <1>4, <2>2
<1>8. BusLegs(plan) # {} => FirstBus(plan).board_time <= option.arrival_sec
  <2>1. \A i \in 1 .. len - 1 : plan[i].alight_time <= plan[i + 1].board_time
    BY <1>1 DEF PlanIsAJourney
  <2>2. \A i \in 1 .. len : plan[i].board_time <= plan[i].alight_time
    BY <1>2
  <2>3. ASSUME NEW m \in 1 .. len PROVE plan[m].board_time <= plan[len].alight_time
    BY <1>1, <1>2, <2>1, <2>2, LegsGoOn
  <2>4. BusLegs(plan) # {} => \E m \in 1 .. len : FirstBus(plan) = plan[m]
    BY <1>1, <1>2, FirstBusIs
  <2> QED
    BY <1>5, <2>3, <2>4
<1>9. BusLegs(plan) # {} => FirstBus(plan).board_time \in Nat
  BY <1>2, FirstBusIs DEF Legs
<1>10. option.first_bus_sec <= option.arrival_sec + 300
  <2>1. CASE option.first_bus_sec = option.departure_sec + 300
    BY <1>4, <1>7, <2>1
  <2>2. CASE BusLegs(plan) # {} /\ option.first_bus_sec = FirstBus(plan).board_time
    <3> DEFINE bus == FirstBus(plan).board_time
    <3>1. bus \in Nat /\ bus <= option.arrival_sec /\ option.first_bus_sec = bus
      BY <1>8, <1>9, <2>2
    <3> HIDE DEF bus
    <3> QED
      BY <1>4, <3>1
  <2> QED
    BY <1>4, <2>1, <2>2
<1> QED
  BY <1>7, <1>10 DEF option

LEMMA RideLeaves ==
  ASSUME GraphOK, NEW x \in Rides(graph)
  PROVE  RideLeg(x).board_time \in DepartureTimes /\ RideLeg(x).board_time \in Nat
<1>1. /\ x.r \in DOMAIN graph.routes /\ x.t \in DOMAIN tripsOf(x.r) /\ x.i \in DOMAIN stopsOf(x.r)
      /\ DepartureOf(graph, x) \in Nat
  BY GraphIsATimetable, RouteFields, RideFields DEF tripsOf, stopsOf
<1>2. DepartureOf(graph, x) = tripsOf(x.r)[x.t][x.i].dep_sec
  BY DEF DepartureOf, tripsOf
<1>3. RideLeg(x).board_time = DepartureOf(graph, x)
  BY DEF RideLeg
<1> QED
  BY <1>1, <1>2, <1>3 DEF DepartureTimes

(* Where the target is out of reach on foot there is a bus, and it leaves  *)
(* soon after.                                                             *)
LEMMA BusIsNear ==
  ASSUME EngineTypeOK, PlanIsAJourney, RunsForward(graph),
         target_stop \notin DOMAIN graph.walk[source_stop]
  PROVE  LET option == OptionOf(plan) IN
         \E t \in DepartureTimes :
           t \in Nat /\ option.departure_sec <= t /\ t <= option.departure_sec + LongestWalk
<1> DEFINE bus == FirstBus(plan)
           option == OptionOf(plan)
<1>1. PICK len \in Nat \ {0} : len = Len(plan)
  BY JourneyStarts
<1>2. plan \in Seq(Legs) /\ 1 \in 1 .. len /\ DOMAIN plan = 1 .. len
  BY <1>1, JourneyStarts
<1>3. BusLegs(plan) # {}
  <2> SUFFICES ASSUME BusLegs(plan) = {} PROVE FALSE
    OBVIOUS
  <2>1. len = 1 /\ IsWalking(plan[1])
    BY <1>1, JourneyStarts
  <2>2. plan[1].board_stop = source_stop /\ plan[1].alight_stop = target_stop
    BY <1>1, <2>1 DEF PlanIsAJourney
  <2>3. IsRideLeg(plan[1]) \/ IsFootLeg(plan[1])
    BY <1>2 DEF PlanIsAJourney
  <2>4. ~IsRideLeg(plan[1])
    BY <2>1, RideLegRoute DEF IsRideLeg, IsWalking, EngineTypeOK
  <2> QED
    BY <2>2, <2>3, <2>4 DEF IsFootLeg
<1>4. PICK m \in 1 .. len : bus = plan[m] /\ ~IsWalking(plan[m])
  BY <1>1, <1>2, <1>3, FirstBusIs
<1>5. IsRideLeg(bus)
  <2>1. IsRideLeg(plan[m]) \/ IsFootLeg(plan[m])
    BY <1>2 DEF PlanIsAJourney
  <2> QED
    BY <1>4, <2>1 DEF IsFootLeg, IsWalking
<1>6. bus.board_time \in DepartureTimes /\ bus.board_time \in Nat
  <2>1. PICK x \in Rides(graph) : bus = RideLeg(x)
    BY <1>5 DEF IsRideLeg
  <2> QED
    BY <2>1, RideLeaves DEF EngineTypeOK
<1>7. option.departure_sec <= bus.board_time /\ bus.board_time <= option.departure_sec + LongestWalk
  BY <1>3, OptionFits
<1> QED
  BY <1>6, <1>7 DEF option

(* When the search of the option after the n-th would best begin.          *)
SearchedUpTo(n) == IF n = 0 THEN dep_sec ELSE options[n].first_bus_sec + 120

(* All the options leave within a day: they walk all the way, and there is *)
(* one now and then, or they leave shortly before a bus.                   *)
LeavesInTheDay(departs) ==
  /\ dep_sec <= departs
  /\ IF target \in DOMAIN graph.walk[source]
       THEN departs <= dep_sec + 760 * 5
       ELSE \E t \in DepartureTimes : t \in Nat /\ departs <= t /\ t <= departs + LongestWalk

OptionsAreFirst ==
  \A n \in DOMAIN options :
    /\ options[n].arrival_sec <= BestAt(SearchedUpTo(n - 1))
    /\ LeavesInTheDay(options[n].departure_sec)

OptionsAreCounted ==
  /\ num_options \in 1 .. 5 /\ Len(options) <= num_options
  /\ rpc = "plan" => Len(options) < num_options
  /\ seen_departure_times = {DepKey(options[n]) : n \in DOMAIN options}

(* No further journey, or the search has passed over none: every plan was  *)
(* an option.                                                              *)
NoneLeft == BestAt(SearchedUpTo(Len(options))) = INF /\ BestAt(current_search_dep) = INF

NoGap ==
  /\ rpc # "answer"
  /\ current_search_dep <= SearchedUpTo(Len(options))
  /\ tries = Len(options) + (IF rpc = "plan" THEN 1 ELSE 0)
  /\ rpc = "done" => Len(options) = num_options
  /\ target \in DOMAIN graph.walk[source] => current_search_dep <= dep_sec + 760 * Len(options)

NothingLeftOutYet ==
  Orderly /\ OneDay /\ TwoStops /\ rpc # "idle" =>
    OptionsAreFirst /\ OptionsAreCounted /\ (NoneLeft \/ NoGap)

-----------------------------------------------------------------------------
(* What the plan just found makes of it.                                   *)
LEMMA NextOptionIs ==
  ASSUME RouteInv, EngineFinds, Orderly, rpc = "plan", pc = "done", plan # None
  PROVE  LET option == OptionOf(plan) IN
         /\ TwoStops
         /\ option.departure_sec \in Nat /\ option.arrival_sec \in Nat /\ option.first_bus_sec \in Nat
         /\ current_search_dep <= option.departure_sec
         /\ option.departure_sec <= option.first_bus_sec
         /\ option.arrival_sec = BestAt(current_search_dep) /\ BestAt(current_search_dep) # INF
         /\ IF target \in DOMAIN graph.walk[source]
              THEN /\ option.departure_sec <= current_search_dep + 400
                   /\ option.first_bus_sec <= current_search_dep + 700
              ELSE \E t \in DepartureTimes :
                     t \in Nat /\ option.departure_sec <= t /\ t <= option.departure_sec + LongestWalk
<1> DEFINE option == OptionOf(plan)
           csd == current_search_dep
<1>1. /\ EngineTypeOK /\ PlanIsAJourney /\ RunsForward(graph) /\ csd \in Nat
      /\ source_stop = source /\ target_stop = target /\ departure_time = csd /\ GraphOK
  BY DEF RouteInv, EngineInv, PlanIsSound, RequestTypeOK, EngineTypeOK, Orderly
<1>2. option.departure_sec \in Nat /\ option.arrival_sec \in Nat /\ option.first_bus_sec \in Nat
  BY <1>1, OptionRecord DEF OptionRecords
<1>3. csd <= option.departure_sec /\ option.departure_sec <= option.first_bus_sec
  BY <1>1, OptionFits
<1>4. TwoStops /\ option.arrival_sec = BestAt(csd) /\ BestAt(csd) # INF
  BY AnswerIsEarliest
<1>5. option.departure_sec <= option.arrival_sec /\ option.first_bus_sec <= option.arrival_sec + 300
  BY <1>1, OptionEnds
<1>6. CASE target \in DOMAIN graph.walk[source]
  <2> HIDE DEF option, csd
  <2>1. BestAt(csd) <= csd + 400
    <3>1. BestAt(csd) <= csd + LongestWalk
      BY <1>1, <1>4, <1>6, WalkIsThere
    <3> QED
      BY <3>1 DEF LongestWalk
  <2> DEFINE best == BestAt(csd)
  <2>2. best <= csd + 400 /\ option.arrival_sec = best
    BY <1>4, <2>1
  <2> HIDE DEF best
  <2>3. option.departure_sec <= csd + 400 /\ option.first_bus_sec <= csd + 700
    BY <1>1, <1>2, <1>5, <2>2
  <2> QED
    BY <1>2, <1>3, <1>4, <1>6, <2>3 DEF option, csd
<1>7. CASE target \notin DOMAIN graph.walk[source]
  <2>1. \E t \in DepartureTimes :
          t \in Nat /\ option.departure_sec <= t /\ t <= option.departure_sec + LongestWalk
    BY <1>1, <1>7, BusIsNear
  <2> QED
    BY <1>2, <1>3, <1>4, <1>7, <2>1
<1> QED
  BY <1>6, <1>7

(* Two that leave within the day are told apart.                           *)
LEMMA ToldApart ==
  ASSUME OneDay, dep_sec \in Nat, NEW a \in Nat, NEW b \in Nat, a + 60 <= b,
         LeavesInTheDay(a), LeavesInTheDay(b)
  PROVE  Clock(a) # Clock(b)
<1>1. b <= a + 86280
  <2>1. CASE target \in DOMAIN graph.walk[source]
    <3>1. dep_sec <= a /\ b <= dep_sec + 3800
      BY <2>1 DEF LeavesInTheDay
    <3> QED
      BY <3>1
  <2>2. CASE target \notin DOMAIN graph.walk[source]
    <3>1. PICK first \in DepartureTimes : first \in Nat /\ a <= first /\ first <= a + LongestWalk
      BY <2>2 DEF LeavesInTheDay
    <3>2. PICK last \in DepartureTimes : last \in Nat /\ b <= last /\ last <= b + LongestWalk
      BY <2>2 DEF LeavesInTheDay
    <3>3. last - first <= 85800
      <4>1. last - first <= 86400 - 600
        BY DEF OneDay
      <4> QED
        BY <4>1
    <3> QED
      BY <3>1, <3>2, <3>3 DEF LongestWalk
  <2> QED
    BY <2>1, <2>2
<1> QED
  BY <1>1, ClockTells

(* Options that stay, of a graph that stays.                               *)
LEMMA FirstStay ==
  ASSUME UNCHANGED <<graph, source, target, dep_sec, options>>
  PROVE  /\ OptionsAreFirst => OptionsAreFirst'
         /\ \A n : SearchedUpTo(n)' = SearchedUpTo(n)
         /\ \A d : BestAt(d)' = BestAt(d)
         /\ TwoStops' = TwoStops /\ OneDay' = OneDay /\ Orderly' = Orderly
<1>1. \A n : SearchedUpTo(n)' = SearchedUpTo(n)
  BY DEF SearchedUpTo
<1>2. \A d : BestAt(d)' = BestAt(d)
  BY DEF BestAt
<1>3. DepartureTimes' = DepartureTimes
  BY DEF DepartureTimes, tripsOf, stopsOf
<1>4. \A d : LeavesInTheDay(d)' <=> LeavesInTheDay(d)
  BY <1>3 DEF LeavesInTheDay
<1>5. OptionsAreFirst => OptionsAreFirst'
  <2> SUFFICES ASSUME OptionsAreFirst, NEW n \in DOMAIN options
               PROVE  /\ options[n].arrival_sec <= BestAt(SearchedUpTo(n - 1))'
                      /\ LeavesInTheDay(options[n].departure_sec)'
    BY DEF OptionsAreFirst
  <2>1. options[n].arrival_sec <= BestAt(SearchedUpTo(n - 1)) /\ LeavesInTheDay(options[n].departure_sec)
    BY DEF OptionsAreFirst
  <2>2. BestAt(SearchedUpTo(n - 1))' = BestAt(SearchedUpTo(n - 1))
    BY DEF BestAt, SearchedUpTo
  <2>3. LeavesInTheDay(options[n].departure_sec)' <=> LeavesInTheDay(options[n].departure_sec)
    BY <1>3 DEF LeavesInTheDay
  <2> QED
    BY <2>1, <2>2, <2>3
<1> QED
  BY <1>1, <1>2, <1>3, <1>5 DEF TwoStops, OneDay, Orderly

LEMMA FirstRequest ==
  ASSUME NEW s \in 0 .. NumStops, NEW t \in 0 .. NumStops, NEW d \in Departures,
         NEW wish \in Wishes, HandleRequest(s, t, d, wish)
  PROVE  NothingLeftOutYet'
<1>1. /\ source' = s /\ target' = t /\ dep_sec' = d /\ num_options' = OptionsFor(wish)
      /\ current_search_dep' = d /\ tries' = 0 /\ options' = <<>> /\ seen_departure_times' = {}
      /\ s \in Stops /\ t \in Stops => rpc' = "loop"
  BY DEF HandleRequest
<1>2. OptionsFor(wish) \in 1 .. 5 /\ d \in Nat
  BY FewOptions, WishesAssumption, DeparturesAssumption
<1> SUFFICES ASSUME TwoStops' PROVE OptionsAreFirst' /\ OptionsAreCounted' /\ NoGap'
  BY DEF NothingLeftOutYet
<1>3. rpc' = "loop" /\ Len(options') = 0 /\ DOMAIN options' = {}
  BY <1>1 DEF TwoStops
<1>4. OptionsAreFirst'
  BY <1>3 DEF OptionsAreFirst
<1>5. OptionsAreCounted'
  BY <1>1, <1>2, <1>3 DEF OptionsAreCounted
<1>6. NoGap'
  BY <1>1, <1>2, <1>3 DEF NoGap, SearchedUpTo
<1> QED
  BY <1>4, <1>5, <1>6

(* A search is begun or ends, or nothing happens.                          *)
LEMMA LoopStays ==
  ASSUME RouteInv, NothingLeftOutYet,
         UNCHANGED <<graph, source, target, dep_sec, num_options, current_search_dep, options,
                     seen_departure_times>>,
         \/ rpc = "loop" /\ rpc' = "plan" /\ tries' = tries + 1 /\ LoopGoesOn
         \/ rpc' = rpc /\ tries' = tries
         \/ rpc \in {"answer", "loop"} /\ rpc' = "done" /\ tries' = tries
                                       /\ (rpc = "loop" => ~LoopGoesOn)
  PROVE  NothingLeftOutYet'
<1>1. PICK len \in Nat : len = Len(options)
  BY DEF RouteInv, RequestTypeOK
<1>2. /\ \A n : SearchedUpTo(n)' = SearchedUpTo(n)
      /\ \A d : BestAt(d)' = BestAt(d)
      /\ TwoStops' = TwoStops /\ OneDay' = OneDay /\ Orderly' = Orderly
  BY FirstStay
<1> SUFFICES ASSUME Orderly, OneDay, TwoStops, rpc # "idle"
             PROVE  OptionsAreFirst' /\ OptionsAreCounted' /\ (NoneLeft \/ NoGap)'
  BY <1>2 DEF NothingLeftOutYet
<1>3. OptionsAreFirst /\ OptionsAreCounted /\ (NoneLeft \/ NoGap)
  BY DEF NothingLeftOutYet
<1>4. OptionsAreFirst'
  BY <1>3, FirstStay
<1>5. OptionsAreCounted'
  BY <1>1, <1>3 DEF OptionsAreCounted, LoopGoesOn, DepKey
<1>6. CASE NoneLeft
  <2>1. NoneLeft'
    BY <1>6 DEF NoneLeft, BestAt, SearchedUpTo
  <2> QED
    BY <1>4, <1>5, <2>1
<1>7. CASE NoGap
  <2>1. /\ rpc # "answer" /\ current_search_dep <= SearchedUpTo(len)
        /\ tries = len + (IF rpc = "plan" THEN 1 ELSE 0)
        /\ rpc = "done" => len = num_options
        /\ target \in DOMAIN graph.walk[source] => current_search_dep <= dep_sec + 760 * len
    BY <1>1, <1>7 DEF NoGap
  <2>2. len <= num_options /\ num_options \in 1 .. 5
    BY <1>1, <1>3 DEF OptionsAreCounted
  <2>3. /\ rpc' # "answer" /\ tries' = len + (IF rpc' = "plan" THEN 1 ELSE 0)
        /\ rpc' = "done" => len = num_options
    BY <1>1, <2>1, <2>2 DEF LoopGoesOn
  <2>4. NoGap'
    <3>1. SearchedUpTo(len)' = SearchedUpTo(len)
      BY <1>2
    <3>2. Len(options') = len
      BY <1>1
    <3>3. SearchedUpTo(Len(options))' = SearchedUpTo(len)
      BY <1>1 DEF SearchedUpTo
    <3> QED
      BY <2>1, <2>3, <3>2, <3>3 DEF NoGap
  <2> QED
    BY <1>4, <1>5, <2>4
<1> QED
  BY <1>3, <1>6, <1>7

(* Where no plan is found there is none later.                             *)
LEMMA NoneIsLeft ==
  ASSUME RouteInv, EngineFinds, NothingLeftOutYet, NoOption
  PROVE  NothingLeftOutYet'
<1> DEFINE csd == current_search_dep
           next == current_search_dep'
<1>1. /\ rpc = "plan" /\ pc = "done" /\ plan = None /\ next = csd + 900
      /\ rpc' \in {"answer", "loop"}
      /\ UNCHANGED <<graph, source, target, dep_sec, num_options, options, seen_departure_times>>
  BY DEF NoOption, engineVars, call, requestVars
<1>2. /\ \A n : SearchedUpTo(n)' = SearchedUpTo(n)
      /\ \A d : BestAt(d)' = BestAt(d)
      /\ TwoStops' = TwoStops /\ OneDay' = OneDay /\ Orderly' = Orderly
  BY <1>1, FirstStay
<1> SUFFICES ASSUME Orderly, OneDay, TwoStops
             PROVE  OptionsAreFirst' /\ OptionsAreCounted' /\ NoneLeft'
  BY <1>2 DEF NothingLeftOutYet
<1>3. OptionsAreFirst /\ OptionsAreCounted /\ (NoneLeft \/ NoGap)
  BY <1>1 DEF NothingLeftOutYet
<1>4. OptionsAreFirst'
  BY <1>1, <1>3, FirstStay
<1>5. OptionsAreCounted'
  BY <1>1, <1>3 DEF OptionsAreCounted, DepKey
<1>6. BestAt(csd) = INF
  BY <1>1, AnswerIsEarliest
<1>7. IsTimetable(graph) /\ csd \in Nat /\ dep_sec \in Nat /\ options \in Seq(OptionRecords)
  BY GraphIsATimetable DEF RouteInv, EngineInv, EngineTypeOK, RequestTypeOK
<1>8. PICK len \in Nat : len = Len(options)
  BY <1>7
<1> DEFINE upto == SearchedUpTo(len)
<1>9. upto \in Nat
  <2>1. len # 0 => len \in DOMAIN options
    BY <1>7, <1>8
  <2>2. len # 0 => options[len].first_bus_sec \in Nat
    BY <1>7, <2>1, OptionAt
  <2> QED
    BY <1>7, <2>2 DEF SearchedUpTo
<1> HIDE DEF upto, csd, next
<1>10. ASSUME NEW e \in Nat, csd <= e
       PROVE  BestAt(e) = INF
  <2>1. BestAt(csd) \in Nat /\ BestAt(e) \in Nat /\ BestAt(csd) <= BestAt(e) /\ BestAt(e) <= INF
    BY <1>7, <1>10, JourneysGetLater
  <2> DEFINE a == BestAt(csd)
             b == BestAt(e)
  <2>2. a \in Nat /\ b \in Nat /\ a <= b /\ b <= INF /\ a = INF
    BY <1>6, <2>1
  <2> HIDE DEF a, b
  <2>3. b = INF
    BY <2>2
  <2> QED
    BY <2>3 DEF b
<1>11. BestAt(next) = INF
  <2>1. next \in Nat /\ csd <= next
    BY <1>1, <1>7 DEF csd, next
  <2> QED
    BY <1>10, <2>1
<1>12. BestAt(upto) = INF
  <2>1. CASE NoneLeft
    BY <1>8, <2>1 DEF NoneLeft, upto
  <2>2. CASE NoGap
    <3>1. csd <= upto
      BY <1>8, <2>2 DEF NoGap, upto, csd
    <3> QED
      BY <1>9, <1>10, <3>1
  <2> QED
    BY <1>3, <2>1, <2>2
<1>13. NoneLeft'
  <2>1. SearchedUpTo(Len(options))' = upto
    BY <1>1, <1>8 DEF SearchedUpTo, upto
  <2>2. BestAt(SearchedUpTo(Len(options)))' = BestAt(upto)
    BY <1>1, <2>1 DEF BestAt
  <2>3. BestAt(current_search_dep)' = BestAt(next)
    BY <1>1 DEF BestAt, next
  <2> QED
    BY <1>11, <1>12, <2>2, <2>3 DEF NoneLeft
<1> QED
  BY <1>4, <1>5, <1>13

(* The plan that is found becomes an option, and the next search begins    *)
(* where nobody is missed.                                                 *)
LEMMA NoneIsMissed ==
  ASSUME RouteInv, EngineFinds, NothingLeftOutYet, TakeOption
  PROVE  NothingLeftOutYet'
<1> DEFINE option == OptionOf(plan)
           csd == current_search_dep
           next == NextSearch(option)
           key == DepKey(option)
<1>1. /\ rpc = "plan" /\ pc = "done" /\ plan # None
      /\ key \notin seen_departure_times =>
           /\ options' = Append(options, option)
           /\ seen_departure_times' = seen_departure_times \cup {key}
      /\ current_search_dep' = next /\ rpc' = "loop"
      /\ UNCHANGED <<graph, source, target, dep_sec, num_options, tries>>
  BY DEF TakeOption, engineVars, call, requestVars
<1>2. TwoStops' = TwoStops /\ OneDay' = OneDay /\ Orderly' = Orderly
      /\ DepartureTimes' = DepartureTimes
  BY <1>1 DEF TwoStops, OneDay, Orderly, DepartureTimes, tripsOf, stopsOf
<1> SUFFICES ASSUME Orderly, OneDay, TwoStops
             PROVE  OptionsAreFirst' /\ OptionsAreCounted' /\ NoGap'
  BY <1>2 DEF NothingLeftOutYet
<1>3. OptionsAreFirst /\ OptionsAreCounted /\ (NoneLeft \/ NoGap)
  BY <1>1 DEF NothingLeftOutYet
<1>4. /\ IsTimetable(graph) /\ csd \in Nat /\ dep_sec \in Nat /\ dep_sec <= csd
      /\ options \in Seq(OptionRecords)
  BY GraphIsATimetable DEF RouteInv, EngineInv, EngineTypeOK, RequestTypeOK
<1>5. option \in OptionRecords
  BY <1>1, OptionRecord DEF RouteInv, EngineInv, PlanIsSound
<1>6. /\ option.departure_sec \in Nat /\ option.arrival_sec \in Nat /\ option.first_bus_sec \in Nat
      /\ csd <= option.departure_sec /\ option.departure_sec <= option.first_bus_sec
      /\ option.arrival_sec = BestAt(csd) /\ BestAt(csd) # INF
      /\ IF target \in DOMAIN graph.walk[source]
           THEN option.departure_sec <= csd + 400 /\ option.first_bus_sec <= csd + 700
           ELSE \E t \in DepartureTimes :
                  t \in Nat /\ option.departure_sec <= t /\ t <= option.departure_sec + LongestWalk
  BY <1>1, NextOptionIs
<1>7. NoGap
  BY <1>3, <1>6 DEF NoneLeft
<1>8. PICK len \in Nat : len = Len(options)
  BY <1>4
<1>9. next \in {csd + 120, option.first_bus_sec + 60}
  <2> HIDE DEF option
  <2> QED
    BY <1>4, <1>6, NextSearchIs
<1> HIDE DEF option, next, key
<1>10. /\ tries = len + 1 /\ len < num_options /\ num_options \in 1 .. 5
       /\ csd <= SearchedUpTo(len)
       /\ target \in DOMAIN graph.walk[source] => csd <= dep_sec + 760 * len
  BY <1>1, <1>3, <1>7, <1>8 DEF NoGap, OptionsAreCounted
<1>11. LeavesInTheDay(option.departure_sec)
  <2>1. dep_sec <= option.departure_sec
    BY <1>4, <1>6
  <2>2. CASE target \in DOMAIN graph.walk[source]
    <3>1. option.departure_sec <= dep_sec + 760 * 5
      BY <1>4, <1>6, <1>10, <2>2
    <3> QED
      BY <2>1, <2>2, <3>1 DEF LeavesInTheDay
  <2>3. CASE target \notin DOMAIN graph.walk[source]
    BY <1>6, <2>1, <2>3 DEF LeavesInTheDay
  <2> QED
    BY <2>2, <2>3
<1>12. ASSUME NEW n \in DOMAIN options
       PROVE  DepKey(options[n]) # key
  <2> DEFINE a == options[n].departure_sec
             b == option.departure_sec
             bus == options[n].first_bus_sec
  <2>1. a \in Nat /\ bus \in Nat /\ b \in Nat
    BY <1>4, <1>6, OptionAt
  <2>2. a <= bus /\ bus + 60 <= csd
    BY DEF RouteInv, OptionsAreInOrder, Orderly
  <2>3. LeavesInTheDay(a) /\ LeavesInTheDay(b)
    BY <1>3, <1>11 DEF OptionsAreFirst
  <2>4. csd <= b
    BY <1>6
  <2> HIDE DEF a, b, bus
  <2>5. a + 60 <= b
    BY <1>4, <2>1, <2>2, <2>4
  <2>6. Clock(a) # Clock(b)
    BY <1>4, <2>1, <2>3, <2>5, ToldApart
  <2> QED
    BY <2>6 DEF DepKey, key, a, b
<1>13. key \notin seen_departure_times
  BY <1>3, <1>12 DEF OptionsAreCounted
<1>14. /\ DOMAIN options' = 1 .. len + 1 /\ DOMAIN options = 1 .. len /\ Len(options') = len + 1
       /\ \A n \in 1 .. len : options'[n] = options[n]
       /\ options'[len + 1] = option
       /\ seen_departure_times' = seen_departure_times \cup {key}
  BY <1>1, <1>4, <1>5, <1>8, <1>13
<1>15. ASSUME NEW n \in 0 .. len
       PROVE  SearchedUpTo(n)' = SearchedUpTo(n)
  BY <1>1, <1>14 DEF SearchedUpTo
<1>16. SearchedUpTo(len + 1)' = option.first_bus_sec + 120
  BY <1>14 DEF SearchedUpTo
<1>17. SearchedUpTo(len) \in Nat
  <2>1. len # 0 => len \in DOMAIN options
    BY <1>14
  <2>2. len # 0 => options[len].first_bus_sec \in Nat
    BY <1>4, <2>1, OptionAt
  <2> QED
    BY <1>4, <2>2 DEF SearchedUpTo
<1>18. OptionsAreFirst'
  <2>1. \A d : BestAt(d)' = BestAt(d)
    BY <1>1 DEF BestAt
  <2>2. \A d : LeavesInTheDay(d)' <=> LeavesInTheDay(d)
    BY <1>1, <1>2 DEF LeavesInTheDay
  <2>3. ASSUME NEW n \in 1 .. len + 1
        PROVE  /\ options'[n].arrival_sec <= BestAt(SearchedUpTo(n - 1))'
               /\ LeavesInTheDay(options[n].departure_sec)'
    <3> DEFINE upto == SearchedUpTo(n - 1)
    <3>1. n - 1 \in 0 .. len
      OBVIOUS
    <3>2. BestAt(SearchedUpTo(n - 1))' = BestAt(upto)
      <4>1. SearchedUpTo(n - 1)' = upto
        BY <1>15, <3>1
      <4> QED
        BY <1>1, <4>1 DEF BestAt
    <3>3. CASE n = len + 1
      <4>1. csd <= upto /\ upto \in Nat
        <5>1. n - 1 = len
          BY <3>3
        <5> QED
          BY <1>10, <1>17, <5>1
      <4> HIDE DEF upto, csd
      <4>2. BestAt(csd) <= BestAt(upto)
        BY <1>4, <4>1, JourneysGetLater
      <4>3. option.arrival_sec <= BestAt(upto)
        BY <1>6, <4>2 DEF csd
      <4>4. LeavesInTheDay(options[n].departure_sec)' <=> LeavesInTheDay(option.departure_sec)
        BY <1>1, <1>2, <1>14, <3>3 DEF LeavesInTheDay
      <4> QED
        BY <1>11, <1>14, <3>2, <3>3, <4>3, <4>4
    <3>4. CASE n \in 1 .. len
      <4>1. options[n].arrival_sec <= BestAt(upto) /\ LeavesInTheDay(options[n].departure_sec)
        BY <1>3, <1>14, <3>4 DEF OptionsAreFirst
      <4>2. LeavesInTheDay(options[n].departure_sec)' <=> LeavesInTheDay(options[n].departure_sec)
        BY <1>1, <1>2, <1>14, <3>4 DEF LeavesInTheDay
      <4> QED
        BY <1>14, <3>2, <3>4, <4>1, <4>2
    <3>5. n = len + 1 \/ n \in 1 .. len
      OBVIOUS
    <3> QED
      BY <3>3, <3>4, <3>5
  <2> QED
    BY <1>14, <2>3 DEF OptionsAreFirst
<1>19. OptionsAreCounted'
  <2>1. {DepKey(options[n]) : n \in DOMAIN options}' = {DepKey(options[n]) : n \in DOMAIN options} \cup {key}
    <3>1. /\ \A n \in 1 .. len : DepKey(options[n])' = DepKey(options[n])
          /\ DepKey(options[len + 1])' = key
      BY <1>14 DEF DepKey, key
    <3>2. 1 .. len + 1 = (1 .. len) \cup {len + 1}
      OBVIOUS
    <3> QED
      BY <1>14, <3>1, <3>2
  <2>2. seen_departure_times = {DepKey(options[n]) : n \in DOMAIN options}
    BY <1>3 DEF OptionsAreCounted
  <2>3. seen_departure_times' = {DepKey(options[n]) : n \in DOMAIN options}'
    BY <1>14, <2>1, <2>2
  <2>4. num_options' \in 1 .. 5 /\ Len(options') <= num_options' /\ rpc' # "plan"
    BY <1>1, <1>10, <1>14
  <2> QED
    BY <2>3, <2>4 DEF OptionsAreCounted
<1>20. NoGap'
  <2>1. current_search_dep' <= option.first_bus_sec + 120
    BY <1>1, <1>4, <1>6, <1>9
  <2>2. target \in DOMAIN graph.walk[source] => current_search_dep' <= dep_sec + 760 * (len + 1)
    BY <1>1, <1>4, <1>6, <1>9, <1>10
  <2>3. SearchedUpTo(Len(options))' = option.first_bus_sec + 120
    BY <1>14, <1>16 DEF SearchedUpTo
  <2> QED
    BY <1>1, <1>10, <1>14, <2>1, <2>2, <2>3 DEF NoGap
<1> QED
  BY <1>18, <1>19, <1>20

LEMMA LoopGoesThrough ==
  ASSUME RouteInv, EngineFinds, NothingLeftOutYet, [RouteNext]_routeVars
  PROVE  NothingLeftOutYet'
<1>1. CASE \E s, t \in 0 .. NumStops, d \in Departures, wish \in Wishes : HandleRequest(s, t, d, wish)
  BY <1>1, FirstRequest
<1>2. CASE TakeOption
  BY <1>2, NoneIsMissed
<1>3. CASE NoOption
  BY <1>3, NoneIsLeft
<1>4. CASE Search \/ Plan \/ Answer \/ UNCHANGED routeVars
  <2>1. UNCHANGED graph
    <3>1. CASE Search
      BY <3>1 DEF Search, PlanRoute
    <3>2. CASE Plan
      BY <3>2, EngineStepKeeps DEF Plan, RouteInv
    <3>3. CASE Answer \/ UNCHANGED routeVars
      BY <3>3 DEF Answer, routeVars, engineVars, call
    <3> QED
      BY <1>4, <3>1, <3>2, <3>3
  <2>2. UNCHANGED <<source, target, dep_sec, num_options, current_search_dep, options, seen_departure_times>>
    BY <1>4 DEF Search, Plan, Answer, routeVars, requestVars, loopVars
  <2>3. \/ rpc = "loop" /\ rpc' = "plan" /\ tries' = tries + 1 /\ LoopGoesOn
        \/ rpc' = rpc /\ tries' = tries
        \/ rpc \in {"answer", "loop"} /\ rpc' = "done" /\ tries' = tries
                                      /\ (rpc = "loop" => ~LoopGoesOn)
    BY <1>4 DEF Search, Plan, Answer, routeVars, requestVars, loopVars
  <2> QED
    BY <2>1, <2>2, <2>3, LoopStays
<1> QED
  BY <1>1, <1>2, <1>3, <1>4 DEF RouteNext

(* What /api/route answers leaves nothing out that it could have shown: in *)
(* an orderly timetable of a day, each option arrives no later than any    *)
(* journey that leaves two minutes after the bus of the one before it, and *)
(* where there are fewer than were asked for there is no further journey.  *)
THEOREM AnswersAreComplete == RouteSpec => []NothingIsLeftOut
<1>1. RouteInit => NothingLeftOutYet
  BY DEF RouteInit, NothingLeftOutYet
<1>2. RouteFinds /\ NothingLeftOutYet /\ [RouteNext]_routeVars => NothingLeftOutYet'
  BY LoopGoesThrough DEF RouteFinds
<1>3. RouteFinds /\ NothingLeftOutYet => NothingIsLeftOut
  <2> SUFFICES ASSUME RouteFinds, NothingLeftOutYet, rpc = "done", Orderly, OneDay,
                      source \in Stops, target \in Stops \ {source}
               PROVE  /\ \A n \in DOMAIN options : options[n].arrival_sec <= ArrivalAfter(n - 1)
                      /\ Len(options) < num_options => ArrivalAfter(Len(options)) = INF
    BY DEF NothingIsLeftOut
  <2>1. OptionsAreFirst /\ OptionsAreCounted /\ (NoneLeft \/ NoGap)
    BY DEF NothingLeftOutYet, TwoStops
  <2>2. \A n : ArrivalAfter(n) = BestAt(SearchedUpTo(n))
    BY DEF ArrivalAfter, BestAt, SearchedUpTo
  <2>3. \A n \in DOMAIN options : options[n].arrival_sec <= ArrivalAfter(n - 1)
    BY <2>1, <2>2 DEF OptionsAreFirst
  <2>4. CASE NoneLeft
    BY <2>2, <2>3, <2>4 DEF NoneLeft
  <2>5. CASE NoGap
    <3>1. Len(options) = num_options /\ num_options \in 1 .. 5
      BY <2>1, <2>5 DEF NoGap, OptionsAreCounted
    <3> QED
      BY <2>3, <3>1
  <2> QED
    BY <2>1, <2>4, <2>5
<1> QED
  BY <1>1, <1>2, <1>3, RouteFindsEarliest, PTL DEF RouteSpec
=============================================================================
