-------------------------- MODULE FeedToGraphProofs --------------------------
(***************************************************************************)
(* Proofs about FeedToGraph, for any feeds that FeedsAssumption allows,    *)
(* however often the compiler is run and the engine started: whatever the  *)
(* engine finds on the disk, also a part of a file that is being written,  *)
(* the index it makes of it is faithful to it.                             *)
(***************************************************************************)
EXTENDS FeedToGraph, TLAPS, FiniteSetTheorems, FunctionTheorems, SequenceTheorems

Row == [trip_id : 0 .. FOOTPATH_ROUTE_ID - 2, stop_id : Nat, arr_sec : Time, dep_sec : Time,
        stop_sequence : Nat]
StopRecord == [id : Nat, place : Int]
Route == [id : Nat, num_stops : Nat, num_trips : Nat, route_stops_offset : Nat,
          stop_times_offset : Nat]
WalkRecord == [to_stop : Nat, duration_sec : Time]

-----------------------------------------------------------------------------
(* The invariant of build_index, by the stage it is at.                    *)
IndexTypeOK ==
  /\ ipc \in {"idle", "trips", "routes", "stop_routes", "offsets", "walks", "ready"}
  /\ stops \in Seq(StopRecord) /\ raw_stop_times \in Seq(Row)
  /\ routes \in Seq(Route) /\ route_stops \in Seq(Nat) /\ stop_times \in Seq(Row)

Ungrouped == {"idle", "trips"}
Unlisted == Ungrouped \cup {"routes", "stop_routes"}
Unflattened == Unlisted \cup {"offsets"}

(* Each trip has its rows in order.                                        *)
TripsAreGrouped ==
  /\ DOMAIN trip_stoptimes = Trips
  /\ \A t \in Trips : trip_stoptimes[t] \in TripOrders(t)

Pattern(t) == StopsOf(trip_stoptimes[t])

(* A route is where its offsets say, with all trips of its pattern.        *)
LaidOutBy(r, ids) ==
  /\ ids \in TripIds(PatternOf(r)) /\ r.num_trips = Len(ids)
  /\ \A t \in 1 .. r.num_trips : \A i \in 1 .. r.num_stops :
       RowOf(r, t, i) = trip_stoptimes[ids[t]][i]

IsLaidOut(n) ==
  /\ routes[n].id = n - 1 /\ routes[n].num_stops > 0
  /\ routes[n].route_stops_offset + routes[n].num_stops <= Len(route_stops)
  /\ routes[n].stop_times_offset + routes[n].num_trips * routes[n].num_stops <= Len(stop_times)
  /\ \E ids : LaidOutBy(routes[n], ids)

RowsLaidOut == {n \in DOMAIN raw_stop_times : Pattern(raw_stop_times[n].trip_id) \notin remaining}

(* Every pattern is still to come or has one route; the rows are those of  *)
(* the patterns that have one.                                             *)
LayoutIsSound ==
  /\ \A n \in DOMAIN routes : IsLaidOut(n) /\ PatternOf(routes[n]) \notin remaining
  /\ \A m, n \in DOMAIN routes : m # n => PatternOf(routes[m]) # PatternOf(routes[n])
  /\ {Pattern(t) : t \in Trips} = remaining \cup {PatternOf(routes[n]) : n \in DOMAIN routes}
  /\ Len(stop_times) = Cardinality(RowsLaidOut)

(* The routes through a stop that come before a position of a route, each  *)
(* once in the list of the stop.                                           *)
Comes(m, i, n, p) == m < n \/ (m = n /\ i < p)
RoutesThrough(s, n, p) ==
  {m \in DOMAIN routes :
     \E i \in DOMAIN PatternOf(routes[m]) : PatternOf(routes[m])[i] = s /\ Comes(m, i, n, p)}

Lists(list, ids) ==
  /\ list \in Seq(Nat)
  /\ \A i, j \in DOMAIN list : i < j => list[i] < list[j]
  /\ \A x : (\E i \in DOMAIN list : list[i] = x) <=> \E m \in ids : x = m - 1

StopsAreListed(n, p) ==
  /\ DOMAIN stop_to_routes = 0 .. NumberOfStops - 1
  /\ \A s \in DOMAIN stop_to_routes : Lists(stop_to_routes[s], RoutesThrough(s, n, p))

(* Lists one after another in a flat sequence, with the offset of each and *)
(* of the end.                                                             *)
Flattened(S, lists, flat, offsets) ==
  /\ lists \in Seq(Seq(S)) /\ flat \in Seq(S) /\ offsets \in Seq(Nat)
  /\ Len(offsets) = Len(lists) + 1 /\ offsets[Len(lists) + 1] = Len(flat)
  /\ \A s \in 1 .. Len(lists) :
       /\ offsets[s] + Len(lists[s]) = offsets[s + 1] /\ offsets[s + 1] <= Len(flat)
       /\ \A i \in 1 .. Len(lists[s]) : flat[offsets[s] + i] = lists[s][i]

RouteLists(n) == [s \in 1 .. n |-> stop_to_routes[s - 1]]

AreWalks(lists, n) == Len(lists) = n /\ \A i \in 1 .. n : lists[i] \in FootpathsFrom(i)

LayoutInvariant ==
  /\ ipc \in Ungrouped => routes = <<>> /\ route_stops = <<>> /\ stop_times = <<>>
  /\ ipc \notin Ungrouped => TripsAreGrouped /\ LayoutIsSound
  /\ ipc \notin Ungrouped \cup {"routes"} => remaining = {}

ListsInvariant ==
  /\ ipc = "stop_routes" =>
       /\ next \in 1 .. Len(routes) + 1
       /\ position \in 1 .. IF next <= Len(routes) THEN routes[next].num_stops ELSE 1
       /\ StopsAreListed(next, position)
  /\ ipc \notin Unlisted => StopsAreListed(Len(routes) + 1, 1)

OffsetsInvariant ==
  /\ ipc \in Unlisted => stop_routes = <<>> /\ stop_routes_offsets = <<>>
  /\ ipc = "offsets" =>
       /\ next \in 1 .. NumberOfStops + 1
       /\ Flattened(Nat, RouteLists(next - 1), stop_routes,
                    Append(stop_routes_offsets, Len(stop_routes)))
  /\ ipc \notin Unflattened =>
       Flattened(Nat, RouteLists(NumberOfStops), stop_routes, stop_routes_offsets)

WalksInvariant ==
  /\ ipc \in Unflattened => footpaths = <<>> /\ footpath_offsets = <<>>
  /\ ipc = "walks" =>
       /\ next \in 1 .. NumberOfStops + 1
       /\ \E lists : /\ AreWalks(lists, next - 1)
                     /\ Flattened(WalkRecord, lists, footpaths,
                                  Append(footpath_offsets, Len(footpaths)))
  /\ ipc = "ready" =>
       \E lists : /\ AreWalks(lists, NumberOfStops)
                  /\ Flattened(WalkRecord, lists, footpaths, footpath_offsets)

IndexInvariant ==
  IndexTypeOK /\ LayoutInvariant /\ ListsInvariant /\ OffsetsInvariant /\ WalksInvariant

(* ... and of what goes into it.                                           *)
FilesTypeOK ==
  /\ feed \in Feeds
  /\ stops_bin \in Seq(StopRecord) /\ stop_times_bin \in Seq(Row)
  /\ loaded \in Seq(StopRecord)

(* What the compiler has written is what the rows it has read say; what a  *)
(* steady engine has loaded is what the compiler has written.              *)
TimesPacked(n) ==
  /\ \A k \in 1 .. n : Resolves(feed.stop_times[k]) =>
       \E m \in 1 .. Len(stop_times_bin) : stop_times_bin[m] = Packed(feed.stop_times[k])
  /\ \A m \in 1 .. Len(stop_times_bin) : \E k \in 1 .. n :
       Resolves(feed.stop_times[k]) /\ stop_times_bin[m] = Packed(feed.stop_times[k])

FilesSayTheFeed ==
  /\ cpc = "stops" => row \in 1 .. Len(feed.stops) + 1 /\ Len(stops_bin) = row - 1
  /\ cpc \in {"stop_times", "done"} => Len(stops_bin) = Len(feed.stops)
  /\ cpc = "stop_times" => row \in 1 .. Len(feed.stop_times) + 1 /\ TimesPacked(row - 1)
  /\ cpc = "done" => TimesPacked(Len(feed.stop_times))

LoadedIsOnDisk ==
  steady => /\ cpc = "done"
            /\ epc = "loading" => loaded = stops_bin
            /\ epc = "indexing" => stops = stops_bin /\ raw_stop_times = stop_times_bin

FeedInvariant == IndexInvariant /\ FilesTypeOK /\ FilesSayTheFeed /\ LoadedIsOnDisk

-----------------------------------------------------------------------------
(* Sequences.                                                              *)
LEMMA SeqFacts ==
  ASSUME NEW S, NEW s \in Seq(S)
  PROVE  /\ Len(s) \in Nat /\ DOMAIN s = 1 .. Len(s)
         /\ \A i \in 1 .. Len(s) : s[i] \in S
OBVIOUS

LEMMA FunctionIsSeq ==
  ASSUME NEW S, NEW n \in Nat, NEW f \in [1 .. n -> S]
  PROVE  /\ f \in Seq(S) /\ Len(f) = n /\ DOMAIN f = 1 .. n
         /\ \A i \in 1 .. n : f[i] \in S
OBVIOUS

LEMMA AppendFacts ==
  ASSUME NEW S, NEW s \in Seq(S), NEW x \in S
  PROVE  /\ Append(s, x) \in Seq(S)
         /\ Len(Append(s, x)) = Len(s) + 1 /\ DOMAIN Append(s, x) = 1 .. Len(s) + 1
         /\ \A i \in 1 .. Len(s) : Append(s, x)[i] = s[i]
         /\ Append(s, x)[Len(s) + 1] = x
OBVIOUS

LEMMA ConcatFacts ==
  ASSUME NEW S, NEW s \in Seq(S), NEW t \in Seq(S)
  PROVE  /\ s \o t \in Seq(S)
         /\ Len(s \o t) = Len(s) + Len(t)
         /\ \A i \in 1 .. Len(s) : (s \o t)[i] = s[i]
         /\ \A i \in 1 .. Len(t) : (s \o t)[Len(s) + i] = t[i]
OBVIOUS

LEMMA SubSeqFacts ==
  ASSUME NEW S, NEW s \in Seq(S), NEW a \in Nat, NEW n \in Nat, a + n <= Len(s)
  PROVE  /\ SubSeq(s, a + 1, a + n) \in Seq(S)
         /\ Len(SubSeq(s, a + 1, a + n)) = n
         /\ DOMAIN SubSeq(s, a + 1, a + n) = 1 .. n
         /\ \A i \in 1 .. n : SubSeq(s, a + 1, a + n)[i] = s[a + i]
<1>1. \A i \in a + 1 .. a + n : s[i] \in S
  OBVIOUS
<1>2. /\ SubSeq(s, a + 1, a + n) \in Seq(S)
      /\ Len(SubSeq(s, a + 1, a + n)) = IF a + 1 <= a + n THEN a + n - (a + 1) + 1 ELSE 0
      /\ \A i \in 1 .. a + n - (a + 1) + 1 : SubSeq(s, a + 1, a + n)[i] = s[a + 1 + i - 1]
  BY <1>1, SubSeqProperties
<1> QED
  BY <1>2, SeqFacts

LEMMA IntervalFacts ==
  ASSUME NEW n \in Nat
  PROVE  IsFiniteSet(1 .. n) /\ Cardinality(1 .. n) = n
<1>1. 1 \in Int /\ n \in Int /\ (n >= 1 => n - 1 + 1 = n) /\ (1 > n => n = 0)
  OBVIOUS
<1> QED
  BY <1>1, FS_Interval

(* Who numbers a set without repetition counts it.                         *)
LEMMA CountedBy ==
  ASSUME NEW S, NEW n \in Nat, NEW f \in [1 .. n -> S],
         \A i, j \in 1 .. n : i # j => f[i] # f[j],
         \A x \in S : \E i \in 1 .. n : f[i] = x
  PROVE  IsFiniteSet(S) /\ Cardinality(S) = n
<1>1. f \in Bijection(1 .. n, S)
  BY DEF Bijection, Injection, Surjection, IsInjective
<1>2. ExistsBijection(1 .. n, S)
  BY <1>1 DEF ExistsBijection
<1>3. IsFiniteSet(S)
  BY <1>2, FS_NatBijection
<1>4. Cardinality(S) = n
  BY <1>2, <1>3, FS_CountingElements
<1> QED
  BY <1>3, <1>4

Part(s, a, n) == SubSeq(s, a + 1, a + n)

LEMMA PartFacts ==
  ASSUME NEW S, NEW s \in Seq(S), NEW a \in Nat, NEW n \in Nat, a + n <= Len(s)
  PROVE  /\ Part(s, a, n) \in Seq(S) /\ Len(Part(s, a, n)) = n
         /\ \A i \in 1 .. n : Part(s, a, n)[i] = s[a + i]
BY SubSeqFacts DEF Part

(* A sorting of a finite set has each of its elements once.                *)
LEMMA SortingFacts ==
  ASSUME NEW S, IsFiniteSet(S), NEW key, NEW seq \in Sortings(S, key)
  PROVE  /\ seq \in Seq(S) /\ Len(seq) = Cardinality(S) /\ Len(seq) \in Nat
         /\ DOMAIN seq = 1 .. Len(seq)
         /\ \A i, j \in 1 .. Len(seq) : i # j => seq[i] # seq[j]
         /\ \A x \in S : \E i \in 1 .. Len(seq) : seq[i] = x
         /\ \A i, j \in 1 .. Len(seq) : i < j => key[seq[i]] <= key[seq[j]]
<1> DEFINE n == Cardinality(S)
<1>1. n \in Nat
  BY FS_CardinalityType
<1>2. /\ seq \in [1 .. n -> S] /\ InOrder(seq, key)
      /\ \A i, j \in 1 .. n : i # j => seq[i] # seq[j]
  BY DEF Sortings, SetToSeqs
<1>0. n = Cardinality(S)
  OBVIOUS
<1> HIDE DEF n
<1>3. seq \in Seq(S) /\ Len(seq) = n /\ DOMAIN seq = 1 .. n
  BY <1>1, <1>2, FunctionIsSeq
<1>4. \A x \in S : \E i \in 1 .. n : seq[i] = x
  <2>1. IsFiniteSet(1 .. n) /\ Cardinality(1 .. n) = n
    BY <1>1, FS_Interval
  <2>2. seq \in Injection(1 .. n, S)
    BY <1>2 DEF Injection, IsInjective
  <2>3. seq \in Surjection(1 .. n, S)
    BY <1>0, <2>1, <2>2, FS_Injection
  <2> QED
    BY <2>3 DEF Surjection
<1> QED
  BY <1>0, <1>1, <1>2, <1>3, <1>4 DEF InOrder

(* Rows of k each, one after another.                                      *)
LEMMA RowIndex ==
  ASSUME NEW k \in Nat, k > 0, NEW m \in Nat, NEW t \in 1 .. m, NEW i \in 1 .. k
  PROVE  /\ (t - 1) * k + i \in 1 .. m * k
         /\ (((t - 1) * k + i - 1) \div k) + 1 = t
         /\ (((t - 1) * k + i - 1) % k) + 1 = i
<1>1. (t - 1) * k + i \in 1 .. m * k
  OBVIOUS
<1>2. t - 1 \in Nat /\ i - 1 \in 0 .. k - 1
  OBVIOUS
<1>3. ((t - 1) * k + (i - 1)) \div k = t - 1 /\ ((t - 1) * k + (i - 1)) % k = i - 1
  <2>1. \A q \in Nat : \A r \in 0 .. k - 1 : (q * k + r) \div k = q /\ (q * k + r) % k = r
    OBVIOUS
  <2> QED
    BY <1>2, <2>1
<1>4. (t - 1) * k + i - 1 = (t - 1) * k + (i - 1)
  OBVIOUS
<1> QED
  BY <1>1, <1>3, <1>4

LEMMA IndexRow ==
  ASSUME NEW k \in Nat, k > 0, NEW m \in Nat, NEW x \in 1 .. m * k
  PROVE  ((x - 1) \div k) + 1 \in 1 .. m /\ ((x - 1) % k) + 1 \in 1 .. k
OBVIOUS

-----------------------------------------------------------------------------
(* The rows of a trip.                                                     *)
PositionsOf(t) == {n \in DOMAIN raw_stop_times : raw_stop_times[n].trip_id = t}

OrderedBy(order, t) ==
  /\ order \in Seq(PositionsOf(t)) /\ Len(order) = Cardinality(PositionsOf(t))
  /\ \A i, j \in 1 .. Len(order) : i # j => order[i] # order[j]
  /\ \A n \in PositionsOf(t) : \E i \in 1 .. Len(order) : order[i] = n
  /\ \A i, j \in 1 .. Len(order) : i < j =>
       raw_stop_times[order[i]].stop_sequence <= raw_stop_times[order[j]].stop_sequence

LEMMA RawRows ==
  ASSUME IndexTypeOK
  PROVE  /\ Len(raw_stop_times) \in Nat /\ DOMAIN raw_stop_times = 1 .. Len(raw_stop_times)
         /\ \A n \in DOMAIN raw_stop_times : raw_stop_times[n] \in Row
         /\ \A t : IsFiniteSet(PositionsOf(t)) /\ PositionsOf(t) \subseteq 1 .. Len(raw_stop_times)
         /\ \A t \in Trips : PositionsOf(t) # {}
<1>1. /\ Len(raw_stop_times) \in Nat /\ DOMAIN raw_stop_times = 1 .. Len(raw_stop_times)
      /\ \A n \in DOMAIN raw_stop_times : raw_stop_times[n] \in Row
  BY SeqFacts DEF IndexTypeOK
<1>2. IsFiniteSet(1 .. Len(raw_stop_times))
  BY <1>1, FS_Interval
<1>3. \A t : PositionsOf(t) \subseteq 1 .. Len(raw_stop_times)
  BY <1>1 DEF PositionsOf
<1>4. \A t : IsFiniteSet(PositionsOf(t))
  BY <1>2, <1>3, FS_Subset
<1>5. \A t \in Trips : PositionsOf(t) # {}
  BY DEF Trips, Range, PositionsOf
<1> QED
  BY <1>1, <1>3, <1>4, <1>5

LEMMA TripsAreFew ==
  ASSUME IndexTypeOK
  PROVE  IsFiniteSet(Trips) /\ Cardinality(Trips) < FOOTPATH_ROUTE_ID
<1> DEFINE Ids == 0 .. FOOTPATH_ROUTE_ID - 2
<1>1. Trips \subseteq Ids
  BY RawRows DEF Trips, Range, Row
<1>2. IsFiniteSet(Ids) /\ Cardinality(Ids) < FOOTPATH_ROUTE_ID
  BY FS_Interval, NumStopsAssumption, WordAssumption DEF FOOTPATH_ROUTE_ID
<1>3. Cardinality(Trips) <= Cardinality(Ids) /\ IsFiniteSet(Trips)
  BY <1>1, <1>2, FS_Subset
<1>4. Cardinality(Trips) \in Nat /\ Cardinality(Ids) \in Nat
  BY <1>2, <1>3, FS_CardinalityType
<1>5. FOOTPATH_ROUTE_ID \in Int
  BY NumStopsAssumption, WordAssumption DEF FOOTPATH_ROUTE_ID
<1> HIDE DEF Ids
<1> QED
  BY <1>2, <1>3, <1>4, <1>5

LEMMA TripOrder ==
  ASSUME IndexTypeOK, NEW t, NEW times \in TripOrders(t)
  PROVE  \E order : /\ OrderedBy(order, t)
                    /\ times = [i \in 1 .. Len(order) |-> raw_stop_times[order[i]]]
<1> DEFINE key == [n \in PositionsOf(t) |-> raw_stop_times[n].stop_sequence]
<1>1. PICK order \in Sortings(PositionsOf(t), key) :
        times = [i \in DOMAIN order |-> raw_stop_times[order[i]]]
  BY DEF TripOrders, PositionsOf
<1>2. /\ order \in Seq(PositionsOf(t)) /\ Len(order) = Cardinality(PositionsOf(t))
      /\ DOMAIN order = 1 .. Len(order)
      /\ \A i, j \in 1 .. Len(order) : i # j => order[i] # order[j]
      /\ \A n \in PositionsOf(t) : \E i \in 1 .. Len(order) : order[i] = n
      /\ \A i, j \in 1 .. Len(order) : i < j => key[order[i]] <= key[order[j]]
  <2> HIDE DEF key
  <2> DEFINE P == PositionsOf(t)
  <2>1. IsFiniteSet(P) /\ order \in Sortings(P, key)
    BY <1>1, RawRows
  <2> HIDE DEF P
  <2>2. /\ order \in Seq(P) /\ Len(order) = Cardinality(P) /\ DOMAIN order = 1 .. Len(order)
        /\ \A i, j \in 1 .. Len(order) : i # j => order[i] # order[j]
        /\ \A n \in P : \E i \in 1 .. Len(order) : order[i] = n
        /\ \A i, j \in 1 .. Len(order) : i < j => key[order[i]] <= key[order[j]]
    BY <2>1, SortingFacts
  <2> QED
    BY <2>2 DEF P
<1>3. \A i \in 1 .. Len(order) : order[i] \in PositionsOf(t)
  BY <1>2, SeqFacts
<1>4. \A i, j \in 1 .. Len(order) : i < j =>
        raw_stop_times[order[i]].stop_sequence <= raw_stop_times[order[j]].stop_sequence
  BY <1>2, <1>3
<1> QED
  BY <1>1, <1>2, <1>4 DEF OrderedBy

IsTrip(times, t) ==
  /\ times \in Seq(Row) /\ Len(times) > 0
  /\ \A i \in 1 .. Len(times) : times[i] \in Range(raw_stop_times) /\ times[i].trip_id = t
  /\ \A st \in Range(raw_stop_times) : st.trip_id = t => \E i \in 1 .. Len(times) : times[i] = st
  /\ \A i, j \in 1 .. Len(times) : i < j => times[i].stop_sequence <= times[j].stop_sequence

LEMMA TripFacts ==
  ASSUME IndexTypeOK, TripsAreGrouped, NEW t \in Trips
  PROVE  IsTrip(trip_stoptimes[t], t)
<1> DEFINE times == trip_stoptimes[t]
<1>1. PICK order : /\ OrderedBy(order, t)
                   /\ times = [i \in 1 .. Len(order) |-> raw_stop_times[order[i]]]
  BY TripOrder DEF TripsAreGrouped
<1>2. /\ Len(order) \in Nat /\ \A i \in 1 .. Len(order) : order[i] \in PositionsOf(t)
  BY <1>1, SeqFacts DEF OrderedBy
<1>3. \A n \in PositionsOf(t) : n \in DOMAIN raw_stop_times /\ raw_stop_times[n] \in Row
                               /\ raw_stop_times[n].trip_id = t
  BY RawRows DEF PositionsOf
<1>4. times \in Seq(Row) /\ Len(times) = Len(order)
  BY <1>1, <1>2, <1>3, FunctionIsSeq
<1>5. Len(times) > 0
  <2>1. PICK n : n \in PositionsOf(t)
    BY RawRows
  <2> QED
    BY <1>1, <1>2, <1>4, <2>1 DEF OrderedBy
<1>6. \A i \in 1 .. Len(times) : times[i] = raw_stop_times[order[i]]
  BY <1>1, <1>4
<1>7. \A i \in 1 .. Len(times) : times[i] \in Range(raw_stop_times) /\ times[i].trip_id = t
  BY <1>2, <1>3, <1>4, <1>6 DEF Range
<1>8. ASSUME NEW st \in Range(raw_stop_times), st.trip_id = t
      PROVE  \E i \in 1 .. Len(times) : times[i] = st
  <2>1. PICK n \in PositionsOf(t) : raw_stop_times[n] = st
    BY <1>8 DEF Range, PositionsOf
  <2> QED
    BY <1>1, <1>4, <1>6, <2>1 DEF OrderedBy
<1>9. \A i, j \in 1 .. Len(times) : i < j => times[i].stop_sequence <= times[j].stop_sequence
  BY <1>1, <1>4, <1>6 DEF OrderedBy
<1> QED
  BY <1>4, <1>5, <1>7, <1>8, <1>9 DEF IsTrip

LEMMA PatternFacts ==
  ASSUME IndexTypeOK, TripsAreGrouped, NEW t \in Trips
  PROVE  /\ Pattern(t) \in Seq(Nat) /\ Len(Pattern(t)) = Len(trip_stoptimes[t])
         /\ Len(trip_stoptimes[t]) \in Nat \ {0}
         /\ \A i \in 1 .. Len(trip_stoptimes[t]) :
              Pattern(t)[i] = trip_stoptimes[t][i].stop_id
<1> DEFINE times == trip_stoptimes[t]
<1>1. times \in Seq(Row) /\ Len(times) > 0
  BY TripFacts DEF IsTrip
<1>2. /\ Len(times) \in Nat /\ DOMAIN times = 1 .. Len(times)
      /\ \A i \in 1 .. Len(times) : times[i].stop_id \in Nat
  <2> HIDE DEF times
  <2>1. /\ Len(times) \in Nat /\ DOMAIN times = 1 .. Len(times)
        /\ \A i \in 1 .. Len(times) : times[i] \in Row
    BY <1>1, SeqFacts
  <2> QED
    BY <2>1 DEF Row
<1>3. Pattern(t) = [i \in 1 .. Len(times) |-> times[i].stop_id]
  BY <1>2 DEF Pattern, StopsOf
<1>4. Pattern(t) \in [1 .. Len(times) -> Nat]
  BY <1>2, <1>3
<1> QED
  BY <1>1, <1>2, <1>3, <1>4, FunctionIsSeq

(* The trips of a pattern, in the order the route has them.                *)
LEMMA TripIdsFacts ==
  ASSUME IndexTypeOK, TripsAreGrouped, NEW seq, NEW ids \in TripIds(seq)
  PROVE  /\ Len(ids) \in Nat /\ Len(ids) = Cardinality(TripsWith(seq))
         /\ IsFiniteSet(TripsWith(seq)) /\ TripsWith(seq) \subseteq Trips
         /\ \A n \in 1 .. Len(ids) : ids[n] \in Trips /\ Pattern(ids[n]) = seq
         /\ \A m, n \in 1 .. Len(ids) : m # n => ids[m] # ids[n]
         /\ \A t \in Trips : Pattern(t) = seq => \E n \in 1 .. Len(ids) : ids[n] = t
         /\ \A m, n \in 1 .. Len(ids) : m < n =>
              trip_stoptimes[ids[m]][1].dep_sec <= trip_stoptimes[ids[n]][1].dep_sec
<1>1. TripsWith(seq) = {t \in Trips : Pattern(t) = seq}
  BY DEF TripsWith, TripsAreGrouped, Pattern
<1>2. IsFiniteSet(TripsWith(seq))
  BY <1>1, TripsAreFew, FS_Subset
<1>3. /\ ids \in Seq(TripsWith(seq)) /\ Len(ids) \in Nat /\ Len(ids) = Cardinality(TripsWith(seq))
      /\ \A m, n \in 1 .. Len(ids) : m # n => ids[m] # ids[n]
      /\ \A t \in TripsWith(seq) : \E n \in 1 .. Len(ids) : ids[n] = t
      /\ \A m, n \in 1 .. Len(ids) : m < n =>
           FirstDeparture[ids[m]] <= FirstDeparture[ids[n]]
  BY <1>2, SortingFacts DEF TripIds
<1>4. \A n \in 1 .. Len(ids) : ids[n] \in TripsWith(seq)
  BY <1>3, SeqFacts
<1>5. \A t \in Trips : FirstDeparture[t] = trip_stoptimes[t][1].dep_sec
  BY DEF FirstDeparture, TripsAreGrouped
<1> QED
  BY <1>1, <1>2, <1>3, <1>4, <1>5

(* A pattern has as many rows as it has trips times stops.                 *)
RowsWith(seq) == {n \in DOMAIN raw_stop_times : Pattern(raw_stop_times[n].trip_id) = seq}

LEMMA RowsOfAPattern ==
  ASSUME IndexTypeOK, TripsAreGrouped, NEW t0 \in Trips, NEW ids \in TripIds(Pattern(t0))
  PROVE  IsFiniteSet(RowsWith(Pattern(t0)))
         /\ Cardinality(RowsWith(Pattern(t0))) = Len(ids) * Len(Pattern(t0))
<1> DEFINE seq == Pattern(t0)
           m == Len(ids)
           k == Len(seq)
           ord == [t \in Trips |-> CHOOSE order :
                     /\ OrderedBy(order, t)
                     /\ trip_stoptimes[t] = [i \in 1 .. Len(order) |-> raw_stop_times[order[i]]]]
           D == (1 .. m) \X (1 .. k)
           f == [p \in D |-> ord[ids[p[1]]][p[2]]]
<1>1. seq \in Seq(Nat) /\ k \in Nat /\ m \in Nat
  BY PatternFacts, TripIdsFacts
<1>2. /\ \A n \in 1 .. m : ids[n] \in Trips /\ Pattern(ids[n]) = seq
      /\ \A n, l \in 1 .. m : n # l => ids[n] # ids[l]
      /\ \A t \in Trips : Pattern(t) = seq => \E n \in 1 .. m : ids[n] = t
  BY TripIdsFacts
<1>3. ASSUME NEW t \in Trips, Pattern(t) = seq
      PROVE  OrderedBy(ord[t], t) /\ Len(ord[t]) = k
  <2>1. \E order : /\ OrderedBy(order, t)
                   /\ trip_stoptimes[t] = [i \in 1 .. Len(order) |-> raw_stop_times[order[i]]]
    BY TripOrder DEF TripsAreGrouped
  <2>2. /\ OrderedBy(ord[t], t)
        /\ trip_stoptimes[t] = [i \in 1 .. Len(ord[t]) |-> raw_stop_times[ord[t][i]]]
    BY <2>1
  <2> HIDE DEF ord
  <2>3. Len(ord[t]) \in Nat
    BY <2>2, SeqFacts DEF OrderedBy
  <2>4. Len(trip_stoptimes[t]) = k
    BY <1>3, PatternFacts
  <2>5. DOMAIN trip_stoptimes[t] = 1 .. k
    BY <1>1, <2>4, TripFacts, SeqFacts DEF IsTrip
  <2>6. 1 .. Len(ord[t]) = 1 .. k
    BY <2>2, <2>5
  <2>7. \A a, b \in Nat : 1 .. a = 1 .. b => a = b
    <3> SUFFICES ASSUME NEW a \in Nat, NEW b \in Nat, 1 .. a = 1 .. b PROVE a = b
      OBVIOUS
    <3>1. (a > 0 => a \in 1 .. b) /\ (b > 0 => b \in 1 .. a)
      OBVIOUS
    <3> QED
      BY <3>1
  <2> QED
    BY <1>1, <2>2, <2>3, <2>6, <2>7
<1> HIDE DEF ord, seq, m, k
<1>4. \A p \in D : p[1] \in 1 .. m /\ p[2] \in 1 .. k /\ p = <<p[1], p[2]>>
  OBVIOUS
<1>5. ASSUME NEW n \in 1 .. m, NEW i \in 1 .. k
      PROVE  /\ ord[ids[n]][i] \in DOMAIN raw_stop_times
             /\ raw_stop_times[ord[ids[n]][i]].trip_id = ids[n]
  <2>1. OrderedBy(ord[ids[n]], ids[n]) /\ Len(ord[ids[n]]) = k
    BY <1>2, <1>3
  <2>2. ord[ids[n]][i] \in PositionsOf(ids[n])
    BY <2>1, SeqFacts DEF OrderedBy
  <2> QED
    BY <2>2 DEF PositionsOf
<1>6. f \in [D -> RowsWith(seq)]
  BY <1>2, <1>4, <1>5 DEF RowsWith
<1>7. ASSUME NEW p \in D, NEW q \in D, f[p] = f[q] PROVE p = q
  <2>1. p[1] \in 1 .. m /\ p[2] \in 1 .. k /\ q[1] \in 1 .. m /\ q[2] \in 1 .. k
    BY <1>4
  <2>2. ord[ids[p[1]]][p[2]] = ord[ids[q[1]]][q[2]]
    BY <1>7
  <2>3. p[1] = q[1]
    BY <1>2, <1>5, <2>1, <2>2
  <2>4. \A i, j \in 1 .. k : i # j => ord[ids[p[1]]][i] # ord[ids[p[1]]][j]
    <3>1. OrderedBy(ord[ids[p[1]]], ids[p[1]]) /\ Len(ord[ids[p[1]]]) = k
      BY <1>2, <1>3, <2>1
    <3> QED
      BY <3>1 DEF OrderedBy
  <2>5. p[2] = q[2]
    BY <2>1, <2>2, <2>3, <2>4
  <2> QED
    BY <1>4, <2>3, <2>5
<1>8. ASSUME NEW x \in RowsWith(seq) PROVE \E p \in D : f[p] = x
  <2> DEFINE t == raw_stop_times[x].trip_id
  <2>1. t \in Trips /\ Pattern(t) = seq /\ x \in PositionsOf(t)
    BY DEF RowsWith, Trips, Range, PositionsOf
  <2> HIDE DEF t
  <2>2. PICK n \in 1 .. m : ids[n] = t
    BY <1>2, <2>1
  <2>3. PICK i \in 1 .. k : ord[t][i] = x
    BY <1>3, <2>1 DEF OrderedBy
  <2>4. <<n, i>> \in D /\ f[<<n, i>>] = x
    BY <2>2, <2>3
  <2> QED
    BY <2>4
<1>9. f \in Bijection(D, RowsWith(seq))
  BY <1>6, <1>7, <1>8 DEF Bijection, Injection, Surjection, IsInjective
<1>10. IsFiniteSet(D) /\ Cardinality(D) = m * k
  <2>1. /\ IsFiniteSet(1 .. m) /\ Cardinality(1 .. m) = m
        /\ IsFiniteSet(1 .. k) /\ Cardinality(1 .. k) = k
    BY <1>1, IntervalFacts
  <2> DEFINE A == 1 .. m
             B == 1 .. k
  <2>2. IsFiniteSet(A) /\ IsFiniteSet(B) /\ Cardinality(A) = m /\ Cardinality(B) = k /\ D = A \X B
    BY <2>1
  <2> HIDE DEF A, B, D
  <2>3. IsFiniteSet(A \X B) /\ Cardinality(A \X B) = Cardinality(A) * Cardinality(B)
    BY <2>2, FS_Product
  <2> QED
    BY <2>2, <2>3
<1>11. ExistsBijection(D, RowsWith(seq))
  BY <1>9 DEF ExistsBijection
<1>12. IsFiniteSet(RowsWith(seq)) /\ Cardinality(RowsWith(seq)) = m * k
  BY <1>10, <1>11, FS_Bijection
<1> QED
  BY <1>12 DEF seq, m, k

-----------------------------------------------------------------------------
(* Routes and where they are.                                              *)
LEMMA RouteFacts ==
  ASSUME IndexTypeOK, NEW n \in DOMAIN routes
  PROVE  /\ routes[n].id \in Nat /\ routes[n].num_stops \in Nat /\ routes[n].num_trips \in Nat
         /\ routes[n].route_stops_offset \in Nat /\ routes[n].stop_times_offset \in Nat
<1>1. routes[n] \in Route
  BY SeqFacts DEF IndexTypeOK
<1> QED
  BY <1>1 DEF Route

LEMMA PatternOfARoute ==
  ASSUME IndexTypeOK, NEW n \in DOMAIN routes,
         routes[n].route_stops_offset + routes[n].num_stops <= Len(route_stops)
  PROVE  /\ PatternOf(routes[n]) \in Seq(Nat)
         /\ Len(PatternOf(routes[n])) = routes[n].num_stops
         /\ DOMAIN PatternOf(routes[n]) = 1 .. routes[n].num_stops
         /\ \A i \in 1 .. routes[n].num_stops :
              PatternOf(routes[n])[i] = route_stops[routes[n].route_stops_offset + i]
<1> DEFINE a == routes[n].route_stops_offset
           k == routes[n].num_stops
<1>1. a \in Nat /\ k \in Nat /\ a + k <= Len(route_stops) /\ route_stops \in Seq(Nat)
  BY RouteFacts DEF IndexTypeOK
<1>2. PatternOf(routes[n]) = SubSeq(route_stops, a + 1, a + k)
  BY DEF PatternOf
<1> HIDE DEF a, k
<1>3. /\ SubSeq(route_stops, a + 1, a + k) \in Seq(Nat)
      /\ Len(SubSeq(route_stops, a + 1, a + k)) = k
      /\ DOMAIN SubSeq(route_stops, a + 1, a + k) = 1 .. k
      /\ \A i \in 1 .. k : SubSeq(route_stops, a + 1, a + k)[i] = route_stops[a + i]
  BY <1>1, SubSeqFacts
<1> QED
  BY <1>2, <1>3 DEF a, k

(* The row of a trip and a position is within the route's rows.            *)
LEMMA RowIsInside ==
  ASSUME IndexTypeOK, NEW n \in DOMAIN routes,
         routes[n].stop_times_offset + routes[n].num_trips * routes[n].num_stops
           <= Len(stop_times),
         NEW t \in 1 .. routes[n].num_trips, NEW i \in 1 .. routes[n].num_stops
  PROVE  routes[n].stop_times_offset + (t - 1) * routes[n].num_stops + i \in 1 .. Len(stop_times)
<1> DEFINE k == routes[n].num_stops
           m == routes[n].num_trips
           o == routes[n].stop_times_offset
<1>1. k \in Nat /\ m \in Nat /\ o \in Nat /\ Len(stop_times) \in Nat
  BY RouteFacts DEF IndexTypeOK
<1>2. o + m * k <= Len(stop_times) /\ t \in 1 .. m /\ i \in 1 .. k
  OBVIOUS
<1> HIDE DEF k, m, o
<1>3. (t - 1) * k + i \in 1 .. m * k
  <2>1. k > 0
    BY <1>1, <1>2
  <2> QED
    BY <1>1, <1>2, <2>1, RowIndex
<1>4. m * k \in Int /\ (t - 1) * k \in Int
  BY <1>1, <1>2
<1>5. o + (t - 1) * k + i = o + ((t - 1) * k + i)
  BY <1>1, <1>2, <1>4
<1>6. o + (t - 1) * k + i \in 1 .. Len(stop_times)
  <2> DEFINE x == (t - 1) * k + i
             y == m * k
  <2>1. x \in 1 .. y /\ y \in Int /\ o + y <= Len(stop_times)
    BY <1>2, <1>3, <1>4
  <2>2. o + (t - 1) * k + i = o + x
    BY <1>5
  <2> HIDE DEF x, y
  <2> QED
    BY <1>1, <2>1, <2>2
<1> QED
  BY <1>6 DEF k, m, o

(* The rows AppendRoute adds.                                              *)
LEMMA TripRowsFacts ==
  ASSUME IndexTypeOK, TripsAreGrouped, NEW t0 \in Trips, NEW ids \in TripIds(Pattern(t0))
  PROVE  /\ TripRows(ids, Len(Pattern(t0))) \in Seq(Row)
         /\ Len(TripRows(ids, Len(Pattern(t0)))) = Len(ids) * Len(Pattern(t0))
         /\ \A t \in 1 .. Len(ids) : \A i \in 1 .. Len(Pattern(t0)) :
              TripRows(ids, Len(Pattern(t0)))[(t - 1) * Len(Pattern(t0)) + i] =
                trip_stoptimes[ids[t]][i]
<1> DEFINE k == Len(Pattern(t0))
           m == Len(ids)
           R == TripRows(ids, k)
<1>1. k \in Nat /\ k > 0 /\ m \in Nat
  BY PatternFacts, TripIdsFacts
<1>2. ASSUME NEW t \in 1 .. m, NEW i \in 1 .. k PROVE trip_stoptimes[ids[t]][i] \in Row
  <2>1. ids[t] \in Trips /\ Pattern(ids[t]) = Pattern(t0)
    BY TripIdsFacts
  <2>2. Len(trip_stoptimes[ids[t]]) = k /\ trip_stoptimes[ids[t]] \in Seq(Row)
    BY <2>1, PatternFacts, TripFacts DEF IsTrip
  <2> HIDE DEF k
  <2> QED
    BY <2>2, SeqFacts
<1>3. R = [x \in 1 .. m * k |-> trip_stoptimes[ids[((x - 1) \div k) + 1]][((x - 1) % k) + 1]]
  BY DEF TripRows
<1> HIDE DEF k, m, R
<1>4. m * k \in Nat
  BY <1>1
<1>5. \A x \in 1 .. m * k : ((x - 1) \div k) + 1 \in 1 .. m /\ ((x - 1) % k) + 1 \in 1 .. k
  BY <1>1, IndexRow
<1>6. R \in [1 .. m * k -> Row]
  BY <1>2, <1>3, <1>5
<1>7. R \in Seq(Row) /\ Len(R) = m * k
  BY <1>4, <1>6, FunctionIsSeq
<1>8. ASSUME NEW t \in 1 .. m, NEW i \in 1 .. k
      PROVE  R[(t - 1) * k + i] = trip_stoptimes[ids[t]][i]
  <2> DEFINE x == (t - 1) * k + i
  <2>1. x \in 1 .. m * k /\ ((x - 1) \div k) + 1 = t /\ ((x - 1) % k) + 1 = i
    BY <1>1, RowIndex
  <2> HIDE DEF x
  <2>2. R[x] = trip_stoptimes[ids[t]][i]
    BY <1>3, <2>1
  <2> QED
    BY <2>2 DEF x
<1> QED
  BY <1>7, <1>8 DEF k, m, R

(* What is only added to leaves the routes that are there where they are.  *)
LEMMA OldRoutesStay ==
  ASSUME IndexTypeOK, NEW n \in DOMAIN routes, IsLaidOut(n),
         UNCHANGED <<raw_stop_times, trip_stoptimes>>, routes'[n] = routes[n],
         NEW seq \in Seq(Nat), route_stops' = route_stops \o seq,
         NEW rows \in Seq(Row), stop_times' = stop_times \o rows
  PROVE  IsLaidOut(n)' /\ PatternOf(routes[n])' = PatternOf(routes[n])
<1> DEFINE r == routes[n]
           a == r.route_stops_offset
           k == r.num_stops
<1>1. a \in Nat /\ k \in Nat /\ a + k <= Len(route_stops) /\ route_stops \in Seq(Nat)
  BY RouteFacts DEF IndexTypeOK, IsLaidOut
<1>2. PatternOf(r)' = PatternOf(r)
  <2> DEFINE longer == route_stops \o seq
             s == Part(route_stops, a, k)
             u == Part(longer, a, k)
  <2>0. PatternOf(r) = s /\ PatternOf(r)' = u
    BY DEF PatternOf, Part
  <2> HIDE DEF a, k, longer
  <2>1. longer \in Seq(Nat) /\ Len(route_stops) \in Nat
        /\ Len(longer) = Len(route_stops) + Len(seq)
        /\ Len(seq) \in Nat
        /\ \A i \in 1 .. Len(route_stops) : longer[i] = route_stops[i]
    BY <1>1, ConcatFacts DEF longer
  <2>2. /\ s \in Seq(Nat) /\ Len(s) = k
        /\ \A i \in 1 .. k : s[i] = route_stops[a + i]
    BY <1>1, PartFacts
  <2>3. a + k <= Len(longer)
    BY <1>1, <2>1
  <2>4. /\ u \in Seq(Nat) /\ Len(u) = k
        /\ \A i \in 1 .. k : u[i] = longer[a + i]
    <3>1. longer \in Seq(Nat) /\ a \in Nat /\ k \in Nat /\ a + k <= Len(longer)
      BY <1>1, <2>1, <2>3
    <3> QED
      BY <3>1, PartFacts
  <2>5. \A i \in 1 .. k : a + i \in 1 .. Len(route_stops)
    BY <1>1, <2>1
  <2> HIDE DEF s, u
  <2>6. \A i \in 1 .. Len(s) : s[i] = u[i]
    BY <2>1, <2>2, <2>4, <2>5
  <2>7. s = u
    BY <2>2, <2>4, <2>6, SeqEqual
  <2> QED
    BY <2>0, <2>7
<1>3. PICK ids : LaidOutBy(r, ids)
  BY DEF IsLaidOut
<1>4. ids \in TripIds(PatternOf(r))'
  <2> DEFINE seq1 == PatternOf(r)
  <2>1. PatternOf(r)' = seq1
    BY <1>2
  <2>2. ids \in Sortings(TripsWith(seq1), FirstDeparture)
    BY <1>3 DEF LaidOutBy, TripIds
  <2>3. TripIds(PatternOf(r))' =
          Sortings({t \in DOMAIN trip_stoptimes' : StopsOf(trip_stoptimes'[t]) = PatternOf(r)'},
                   [t \in DOMAIN trip_stoptimes' |-> trip_stoptimes'[t][1].dep_sec])
    BY DEF TripIds, TripsWith, FirstDeparture
  <2>4. TripsWith(seq1) = {t \in DOMAIN trip_stoptimes : StopsOf(trip_stoptimes[t]) = seq1}
    BY DEF TripsWith
  <2>5. FirstDeparture = [t \in DOMAIN trip_stoptimes |-> trip_stoptimes[t][1].dep_sec]
    BY DEF FirstDeparture
  <2> HIDE DEF seq1
  <2> QED
    BY <2>1, <2>2, <2>3, <2>4, <2>5
<1>5. /\ Len(route_stops) <= Len(route_stops') /\ Len(stop_times) <= Len(stop_times')
      /\ \A x \in 1 .. Len(stop_times) : stop_times'[x] = stop_times[x]
      /\ Len(stop_times) \in Nat /\ Len(stop_times') \in Nat
      /\ Len(route_stops) \in Nat /\ Len(route_stops') \in Nat
  <2>1. stop_times \in Seq(Row)
    BY DEF IndexTypeOK
  <2> HIDE DEF a, k, r
  <2>2. /\ stop_times \o rows \in Seq(Row) /\ Len(stop_times \o rows) = Len(stop_times) + Len(rows)
        /\ \A x \in 1 .. Len(stop_times) : (stop_times \o rows)[x] = stop_times[x]
        /\ Len(stop_times) \in Nat /\ Len(rows) \in Nat
    BY <2>1, ConcatFacts, SeqFacts
  <2>3. /\ Len(route_stops \o seq) = Len(route_stops) + Len(seq)
        /\ Len(route_stops) \in Nat /\ Len(seq) \in Nat
    BY <1>1, ConcatFacts, SeqFacts
  <2> QED
    BY <2>2, <2>3
<1>6. ASSUME NEW t \in 1 .. r.num_trips, NEW i \in 1 .. k
      PROVE  RowOf(r, t, i)' = RowOf(r, t, i)
  <2>1. r.stop_times_offset + (t - 1) * r.num_stops + i \in 1 .. Len(stop_times)
    BY RowIsInside DEF IsLaidOut
  <2> QED
    BY <1>5, <2>1 DEF RowOf
<1>7. LaidOutBy(r, ids)'
  <2>1. r' = r
    OBVIOUS
  <2>2. \A t \in 1 .. r.num_trips : \A i \in 1 .. r.num_stops :
          RowOf(r, t, i)' = trip_stoptimes[ids[t]][i]
    BY <1>3, <1>6 DEF LaidOutBy
  <2>3. r.num_trips = Len(ids)
    BY <1>3 DEF LaidOutBy
  <2> HIDE DEF r
  <2> QED
    BY <1>4, <2>1, <2>2, <2>3 DEF LaidOutBy, RowOf
<1>8. /\ r.id = n - 1 /\ r.num_stops > 0 /\ k <= Len(route_stops') - a
      /\ r.stop_times_offset + r.num_trips * r.num_stops <= Len(stop_times')
  <2> DEFINE e == r.stop_times_offset + r.num_trips * r.num_stops
  <2>1. r.id = n - 1 /\ r.num_stops > 0 /\ e <= Len(stop_times)
    BY DEF IsLaidOut
  <2>2. r.stop_times_offset \in Nat /\ r.num_trips \in Nat /\ r.num_stops \in Nat
    BY RouteFacts
  <2>3. e \in Int
    <3>1. \A x, y, z \in Nat : x + y * z \in Int
      OBVIOUS
    <3> HIDE DEF r
    <3> QED
      BY <2>2, <3>1
  <2> HIDE DEF e, a, k
  <2>4. e <= Len(stop_times') /\ k <= Len(route_stops') - a
    BY <1>1, <1>5, <2>1, <2>3
  <2> QED
    BY <2>1, <2>4 DEF e
<1>9. IsLaidOut(n)'
  <2>1. a + k <= Len(route_stops')
    <3> DEFINE w == Len(route_stops')
    <3>1. w \in Nat /\ k <= w - a
      BY <1>5, <1>8
    <3> HIDE DEF a, k, w
    <3>2. a + k <= w
      BY <1>1, <3>1
    <3> QED
      BY <3>2 DEF w
  <2>2. r' = r
    OBVIOUS
  <2> QED
    BY <1>7, <1>8, <2>1, <2>2 DEF IsLaidOut
<1> QED
  BY <1>2, <1>9

LEMMA GroupedStay ==
  ASSUME TripsAreGrouped, UNCHANGED <<raw_stop_times, trip_stoptimes>>
  PROVE  TripsAreGrouped'
<1>1. Trips' = Trips
  BY DEF Trips
<1>2. ASSUME NEW t PROVE TripOrders(t)' = TripOrders(t)
  BY DEF TripOrders
<1> QED
  BY <1>1, <1>2 DEF TripsAreGrouped

LEMMA AppendRouteKeepsLayout ==
  ASSUME IndexTypeOK, LayoutInvariant, AppendRoute
  PROVE  IndexTypeOK' /\ LayoutInvariant'
<1>1. PICK seq \in remaining : \E trip_ids \in TripIds(seq) :
        /\ routes' = Append(routes,
             [id |-> RouteId, num_stops |-> Len(seq), num_trips |-> Len(trip_ids),
              route_stops_offset |-> Len(route_stops), stop_times_offset |-> TimesOffset])
        /\ route_stops' = route_stops \o seq
        /\ stop_times' = stop_times \o TripRows(trip_ids, Len(seq))
        /\ remaining' = remaining \ {seq}
  BY DEF AppendRoute
<1> DEFINE route(trip_ids) ==
             [id |-> RouteId, num_stops |-> Len(seq), num_trips |-> Len(trip_ids),
              route_stops_offset |-> Len(route_stops), stop_times_offset |-> TimesOffset]
<1>2. PICK ids \in TripIds(seq) :
        /\ routes' = Append(routes, route(ids))
        /\ route_stops' = route_stops \o seq
        /\ stop_times' = stop_times \o TripRows(ids, Len(seq))
        /\ remaining' = remaining \ {seq}
  BY <1>1
<1>3. ipc = "routes" /\ UNCHANGED <<ipc, stops, raw_stop_times, trip_stoptimes>>
  BY DEF AppendRoute, inputs
<1>4. TripsAreGrouped /\ LayoutIsSound
  BY <1>3 DEF LayoutInvariant, Ungrouped
<1>5. PICK t0 \in Trips : seq = Pattern(t0)
  BY <1>4 DEF LayoutIsSound
<1>0. PICK N, o, p : N = Len(routes) /\ o = Len(route_stops) /\ p = Len(stop_times)
  OBVIOUS
<1> DEFINE k == Len(seq)
           m == Len(ids)
           r == [id |-> N, num_stops |-> k, num_trips |-> m,
                 route_stops_offset |-> o, stop_times_offset |-> p]
           rows == TripRows(ids, k)
<1>6. seq \in Seq(Nat) /\ k \in Nat /\ k > 0 /\ m \in Nat
  <2>1. Len(ids) \in Nat
    BY <1>4, TripIdsFacts
  <2>2. Pattern(t0) \in Seq(Nat) /\ Len(Pattern(t0)) \in Nat \ {0}
    BY <1>4, PatternFacts
  <2> QED
    BY <1>5, <2>1, <2>2
<1>7. /\ rows \in Seq(Row) /\ Len(rows) = m * k
      /\ \A t \in 1 .. m : \A i \in 1 .. k : rows[(t - 1) * k + i] = trip_stoptimes[ids[t]][i]
  BY <1>2, <1>4, <1>5, TripRowsFacts
<1>8. /\ routes \in Seq(Route) /\ route_stops \in Seq(Nat) /\ stop_times \in Seq(Row)
      /\ N \in Nat /\ o \in Nat /\ p \in Nat
      /\ DOMAIN routes = 1 .. N
  BY <1>0, SeqFacts DEF IndexTypeOK
<1>9. /\ r.id = N /\ r.num_stops = k /\ r.num_trips = m
      /\ r.route_stops_offset = o /\ r.stop_times_offset = p
      /\ r = route(ids)
  BY <1>0 DEF RouteId, TimesOffset
<1>10. r \in Route
  BY <1>6, <1>8 DEF Route
<1> HIDE DEF route, r, k, m, rows
<1>11. routes' = Append(routes, r) /\ stop_times' = stop_times \o rows
  BY <1>2, <1>9 DEF rows, k
<1>12. /\ routes' \in Seq(Route) /\ DOMAIN routes' = 1 .. N + 1
       /\ \A n \in 1 .. N : routes'[n] = routes[n]
       /\ routes'[N + 1] = r
  BY <1>0, <1>8, <1>10, <1>11, AppendFacts
<1>13. /\ route_stops' \in Seq(Nat) /\ Len(route_stops') = o + k
       /\ \A i \in 1 .. k : route_stops'[o + i] = seq[i]
  BY <1>0, <1>2, <1>6, <1>8, ConcatFacts DEF k
<1>14. /\ stop_times' \in Seq(Row) /\ Len(stop_times') = p + m * k
       /\ \A x \in 1 .. m * k : stop_times'[p + x] = rows[x]
  <2>1. /\ stop_times \o rows \in Seq(Row) /\ Len(stop_times \o rows) = Len(stop_times) + Len(rows)
        /\ \A x \in 1 .. Len(rows) : (stop_times \o rows)[Len(stop_times) + x] = rows[x]
    <3>1. stop_times \in Seq(Row) /\ rows \in Seq(Row)
      BY <1>7, <1>8
    <3> QED
      BY <3>1, ConcatFacts
  <2> QED
    BY <1>0, <1>7, <1>11, <2>1
<1>15. IndexTypeOK'
  BY <1>3, <1>12, <1>13, <1>14 DEF IndexTypeOK
<1>16. ASSUME NEW n \in 1 .. N
       PROVE  IsLaidOut(n)' /\ PatternOf(routes[n])' = PatternOf(routes[n])
  <2>1. n \in DOMAIN routes /\ IsLaidOut(n) /\ routes'[n] = routes[n]
    BY <1>4, <1>8, <1>12 DEF LayoutIsSound
  <2> QED
    BY <1>2, <1>3, <1>6, <1>7, <1>11, <2>1, OldRoutesStay
<1>17. PatternOf(routes[N + 1])' = seq
  <2> DEFINE longer == route_stops \o seq
             u == Part(longer, o, k)
  <2>1. PatternOf(routes[N + 1])' = SubSeq(route_stops', r.route_stops_offset + 1,
                                           r.route_stops_offset + r.num_stops)
    BY <1>12 DEF PatternOf
  <2>2. PatternOf(routes[N + 1])' = u
    BY <1>2, <1>9, <2>1 DEF Part
  <2>3. longer \in Seq(Nat) /\ Len(longer) = o + k /\ \A i \in 1 .. k : longer[o + i] = seq[i]
    BY <1>2, <1>13
  <2> HIDE DEF longer
  <2>4. u \in Seq(Nat) /\ Len(u) = k /\ \A i \in 1 .. k : u[i] = longer[o + i]
    <3>1. o \in Nat /\ k \in Nat /\ o + k <= Len(longer) /\ longer \in Seq(Nat)
      BY <1>6, <1>8, <2>3
    <3> QED
      BY <3>1, PartFacts
  <2> HIDE DEF u
  <2>5. Len(u) = Len(seq) /\ \A i \in 1 .. Len(u) : u[i] = seq[i]
    BY <2>3, <2>4 DEF k
  <2>6. u = seq
    BY <1>6, <2>4, <2>5, SeqEqual
  <2> QED
    BY <2>2, <2>6
<1>18. IsLaidOut(N + 1)'
  <2>1. ASSUME NEW t \in 1 .. m, NEW i \in 1 .. k
        PROVE  RowOf(routes[N + 1], t, i)' = trip_stoptimes[ids[t]][i]
    <3> DEFINE x == (t - 1) * k + i
    <3>1. x \in 1 .. m * k
      BY <1>6, RowIndex
    <3>2. RowOf(routes[N + 1], t, i)' = stop_times'[p + (t - 1) * k + i]
      BY <1>9, <1>12 DEF RowOf
    <3>3. p + (t - 1) * k + i = p + x
      BY <1>6, <1>8
    <3>4. rows[x] = trip_stoptimes[ids[t]][i]
      BY <1>7
    <3> HIDE DEF x
    <3> QED
      BY <1>14, <3>1, <3>2, <3>3, <3>4
  <2>2. TripIds(PatternOf(routes[N + 1]))' = TripIds(seq)
    BY <1>3, <1>17 DEF TripIds, TripsWith, FirstDeparture
  <2>3. LaidOutBy(routes[N + 1], ids)'
    <3>1. ids \in TripIds(PatternOf(routes[N + 1]))'
      BY <1>2, <2>2
    <3>2. routes'[N + 1].num_trips = Len(ids)
      BY <1>9, <1>12 DEF m
    <3>3. \A t \in 1 .. routes'[N + 1].num_trips : \A i \in 1 .. routes'[N + 1].num_stops :
            RowOf(routes[N + 1], t, i)' = trip_stoptimes'[ids[t]][i]
      BY <1>3, <1>9, <1>12, <2>1
    <3> QED
      BY <3>1, <3>2, <3>3 DEF LaidOutBy
  <2>5. /\ r.num_stops > 0 /\ r.id = (N + 1) - 1
        /\ r.route_stops_offset + r.num_stops <= Len(route_stops')
        /\ r.stop_times_offset + r.num_trips * r.num_stops <= Len(stop_times')
    <3>1. /\ r.id = N /\ r.num_stops = k /\ r.num_trips = m
          /\ r.route_stops_offset = o /\ r.stop_times_offset = p
          /\ Len(route_stops') = o + k /\ Len(stop_times') = p + m * k
      BY <1>9, <1>13, <1>14
    <3>2. m * k \in Nat
      BY <1>6
    <3> QED
      BY <1>6, <1>8, <3>1, <3>2
  <2> QED
    BY <1>12, <2>3, <2>5 DEF IsLaidOut
<1>19. TripsAreGrouped'
  BY <1>3, <1>4, GroupedStay
<1>20. Len(stop_times') = Cardinality(RowsLaidOut)'
  <2>1. RowsLaidOut' = RowsLaidOut \cup RowsWith(seq)
    BY <1>1, <1>2, <1>3 DEF RowsLaidOut, RowsWith, Pattern
  <2>2. RowsLaidOut \cap RowsWith(seq) = {}
    BY <1>1 DEF RowsLaidOut, RowsWith
  <2>3. IsFiniteSet(RowsWith(seq)) /\ Cardinality(RowsWith(seq)) = m * k
    BY <1>2, <1>4, <1>5, RowsOfAPattern DEF m, k
  <2>4. IsFiniteSet(RowsLaidOut)
    <3>1. IsFiniteSet(1 .. Len(raw_stop_times)) /\ DOMAIN raw_stop_times = 1 .. Len(raw_stop_times)
      BY RawRows, FS_Interval
    <3>2. RowsLaidOut \subseteq 1 .. Len(raw_stop_times)
      BY <3>1 DEF RowsLaidOut
    <3> QED
      BY <3>1, <3>2, FS_Subset
  <2>5. Cardinality(RowsLaidOut \cup RowsWith(seq)) =
          Cardinality(RowsLaidOut) + Cardinality(RowsWith(seq)) - Cardinality({})
    BY <2>2, <2>3, <2>4, FS_Union
  <2>6. Cardinality({}) = 0 /\ Cardinality(RowsLaidOut) = p
    BY <1>0, <1>4, FS_EmptySet DEF LayoutIsSound
  <2>7. m * k \in Int
    BY <1>6
  <2> DEFINE y == m * k
  <2> HIDE DEF y
  <2>8. Cardinality(RowsLaidOut)' = p + y
    BY <1>8, <2>1, <2>3, <2>5, <2>6, <2>7 DEF y
  <2> QED
    BY <1>14, <2>8 DEF y
<1>21. LayoutIsSound'
  <2>1. \A n \in DOMAIN routes' : IsLaidOut(n)'
    BY <1>8, <1>12, <1>16, <1>18
  <2>2. ASSUME NEW n \in DOMAIN routes' PROVE PatternOf(routes[n])' \notin remaining'
    <3>1. CASE n \in 1 .. N
      <4>1. PatternOf(routes[n]) \notin remaining
        BY <1>4, <1>8, <3>1 DEF LayoutIsSound
      <4> QED
        BY <1>2, <1>16, <3>1, <4>1
    <3>2. CASE n = N + 1
      BY <1>2, <1>17, <3>2
    <3> QED
      BY <1>8, <1>12, <3>1, <3>2
  <2>3. ASSUME NEW n \in 1 .. N PROVE PatternOf(routes[n])' # seq
    BY <1>1, <1>4, <1>8, <1>16 DEF LayoutIsSound
  <2>4. ASSUME NEW a \in DOMAIN routes', NEW b \in DOMAIN routes', a # b
        PROVE  PatternOf(routes[a])' # PatternOf(routes[b])'
    <3>1. CASE a \in 1 .. N /\ b \in 1 .. N
      BY <1>4, <1>8, <1>16, <2>4, <3>1 DEF LayoutIsSound
    <3>2. CASE a = N + 1 \/ b = N + 1
      BY <1>8, <1>12, <1>17, <2>3, <2>4, <3>2
    <3> QED
      BY <1>8, <1>12, <3>1, <3>2
  <2>5. {Pattern(t) : t \in Trips}' = remaining' \cup {PatternOf(routes[n]) : n \in DOMAIN routes}'
    <3>1. {Pattern(t) : t \in Trips}' = {Pattern(t) : t \in Trips}
      BY <1>3 DEF Pattern, Trips
    <3>2. {Pattern(t) : t \in Trips} = remaining \cup {PatternOf(routes[n]) : n \in DOMAIN routes}
      BY <1>4 DEF LayoutIsSound
    <3>3. {PatternOf(routes[n]) : n \in DOMAIN routes}' =
            {PatternOf(routes[n]) : n \in DOMAIN routes} \cup {seq}
      <4>1. \A x \in {PatternOf(routes[n]) : n \in DOMAIN routes} :
              x \in {PatternOf(routes[n]) : n \in DOMAIN routes}'
        BY <1>8, <1>12, <1>16
      <4>2. seq \in {PatternOf(routes[n]) : n \in DOMAIN routes}'
        BY <1>8, <1>12, <1>17
      <4>3. ASSUME NEW n \in DOMAIN routes'
            PROVE  PatternOf(routes[n])' \in {PatternOf(routes[l]) : l \in DOMAIN routes} \cup {seq}
        <5>1. n \in 1 .. N \/ n = N + 1
          BY <1>8, <1>12
        <5>2. CASE n \in 1 .. N
          BY <1>8, <1>16, <5>2
        <5>3. CASE n = N + 1
          BY <1>17, <5>3
        <5> QED
          BY <5>1, <5>2, <5>3
      <4> QED
        BY <4>1, <4>2, <4>3
    <3> QED
      BY <1>1, <1>2, <3>1, <3>2, <3>3
  <2> QED
    BY <1>20, <2>1, <2>2, <2>4, <2>5 DEF LayoutIsSound
<1> QED
  BY <1>3, <1>15, <1>19, <1>21 DEF LayoutInvariant, Ungrouped

LEMMA SoundStays ==
  ASSUME LayoutIsSound, UNCHANGED <<raw_stop_times, trip_stoptimes, remaining, layout>>
  PROVE  LayoutIsSound'
<1>1. UNCHANGED <<routes, route_stops, stop_times>>
  BY DEF layout
<1>2. \A r : PatternOf(r)' = PatternOf(r)
  BY <1>1 DEF PatternOf
<1>3. ASSUME NEW r PROVE TripIds(PatternOf(r))' = TripIds(PatternOf(r))
  BY <1>1 DEF TripIds, TripsWith, FirstDeparture, PatternOf
<1>4. ASSUME NEW r, NEW ids PROVE LaidOutBy(r, ids)' <=> LaidOutBy(r, ids)
  BY <1>1, <1>3 DEF LaidOutBy, RowOf
<1>5. ASSUME NEW n PROVE IsLaidOut(n)' <=> IsLaidOut(n)
  <2>1. (\E ids : LaidOutBy(routes[n], ids))' <=> \E ids : LaidOutBy(routes[n], ids)
    <3>1. PICK r : r = routes[n]
      OBVIOUS
    <3>2. routes'[n] = r
      BY <1>1, <3>1
    <3>3. ASSUME NEW ids PROVE LaidOutBy(routes[n], ids)' <=> LaidOutBy(routes[n], ids)
      BY <1>1, <1>3 DEF LaidOutBy, RowOf, PatternOf, TripIds, TripsWith, FirstDeparture
    <3> QED
      BY <3>3
  <2> QED
    BY <1>1, <2>1 DEF IsLaidOut
<1>6. ASSUME NEW n PROVE PatternOf(routes[n])' = PatternOf(routes[n])
  BY <1>1 DEF PatternOf
<1>7. {Pattern(t) : t \in Trips}' = {Pattern(t) : t \in Trips}
  BY DEF Pattern, Trips
<1>8. RowsLaidOut' = RowsLaidOut
  BY DEF RowsLaidOut, Pattern
<1>9. {PatternOf(routes[n]) : n \in DOMAIN routes}' = {PatternOf(routes[n]) : n \in DOMAIN routes}
  BY <1>1 DEF PatternOf
<1> QED
  BY <1>1, <1>5, <1>6, <1>7, <1>8, <1>9 DEF LayoutIsSound

LEMMA LayoutStays ==
  ASSUME LayoutInvariant, UNCHANGED <<raw_stop_times, trip_stoptimes, remaining, layout>>,
         \/ ipc' = ipc
         \/ {ipc, ipc'} \cap Ungrouped = {} /\ remaining = {}
  PROVE  LayoutInvariant'
<1> USE DEF LayoutInvariant, Ungrouped
<1>1. CASE ipc \in Ungrouped
  <2>1. ipc' \in Ungrouped
    BY <1>1
  <2> QED
    BY <1>1, <2>1 DEF layout
<1>2. CASE ipc \notin Ungrouped
  <2>1. TripsAreGrouped' /\ LayoutIsSound'
    BY <1>2, SoundStays, GroupedStay
  <2> QED
    BY <1>2, <2>1
<1> QED
  BY <1>1, <1>2

LEMMA BuildKeepsLayout ==
  ASSUME NEW raw_stops \in Seq(StopRecord), NEW raw_times \in Seq(Row),
         BuildIndex(raw_stops, raw_times)
  PROVE  IndexTypeOK' /\ LayoutInvariant'
BY DEF BuildIndex, IndexTypeOK, LayoutInvariant, Ungrouped

LEMMA GroupTripsKeepsLayout ==
  ASSUME IndexTypeOK, LayoutInvariant, GroupTrips
  PROVE  LayoutInvariant'
<1>1. /\ ipc' = "routes" /\ routes' = <<>> /\ stop_times' = <<>>
      /\ UNCHANGED raw_stop_times
      /\ remaining' = {StopsOf(trip_stoptimes'[t]) : t \in Trips}
      /\ DOMAIN trip_stoptimes' = Trips
      /\ \A t \in Trips : trip_stoptimes'[t] \in TripOrders(t)
  BY DEF GroupTrips, LayoutInvariant, Ungrouped, inputs, layout
<1>2. Trips' = Trips
  BY <1>1 DEF Trips
<1>3. ASSUME NEW t PROVE TripOrders(t)' = TripOrders(t)
  BY <1>1 DEF TripOrders
<1>4. TripsAreGrouped'
  BY <1>1, <1>2, <1>3 DEF TripsAreGrouped
<1>5. RowsLaidOut' = {}
  <2>1. \A n \in DOMAIN raw_stop_times : raw_stop_times[n].trip_id \in Trips
    BY DEF Trips, Range
  <2> QED
    BY <1>1, <2>1 DEF RowsLaidOut, Pattern
<1>6. Len(stop_times') = Cardinality(RowsLaidOut)'
  BY <1>1, <1>5, FS_EmptySet
<1>7. DOMAIN routes' = {}
  BY <1>1
<1>8. {Pattern(t) : t \in Trips}' = remaining'
  BY <1>1, <1>2 DEF Pattern
<1>9. LayoutIsSound'
  BY <1>6, <1>7, <1>8 DEF LayoutIsSound
<1> QED
  BY <1>1, <1>4, <1>9 DEF LayoutInvariant, Ungrouped

-----------------------------------------------------------------------------
(* The routes of each stop.                                                *)
LEMMA ListGrows ==
  ASSUME NEW list, NEW T, Lists(list, T), NEW n \in Nat, n > 0, T \subseteq 1 .. n
  PROVE  Lists(IF AlreadyListed(list, n - 1) THEN list ELSE Append(list, n - 1), T \cup {n})
<1>1. /\ list \in Seq(Nat) /\ Len(list) \in Nat /\ DOMAIN list = 1 .. Len(list)
      /\ \A i, j \in 1 .. Len(list) : i < j => list[i] < list[j]
      /\ \A x : (\E i \in 1 .. Len(list) : list[i] = x) <=> \E m \in T : x = m - 1
      /\ \A i \in 1 .. Len(list) : list[i] \in Nat
  BY SeqFacts DEF Lists
<1>2. AlreadyListed(list, n - 1) <=> Len(list) > 0 /\ list[Len(list)] = n - 1
  BY <1>1 DEF AlreadyListed, Last
<1>3. CASE AlreadyListed(list, n - 1)
  <2>1. n \in T
    <3>0. Len(list) \in 1 .. Len(list) /\ list[Len(list)] = n - 1
      BY <1>1, <1>2, <1>3
    <3>1. PICK m \in T : n - 1 = m - 1
      BY <1>1, <3>0
    <3>2. m \in Int
      OBVIOUS
    <3> QED
      BY <3>1, <3>2
  <2>2. T \cup {n} = T
    BY <2>1
  <2> QED
    BY <1>3, <2>2
<1>4. CASE ~AlreadyListed(list, n - 1)
  <2> DEFINE longer == Append(list, n - 1)
  <2>1. ASSUME NEW i \in 1 .. Len(list) PROVE list[i] < n - 1
    <3>1. \A j \in 1 .. Len(list) : list[j] <= n - 1
      <4> SUFFICES ASSUME NEW j \in 1 .. Len(list) PROVE list[j] <= n - 1
        OBVIOUS
      <4>1. PICK m \in T : list[j] = m - 1
        BY <1>1
      <4> QED
        BY <4>1
    <3>2. list[Len(list)] # n - 1
      BY <1>1, <1>2, <1>4
    <3>3. CASE i = Len(list)
      BY <1>1, <3>1, <3>2, <3>3
    <3>4. CASE i < Len(list)
      <4>1. list[i] < list[Len(list)] /\ list[Len(list)] <= n - 1
        BY <1>1, <3>1, <3>4
      <4> QED
        BY <1>1, <4>1
    <3> QED
      <4>1. Len(list) \in Nat /\ i \in 1 .. Len(list)
        BY <1>1
      <4>2. i = Len(list) \/ i < Len(list)
        BY <4>1
      <4> QED
        BY <3>3, <3>4, <4>2
  <2>2. /\ longer \in Seq(Nat) /\ DOMAIN longer = 1 .. Len(list) + 1
        /\ \A i \in 1 .. Len(list) : longer[i] = list[i]
        /\ longer[Len(list) + 1] = n - 1
    BY <1>1, AppendFacts
  <2> HIDE DEF longer
  <2>3. \A i, j \in DOMAIN longer : i < j => longer[i] < longer[j]
    <3> SUFFICES ASSUME NEW i \in 1 .. Len(list) + 1, NEW j \in 1 .. Len(list) + 1, i < j
                 PROVE  longer[i] < longer[j]
      BY <2>2
    <3>1. Len(list) \in Nat
      BY <1>1
    <3>2. i \in 1 .. Len(list)
      BY <3>1
    <3>3. CASE j \in 1 .. Len(list)
      BY <1>1, <2>2, <3>2, <3>3
    <3>4. CASE j = Len(list) + 1
      BY <2>1, <2>2, <3>2, <3>4
    <3> QED
      BY <3>1, <3>3, <3>4
  <2>4. ASSUME NEW x
        PROVE  (\E i \in DOMAIN longer : longer[i] = x) <=> \E m \in T \cup {n} : x = m - 1
    <3>1. (\E i \in DOMAIN longer : longer[i] = x) <=>
            (\E i \in 1 .. Len(list) : list[i] = x) \/ x = n - 1
      <4>1. Len(list) \in Nat
        BY <1>1
      <4>2. \A i : i \in 1 .. Len(list) + 1 <=> i \in 1 .. Len(list) \/ i = Len(list) + 1
        BY <4>1
      <4> QED
        BY <2>2, <4>2
    <3> QED
      BY <1>1, <3>1
  <2>5. Lists(longer, T \cup {n})
    BY <2>2, <2>3, <2>4 DEF Lists
  <2> QED
    BY <1>4, <2>5 DEF longer
<1> QED
  BY <1>3, <1>4

LEMMA LaidOutRoute ==
  ASSUME IndexTypeOK, LayoutIsSound, NEW n \in DOMAIN routes
  PROVE  /\ routes[n].id = n - 1 /\ routes[n].num_stops \in Nat \ {0}
         /\ routes[n].route_stops_offset \in Nat
         /\ PatternOf(routes[n]) \in Seq(Nat)
         /\ Len(PatternOf(routes[n])) = routes[n].num_stops
         /\ DOMAIN PatternOf(routes[n]) = 1 .. routes[n].num_stops
         /\ \A i \in 1 .. routes[n].num_stops :
              PatternOf(routes[n])[i] = route_stops[routes[n].route_stops_offset + i]
<1>1. IsLaidOut(n)
  BY DEF LayoutIsSound
<1>2. /\ routes[n].id = n - 1 /\ routes[n].num_stops > 0
      /\ routes[n].route_stops_offset + routes[n].num_stops <= Len(route_stops)
  BY <1>1 DEF IsLaidOut
<1>3. routes[n].num_stops \in Nat /\ routes[n].route_stops_offset \in Nat
  BY RouteFacts
<1> QED
  BY <1>2, <1>3, PatternOfARoute

LEMMA ThroughFacts ==
  ASSUME IndexTypeOK, LayoutIsSound, NEW s, NEW n \in Nat, NEW p \in Nat
  PROVE  /\ RoutesThrough(s, n, p) \subseteq 1 .. n
         /\ RoutesThrough(s, n, p) \subseteq DOMAIN routes
         /\ RoutesThrough(s, 1, 1) = {}
<1>1. DOMAIN routes = 1 .. Len(routes) /\ Len(routes) \in Nat
  BY SeqFacts DEF IndexTypeOK
<1>2. \A m \in DOMAIN routes : DOMAIN PatternOf(routes[m]) \subseteq Nat \ {0}
  BY LaidOutRoute
<1> QED
  BY <1>1, <1>2 DEF RoutesThrough, Comes

LEMMA ThroughStays ==
  ASSUME UNCHANGED <<routes, route_stops>>, NEW s, NEW n, NEW p
  PROVE  RoutesThrough(s, n, p)' = RoutesThrough(s, n, p)
BY DEF RoutesThrough, PatternOf, Comes

(* The list of the stop at hand grows by the route at hand, unless it is   *)
(* listed.                                                                 *)
LEMMA ListStopKeepsLists ==
  ASSUME IndexTypeOK, LayoutInvariant, ListsInvariant, ListStop
  PROVE  ListsInvariant'
<1>1. /\ ipc = "stop_routes" /\ next <= Len(routes)
      /\ UNCHANGED <<ipc, stops, routes, route_stops>>
  BY DEF ListStop, inputs, layout
<1>2. LayoutIsSound
  BY <1>1 DEF LayoutInvariant, Ungrouped
<1>3. PICK n, p, n2, p2, L : /\ n = next /\ p = position /\ n2 = next' /\ p2 = position'
                             /\ L = Len(routes)
  OBVIOUS
<1>4. L \in Nat /\ DOMAIN routes = 1 .. L
  BY <1>3, SeqFacts DEF IndexTypeOK
<1>5. n \in 1 .. L
  BY <1>1, <1>3, <1>4 DEF ListsInvariant
<1>6. PICK r : r = routes[n]
  OBVIOUS
<1>7. PICK q : q = PatternOf(r)[p]
  OBVIOUS
<1>8. r.num_stops \in Nat \ {0} /\ p \in 1 .. r.num_stops /\ StopsAreListed(n, p)
  BY <1>1, <1>2, <1>3, <1>4, <1>5, <1>6, LaidOutRoute DEF ListsInvariant
<1>9. r.id = n - 1 /\ q = route_stops[r.route_stops_offset + p]
  BY <1>2, <1>4, <1>5, <1>6, <1>7, <1>8, LaidOutRoute
<1>10. stop_to_routes' = AddRoute(stop_to_routes, q, n - 1)
  BY <1>3, <1>6, <1>9 DEF ListStop
<1>11. IF p < r.num_stops THEN p2 = p + 1 /\ n2 = n ELSE p2 = 1 /\ n2 = n + 1
  BY <1>3, <1>6 DEF ListStop
<1>12. /\ n2 \in 1 .. L + 1
       /\ p2 \in 1 .. IF n2 <= L THEN routes[n2].num_stops ELSE 1
  <2>1. CASE p < r.num_stops
    BY <1>4, <1>5, <1>6, <1>8, <1>11, <2>1
  <2>2. CASE ~(p < r.num_stops)
    <3>1. p2 = 1 /\ n2 = n + 1
      BY <1>11, <2>2
    <3>2. n2 <= L => routes[n2].num_stops \in Nat \ {0}
      BY <1>2, <1>4, <1>5, <3>1, LaidOutRoute
    <3> QED
      BY <1>4, <1>5, <3>1, <3>2
  <2> QED
    BY <2>1, <2>2
<1>13. ASSUME NEW s
       PROVE  RoutesThrough(s, n2, p2) =
                IF s = q THEN RoutesThrough(s, n, p) \cup {n} ELSE RoutesThrough(s, n, p)
  <2>1. ASSUME NEW m \in DOMAIN routes, NEW i \in DOMAIN PatternOf(routes[m])
        PROVE  Comes(m, i, n2, p2) <=> Comes(m, i, n, p) \/ (m = n /\ i = p)
    <3>1. m \in 1 .. L /\ i \in Nat \ {0} /\ (m = n => i <= r.num_stops)
      BY <1>2, <1>4, <1>6, LaidOutRoute
    <3> QED
      BY <1>5, <1>8, <1>11, <3>1 DEF Comes
  <2>2. p \in DOMAIN PatternOf(routes[n])
    BY <1>2, <1>4, <1>5, <1>6, <1>8, LaidOutRoute
  <2> QED
    BY <1>4, <1>5, <1>6, <1>7, <2>1, <2>2 DEF RoutesThrough
<1>14. ASSUME NEW s \in DOMAIN stop_to_routes
       PROVE  Lists(stop_to_routes'[s], RoutesThrough(s, n2, p2))
  <2>1. Lists(stop_to_routes[s], RoutesThrough(s, n, p))
    BY <1>8 DEF StopsAreListed
  <2>2. CASE s = q
    <3>1. stop_to_routes'[s] =
            IF AlreadyListed(stop_to_routes[s], n - 1) THEN stop_to_routes[s]
            ELSE Append(stop_to_routes[s], n - 1)
      BY <1>10, <2>2 DEF AddRoute
    <3>2. RoutesThrough(s, n, p) \subseteq 1 .. n /\ n \in Nat /\ n > 0
      BY <1>2, <1>5, <1>8, ThroughFacts
    <3>3. Lists(stop_to_routes'[s], RoutesThrough(s, n, p) \cup {n})
      <4> DEFINE list == stop_to_routes[s]
                 T == RoutesThrough(s, n, p)
      <4>1. Lists(list, T) /\ T \subseteq 1 .. n /\ n \in Nat /\ n > 0
        BY <2>1, <3>2
      <4> HIDE DEF list, T
      <4>2. Lists(IF AlreadyListed(list, n - 1) THEN list ELSE Append(list, n - 1), T \cup {n})
        BY <4>1, ListGrows
      <4> QED
        BY <3>1, <4>2 DEF list, T
    <3> QED
      BY <1>13, <2>2, <3>3
  <2>3. CASE s # q
    BY <1>10, <1>13, <2>1, <2>3 DEF AddRoute
  <2> QED
    BY <2>2, <2>3
<1>15. DOMAIN stop_to_routes' = DOMAIN stop_to_routes
  BY <1>10 DEF AddRoute
<1>16. StopsAreListed(next, position)'
  <2>1. \A s : RoutesThrough(s, next, position)' = RoutesThrough(s, n2, p2)
    BY <1>1, <1>3 DEF RoutesThrough, PatternOf, Comes
  <2>2. NumberOfStops' = NumberOfStops
    BY <1>1 DEF NumberOfStops
  <2> QED
    BY <1>8, <1>14, <1>15, <2>1, <2>2 DEF StopsAreListed
<1> QED
  BY <1>1, <1>3, <1>12, <1>16 DEF ListsInvariant, Unlisted, Ungrouped

LEMMA RoutesDoneKeepsLists ==
  ASSUME IndexTypeOK, LayoutInvariant, RoutesDone
  PROVE  ListsInvariant'
<1>1. /\ ipc = "routes" /\ ipc' = "stop_routes" /\ next' = 1 /\ position' = 1
      /\ stop_to_routes' = [s \in 0 .. NumberOfStops - 1 |-> <<>>]
      /\ UNCHANGED <<stops, routes, route_stops>>
  BY DEF RoutesDone, inputs, layout
<1>2. LayoutIsSound
  BY <1>1 DEF LayoutInvariant, Ungrouped
<1>3. \A s : RoutesThrough(s, next, position)' = {}
  <2>1. \A s : RoutesThrough(s, next, position)' = RoutesThrough(s, 1, 1)
    BY <1>1 DEF RoutesThrough, PatternOf, Comes
  <2> QED
    BY <1>2, <2>1, ThroughFacts
<1>4. Lists(<<>>, {})
  BY DEF Lists
<1>5. StopsAreListed(next, position)'
  BY <1>1, <1>3, <1>4 DEF StopsAreListed, NumberOfStops
<1>6. /\ Len(routes) \in Nat
      /\ 1 <= Len(routes) => routes[1].num_stops \in Nat \ {0}
  BY <1>2, LaidOutRoute, SeqFacts DEF IndexTypeOK
<1> QED
  BY <1>1, <1>5, <1>6 DEF ListsInvariant, Unlisted, Ungrouped

LEMMA ListsDoneKeepsLists ==
  ASSUME IndexTypeOK, LayoutInvariant, ListsInvariant, ListsDone
  PROVE  ListsInvariant'
<1>1. /\ ipc = "stop_routes" /\ ipc' = "offsets" /\ next > Len(routes)
      /\ UNCHANGED <<stops, routes, route_stops, stop_to_routes>>
  BY DEF ListsDone, inputs, layout
<1>2. Len(routes) \in Nat
  BY SeqFacts DEF IndexTypeOK
<1>3. next = Len(routes) + 1 /\ position = 1 /\ StopsAreListed(next, position)
  BY <1>1, <1>2 DEF ListsInvariant
<1>4. StopsAreListed(Len(routes) + 1, 1)'
  <2>1. \A s : RoutesThrough(s, Len(routes) + 1, 1)' = RoutesThrough(s, next, position)
    BY <1>1, <1>3 DEF RoutesThrough, PatternOf, Comes
  <2> QED
    BY <1>1, <1>3, <2>1 DEF StopsAreListed, NumberOfStops
<1> QED
  BY <1>1, <1>4 DEF ListsInvariant, Unlisted, Ungrouped

LEMMA NoListsYet ==
  ASSUME ipc' \in Ungrouped \cup {"routes"}
  PROVE  ListsInvariant'
BY DEF ListsInvariant, Unlisted, Ungrouped

LEMMA ListsStay ==
  ASSUME ListsInvariant, UNCHANGED <<stops, routes, route_stops, stop_to_routes>>,
         \/ ipc' = ipc /\ (ipc = "stop_routes" => UNCHANGED <<next, position>>)
         \/ {ipc, ipc'} \subseteq {"offsets", "walks", "ready"}
  PROVE  ListsInvariant'
<1>1. ASSUME NEW n, NEW p PROVE StopsAreListed(n, p) => StopsAreListed(n, p)'
  BY DEF StopsAreListed, NumberOfStops, RoutesThrough, PatternOf, Comes
<1>2. StopsAreListed(Len(routes) + 1, 1) => StopsAreListed(Len(routes) + 1, 1)'
  BY DEF StopsAreListed, NumberOfStops, RoutesThrough, PatternOf, Comes
<1>3. CASE ipc' = ipc /\ ipc = "stop_routes" /\ UNCHANGED <<next, position>>
  <2>1. StopsAreListed(next, position) => StopsAreListed(next, position)'
    BY <1>3 DEF StopsAreListed, NumberOfStops, RoutesThrough, PatternOf, Comes
  <2> QED
    BY <1>3, <2>1 DEF ListsInvariant, Unlisted, Ungrouped
<1>4. CASE ~(ipc' = ipc /\ ipc = "stop_routes" /\ UNCHANGED <<next, position>>)
  BY <1>2, <1>4 DEF ListsInvariant, Unlisted, Ungrouped
<1> QED
  BY <1>3, <1>4

-----------------------------------------------------------------------------
(* Lists one after another.                                                *)
LEMMA NothingFlattened ==
  ASSUME NEW S
  PROVE  Flattened(S, <<>>, <<>>, Append(<<>>, Len(<<>>)))
<1>1. /\ <<>> \in Seq(Seq(S)) /\ <<>> \in Seq(S) /\ Len(<<>>) = 0
      /\ Append(<<>>, 0) \in Seq(Nat) /\ Len(Append(<<>>, 0)) = 1 /\ Append(<<>>, 0)[1] = 0
  OBVIOUS
<1> QED
  BY <1>1 DEF Flattened

LEMMA OneMoreFlattened ==
  ASSUME NEW S, NEW lists, NEW flat, NEW offsets, Flattened(S, lists, flat, offsets),
         NEW list \in Seq(S)
  PROVE  Flattened(S, Append(lists, list), flat \o list, Append(offsets, Len(flat \o list)))
<1> DEFINE n == Len(lists)
           l2 == Append(lists, list)
           f2 == flat \o list
           o2 == Append(offsets, Len(f2))
<1>1. /\ lists \in Seq(Seq(S)) /\ flat \in Seq(S) /\ offsets \in Seq(Nat)
      /\ n \in Nat /\ Len(offsets) = n + 1 /\ offsets[n + 1] = Len(flat)
      /\ Len(flat) \in Nat /\ Len(list) \in Nat
      /\ \A s \in 1 .. n : /\ offsets[s] + Len(lists[s]) = offsets[s + 1]
                           /\ offsets[s + 1] <= Len(flat)
      /\ \A s \in 1 .. n : \A i \in 1 .. Len(lists[s]) : flat[offsets[s] + i] = lists[s][i]
  BY SeqFacts DEF Flattened
<1>2. /\ f2 \in Seq(S) /\ Len(f2) = Len(flat) + Len(list)
      /\ \A i \in 1 .. Len(flat) : f2[i] = flat[i]
      /\ \A i \in 1 .. Len(list) : f2[Len(flat) + i] = list[i]
  BY <1>1, ConcatFacts
<1> HIDE DEF f2, n
<1>3. /\ l2 \in Seq(Seq(S)) /\ Len(l2) = n + 1 /\ l2[n + 1] = list
      /\ \A s \in 1 .. n : l2[s] = lists[s]
  BY <1>1, AppendFacts DEF n
<1>4. /\ o2 \in Seq(Nat) /\ Len(o2) = n + 2 /\ o2[n + 2] = Len(f2)
      /\ \A s \in 1 .. n + 1 : o2[s] = offsets[s]
  <2>1. Len(f2) \in Nat /\ n + 1 + 1 = n + 2
    BY <1>1, <1>2
  <2> QED
    BY <1>1, <2>1, AppendFacts
<1> HIDE DEF l2, o2
<1>5. \A s \in 1 .. n + 1 : offsets[s] \in Nat
  BY <1>1, SeqFacts
<1>6. \A s \in 1 .. n : Len(lists[s]) \in Nat
  BY <1>1, SeqFacts DEF n
<1>7. ASSUME NEW s \in 1 .. n + 1
      PROVE  /\ o2[s] + Len(l2[s]) = o2[s + 1] /\ o2[s + 1] <= Len(f2)
             /\ \A i \in 1 .. Len(l2[s]) : f2[o2[s] + i] = l2[s][i]
  <2>1. CASE s \in 1 .. n
    <3>0. s + 1 \in 1 .. n + 1 /\ s \in 1 .. n + 1 /\ n \in Nat
      BY <1>1, <2>1
    <3>1. /\ o2[s] = offsets[s] /\ o2[s + 1] = offsets[s + 1] /\ l2[s] = lists[s]
          /\ offsets[s] + Len(lists[s]) = offsets[s + 1] /\ offsets[s + 1] <= Len(flat)
          /\ offsets[s] \in Nat /\ offsets[s + 1] \in Nat /\ Len(lists[s]) \in Nat
      <4>1. /\ o2[s] = offsets[s] /\ o2[s + 1] = offsets[s + 1] /\ l2[s] = lists[s]
        BY <1>3, <1>4, <2>1, <3>0
      <4>2. offsets[s] \in Nat /\ offsets[s + 1] \in Nat /\ Len(lists[s]) \in Nat
        BY <1>5, <1>6, <2>1, <3>0
      <4>3. offsets[s] + Len(lists[s]) = offsets[s + 1] /\ offsets[s + 1] <= Len(flat)
        BY <1>1, <2>1
      <4> QED
        BY <4>1, <4>2, <4>3
    <3>2. ASSUME NEW i \in 1 .. Len(lists[s])
          PROVE  f2[offsets[s] + i] = lists[s][i]
      <4>1. offsets[s] + i \in 1 .. Len(flat)
        <5> DEFINE x == offsets[s]
                   y == offsets[s + 1]
                   z == Len(lists[s])
                   w == Len(flat)
        <5>1. x \in Nat /\ z \in Nat /\ w \in Nat /\ x + z = y /\ y <= w /\ i \in 1 .. z
          BY <1>1, <3>1
        <5> HIDE DEF x, y, z, w
        <5>2. x + i \in 1 .. w
          BY <5>1
        <5> QED
          BY <5>2 DEF x, w
      <4>2. flat[offsets[s] + i] = lists[s][i]
        BY <1>1, <2>1
      <4> QED
        BY <1>2, <4>1, <4>2
    <3>3. offsets[s + 1] <= Len(f2)
      <4> DEFINE x == offsets[s + 1]
                 w == Len(flat)
                 z == Len(list)
                 y == Len(f2)
      <4>1. x \in Nat /\ w \in Nat /\ z \in Nat /\ x <= w /\ y = w + z
        BY <1>1, <1>2, <3>1
      <4> HIDE DEF x, w, z, y
      <4>2. x <= y
        BY <4>1
      <4> QED
        BY <4>2 DEF x, y
    <3> QED
      BY <3>1, <3>2, <3>3
  <2>2. CASE s = n + 1
    <3>1. o2[s] = Len(flat) /\ o2[s + 1] = Len(f2) /\ l2[s] = list
      BY <1>1, <1>3, <1>4, <2>2
    <3> QED
      BY <1>1, <1>2, <3>1
  <2> QED
    BY <1>1, <2>1, <2>2
<1>8. Len(o2) = Len(l2) + 1 /\ o2[Len(l2) + 1] = Len(f2)
  BY <1>1, <1>3, <1>4
<1>9. Flattened(S, l2, f2, o2)
  BY <1>1, <1>2, <1>3, <1>4, <1>7, <1>8 DEF Flattened
<1> QED
  BY <1>9 DEF l2, f2, o2

(* What lies between the offset of a list and the next one is the list.    *)
LEMMA FlattenedList ==
  ASSUME NEW S, NEW lists, NEW flat, NEW offsets, Flattened(S, lists, flat, offsets),
         NEW s \in 1 .. Len(lists)
  PROVE  SubSeq(flat, offsets[s] + 1, offsets[s + 1]) = lists[s]
<1> DEFINE a == offsets[s]
           n == Len(lists[s])
           u == SubSeq(flat, a + 1, a + n)
<1>1. lists \in Seq(Seq(S)) /\ flat \in Seq(S) /\ offsets \in Seq(Nat) /\ Len(lists) \in Nat
      /\ Len(offsets) = Len(lists) + 1
  BY SeqFacts DEF Flattened
<1>2. lists[s] \in Seq(S) /\ a \in Nat
  BY <1>1, SeqFacts
<1>3. n \in Nat
  BY <1>2, SeqFacts
<1>4. a + n = offsets[s + 1] /\ a + n <= Len(flat) /\ \A i \in 1 .. n : flat[a + i] = lists[s][i]
  BY DEF Flattened
<1> HIDE DEF a, n
<1>5. u \in Seq(S) /\ Len(u) = n /\ \A i \in 1 .. n : u[i] = flat[a + i]
  <2>1. flat \in Seq(S) /\ a \in Nat /\ n \in Nat /\ a + n <= Len(flat)
    BY <1>1, <1>2, <1>3, <1>4
  <2> QED
    BY <2>1, SubSeqFacts
<1> HIDE DEF u
<1>6. Len(u) = Len(lists[s]) /\ \A i \in 1 .. Len(u) : u[i] = lists[s][i]
  BY <1>4, <1>5 DEF n
<1>7. u = lists[s]
  BY <1>2, <1>5, <1>6, SeqEqual
<1> QED
  BY <1>4, <1>7 DEF u, a

-----------------------------------------------------------------------------
(* The flat lists of routes.                                               *)
LEMMA ListedAreLists ==
  ASSUME NEW n, NEW p, StopsAreListed(n, p), NEW s \in 1 .. NumberOfStops, NumberOfStops \in Nat
  PROVE  stop_to_routes[s - 1] \in Seq(Nat)
<1>1. s - 1 \in 0 .. NumberOfStops - 1
  OBVIOUS
<1> QED
  BY <1>1 DEF StopsAreListed, Lists

LEMMA StopsCount ==
  ASSUME IndexTypeOK
  PROVE  /\ NumberOfStops \in Nat /\ DOMAIN stops = 1 .. NumberOfStops
         /\ \A i \in 1 .. NumberOfStops : stops[i].id \in Nat /\ stops[i].place \in Int
<1>1. /\ NumberOfStops \in Nat /\ DOMAIN stops = 1 .. NumberOfStops
      /\ \A i \in 1 .. NumberOfStops : stops[i] \in StopRecord
  BY SeqFacts DEF NumberOfStops, IndexTypeOK
<1> QED
  BY <1>1 DEF StopRecord

LEMMA FlattenStopKeepsOffsets ==
  ASSUME IndexTypeOK, ListsInvariant, OffsetsInvariant, FlattenStop
  PROVE  OffsetsInvariant'
<1>1. ipc = "offsets" /\ UNCHANGED <<stops, stop_to_routes>>
  BY DEF FlattenStop, inputs
<1>2. PICK n, N : n = next /\ N = NumberOfStops
  OBVIOUS
<1>3. N \in Nat /\ n \in 1 .. N + 1 /\ NumberOfStops' = N
  BY <1>1, <1>2, StopsCount DEF OffsetsInvariant, NumberOfStops
<1> DEFINE o2 == Append(stop_routes_offsets, Len(stop_routes))
<1>4. Flattened(Nat, RouteLists(n - 1), stop_routes, o2) /\ stop_routes_offsets' = o2
  BY <1>1, <1>2 DEF OffsetsInvariant, FlattenStop
<1>5. CASE n <= N
  <2>1. stop_routes' = stop_routes \o stop_to_routes[n - 1] /\ next' = n + 1 /\ ipc' = "offsets"
    BY <1>1, <1>2, <1>5 DEF FlattenStop
  <2>2. \A s \in 1 .. N : stop_to_routes[s - 1] \in Seq(Nat)
    <3>1. StopsAreListed(Len(routes) + 1, 1)
      BY <1>1 DEF ListsInvariant, Unlisted, Ungrouped
    <3> QED
      BY <1>2, <1>3, <3>1, ListedAreLists
  <2> DEFINE list == stop_to_routes[n - 1]
             lists == RouteLists(n - 1)
             more == RouteLists(n)
  <2>3. list \in Seq(Nat)
    BY <1>3, <1>5, <2>2
  <2>4. /\ more \in Seq(Seq(Nat)) /\ Len(more) = n /\ more[n] = list
        /\ lists \in Seq(Seq(Nat)) /\ Len(lists) = n - 1
        /\ \A s \in 1 .. n - 1 : more[s] = lists[s]
    <3>1. /\ n \in Nat /\ n - 1 \in Nat /\ n \in 1 .. n
          /\ 1 .. n \subseteq 1 .. N /\ 1 .. n - 1 \subseteq 1 .. n
      BY <1>3, <1>5
    <3>2. more \in [1 .. n -> Seq(Nat)] /\ lists \in [1 .. n - 1 -> Seq(Nat)]
      <4>1. more \in [1 .. n -> Seq(Nat)]
        BY <2>2, <3>1 DEF RouteLists
      <4>2. lists \in [1 .. n - 1 -> Seq(Nat)]
        BY <2>2, <3>1 DEF RouteLists
      <4> QED
        BY <4>1, <4>2
    <3>3. \A s \in 1 .. n : more[s] = stop_to_routes[s - 1]
      BY DEF RouteLists
    <3>4. \A s \in 1 .. n - 1 : lists[s] = stop_to_routes[s - 1]
      BY DEF RouteLists
    <3> HIDE DEF more, lists
    <3>5. more \in Seq(Seq(Nat)) /\ Len(more) = n
      BY <3>1, <3>2, FunctionIsSeq
    <3>6. lists \in Seq(Seq(Nat)) /\ Len(lists) = n - 1
      BY <3>1, <3>2, FunctionIsSeq
    <3> QED
      BY <3>1, <3>3, <3>4, <3>5, <3>6
  <2> HIDE DEF list, lists, more, o2
  <2>5. Append(lists, list) = more
    <3>1. /\ Append(lists, list) \in Seq(Seq(Nat)) /\ Len(Append(lists, list)) = n
          /\ \A s \in 1 .. n - 1 : Append(lists, list)[s] = lists[s]
          /\ Append(lists, list)[n] = list
      <4>1. /\ Append(lists, list) \in Seq(Seq(Nat)) /\ Len(Append(lists, list)) = Len(lists) + 1
            /\ \A s \in 1 .. Len(lists) : Append(lists, list)[s] = lists[s]
            /\ Append(lists, list)[Len(lists) + 1] = list
        BY <2>3, <2>4, AppendFacts
      <4>2. Len(lists) + 1 = n /\ Len(lists) = n - 1
        BY <1>3, <2>4
      <4> QED
        BY <4>1, <4>2
    <3>2. \A s \in 1 .. n : Append(lists, list)[s] = more[s]
      BY <1>3, <2>4, <3>1
    <3> QED
      BY <2>4, <3>1, <3>2, SeqEqual
  <2>6. Flattened(Nat, more, stop_routes \o list, Append(o2, Len(stop_routes \o list)))
    <3>1. Flattened(Nat, lists, stop_routes, o2)
      BY <1>4 DEF lists
    <3> QED
      BY <2>3, <2>5, <3>1, OneMoreFlattened
  <2>7. stop_routes' = stop_routes \o list
    BY <2>1 DEF list
  <2>8. Flattened(Nat, more, stop_routes', Append(stop_routes_offsets', Len(stop_routes')))
    BY <1>4, <2>6, <2>7
  <2>9. RouteLists(next - 1)' = more
    <3>1. next' - 1 = n
      BY <1>3, <2>1
    <3> QED
      BY <1>1, <3>1 DEF RouteLists, more
  <2>10. next' \in 1 .. NumberOfStops' + 1
    BY <1>3, <1>5, <2>1
  <2> QED
    BY <2>1, <2>8, <2>9, <2>10 DEF OffsetsInvariant, Unlisted, Unflattened, Ungrouped
<1>6. CASE ~(n <= N)
  <2>1. n - 1 = N /\ ipc' = "walks" /\ stop_routes' = stop_routes
    BY <1>1, <1>2, <1>3, <1>6 DEF FlattenStop
  <2>2. Flattened(Nat, RouteLists(N), stop_routes', stop_routes_offsets')
    BY <1>4, <2>1
  <2>3. RouteLists(NumberOfStops)' = RouteLists(N)
    BY <1>1, <1>3 DEF RouteLists
  <2> QED
    BY <2>1, <2>2, <2>3 DEF OffsetsInvariant, Unlisted, Unflattened, Ungrouped
<1> QED
  BY <1>5, <1>6

LEMMA ListsDoneKeepsOffsets ==
  ASSUME IndexTypeOK, OffsetsInvariant, ListsDone
  PROVE  OffsetsInvariant'
<1>1. /\ ipc = "stop_routes" /\ ipc' = "offsets" /\ next' = 1
      /\ UNCHANGED <<stops, stop_routes, stop_routes_offsets>>
  BY DEF ListsDone, inputs, byStop
<1>2. stop_routes' = <<>> /\ stop_routes_offsets' = <<>>
  BY <1>1 DEF OffsetsInvariant, Unlisted
<1>3. RouteLists(next - 1)' = <<>>
  BY <1>1 DEF RouteLists
<1>4. next' \in 1 .. NumberOfStops' + 1
  <2>1. PICK N \in Nat : NumberOfStops = N
    BY StopsCount
  <2>2. NumberOfStops' = N
    BY <1>1, <2>1 DEF NumberOfStops
  <2>3. 1 \in 1 .. N + 1
    OBVIOUS
  <2> QED
    BY <1>1, <2>2, <2>3
<1>5. Flattened(Nat, <<>>, <<>>, Append(<<>>, Len(<<>>)))
  BY NothingFlattened
<1>6. Flattened(Nat, RouteLists(next - 1), stop_routes,
                Append(stop_routes_offsets, Len(stop_routes)))'
  BY <1>2, <1>3, <1>5
<1> QED
  BY <1>1, <1>4, <1>6 DEF OffsetsInvariant, Unlisted, Unflattened, Ungrouped

LEMMA NoOffsetsYet ==
  ASSUME ipc' \in Unlisted, stop_routes' = <<>>, stop_routes_offsets' = <<>>
  PROVE  OffsetsInvariant'
BY DEF OffsetsInvariant, Unlisted, Unflattened, Ungrouped

LEMMA OffsetsStay ==
  ASSUME OffsetsInvariant, UNCHANGED <<stops, byStop>>,
         \/ {ipc, ipc'} \subseteq Unlisted
         \/ UNCHANGED stop_to_routes /\ ipc' = ipc /\ (ipc = "offsets" => UNCHANGED next)
         \/ UNCHANGED stop_to_routes /\ {ipc, ipc'} \cap Unflattened = {}
  PROVE  OffsetsInvariant'
<1>1. UNCHANGED <<stop_routes, stop_routes_offsets>> /\ NumberOfStops' = NumberOfStops
  BY DEF byStop, NumberOfStops
<1>2. CASE {ipc, ipc'} \subseteq Unlisted
  BY <1>1, <1>2, NoOffsetsYet DEF OffsetsInvariant
<1>3. CASE UNCHANGED stop_to_routes /\ ipc' = ipc /\ (ipc = "offsets" => UNCHANGED next)
  BY <1>1, <1>3 DEF OffsetsInvariant, RouteLists
<1>4. CASE UNCHANGED stop_to_routes /\ {ipc, ipc'} \cap Unflattened = {}
  <2>1. RouteLists(NumberOfStops)' = RouteLists(NumberOfStops)
    BY <1>1, <1>4 DEF RouteLists
  <2> QED
    BY <1>1, <1>4, <2>1 DEF OffsetsInvariant, Unlisted, Unflattened, Ungrouped
<1> QED
  BY <1>2, <1>3, <1>4

-----------------------------------------------------------------------------
(* The footpaths.                                                          *)
LEMMA WalkTimeFits ==
  ASSUME NEW d \in Nat, d <= MAX_WALK_DIST_M
  PROVE  (4 * d) \div 5 \in Time
<1>1. MAX_WALK_DIST_M \in Nat /\ (4 * MAX_WALK_DIST_M) \div 5 \in 0 .. W - 1 /\ W \in Nat
  BY WalkAssumption, WordAssumption DEF Time
<1>2. (4 * d) \div 5 \in 0 .. (4 * MAX_WALK_DIST_M) \div 5
  BY <1>1
<1> QED
  BY <1>1, <1>2 DEF Time

LEMMA DistanceType ==
  ASSUME NEW a \in Int, NEW b \in Int
  PROVE  Distance(a, b) \in Nat /\ Distance(a, b) = Distance(b, a)
BY DEF Distance

(* The footpaths of a stop lead to the stops it is near, and to each.      *)
LeadToNeighbours(list, i) ==
  /\ list \in Seq(WalkRecord)
  /\ \A x \in 1 .. Len(list) : \E j \in DOMAIN stops : Walkable(i, j) /\ list[x] = Footpath(i, j)
  /\ \A j \in DOMAIN stops : Walkable(i, j) => \E x \in 1 .. Len(list) : list[x] = Footpath(i, j)

LEMMA WalkListFacts ==
  ASSUME IndexTypeOK, NEW i \in DOMAIN stops, NEW list \in FootpathsFrom(i)
  PROVE  LeadToNeighbours(list, i)
<1> DEFINE S == {j \in DOMAIN stops : Walkable(i, j)}
           key == [j \in DOMAIN stops |-> j]
<1>1. PICK near \in Sortings(S, key) : list = [n \in DOMAIN near |-> Footpath(i, near[n])]
  BY DEF FootpathsFrom
<1>2. IsFiniteSet(S)
  <2>1. DOMAIN stops = 1 .. NumberOfStops /\ NumberOfStops \in Nat
    BY StopsCount
  <2>2. IsFiniteSet(1 .. NumberOfStops)
    BY <2>1, FS_Interval
  <2> QED
    BY <2>1, <2>2, FS_Subset
<1> HIDE DEF key, S
<1>3. /\ near \in Seq(S) /\ Len(near) \in Nat /\ DOMAIN near = 1 .. Len(near)
      /\ \A x \in S : \E n \in 1 .. Len(near) : near[n] = x
  BY <1>1, <1>2, SortingFacts
<1>4. \A n \in 1 .. Len(near) : near[n] \in S
  BY <1>3, SeqFacts
<1>5. ASSUME NEW j \in S PROVE Footpath(i, j) \in WalkRecord
  <2>1. j \in 1 .. NumberOfStops /\ i \in 1 .. NumberOfStops /\ NumberOfStops \in Nat
    BY StopsCount DEF S
  <2>2. stops[i].place \in Int /\ stops[j].place \in Int
    BY <2>1, StopsCount
  <2> DEFINE d == Distance(stops[i].place, stops[j].place)
  <2>3. d \in Nat /\ d <= MAX_WALK_DIST_M
    BY <2>2, DistanceType DEF S, Walkable
  <2> HIDE DEF d
  <2>4. (4 * d) \div 5 \in Time /\ j - 1 \in Nat
    BY <2>1, <2>3, WalkTimeFits
  <2>5. Footpath(i, j) = [to_stop |-> j - 1, duration_sec |-> (4 * d) \div 5]
    BY DEF Footpath, d
  <2> QED
    BY <2>4, <2>5 DEF WalkRecord
<1>6. list \in [1 .. Len(near) -> WalkRecord]
  BY <1>1, <1>3, <1>4, <1>5
<1>7. list \in Seq(WalkRecord) /\ Len(list) = Len(near)
  BY <1>3, <1>6, FunctionIsSeq
<1>8. \A n \in 1 .. Len(near) : list[n] = Footpath(i, near[n])
  BY <1>1, <1>3
<1> QED
  BY <1>3, <1>4, <1>7, <1>8 DEF LeadToNeighbours, S

LEMMA AddFootpathsKeepsWalks ==
  ASSUME IndexTypeOK, WalksInvariant, AddFootpaths
  PROVE  WalksInvariant'
<1>1. ipc = "walks" /\ UNCHANGED stops
  BY DEF AddFootpaths, inputs
<1>2. PICK n, N : n = next /\ N = NumberOfStops
  OBVIOUS
<1>3. N \in Nat /\ n \in 1 .. N + 1 /\ NumberOfStops' = N /\ DOMAIN stops = 1 .. N
  BY <1>1, <1>2, StopsCount DEF WalksInvariant, NumberOfStops
<1> DEFINE o2 == Append(footpath_offsets, Len(footpaths))
<1>4. PICK lists : /\ AreWalks(lists, n - 1)
                   /\ Flattened(WalkRecord, lists, footpaths, o2)
  BY <1>1, <1>2 DEF WalksInvariant
<1>5. footpath_offsets' = o2
  BY DEF AddFootpaths
<1>6. ASSUME NEW i PROVE FootpathsFrom(i)' = FootpathsFrom(i)
  BY <1>1 DEF FootpathsFrom, Walkable, Footpath
<1>7. CASE n <= N
  <2>1. next' = n + 1 /\ ipc' = "walks"
    BY <1>1, <1>2, <1>7 DEF AddFootpaths
  <2>2. PICK list \in FootpathsFrom(n) : footpaths' = footpaths \o list
    BY <1>2, <1>7 DEF AddFootpaths
  <2>3. list \in Seq(WalkRecord)
    BY <1>3, <1>7, <2>2, WalkListFacts DEF LeadToNeighbours
  <2> DEFINE more == Append(lists, list)
  <2> HIDE DEF o2
  <2>4. Flattened(WalkRecord, more, footpaths \o list, Append(o2, Len(footpaths \o list)))
    BY <1>4, <2>3, OneMoreFlattened
  <2>5. Flattened(WalkRecord, more, footpaths', Append(footpath_offsets', Len(footpaths')))
    BY <1>5, <2>2, <2>4
  <2>6. /\ Len(more) = n /\ more[n] = list /\ \A i \in 1 .. n - 1 : more[i] = lists[i]
    <3>1. lists \in Seq(Seq(WalkRecord)) /\ Len(lists) = n - 1
      BY <1>4 DEF Flattened, AreWalks
    <3>2. /\ Len(more) = Len(lists) + 1 /\ more[Len(lists) + 1] = list
          /\ \A i \in 1 .. Len(lists) : more[i] = lists[i]
      BY <2>3, <3>1, AppendFacts
    <3>3. Len(lists) + 1 = n
      BY <1>3, <3>1
    <3> QED
      BY <3>1, <3>2, <3>3
  <2> HIDE DEF more
  <2>7. \A i \in 1 .. n : more[i] \in FootpathsFrom(i)
    <3> SUFFICES ASSUME NEW i \in 1 .. n PROVE more[i] \in FootpathsFrom(i)
      OBVIOUS
    <3>1. CASE i = n
      BY <2>2, <2>6, <3>1
    <3>2. CASE i # n
      <4>1. i \in 1 .. n - 1
        BY <1>3, <3>2
      <4> QED
        BY <1>4, <2>6, <4>1 DEF AreWalks
    <3> QED
      BY <3>1, <3>2
  <2>8. next' - 1 = n /\ next' \in 1 .. N + 1
    BY <1>3, <1>7, <2>1
  <2>9. AreWalks(more, next - 1)'
    BY <1>6, <2>6, <2>7, <2>8 DEF AreWalks
  <2>10. \E l : AreWalks(l, next - 1)' /\ Flattened(WalkRecord, l, footpaths, Append(footpath_offsets, Len(footpaths)))'
    BY <2>5, <2>9
  <2> QED
    BY <1>3, <2>1, <2>8, <2>10 DEF WalksInvariant, Unlisted, Unflattened, Ungrouped
<1>8. CASE ~(n <= N)
  <2>1. n - 1 = N /\ ipc' = "ready" /\ footpaths' = footpaths
    BY <1>1, <1>2, <1>3, <1>8 DEF AddFootpaths
  <2>2. Flattened(WalkRecord, lists, footpaths', footpath_offsets')
    BY <1>4, <1>5, <2>1
  <2>3. AreWalks(lists, NumberOfStops)'
    BY <1>3, <1>4, <1>6, <2>1 DEF AreWalks
  <2> QED
    BY <2>1, <2>2, <2>3 DEF WalksInvariant, Unlisted, Unflattened, Ungrouped
<1> QED
  BY <1>7, <1>8

LEMMA FlattenStopKeepsWalks ==
  ASSUME IndexTypeOK, OffsetsInvariant, WalksInvariant, FlattenStop
  PROVE  WalksInvariant'
<1>1. /\ ipc = "offsets" /\ UNCHANGED <<stops, footpaths, footpath_offsets>>
      /\ footpaths = <<>> /\ footpath_offsets = <<>>
      /\ ipc' = "offsets" \/ (ipc' = "walks" /\ next' = 1)
  BY DEF FlattenStop, inputs, walks, WalksInvariant, Unflattened
<1>2. CASE ipc' = "offsets"
  BY <1>1, <1>2 DEF WalksInvariant, Unlisted, Unflattened, Ungrouped
<1>3. CASE ipc' = "walks" /\ next' = 1
  <2>1. PICK N \in Nat : NumberOfStops = N
    BY StopsCount
  <2>2. NumberOfStops' = N
    BY <1>1, <2>1 DEF NumberOfStops
  <2>3. 1 \in 1 .. N + 1
    OBVIOUS
  <2>4. Flattened(WalkRecord, <<>>, footpaths, Append(footpath_offsets, Len(footpaths)))'
    BY <1>1, NothingFlattened
  <2>5. AreWalks(<<>>, next - 1)'
    BY <1>3 DEF AreWalks
  <2> QED
    BY <1>3, <2>2, <2>3, <2>4, <2>5 DEF WalksInvariant, Unlisted, Unflattened, Ungrouped
<1> QED
  BY <1>1, <1>2, <1>3

LEMMA NoWalksYet ==
  ASSUME ipc' \in Unflattened, footpaths' = <<>>, footpath_offsets' = <<>>
  PROVE  WalksInvariant'
BY DEF WalksInvariant, Unlisted, Unflattened, Ungrouped

LEMMA WalksStay ==
  ASSUME WalksInvariant, UNCHANGED walks,
         \/ {ipc, ipc'} \subseteq Unflattened
         \/ UNCHANGED <<stops, ipc, next>>
  PROVE  WalksInvariant'
<1>1. CASE {ipc, ipc'} \subseteq Unflattened
  BY <1>1, NoWalksYet DEF WalksInvariant, walks
<1>2. CASE UNCHANGED <<stops, ipc, next>>
  <2>1. ASSUME NEW i
        PROVE  FootpathsFrom(i)' = FootpathsFrom(i)
    BY <1>2 DEF FootpathsFrom, Walkable, Footpath
  <2>2. ASSUME NEW lists, NEW n
        PROVE  AreWalks(lists, n)' <=> AreWalks(lists, n)
    BY <2>1 DEF AreWalks
  <2>3. NumberOfStops' = NumberOfStops
    BY <1>2 DEF NumberOfStops
  <2>4. /\ UNCHANGED <<ipc, next, footpaths, footpath_offsets, NumberOfStops>>
        /\ \A lists : AreWalks(lists, next - 1) => AreWalks(lists, next - 1)'
        /\ \A lists : AreWalks(lists, NumberOfStops) => AreWalks(lists, NumberOfStops)'
    BY <1>2, <2>2, <2>3 DEF walks
  <2> QED
    BY <2>4 DEF WalksInvariant
<1> QED
  BY <1>1, <1>2

-----------------------------------------------------------------------------
(* Every step of build_index keeps the invariant.                          *)
LEMMA IndexStepKeepsIndex ==
  ASSUME IndexInvariant, IndexStep
  PROVE  IndexInvariant'
<1> USE DEF IndexInvariant
<1>1. CASE GroupTrips
  <2>1. /\ ipc = "trips" /\ ipc' = "routes"
        /\ UNCHANGED <<inputs, layout, stop_to_routes, byStop, walks>>
    BY <1>1 DEF GroupTrips
  <2>2. IndexTypeOK'
    BY <2>1 DEF IndexTypeOK, inputs, layout
  <2>3. LayoutInvariant'
    BY <1>1, GroupTripsKeepsLayout
  <2>4. OffsetsInvariant'
    BY <2>1, OffsetsStay DEF inputs, Unlisted, Ungrouped
  <2>5. WalksInvariant'
    BY <2>1, WalksStay DEF Unflattened, Unlisted, Ungrouped
  <2> QED
    BY <2>1, <2>2, <2>3, <2>4, <2>5, NoListsYet
<1>2. CASE AppendRoute
  <2>1. /\ ipc = "routes" /\ ipc' = "routes"
        /\ UNCHANGED <<inputs, stop_to_routes, byStop, walks>>
    BY <1>2 DEF AppendRoute
  <2>2. IndexTypeOK' /\ LayoutInvariant'
    BY <1>2, AppendRouteKeepsLayout
  <2>3. OffsetsInvariant'
    BY <2>1, OffsetsStay DEF inputs, Unlisted, Ungrouped
  <2>4. WalksInvariant'
    BY <2>1, WalksStay DEF Unflattened, Unlisted, Ungrouped
  <2> QED
    BY <2>1, <2>2, <2>3, <2>4, NoListsYet
<1>3. CASE RoutesDone
  <2>1. /\ ipc = "routes" /\ ipc' = "stop_routes" /\ remaining = {}
        /\ UNCHANGED <<inputs, trip_stoptimes, remaining, layout, byStop, walks>>
    BY <1>3 DEF RoutesDone
  <2>2. IndexTypeOK'
    BY <2>1 DEF IndexTypeOK, inputs, layout
  <2>3. LayoutInvariant'
    BY <2>1, LayoutStays DEF inputs, Ungrouped
  <2>4. OffsetsInvariant'
    BY <2>1, OffsetsStay DEF inputs, Unlisted, Ungrouped
  <2>5. WalksInvariant'
    BY <2>1, WalksStay DEF Unflattened, Unlisted, Ungrouped
  <2> QED
    BY <1>3, <2>2, <2>3, <2>4, <2>5, RoutesDoneKeepsLists
<1>4. CASE ListStop
  <2>1. /\ ipc = "stop_routes" /\ ipc' = "stop_routes"
        /\ UNCHANGED <<inputs, trip_stoptimes, remaining, layout, byStop, walks>>
    BY <1>4 DEF ListStop
  <2>2. IndexTypeOK'
    BY <2>1 DEF IndexTypeOK, inputs, layout
  <2>3. LayoutInvariant'
    BY <2>1, LayoutStays DEF inputs
  <2>4. OffsetsInvariant'
    BY <2>1, OffsetsStay DEF inputs, Unlisted, Ungrouped
  <2>5. WalksInvariant'
    BY <2>1, WalksStay DEF Unflattened, Unlisted, Ungrouped
  <2> QED
    BY <1>4, <2>2, <2>3, <2>4, <2>5, ListStopKeepsLists
<1>5. CASE ListsDone
  <2>1. /\ ipc = "stop_routes" /\ ipc' = "offsets"
        /\ UNCHANGED <<inputs, trip_stoptimes, remaining, layout, stop_to_routes, byStop, walks>>
    BY <1>5 DEF ListsDone
  <2>2. IndexTypeOK'
    BY <2>1 DEF IndexTypeOK, inputs, layout
  <2>3. LayoutInvariant'
    BY <2>1, LayoutStays DEF inputs, LayoutInvariant, Ungrouped
  <2>4. OffsetsInvariant'
    BY <1>5, ListsDoneKeepsOffsets
  <2>5. WalksInvariant'
    BY <2>1, WalksStay DEF Unflattened, Unlisted, Ungrouped
  <2> QED
    BY <1>5, <2>2, <2>3, <2>4, <2>5, ListsDoneKeepsLists
<1>6. CASE FlattenStop
  <2>1. /\ ipc = "offsets" /\ ipc' \in {"offsets", "walks"}
        /\ UNCHANGED <<inputs, trip_stoptimes, remaining, layout, stop_to_routes, walks>>
    BY <1>6 DEF FlattenStop
  <2>2. IndexTypeOK'
    BY <2>1 DEF IndexTypeOK, inputs, layout
  <2>3. LayoutInvariant'
    BY <2>1, LayoutStays DEF inputs, LayoutInvariant, Ungrouped
  <2>4. ListsInvariant'
    BY <2>1, ListsStay DEF inputs, layout
  <2>5. OffsetsInvariant' /\ WalksInvariant'
    BY <1>6, FlattenStopKeepsOffsets, FlattenStopKeepsWalks
  <2> QED
    BY <2>2, <2>3, <2>4, <2>5
<1>7. CASE AddFootpaths
  <2>1. /\ ipc = "walks" /\ ipc' \in {"walks", "ready"}
        /\ UNCHANGED <<inputs, trip_stoptimes, remaining, layout, stop_to_routes, byStop>>
    BY <1>7 DEF AddFootpaths
  <2>2. IndexTypeOK'
    BY <2>1 DEF IndexTypeOK, inputs, layout
  <2>3. LayoutInvariant'
    BY <2>1, LayoutStays DEF inputs, LayoutInvariant, Ungrouped
  <2>4. ListsInvariant'
    BY <2>1, ListsStay DEF inputs, layout
  <2>5. OffsetsInvariant'
    BY <2>1, OffsetsStay DEF inputs, Unflattened, Unlisted, Ungrouped
  <2> QED
    BY <1>7, <2>2, <2>3, <2>4, <2>5, AddFootpathsKeepsWalks
<1> QED
  BY <1>1, <1>2, <1>3, <1>4, <1>5, <1>6, <1>7 DEF IndexStep

LEMMA IndexStays ==
  ASSUME IndexInvariant, UNCHANGED indexVars
  PROVE  IndexInvariant'
<1>1. /\ UNCHANGED <<ipc, stops, inputs, raw_stop_times, trip_stoptimes, remaining, layout,
                     routes, route_stops, stop_times, stop_to_routes, byStop, walks, next, position>>
  BY DEF indexVars, inputs, layout
<1>2. IndexTypeOK'
  BY <1>1 DEF IndexInvariant, IndexTypeOK
<1> QED
  BY <1>1, <1>2, LayoutStays, ListsStay, OffsetsStay, WalksStay DEF IndexInvariant

LEMMA BuildKeepsIndex ==
  ASSUME NEW raw_stops \in Seq(StopRecord), NEW raw_times \in Seq(Row),
         BuildIndex(raw_stops, raw_times)
  PROVE  IndexInvariant'
<1>1. /\ ipc' = "trips" /\ stop_routes' = <<>> /\ stop_routes_offsets' = <<>>
      /\ footpaths' = <<>> /\ footpath_offsets' = <<>>
  BY DEF BuildIndex
<1> QED
  BY <1>1, BuildKeepsLayout, NoListsYet, NoOffsetsYet, NoWalksYet
     DEF IndexInvariant, Unlisted, Unflattened, Ungrouped

LEMMA IndexInitially == IndexInit => IndexInvariant
BY DEF IndexInit, IndexInvariant, IndexTypeOK, LayoutInvariant, ListsInvariant, OffsetsInvariant,
       WalksInvariant, Unlisted, Unflattened, Ungrouped

-----------------------------------------------------------------------------
(* The compiler: ids, and what it writes.                                  *)
LEMMA IdFacts ==
  ASSUME NEW ids, IsFiniteSet(ids), ids \subseteq Nat
  PROVE  /\ \A x \in Nat : IdIn(ids, x) \in Nat
         /\ \A x \in ids : IdIn(ids, x) < Cardinality(ids)
         /\ \A x, y \in ids : x < y => IdIn(ids, x) < IdIn(ids, y)
<1> DEFINE Below(x) == {y \in ids : y < x}
<1>1. \A x : Below(x) \subseteq ids /\ IdIn(ids, x) = Cardinality(Below(x))
  BY DEF IdIn
<1>2. ASSUME NEW x \in ids, NEW y \in ids, x < y
      PROVE  Below(x) \subseteq Below(y) /\ x \in Below(y)
  <2>1. x \in Nat /\ y \in Nat /\ \A z \in ids : z \in Nat
    OBVIOUS
  <2>2. \A z \in ids : z < x => z < y
    BY <1>2, <2>1
  <2> QED
    BY <1>2, <2>2
<1>3. \A x \in ids : x \notin Below(x)
  OBVIOUS
<1> HIDE DEF Below
<1>4. \A x : IsFiniteSet(Below(x)) /\ Cardinality(Below(x)) \in Nat
  BY <1>1, FS_Subset, FS_CardinalityType
<1>5. \A x \in ids : Below(x) # ids
  BY <1>3
<1>6. \A x \in ids : Cardinality(Below(x)) < Cardinality(ids)
  <2>1. TAKE x \in ids
  <2>2. Cardinality(Below(x)) <= Cardinality(ids) /\ Cardinality(Below(x)) # Cardinality(ids)
    BY <1>1, <1>5, FS_Subset
  <2> QED
    BY <2>2, <1>4, FS_CardinalityType
<1>7. ASSUME NEW x \in ids, NEW y \in ids, x < y
      PROVE  Cardinality(Below(x)) < Cardinality(Below(y))
  <2>1. Below(x) \subseteq Below(y) /\ Below(x) # Below(y)
    BY <1>2, <1>3, <1>7
  <2>2. IsFiniteSet(Below(y))
    BY <1>4
  <2>3. Cardinality(Below(x)) <= Cardinality(Below(y)) /\ Cardinality(Below(x)) # Cardinality(Below(y))
    BY <2>1, <2>2, FS_Subset
  <2> QED
    BY <2>3, <1>4
<1> QED
  BY <1>1, <1>4, <1>6, <1>7

LEMMA FeedFacts ==
  ASSUME feed \in Feeds
  PROVE  /\ Len(feed.stops) \in Nat /\ DOMAIN feed.stops = 1 .. Len(feed.stops)
         /\ \A i \in 1 .. Len(feed.stops) : feed.stops[i].raw_id \in Nat /\ feed.stops[i].place \in Int
         /\ IsFiniteSet(RawStops) /\ RawStops \subseteq Nat
         /\ IsFiniteSet(feed.trips) /\ feed.trips \subseteq Nat
         /\ Cardinality(feed.trips) \in Nat /\ Cardinality(feed.trips) < FOOTPATH_ROUTE_ID
         /\ Len(feed.stop_times) \in Nat /\ DOMAIN feed.stop_times = 1 .. Len(feed.stop_times)
         /\ \A k \in 1 .. Len(feed.stop_times) :
              feed.stop_times[k] \in [trip : Nat, stop : Nat, seq : Nat, arr : Time, dep : Time,
                                      parses : BOOLEAN]
<1>1. /\ feed.stops \in Seq([raw_id : Nat, place : Int, parses : BOOLEAN])
      /\ IsFiniteSet(feed.trips) /\ feed.trips \subseteq Nat
      /\ Cardinality(feed.trips) < FOOTPATH_ROUTE_ID
      /\ feed.stop_times \in Seq([trip : Nat, stop : Nat, seq : Nat, arr : Time, dep : Time,
                                  parses : BOOLEAN])
  BY FeedsAssumption
<1>2. /\ Len(feed.stops) \in Nat /\ DOMAIN feed.stops = 1 .. Len(feed.stops)
      /\ \A i \in 1 .. Len(feed.stops) :
           feed.stops[i] \in [raw_id : Nat, place : Int, parses : BOOLEAN]
  BY <1>1, SeqFacts
<1>3. /\ Len(feed.stop_times) \in Nat /\ DOMAIN feed.stop_times = 1 .. Len(feed.stop_times)
      /\ \A k \in 1 .. Len(feed.stop_times) :
           feed.stop_times[k] \in [trip : Nat, stop : Nat, seq : Nat, arr : Time, dep : Time,
                                   parses : BOOLEAN]
  BY <1>1, SeqFacts
<1>4. RawStops \subseteq Nat
  BY <1>2 DEF RawStops
<1>5. IsFiniteSet(RawStops)
  <2> DEFINE f == [i \in 1 .. Len(feed.stops) |-> feed.stops[i].raw_id]
  <2>1. f \in Surjection(1 .. Len(feed.stops), RawStops)
    BY <1>2 DEF RawStops, Surjection
  <2>2. IsFiniteSet(1 .. Len(feed.stops))
    BY <1>2, FS_Interval
  <2> QED
    BY <2>1, <2>2, FS_Surjection
<1> QED
  BY <1>1, <1>2, <1>3, <1>4, <1>5, FS_CardinalityType

LEMMA PackedIsARow ==
  ASSUME feed \in Feeds, NEW k \in 1 .. Len(feed.stop_times), Resolves(feed.stop_times[k])
  PROVE  Packed(feed.stop_times[k]) \in Row
<1> DEFINE st == feed.stop_times[k]
<1>1. /\ st \in [trip : Nat, stop : Nat, seq : Nat, arr : Time, dep : Time, parses : BOOLEAN]
      /\ st.trip \in feed.trips /\ st.stop \in RawStops
  BY FeedFacts DEF Resolves
<1>2. /\ IsFiniteSet(feed.trips) /\ feed.trips \subseteq Nat
      /\ IsFiniteSet(RawStops) /\ RawStops \subseteq Nat
      /\ Cardinality(feed.trips) \in Nat /\ Cardinality(feed.trips) < FOOTPATH_ROUTE_ID
  BY FeedFacts
<1> HIDE DEF st
<1>3. IdIn(feed.trips, st.trip) \in Nat /\ IdIn(feed.trips, st.trip) < Cardinality(feed.trips)
  BY <1>1, <1>2, IdFacts
<1>4. IdIn(RawStops, st.stop) \in Nat
  BY <1>1, <1>2, IdFacts
<1>5. FOOTPATH_ROUTE_ID \in Int
  BY NumStopsAssumption, WordAssumption DEF FOOTPATH_ROUTE_ID
<1>6. IdIn(feed.trips, st.trip) \in 0 .. FOOTPATH_ROUTE_ID - 2
  BY <1>2, <1>3, <1>5
<1>7. Packed(st) \in Row
  BY <1>1, <1>4, <1>6 DEF Packed, Row
<1> QED
  BY <1>7 DEF st

LEMMA PackStopKeepsFiles ==
  ASSUME FilesTypeOK, FilesSayTheFeed, PackStop
  PROVE  /\ stops_bin' \in Seq(StopRecord) /\ FilesSayTheFeed'
         /\ UNCHANGED <<feed, stop_times_bin>> /\ cpc # "done"
<1> DEFINE s == feed.stops[row]
<1>1. /\ cpc = "stops" /\ row <= Len(feed.stops) /\ UNCHANGED <<feed, stop_times_bin>>
      /\ row \in 1 .. Len(feed.stops) + 1 /\ Len(stops_bin) = row - 1
      /\ feed \in Feeds /\ stops_bin \in Seq(StopRecord)
  BY DEF PackStop, FilesTypeOK, FilesSayTheFeed
<1>2. Len(feed.stops) \in Nat /\ row \in 1 .. Len(feed.stops)
  BY <1>1, FeedFacts
<1>3. CASE s.parses
  <2> DEFINE x == [id |-> IdIn(RawStops, s.raw_id), place |-> s.place]
  <2>1. stops_bin' = Append(stops_bin, x) /\ row' = row + 1 /\ cpc' = "stops"
    BY <1>1, <1>3 DEF PackStop
  <2>2. s.raw_id \in Nat /\ s.place \in Int /\ IsFiniteSet(RawStops) /\ RawStops \subseteq Nat
    BY <1>1, <1>2, FeedFacts
  <2>3. IdIn(RawStops, s.raw_id) \in Nat
    BY <2>2, IdFacts
  <2>4. x \in StopRecord
    BY <2>2, <2>3 DEF StopRecord
  <2> HIDE DEF x
  <2>5. stops_bin' \in Seq(StopRecord) /\ Len(stops_bin') = Len(stops_bin) + 1
    BY <1>1, <2>1, <2>4, AppendFacts
  <2> QED
    BY <1>1, <1>2, <2>1, <2>5 DEF FilesSayTheFeed
<1>4. CASE ~s.parses
  BY <1>1, <1>4 DEF PackStop, FilesSayTheFeed
<1> QED
  BY <1>3, <1>4

LEMMA OpenStopTimesKeepsFiles ==
  ASSUME FilesTypeOK, FilesSayTheFeed, OpenStopTimes
  PROVE  /\ stop_times_bin' = <<>> /\ FilesSayTheFeed'
         /\ UNCHANGED <<feed, stops_bin>> /\ cpc # "done"
<1>1. /\ cpc = "stops" /\ row > Len(feed.stops) /\ UNCHANGED <<feed, stops_bin>>
      /\ row \in 1 .. Len(feed.stops) + 1 /\ Len(stops_bin) = row - 1
      /\ cpc' = "stop_times" /\ row' = 1 /\ stop_times_bin' = <<>> /\ feed \in Feeds
  BY DEF OpenStopTimes, FilesTypeOK, FilesSayTheFeed
<1>2. Len(feed.stops) \in Nat /\ Len(feed.stop_times) \in Nat
  BY <1>1, FeedFacts
<1>3. Len(stops_bin) = Len(feed.stops)
  BY <1>1, <1>2
<1>4. Len(stop_times_bin') = 0 /\ row' - 1 = 0 /\ row' \in 1 .. Len(feed.stop_times) + 1
  BY <1>1, <1>2
<1>5. TimesPacked(row - 1)'
  BY <1>4 DEF TimesPacked
<1> QED
  BY <1>1, <1>3, <1>4, <1>5 DEF FilesSayTheFeed

LEMMA PackedStays ==
  ASSUME UNCHANGED feed, NEW n
  PROVE  TimesPacked(n)' <=>
           /\ \A k \in 1 .. n : Resolves(feed.stop_times[k]) =>
                \E m \in 1 .. Len(stop_times_bin') : stop_times_bin'[m] = Packed(feed.stop_times[k])
           /\ \A m \in 1 .. Len(stop_times_bin') : \E k \in 1 .. n :
                Resolves(feed.stop_times[k]) /\ stop_times_bin'[m] = Packed(feed.stop_times[k])
<1>1. ASSUME NEW st PROVE (Resolves(st)' <=> Resolves(st)) /\ Packed(st)' = Packed(st)
  BY DEF Resolves, Packed, RawStops
<1> QED
  BY <1>1 DEF TimesPacked

LEMMA PackStopTimeKeepsFiles ==
  ASSUME FilesTypeOK, FilesSayTheFeed, PackStopTime
  PROVE  /\ stop_times_bin' \in Seq(Row) /\ FilesSayTheFeed'
         /\ UNCHANGED <<feed, stops_bin>> /\ cpc # "done"
<1>1. PICK k : k = row
  OBVIOUS
<1> DEFINE st == feed.stop_times[k]
<1>2. /\ cpc = "stop_times" /\ k <= Len(feed.stop_times) /\ UNCHANGED <<feed, stops_bin>>
      /\ k \in 1 .. Len(feed.stop_times) + 1 /\ Len(stops_bin) = Len(feed.stops)
      /\ feed \in Feeds /\ stop_times_bin \in Seq(Row) /\ TimesPacked(k - 1)
  BY <1>1 DEF PackStopTime, FilesTypeOK, FilesSayTheFeed
<1>3. Len(feed.stop_times) \in Nat /\ k \in 1 .. Len(feed.stop_times)
  BY <1>2, FeedFacts
<1>4. CASE Resolves(st) /\ ~st.parses
  BY <1>1, <1>2, <1>4 DEF PackStopTime, FilesSayTheFeed
<1>5. CASE ~(Resolves(st) /\ ~st.parses)
  <2>1. /\ stop_times_bin' = IF Resolves(st) THEN Append(stop_times_bin, Packed(st))
                                             ELSE stop_times_bin
        /\ row' = k + 1 /\ cpc' = "stop_times"
    BY <1>1, <1>2, <1>5 DEF PackStopTime
  <2>2. /\ \A m \in 1 .. k : m \in 1 .. k - 1 \/ m = k
        /\ 1 .. k - 1 \subseteq 1 .. k /\ k \in 1 .. k
    BY <1>3
  <2> DEFINE L == Len(stop_times_bin)
             Said(m) == Packed(feed.stop_times[m])
             Due(m) == Resolves(feed.stop_times[m])
             bin == stop_times_bin
  <2>3. /\ \A m \in 1 .. k - 1 : Due(m) => \E j \in 1 .. L : bin[j] = Said(m)
        /\ \A j \in 1 .. L : \E m \in 1 .. k - 1 : Due(m) /\ bin[j] = Said(m)
    BY <1>2 DEF TimesPacked
  <2>4. L \in Nat
    BY <1>2, SeqFacts
  <2>5. /\ stop_times_bin' \in Seq(Row)
        /\ \A m \in 1 .. k : Due(m) => \E j \in 1 .. Len(stop_times_bin') : stop_times_bin'[j] = Said(m)
        /\ \A j \in 1 .. Len(stop_times_bin') : \E m \in 1 .. k : Due(m) /\ stop_times_bin'[j] = Said(m)
    <3>1. CASE Resolves(st)
      <4>1. Said(k) \in Row /\ Due(k) /\ bin \in Seq(Row)
        BY <1>2, <1>3, <3>1, PackedIsARow
      <4>2. stop_times_bin' = Append(bin, Said(k))
        BY <2>1, <3>1
      <4> HIDE DEF Said, Due, bin
      <4>3. /\ stop_times_bin' \in Seq(Row) /\ Len(stop_times_bin') = Len(bin) + 1
            /\ \A m \in 1 .. Len(bin) : stop_times_bin'[m] = bin[m]
            /\ stop_times_bin'[Len(bin) + 1] = Said(k)
        BY <4>1, <4>2, AppendFacts
      <4>4. Len(bin) = L
        BY DEF bin
      <4> HIDE DEF L
      <4>5. /\ 1 .. L \subseteq 1 .. L + 1 /\ L + 1 \in 1 .. L + 1
            /\ \A m \in 1 .. L + 1 : m \in 1 .. L \/ m = L + 1
        BY <2>4
      <4>6. /\ Len(stop_times_bin') = L + 1 /\ stop_times_bin'[L + 1] = Said(k)
            /\ \A m \in 1 .. L : stop_times_bin'[m] = bin[m]
        BY <4>3, <4>4
      <4>7. ASSUME NEW m \in 1 .. k, Due(m)
            PROVE  \E j \in 1 .. L + 1 : stop_times_bin'[j] = Said(m)
        BY <2>2, <2>3, <4>5, <4>6, <4>7
      <4>8. ASSUME NEW j \in 1 .. L + 1
            PROVE  \E m \in 1 .. k : Due(m) /\ stop_times_bin'[j] = Said(m)
        BY <2>2, <2>3, <4>1, <4>5, <4>6
      <4> QED
        BY <4>3, <4>6, <4>7, <4>8
    <3>2. CASE ~Resolves(st)
      <4>1. stop_times_bin' = bin /\ ~Due(k) /\ bin \in Seq(Row)
        BY <1>2, <2>1, <3>2
      <4> HIDE DEF Said, Due, bin
      <4>2. Len(bin) = L
        BY DEF bin
      <4> HIDE DEF L
      <4> QED
        BY <2>2, <2>3, <4>1, <4>2
    <3> QED
      BY <3>1, <3>2
  <2>6. TimesPacked(k)'
    <3>1. /\ \A m \in 1 .. k : Resolves(feed.stop_times[m]) =>
               \E j \in 1 .. Len(stop_times_bin') : stop_times_bin'[j] = Packed(feed.stop_times[m])
          /\ \A j \in 1 .. Len(stop_times_bin') : \E m \in 1 .. k :
               Resolves(feed.stop_times[m]) /\ stop_times_bin'[j] = Packed(feed.stop_times[m])
      BY <2>5
    <3>2. UNCHANGED feed
      BY <1>2
    <3> HIDE DEF Said, Due, L, bin
    <3> QED
      BY <3>1, <3>2, PackedStays, Zenon
  <2>7. row' - 1 = k /\ row' \in 1 .. Len(feed.stop_times') + 1
    BY <1>2, <1>3, <2>1
  <2>8. TimesPacked(row - 1)'
    BY <2>6, <2>7
  <2> QED
    BY <1>2, <2>1, <2>5, <2>7, <2>8 DEF FilesSayTheFeed
<1> QED
  BY <1>4, <1>5

LEMMA FinishKeepsFiles ==
  ASSUME FilesTypeOK, FilesSayTheFeed, Finish
  PROVE  FilesSayTheFeed' /\ UNCHANGED <<feed, stops_bin, stop_times_bin>> /\ cpc # "done"
<1>1. /\ cpc = "stop_times" /\ row > Len(feed.stop_times) /\ cpc' = "done"
      /\ UNCHANGED <<feed, row, stops_bin, stop_times_bin>> /\ feed \in Feeds
      /\ row \in 1 .. Len(feed.stop_times) + 1 /\ TimesPacked(row - 1)
      /\ Len(stops_bin) = Len(feed.stops)
  BY DEF Finish, files, FilesTypeOK, FilesSayTheFeed
<1>2. PICK n : n = Len(feed.stop_times)
  OBVIOUS
<1>3. row - 1 = n
  BY <1>1, <1>2, FeedFacts
<1>4. TimesPacked(n)
  BY <1>1, <1>3
<1>5. /\ \A k \in 1 .. n : Resolves(feed.stop_times[k]) =>
           \E m \in 1 .. Len(stop_times_bin') : stop_times_bin'[m] = Packed(feed.stop_times[k])
      /\ \A m \in 1 .. Len(stop_times_bin') : \E k \in 1 .. n :
           Resolves(feed.stop_times[k]) /\ stop_times_bin'[m] = Packed(feed.stop_times[k])
  BY <1>1, <1>4 DEF TimesPacked
<1>6. TimesPacked(n)'
  BY <1>1, <1>5, PackedStays
<1>7. TimesPacked(Len(feed.stop_times))'
  BY <1>1, <1>2, <1>6
<1> QED
  BY <1>1, <1>7 DEF FilesSayTheFeed

(* What is on the disk is a file of the compiler or a part of one.         *)
LEMMA OnDiskFacts ==
  ASSUME NEW S, NEW records \in Seq(S), NEW name, NEW part \in OnDisk(name, records)
  PROVE  part \in Seq(S) /\ (cpc # name => part = records)
<1>1. \A n \in 0 .. Len(records) : SubSeq(records, 1, n) \in Seq(S)
  <2>1. TAKE n \in 0 .. Len(records)
  <2>2. Len(records) \in Nat /\ 0 \in Nat /\ n \in Nat /\ 0 + n <= Len(records)
    BY SeqFacts
  <2>3. SubSeq(records, 0 + 1, 0 + n) \in Seq(S)
    BY <2>2, SubSeqFacts
  <2>4. 0 + 1 = 1 /\ 0 + n = n
    OBVIOUS
  <2> QED
    BY <2>3, <2>4
<1> QED
  BY <1>1 DEF OnDisk, Parts, Whole

LEMMA CompileKeepsFiles ==
  ASSUME FilesTypeOK, Compile, UNCHANGED loaded
  PROVE  FilesTypeOK' /\ FilesSayTheFeed'
<1>1. /\ feed' \in Feeds /\ row' = 1 /\ stops_bin' = <<>> /\ cpc' = "stops"
      /\ UNCHANGED <<stop_times_bin, loaded>>
  BY DEF Compile
<1>2. Len(feed'.stops) \in Nat
  BY <1>1, FeedsAssumption, SeqFacts
<1> QED
  BY <1>1, <1>2 DEF FilesTypeOK, FilesSayTheFeed

LEMMA FilesStay ==
  ASSUME FilesSayTheFeed, UNCHANGED compilerVars
  PROVE  FilesSayTheFeed'
<1>1. UNCHANGED <<feed, cpc, row, stops_bin, stop_times_bin>>
  BY DEF compilerVars, files
<1>2. ASSUME NEW st PROVE (Resolves(st)' <=> Resolves(st)) /\ Packed(st)' = Packed(st)
  BY <1>1 DEF Resolves, Packed, RawStops
<1>3. ASSUME NEW n PROVE TimesPacked(n)' <=> TimesPacked(n)
  BY <1>1, <1>2 DEF TimesPacked
<1>4. TimesPacked(row - 1)' <=> TimesPacked(row - 1)
  BY <1>1, <1>3
<1>5. TimesPacked(Len(feed.stop_times))' <=> TimesPacked(Len(feed.stop_times))
  BY <1>1, <1>3
<1> QED
  BY <1>1, <1>4, <1>5 DEF FilesSayTheFeed

LEMMA CompilerStepKeepsFeed ==
  ASSUME FeedInvariant, RunCompilerOn
  PROVE  FeedInvariant'
<1>1. /\ CompilerStep /\ UNCHANGED <<epc, loaded, steady, stops, raw_stop_times>>
      /\ UNCHANGED indexVars
      /\ FilesTypeOK /\ FilesSayTheFeed /\ IndexInvariant /\ LoadedIsOnDisk
  BY DEF RunCompilerOn, engineVars, FeedInvariant, indexVars, inputs
<1>2. IndexInvariant'
  BY <1>1, IndexStays
<1>3. FilesTypeOK' /\ FilesSayTheFeed' /\ cpc # "done"
  <2>1. CASE PackStop
    BY <1>1, <2>1, PackStopKeepsFiles DEF FilesTypeOK
  <2>2. CASE OpenStopTimes
    <3>1. <<>> \in Seq(Row)
      OBVIOUS
    <3> QED
      BY <1>1, <2>2, <3>1, OpenStopTimesKeepsFiles DEF FilesTypeOK
  <2>3. CASE PackStopTime
    BY <1>1, <2>3, PackStopTimeKeepsFiles DEF FilesTypeOK
  <2>4. CASE Finish
    BY <1>1, <2>4, FinishKeepsFiles DEF FilesTypeOK
  <2> QED
    BY <1>1, <2>1, <2>2, <2>3, <2>4 DEF CompilerStep
<1>4. LoadedIsOnDisk'
  BY <1>1, <1>3 DEF LoadedIsOnDisk
<1> QED
  BY <1>2, <1>3, <1>4 DEF FeedInvariant

LEMMA RunCompilerKeepsFeed ==
  ASSUME FeedInvariant, RunCompiler
  PROVE  FeedInvariant'
<1>1. /\ Compile /\ steady' = FALSE /\ UNCHANGED indexVars /\ UNCHANGED loaded
      /\ FilesTypeOK /\ FilesSayTheFeed /\ IndexInvariant
  BY DEF RunCompiler, FeedInvariant
<1>2. IndexInvariant'
  BY <1>1, IndexStays
<1>3. FilesTypeOK' /\ FilesSayTheFeed'
  BY <1>1, CompileKeepsFiles
<1>4. LoadedIsOnDisk'
  BY <1>1 DEF LoadedIsOnDisk
<1> QED
  BY <1>2, <1>3, <1>4 DEF FeedInvariant

LEMMA LoadStopsKeepsFeed ==
  ASSUME FeedInvariant, LoadStops
  PROVE  FeedInvariant'
<1>1. /\ loaded' \in OnDisk("stops", stops_bin) /\ epc' = "loading" /\ steady' = (cpc = "done")
      /\ UNCHANGED <<feed, cpc, stops_bin, stop_times_bin>> /\ UNCHANGED compilerVars
      /\ UNCHANGED indexVars
      /\ FilesTypeOK /\ FilesSayTheFeed /\ IndexInvariant
  BY DEF LoadStops, FeedInvariant, compilerVars, files
<1>2. loaded' \in Seq(StopRecord) /\ (cpc # "stops" => loaded' = stops_bin)
  BY <1>1, OnDiskFacts DEF FilesTypeOK
<1>3. IndexInvariant' /\ FilesSayTheFeed'
  BY <1>1, IndexStays, FilesStay
<1>4. FilesTypeOK' /\ LoadedIsOnDisk'
  BY <1>1, <1>2 DEF FilesTypeOK, LoadedIsOnDisk
<1> QED
  BY <1>3, <1>4 DEF FeedInvariant

LEMMA LoadStopTimesKeepsFeed ==
  ASSUME FeedInvariant, LoadStopTimes
  PROVE  FeedInvariant'
<1>1. /\ epc = "loading" /\ epc' = "indexing" /\ UNCHANGED <<loaded, steady>>
      /\ UNCHANGED <<feed, cpc, stops_bin, stop_times_bin>> /\ UNCHANGED compilerVars
      /\ FilesTypeOK /\ FilesSayTheFeed /\ LoadedIsOnDisk
  BY DEF LoadStopTimes, FeedInvariant, compilerVars, files
<1>2. PICK records \in OnDisk("stop_times", stop_times_bin) : BuildIndex(loaded, records)
  BY DEF LoadStopTimes
<1>3. records \in Seq(Row) /\ (cpc # "stop_times" => records = stop_times_bin)
  BY <1>1, <1>2, OnDiskFacts DEF FilesTypeOK
<1>4. loaded \in Seq(StopRecord)
  BY <1>1 DEF FilesTypeOK
<1>5. IndexInvariant'
  BY <1>2, <1>3, <1>4, BuildKeepsIndex
<1>6. stops' = loaded /\ raw_stop_times' = records
  BY <1>2 DEF BuildIndex
<1>7. FilesTypeOK' /\ LoadedIsOnDisk'
  BY <1>1, <1>3, <1>6 DEF FilesTypeOK, LoadedIsOnDisk
<1> QED
  BY <1>1, <1>5, <1>7, FilesStay DEF FeedInvariant

LEMMA FeedStepKeepsFeed ==
  ASSUME FeedInvariant, [FeedNext]_feedVars
  PROVE  FeedInvariant'
<1>1. CASE RunCompiler
  BY <1>1, RunCompilerKeepsFeed
<1>2. CASE RunCompilerOn
  BY <1>2, CompilerStepKeepsFeed
<1>3. CASE LoadStops
  BY <1>3, LoadStopsKeepsFeed
<1>4. CASE LoadStopTimes
  BY <1>4, LoadStopTimesKeepsFeed
<1>5. CASE LoadFails \/ EndEngine
  <2>1. /\ epc' = "down" /\ UNCHANGED compilerVars /\ UNCHANGED indexVars
        /\ UNCHANGED <<loaded, steady, feed, cpc, stops_bin, stop_times_bin>>
    BY <1>5 DEF LoadFails, EndEngine, compilerVars, files
  <2>2. IndexInvariant' /\ FilesSayTheFeed'
    BY <2>1, IndexStays, FilesStay DEF FeedInvariant
  <2>3. FilesTypeOK' /\ LoadedIsOnDisk'
    BY <2>1 DEF FilesTypeOK, LoadedIsOnDisk, FeedInvariant
  <2> QED
    BY <2>2, <2>3 DEF FeedInvariant
<1>6. CASE Index
  <2>1. /\ IndexStep /\ UNCHANGED compilerVars
        /\ UNCHANGED <<epc, loaded, steady, feed, cpc, stops_bin, stop_times_bin>>
    BY <1>6 DEF Index, compilerVars, engineVars, files
  <2>2. UNCHANGED <<stops, raw_stop_times>>
    BY <2>1 DEF IndexStep, GroupTrips, AppendRoute, RoutesDone, ListStop, ListsDone, FlattenStop,
                AddFootpaths, inputs
  <2>3. IndexInvariant' /\ FilesSayTheFeed'
    BY <2>1, IndexStepKeepsIndex, FilesStay DEF FeedInvariant
  <2>4. FilesTypeOK' /\ LoadedIsOnDisk'
    BY <2>1, <2>2 DEF FilesTypeOK, LoadedIsOnDisk, FeedInvariant
  <2> QED
    BY <2>3, <2>4 DEF FeedInvariant
<1>7. CASE UNCHANGED feedVars
  <2>1. /\ UNCHANGED compilerVars /\ UNCHANGED indexVars
        /\ UNCHANGED <<epc, loaded, steady, feed, cpc, stops_bin, stop_times_bin, stops,
                       raw_stop_times>>
    BY <1>7 DEF feedVars, compilerVars, indexVars, engineVars, files, inputs
  <2>2. IndexInvariant' /\ FilesSayTheFeed'
    BY <2>1, IndexStays, FilesStay DEF FeedInvariant
  <2>3. FilesTypeOK' /\ LoadedIsOnDisk'
    BY <2>1 DEF FilesTypeOK, LoadedIsOnDisk, FeedInvariant
  <2> QED
    BY <2>2, <2>3 DEF FeedInvariant
<1> QED
  BY <1>1, <1>2, <1>3, <1>4, <1>5, <1>6, <1>7 DEF FeedNext

LEMMA FeedInvariantHolds == FeedSpec => []FeedInvariant
<1>1. FeedInit => FeedInvariant
  BY IndexInitially
     DEF FeedInit, CompilerInit, FeedInvariant, FilesTypeOK, FilesSayTheFeed, LoadedIsOnDisk
<1>2. FeedInvariant /\ [FeedNext]_feedVars => FeedInvariant'
  BY FeedStepKeepsFeed
<1> QED
  BY <1>1, <1>2, PTL DEF FeedSpec

-----------------------------------------------------------------------------
(* What the invariant says of a finished index.                            *)
KeepsTrips(r, ids) ==
  /\ \A t \in 1 .. r.num_trips :
       /\ ids[t] \in Trips /\ IsTrip(trip_stoptimes[ids[t]], ids[t])
       /\ Len(trip_stoptimes[ids[t]]) = r.num_stops
       /\ \A i \in 1 .. r.num_stops :
            /\ RowOf(r, t, i) = trip_stoptimes[ids[t]][i]
            /\ RowOf(r, t, i).stop_id = PatternOf(r)[i]
  /\ \A t, u \in 1 .. r.num_trips : u < t =>
       trip_stoptimes[ids[u]][1].dep_sec <= trip_stoptimes[ids[t]][1].dep_sec
  /\ \A id \in Trips : Pattern(id) = PatternOf(r) => \E t \in 1 .. r.num_trips : ids[t] = id

LEMMA RouteKeepsTrips ==
  ASSUME IndexTypeOK, TripsAreGrouped, LayoutIsSound, NEW n \in DOMAIN routes
  PROVE  \E ids : KeepsTrips(routes[n], ids)
<1> DEFINE r == routes[n]
<1>1. IsLaidOut(n)
  BY DEF LayoutIsSound
<1>2. PICK ids : LaidOutBy(r, ids)
  BY <1>1 DEF IsLaidOut
<1>3. /\ ids \in TripIds(PatternOf(r)) /\ r.num_trips = Len(ids)
      /\ \A t \in 1 .. r.num_trips : \A i \in 1 .. r.num_stops :
           RowOf(r, t, i) = trip_stoptimes[ids[t]][i]
  BY <1>2 DEF LaidOutBy
<1>4. Len(PatternOf(r)) = r.num_stops
  BY LaidOutRoute
<1> DEFINE seq == PatternOf(r)
<1> HIDE DEF r, seq
<1>5. /\ ids \in TripIds(seq) /\ Len(seq) = r.num_stops
  BY <1>3, <1>4 DEF seq
<1>6. /\ Len(ids) \in Nat
      /\ \A t \in 1 .. Len(ids) : ids[t] \in Trips /\ Pattern(ids[t]) = seq
      /\ \A t \in Trips : Pattern(t) = seq => \E m \in 1 .. Len(ids) : ids[m] = t
      /\ \A m, t \in 1 .. Len(ids) : m < t =>
           trip_stoptimes[ids[m]][1].dep_sec <= trip_stoptimes[ids[t]][1].dep_sec
  BY <1>5, TripIdsFacts
<1>7. ASSUME NEW t \in 1 .. r.num_trips
      PROVE  /\ ids[t] \in Trips /\ IsTrip(trip_stoptimes[ids[t]], ids[t])
             /\ Len(trip_stoptimes[ids[t]]) = r.num_stops
             /\ \A i \in 1 .. r.num_stops :
                  /\ RowOf(r, t, i) = trip_stoptimes[ids[t]][i]
                  /\ RowOf(r, t, i).stop_id = seq[i]
  <2>1. ids[t] \in Trips /\ Pattern(ids[t]) = seq
    BY <1>3, <1>6, <1>7
  <2>2. IsTrip(trip_stoptimes[ids[t]], ids[t])
    BY <2>1, TripFacts
  <2>3. /\ Len(Pattern(ids[t])) = Len(trip_stoptimes[ids[t]])
        /\ \A i \in 1 .. Len(trip_stoptimes[ids[t]]) :
             Pattern(ids[t])[i] = trip_stoptimes[ids[t]][i].stop_id
    BY <2>1, PatternFacts
  <2>4. Len(trip_stoptimes[ids[t]]) = r.num_stops
    BY <1>5, <2>1, <2>3
  <2>5. \A i \in 1 .. r.num_stops : RowOf(r, t, i) = trip_stoptimes[ids[t]][i]
    BY <1>3, <1>7
  <2> QED
    BY <2>1, <2>2, <2>3, <2>4, <2>5
<1>8. KeepsTrips(r, ids)
  BY <1>3, <1>6, <1>7 DEF KeepsTrips, seq
<1> QED
  BY <1>8 DEF r

LEMMA TripHasARoute ==
  ASSUME LayoutIsSound, remaining = {}, NEW id \in Trips
  PROVE  \E n \in DOMAIN routes : PatternOf(routes[n]) = Pattern(id)
BY DEF LayoutIsSound

LEMMA RowsMatch ==
  ASSUME IndexInvariant
  PROVE  RowsMatchPattern
<1>1. IndexTypeOK /\ LayoutInvariant
  BY DEF IndexInvariant
<1>2. CASE ipc \in Ungrouped
  BY <1>1, <1>2 DEF LayoutInvariant, RowsMatchPattern
<1>3. CASE ipc \notin Ungrouped
  <2>1. TripsAreGrouped /\ LayoutIsSound
    BY <1>1, <1>3 DEF LayoutInvariant
  <2>2. ASSUME NEW n \in DOMAIN routes
        PROVE  LET r == routes[n] IN
               /\ r.id = n - 1
               /\ r.stop_times_offset + r.num_trips * r.num_stops <= Len(stop_times)
               /\ \A t \in 1 .. r.num_trips : \A i \in 1 .. r.num_stops :
                    /\ RowOf(r, t, i).stop_id = PatternOf(r)[i]
                    /\ RowOf(r, t, i).trip_id = RowOf(r, t, 1).trip_id
    <3> DEFINE r == routes[n]
    <3>1. /\ r.id = n - 1
          /\ r.stop_times_offset + r.num_trips * r.num_stops <= Len(stop_times)
      BY <2>1 DEF LayoutIsSound, IsLaidOut
    <3>2. PICK ids : KeepsTrips(r, ids)
      BY <1>1, <2>1, RouteKeepsTrips
    <3>3. r.num_stops \in Nat
      BY <1>1, RouteFacts
    <3> HIDE DEF r
    <3>4. ASSUME NEW t \in 1 .. r.num_trips, NEW i \in 1 .. r.num_stops
          PROVE  /\ RowOf(r, t, i).stop_id = PatternOf(r)[i]
                 /\ RowOf(r, t, i).trip_id = RowOf(r, t, 1).trip_id
      <4>1. 1 \in 1 .. r.num_stops
        BY <3>3
      <4>2. /\ RowOf(r, t, i) = trip_stoptimes[ids[t]][i]
            /\ RowOf(r, t, 1) = trip_stoptimes[ids[t]][1]
            /\ RowOf(r, t, i).stop_id = PatternOf(r)[i]
            /\ trip_stoptimes[ids[t]][i].trip_id = ids[t]
            /\ trip_stoptimes[ids[t]][1].trip_id = ids[t]
        BY <3>2, <4>1 DEF KeepsTrips, IsTrip
      <4> QED
        BY <4>2
    <3> QED
      BY <3>1, <3>4 DEF r
  <2> QED
    BY <2>2 DEF RowsMatchPattern
<1> QED
  BY <1>2, <1>3

LEMMA TripsPreserved ==
  ASSUME IndexInvariant
  PROVE  TripsArePreserved
<1> SUFFICES ASSUME ipc = "ready" PROVE TripsArePreserved
  BY DEF TripsArePreserved
<1>1. IndexTypeOK /\ TripsAreGrouped /\ LayoutIsSound /\ remaining = {}
  BY DEF IndexInvariant, LayoutInvariant, Ungrouped
<1>2. Len(stop_times) = Len(raw_stop_times)
  <2>1. Len(raw_stop_times) \in Nat /\ RowsLaidOut = 1 .. Len(raw_stop_times)
    BY <1>1, RawRows DEF RowsLaidOut
  <2>2. Cardinality(1 .. Len(raw_stop_times)) = Len(raw_stop_times)
    BY <2>1, IntervalFacts
  <2> QED
    BY <1>1, <2>1, <2>2 DEF LayoutIsSound
<1>3. ASSUME NEW id \in Trips
      PROVE  \E n \in DOMAIN routes : \E t \in 1 .. routes[n].num_trips :
               /\ RowOf(routes[n], t, 1).trip_id = id
               /\ Range(TripOf(routes[n], t)) = {st \in Range(raw_stop_times) : st.trip_id = id}
  <2>1. PICK n \in DOMAIN routes : PatternOf(routes[n]) = Pattern(id)
    BY <1>1, TripHasARoute
  <2> DEFINE r == routes[n]
  <2>2. PICK ids : KeepsTrips(r, ids)
    BY <1>1, RouteKeepsTrips
  <2>3. r.num_stops \in Nat
    BY <1>1, RouteFacts
  <2>4. PatternOf(r) = Pattern(id)
    BY <2>1
  <2> HIDE DEF r
  <2>5. PICK t \in 1 .. r.num_trips : ids[t] = id
    BY <2>2, <2>4 DEF KeepsTrips
  <2> DEFINE times == trip_stoptimes[id]
  <2>6. /\ IsTrip(times, id) /\ Len(times) = r.num_stops
        /\ \A i \in 1 .. r.num_stops : RowOf(r, t, i) = times[i]
    BY <2>2, <2>5 DEF KeepsTrips
  <2> HIDE DEF times
  <2>7. 1 \in 1 .. r.num_stops
    BY <2>3, <2>6 DEF IsTrip
  <2>8. RowOf(r, t, 1).trip_id = id
    BY <2>6, <2>7 DEF IsTrip
  <2>9. TripOf(r, t) = [i \in 1 .. r.num_stops |-> times[i]]
    BY <2>6 DEF TripOf
  <2>10. Range(TripOf(r, t)) = {times[i] : i \in 1 .. r.num_stops}
    BY <2>9 DEF Range
  <2>11. /\ \A i \in 1 .. r.num_stops : times[i] \in Range(raw_stop_times) /\ times[i].trip_id = id
         /\ \A st \in Range(raw_stop_times) : st.trip_id = id =>
              \E i \in 1 .. r.num_stops : times[i] = st
    BY <2>6 DEF IsTrip
  <2>12. Range(TripOf(r, t)) = {st \in Range(raw_stop_times) : st.trip_id = id}
    BY <2>10, <2>11
  <2> QED
    BY <2>8, <2>12 DEF r
<1>4. ASSUME NEW n \in DOMAIN routes, NEW t \in 1 .. routes[n].num_trips
      PROVE  /\ \A i, j \in 1 .. routes[n].num_stops : i < j =>
                  RowOf(routes[n], t, i).stop_sequence <= RowOf(routes[n], t, j).stop_sequence
             /\ \A u \in 1 .. t : RowOf(routes[n], u, 1).dep_sec <= RowOf(routes[n], t, 1).dep_sec
  <2> DEFINE r == routes[n]
  <2>1. PICK ids : KeepsTrips(r, ids)
    BY <1>1, RouteKeepsTrips
  <2>2. r.num_stops \in Nat \ {0} /\ r.num_trips \in Nat
    BY <1>1, LaidOutRoute, RouteFacts
  <2>3. t \in 1 .. r.num_trips
    OBVIOUS
  <2>4. \A u \in 1 .. r.num_trips :
          /\ RowOf(r, u, 1) \in Row
          /\ RowOf(r, u, 1) = trip_stoptimes[ids[u]][1]
    <3> TAKE u \in 1 .. r.num_trips
    <3> HIDE DEF r
    <3>1. 1 \in 1 .. r.num_stops
      BY <2>2
    <3>2. /\ RowOf(r, u, 1) = trip_stoptimes[ids[u]][1]
          /\ trip_stoptimes[ids[u]][1] \in Range(raw_stop_times)
      BY <2>1, <3>1 DEF KeepsTrips, IsTrip
    <3> QED
      BY <1>1, <3>2, RawRows DEF Range
  <2> HIDE DEF r
  <2>5. \A i, j \in 1 .. r.num_stops : i < j =>
          RowOf(r, t, i).stop_sequence <= RowOf(r, t, j).stop_sequence
    BY <2>1, <2>3 DEF KeepsTrips, IsTrip
  <2>6. ASSUME NEW u \in 1 .. t
        PROVE  RowOf(r, u, 1).dep_sec <= RowOf(r, t, 1).dep_sec
    <3>1. u \in 1 .. r.num_trips /\ (u < t \/ u = t)
      BY <2>2, <2>3
    <3>2. CASE u < t
      BY <2>1, <2>3, <2>4, <3>1, <3>2 DEF KeepsTrips
    <3>3. CASE u = t
      <4>1. RowOf(r, t, 1).dep_sec \in Time
        BY <2>3, <2>4 DEF Row
      <4> QED
        BY <3>3, <4>1, NumStopsAssumption, WordAssumption DEF Time
    <3> QED
      BY <3>1, <3>2, <3>3
  <2> QED
    BY <2>5, <2>6 DEF r
<1> QED
  BY <1>2, <1>3, <1>4 DEF TripsArePreserved

LEMMA DistinctList ==
  ASSUME NEW S, NEW list \in Seq(S), \A i, j \in DOMAIN list : i # j => list[i] # list[j]
  PROVE  Len(list) = Cardinality(Range(list))
<1> DEFINE n == Len(list)
           R == Range(list)
<1>1. n \in Nat /\ DOMAIN list = 1 .. n /\ list = [i \in 1 .. n |-> list[i]]
  BY SeqFacts
<1>2. (\A i \in 1 .. n : list[i] \in R) /\ \A x \in R : \E i \in 1 .. n : list[i] = x
  BY <1>1 DEF Range
<1> HIDE DEF n, R
<1>3. list \in [1 .. n -> R] /\ \A i, j \in 1 .. n : i # j => list[i] # list[j]
  BY <1>1, <1>2
<1>4. Cardinality(R) = n
  BY <1>1, <1>2, <1>3, CountedBy
<1> QED
  BY <1>4 DEF n, R

LEMMA StopRoutesExact ==
  ASSUME IndexInvariant
  PROVE  StopRoutesAreExact
<1> SUFFICES ASSUME ipc = "ready", NEW s \in 0 .. NumberOfStops - 1
             PROVE  /\ Range(RoutesOfStop(s)) =
                         {r.id : r \in {x \in Range(routes) : s \in Range(PatternOf(x))}}
                    /\ Len(RoutesOfStop(s)) = Cardinality(Range(RoutesOfStop(s)))
  BY DEF StopRoutesAreExact
<1>1. /\ IndexTypeOK /\ LayoutIsSound /\ StopsAreListed(Len(routes) + 1, 1)
      /\ Flattened(Nat, RouteLists(NumberOfStops), stop_routes, stop_routes_offsets)
  BY DEF IndexInvariant, LayoutInvariant, ListsInvariant, OffsetsInvariant, Unflattened, Unlisted,
         Ungrouped
<1>2. Len(routes) \in Nat /\ DOMAIN routes = 1 .. Len(routes)
  BY <1>1, SeqFacts DEF IndexTypeOK
<1>3. RoutesOfStop(s) = stop_to_routes[s]
  <2>1. PICK N \in Nat : NumberOfStops = N
    BY <1>1, StopsCount
  <2>2. Len(RouteLists(N)) = N
    <3>1. RouteLists(N) \in Seq(Seq(Nat))
      BY <1>1, <2>1 DEF Flattened
    <3>2. RouteLists(N) \in [1 .. N -> Seq(Nat)]
      <4>1. \A i \in DOMAIN RouteLists(N) : RouteLists(N)[i] \in Seq(Nat)
        BY <3>1, SeqFacts
      <4>2. DOMAIN RouteLists(N) = 1 .. N /\ RouteLists(N) = [i \in 1 .. N |-> RouteLists(N)[i]]
        BY DEF RouteLists
      <4> QED
        BY <4>1, <4>2
    <3> QED
      BY <3>2, FunctionIsSeq
  <2>3. s + 1 \in 1 .. N /\ (s + 1) + 1 = s + 2
    BY <2>1
  <2>4. RouteLists(N)[s + 1] = stop_to_routes[s]
    BY <2>1, <2>3 DEF RouteLists
  <2>5. SubSeq(stop_routes, stop_routes_offsets[s + 1] + 1, stop_routes_offsets[(s + 1) + 1])
          = RouteLists(N)[s + 1]
    BY <1>1, <2>1, <2>2, <2>3, FlattenedList
  <2> QED
    BY <2>3, <2>4, <2>5 DEF RoutesOfStop
<1> DEFINE list == stop_to_routes[s]
           T == RoutesThrough(s, Len(routes) + 1, 1)
<1>4. Lists(list, T)
  BY <1>1 DEF StopsAreListed
<1>5. \A m : m \in T <=> m \in DOMAIN routes /\ s \in Range(PatternOf(routes[m]))
  <2>1. \A m \in DOMAIN routes : \A i : Comes(m, i, Len(routes) + 1, 1)
    BY <1>2 DEF Comes
  <2>2. \A m \in DOMAIN routes : s \in Range(PatternOf(routes[m])) <=>
          \E i \in DOMAIN PatternOf(routes[m]) : PatternOf(routes[m])[i] = s
    BY DEF Range
  <2> QED
    BY <2>1, <2>2 DEF RoutesThrough
<1>6. \A m \in DOMAIN routes : routes[m].id = m - 1
  BY <1>1, LaidOutRoute
<1> DEFINE R == {r.id : r \in {x \in Range(routes) : s \in Range(PatternOf(x))}}
<1>7. \A x : x \in R <=> \E m \in DOMAIN routes : s \in Range(PatternOf(routes[m])) /\ x = routes[m].id
  BY DEF Range
<1>8. R = {m - 1 : m \in T}
  <2> HIDE DEF R, T
  <2>1. \A x : x \in R <=> \E m \in T : x = m - 1
    BY <1>5, <1>6, <1>7
  <2> QED
    BY <2>1
<1> HIDE DEF list, T, R
<1>9. list \in Seq(Nat) /\ Len(list) \in Nat /\ DOMAIN list = 1 .. Len(list)
  BY <1>4, SeqFacts DEF Lists
<1>10. \A i, j \in DOMAIN list : i # j => list[i] # list[j]
  <2>1. \A i \in DOMAIN list : list[i] \in Nat
    BY <1>9, SeqFacts
  <2>2. \A i, j \in DOMAIN list : i < j => list[i] < list[j]
    BY <1>4 DEF Lists
  <2> QED
    BY <1>9, <2>1, <2>2
<1>11. Len(list) = Cardinality(Range(list))
  BY <1>9, <1>10, DistinctList
<1>12. Range(list) = {m - 1 : m \in T}
  BY <1>4 DEF Lists, Range
<1> QED
  BY <1>3, <1>8, <1>11, <1>12 DEF list, R

LEMMA WalksOfAStop ==
  ASSUME IndexInvariant, ipc = "ready", NEW s \in 0 .. NumberOfStops - 1
  PROVE  LeadToNeighbours(FootpathsOfStop(s), s + 1)
<1>1. IndexTypeOK /\ WalksInvariant
  BY DEF IndexInvariant
<1>2. PICK lists : /\ AreWalks(lists, NumberOfStops)
                   /\ Flattened(WalkRecord, lists, footpaths, footpath_offsets)
  BY <1>1 DEF WalksInvariant
<1>3. NumberOfStops \in Nat /\ DOMAIN stops = 1 .. NumberOfStops
  BY <1>1, StopsCount
<1>4. s + 1 \in 1 .. NumberOfStops /\ (s + 1) + 1 = s + 2
  BY <1>3
<1>5. Len(lists) = NumberOfStops /\ lists[s + 1] \in FootpathsFrom(s + 1)
  BY <1>2, <1>4 DEF AreWalks
<1>6. SubSeq(footpaths, footpath_offsets[s + 1] + 1, footpath_offsets[(s + 1) + 1]) = lists[s + 1]
  BY <1>2, <1>4, <1>5, FlattenedList
<1>7. FootpathsOfStop(s) = lists[s + 1]
  BY <1>4, <1>6 DEF FootpathsOfStop
<1> QED
  BY <1>1, <1>3, <1>4, <1>5, <1>7, WalkListFacts

LEMMA FootpathsAreThere ==
  ASSUME IndexInvariant
  PROVE  OrderedStopsHaveTheirFootpaths
<1> SUFFICES ASSUME ipc = "ready", \A i \in DOMAIN stops : stops[i].id = i - 1,
                    NEW u \in 0 .. NumberOfStops - 1, NEW v \in 0 .. NumberOfStops - 1
             PROVE  (\E f \in Range(FootpathsOfStop(u)) : f.to_stop = v) <=>
                      u # v /\ Distance(PlaceOf(u), PlaceOf(v)) <= MAX_WALK_DIST_M
  BY DEF OrderedStopsHaveTheirFootpaths
<1>1. NumberOfStops \in Nat /\ DOMAIN stops = 1 .. NumberOfStops
  BY StopsCount DEF IndexInvariant
<1>2. u + 1 \in DOMAIN stops /\ v + 1 \in DOMAIN stops
  BY <1>1
<1>3. ASSUME NEW w \in 0 .. NumberOfStops - 1
      PROVE  PlaceOf(w) = stops[w + 1].place
  <2>1. w + 1 \in DOMAIN stops /\ stops[w + 1].id = w
    BY <1>1
  <2>2. \A i \in DOMAIN stops : stops[i].id = w => i = w + 1
    BY <1>1
  <2>3. \A x \in Range(stops) : x.id = w => x = stops[w + 1]
    BY <2>2 DEF Range
  <2>4. stops[w + 1] \in Range(stops)
    BY <2>1 DEF Range
  <2>5. (CHOOSE x \in Range(stops) : x.id = w) = stops[w + 1]
    BY <2>1, <2>3, <2>4
  <2> QED
    BY <2>5 DEF PlaceOf
<1> DEFINE list == FootpathsOfStop(u)
<1>4. LeadToNeighbours(list, u + 1)
  BY WalksOfAStop
<1> HIDE DEF list
<1>5. list \in Seq(WalkRecord) /\ DOMAIN list = 1 .. Len(list)
  BY <1>4, SeqFacts DEF LeadToNeighbours
<1>6. \A j \in DOMAIN stops : Footpath(u + 1, j).to_stop = j - 1
  BY DEF Footpath
<1>7. (\E f \in Range(list) : f.to_stop = v) <=> Walkable(u + 1, v + 1)
  <2>1. ASSUME NEW f \in Range(list), f.to_stop = v PROVE Walkable(u + 1, v + 1)
    <3>1. PICK x \in 1 .. Len(list) : f = list[x]
      BY <1>5 DEF Range
    <3>2. PICK j \in DOMAIN stops : Walkable(u + 1, j) /\ list[x] = Footpath(u + 1, j)
      BY <1>4 DEF LeadToNeighbours
    <3>3. j - 1 = v
      BY <1>6, <2>1, <3>1, <3>2
    <3>4. j = v + 1
      BY <1>1, <3>3
    <3> QED
      BY <3>2, <3>4
  <2>2. ASSUME Walkable(u + 1, v + 1) PROVE \E f \in Range(list) : f.to_stop = v
    <3>1. PICK x \in 1 .. Len(list) : list[x] = Footpath(u + 1, v + 1)
      BY <1>2, <1>4, <2>2 DEF LeadToNeighbours
    <3>2. list[x] \in Range(list) /\ list[x].to_stop = v + 1 - 1
      BY <1>2, <1>5, <1>6, <3>1 DEF Range
    <3> QED
      BY <3>2
  <2> QED
    BY <2>1, <2>2
<1>8. Walkable(u + 1, v + 1) <=> u # v /\ Distance(PlaceOf(u), PlaceOf(v)) <= MAX_WALK_DIST_M
  <2>1. (u + 1 # v + 1) <=> (u # v)
    BY <1>1
  <2> QED
    BY <1>3, <2>1 DEF Walkable
<1> QED
  BY <1>7, <1>8 DEF list

(* The index says what the stop times it was given say (IndexIsFaithful):  *)
(* the row at a computed offset is there and belongs to the trip and the   *)
(* stop it is read for, no trip is lost, doubled or cut, a stop knows each *)
(* route that stops there once, and no other, and, where the file has the  *)
(* stops in the order of their ids, a footpath to each stop that is near.  *)
(* This is of build_index, for every feed, whatever part of the two files  *)
(* the engine found.                                                       *)
THEOREM IndexIsFaithfulAlways == FeedSpec => []IndexIsFaithful
<1>1. FeedInvariant => IndexIsFaithful
  BY RowsMatch, TripsPreserved, StopRoutesExact, FootpathsAreThere
     DEF FeedInvariant, IndexIsFaithful
<1> QED
  BY <1>1, FeedInvariantHolds, PTL

-----------------------------------------------------------------------------
(* A finished index is a graph.                                            *)
LEMMA PatternOfATrip ==
  ASSUME LayoutIsSound, NEW n \in DOMAIN routes
  PROVE  \E t \in Trips : Pattern(t) = PatternOf(routes[n])
<1>1. PatternOf(routes[n]) \in {Pattern(t) : t \in Trips}
  BY DEF LayoutIsSound
<1> QED
  BY <1>1

LEMMA RoutesAreFew ==
  ASSUME IndexTypeOK, LayoutIsSound
  PROVE  Len(routes) \in 0 .. FOOTPATH_ROUTE_ID - 1
<1> DEFINE L == Len(routes)
           f == [n \in 1 .. L |-> CHOOSE t \in Trips : Pattern(t) = PatternOf(routes[n])]
<1>1. L \in Nat /\ DOMAIN routes = 1 .. L
  BY SeqFacts DEF IndexTypeOK
<1>2. \A n \in 1 .. L : f[n] \in Trips /\ Pattern(f[n]) = PatternOf(routes[n])
  BY <1>1, PatternOfATrip
<1>3. \A m, n \in 1 .. L : m # n => PatternOf(routes[m]) # PatternOf(routes[n])
  BY <1>1 DEF LayoutIsSound
<1>4. f \in [1 .. L -> Trips]
  BY <1>2
<1>5. \A m, n \in 1 .. L : m # n => f[m] # f[n]
  <2> HIDE DEF f
  <2> QED
    BY <1>2, <1>3
<1> HIDE DEF f
<1>6. f \in Injection(1 .. L, Trips)
  BY <1>4, <1>5 DEF Injection, IsInjective
<1>7. IsFiniteSet(Trips) /\ Cardinality(Trips) < FOOTPATH_ROUTE_ID
  BY TripsAreFew
<1>8. Cardinality(1 .. L) = L /\ Cardinality(Trips) \in Nat
  BY <1>1, <1>7, IntervalFacts, FS_CardinalityType
<1>9. Cardinality(1 .. L) <= Cardinality(Trips)
  BY <1>6, <1>7, FS_Injection
<1>10. FOOTPATH_ROUTE_ID \in Int
  BY NumStopsAssumption, WordAssumption DEF FOOTPATH_ROUTE_ID
<1> QED
  BY <1>1, <1>7, <1>8, <1>9, <1>10

LEMMA PatternIsOfStops ==
  ASSUME IndexTypeOK, TripsAreGrouped, LayoutIsSound, NumberOfStops = NumStops, IdsAreStops,
         NEW n \in DOMAIN routes
  PROVE  PatternOf(routes[n]) \in Seq(Stops)
<1>1. PICK t \in Trips : Pattern(t) = PatternOf(routes[n])
  BY PatternOfATrip
<1> DEFINE times == trip_stoptimes[t]
           seq == Pattern(t)
<1>2. /\ seq \in Seq(Nat) /\ Len(seq) = Len(times) /\ Len(times) \in Nat
      /\ \A i \in 1 .. Len(times) : seq[i] = times[i].stop_id
  BY PatternFacts
<1>3. \A i \in 1 .. Len(times) : times[i] \in Range(raw_stop_times)
  BY TripFacts DEF IsTrip
<1> HIDE DEF times, seq
<1>4. \A i \in 1 .. Len(times) : times[i].stop_id \in Nat /\ times[i].stop_id < NumStops
  BY <1>3, RawRows DEF IdsAreStops, Range, Row
<1>5. \A i \in 1 .. Len(times) : seq[i] \in Stops
  BY <1>2, <1>4, NumStopsAssumption DEF Stops
<1>6. DOMAIN seq = 1 .. Len(times) /\ seq = [i \in 1 .. Len(times) |-> seq[i]]
  BY <1>2, SeqFacts
<1>7. seq \in [1 .. Len(times) -> Stops]
  BY <1>5, <1>6
<1>8. seq \in Seq(Stops)
  BY <1>2, <1>7, FunctionIsSeq
<1> QED
  BY <1>1, <1>8 DEF seq

TripAsSeen(r, t) ==
  [i \in 1 .. r.num_stops |->
     [trip_id |-> RowOf(r, t, i).trip_id, stop_sequence |-> RowOf(r, t, i).stop_sequence,
      arr_sec |-> RowOf(r, t, i).arr_sec, dep_sec |-> RowOf(r, t, i).dep_sec]]

RouteAsSeen(r) ==
  [stops |-> PatternOf(r), trips |-> [t \in 1 .. r.num_trips |-> TripAsSeen(r, t)]]

LEMMA RouteIsRoute ==
  ASSUME IndexTypeOK, TripsAreGrouped, LayoutIsSound, NumberOfStops = NumStops, IdsAreStops,
         NEW n \in DOMAIN routes
  PROVE  IsRoute(RouteAsSeen(routes[n]))
<1> DEFINE r == routes[n]
<1>1. PatternOf(r) \in Seq(Stops) /\ DOMAIN PatternOf(r) = 1 .. r.num_stops /\ r.num_trips \in Nat
  BY PatternIsOfStops, LaidOutRoute, RouteFacts
<1>2. PICK ids : KeepsTrips(r, ids)
  BY RouteKeepsTrips
<1> HIDE DEF r
<1>3. ASSUME NEW t \in 1 .. r.num_trips, NEW i \in 1 .. r.num_stops
      PROVE  RowOf(r, t, i) \in Row
  <2>1. RowOf(r, t, i) \in Range(raw_stop_times)
    BY <1>2 DEF KeepsTrips, IsTrip
  <2> QED
    BY <2>1, RawRows DEF Range
<1>4. ASSUME NEW t \in 1 .. r.num_trips
      PROVE  TripAsSeen(r, t) \in [1 .. r.num_stops -> StopTime]
  <2>1. ASSUME NEW i \in 1 .. r.num_stops
        PROVE  [trip_id |-> RowOf(r, t, i).trip_id,
                stop_sequence |-> RowOf(r, t, i).stop_sequence,
                arr_sec |-> RowOf(r, t, i).arr_sec, dep_sec |-> RowOf(r, t, i).dep_sec] \in StopTime
    <3> DEFINE x == RowOf(r, t, i)
    <3>1. x \in Row
      BY <1>3
    <3> HIDE DEF x
    <3>2. /\ x.trip_id \in Nat /\ x.stop_sequence \in Nat /\ x.arr_sec \in Time
          /\ x.dep_sec \in Time
      BY <3>1, NumStopsAssumption, WordAssumption DEF Row, FOOTPATH_ROUTE_ID
    <3>3. [trip_id |-> x.trip_id, stop_sequence |-> x.stop_sequence,
           arr_sec |-> x.arr_sec, dep_sec |-> x.dep_sec] \in StopTime
      BY <3>2 DEF StopTime
    <3> QED
      BY <3>3 DEF x
  <2> QED
    BY <2>1 DEF TripAsSeen
<1> DEFINE trips == [t \in 1 .. r.num_trips |-> TripAsSeen(r, t)]
<1>5. trips \in [1 .. r.num_trips -> [1 .. r.num_stops -> StopTime]]
  BY <1>4
<1>6. RouteAsSeen(r).stops = PatternOf(r) /\ RouteAsSeen(r).trips = trips
  BY DEF RouteAsSeen
<1> HIDE DEF trips
<1>7. trips \in Seq([1 .. r.num_stops -> StopTime])
  BY <1>1, <1>5, FunctionIsSeq
<1>8. IsRoute(RouteAsSeen(r))
  BY <1>1, <1>6, <1>7 DEF IsRoute
<1> QED
  BY <1>8 DEF r

WalksAsSeen(s) ==
  [v \in {f.to_stop : f \in Range(FootpathsOfStop(s))} |->
     (CHOOSE f \in Range(FootpathsOfStop(s)) : f.to_stop = v).duration_sec]

LEMMA WalksAreWalks ==
  ASSUME IndexInvariant, ipc = "ready", NumberOfStops = NumStops, NEW u \in Stops
  PROVE  /\ DOMAIN WalksAsSeen(u) \subseteq Stops \ {u}
         /\ \A v \in DOMAIN WalksAsSeen(u) : WalksAsSeen(u)[v] \in Time
<1> DEFINE list == FootpathsOfStop(u)
<1>1. LeadToNeighbours(list, u + 1)
  BY WalksOfAStop DEF Stops
<1>2. DOMAIN stops = 1 .. NumStops /\ u \in 0 .. NumStops - 1
  BY StopsCount DEF IndexInvariant, Stops
<1>3. WalksAsSeen(u) = [v \in {f.to_stop : f \in Range(list)} |->
                          (CHOOSE f \in Range(list) : f.to_stop = v).duration_sec]
  BY DEF WalksAsSeen
<1> HIDE DEF list
<1>4. list \in Seq(WalkRecord) /\ DOMAIN list = 1 .. Len(list)
      /\ \A x \in 1 .. Len(list) : list[x] \in WalkRecord
  BY <1>1, SeqFacts DEF LeadToNeighbours
<1>5. \A f \in Range(list) : f \in WalkRecord /\ f.to_stop \in Stops \ {u}
  <2>1. TAKE f \in Range(list)
  <2>2. PICK x \in 1 .. Len(list) : f = list[x]
    BY <1>4 DEF Range
  <2>3. PICK j \in DOMAIN stops : Walkable(u + 1, j) /\ list[x] = Footpath(u + 1, j)
    BY <1>1 DEF LeadToNeighbours
  <2>4. f.to_stop = j - 1 /\ j # u + 1
    BY <2>2, <2>3 DEF Footpath, Walkable
  <2>5. j - 1 \in Stops \ {u}
    BY <1>2, <2>4, NumStopsAssumption DEF Stops
  <2> QED
    BY <1>4, <2>2, <2>4, <2>5
<1>6. DOMAIN WalksAsSeen(u) = {f.to_stop : f \in Range(list)}
  BY <1>3
<1>7. ASSUME NEW v \in DOMAIN WalksAsSeen(u)
      PROVE  WalksAsSeen(u)[v] \in Time
  <2>1. \E f \in Range(list) : f.to_stop = v
    BY <1>6
  <2> DEFINE g == CHOOSE f \in Range(list) : f.to_stop = v
  <2>2. g \in Range(list)
    BY <2>1
  <2>3. WalksAsSeen(u)[v] = g.duration_sec
    BY <1>3, <1>6
  <2> HIDE DEF g
  <2> QED
    BY <1>5, <2>2, <2>3 DEF WalkRecord
<1> QED
  BY <1>5, <1>6, <1>7

(* What the proofs about the search assume of the graph (IsGraph) is what  *)
(* build_index makes, whatever the files hold, as long as the stop ids of  *)
(* the stop times are those of stops: every route is a pattern of stops    *)
(* with all times for all its trips, no route has the id that marks a      *)
(* footpath, and no footpath leads to where it starts.                     *)
THEOREM IndexIsAGraphAlways == FeedSpec => []IndexIsAGraph
<1>1. ASSUME FeedInvariant PROVE IndexIsAGraph
  <2> SUFFICES ASSUME ipc = "ready", NumberOfStops = NumStops, IdsAreStops
               PROVE  IsGraph(Graph)
    BY DEF IndexIsAGraph
  <2>1. IndexInvariant /\ IndexTypeOK /\ TripsAreGrouped /\ LayoutIsSound
    BY <1>1 DEF FeedInvariant, IndexInvariant, LayoutInvariant, Ungrouped
  <2> DEFINE seen == [n \in DOMAIN routes |-> RouteAsSeen(routes[n])]
             walk == [s \in 0 .. NumberOfStops - 1 |-> WalksAsSeen(s)]
             L == Len(routes)
  <2>2. Graph.routes = seen /\ Graph.walk = walk
    BY DEF Graph, RouteAsSeen, TripAsSeen, WalksAsSeen
  <2>3. DOMAIN routes = 1 .. L /\ L \in Nat
    BY <2>1, SeqFacts DEF IndexTypeOK
  <2>4. seen \in [1 .. L -> {RouteAsSeen(routes[n]) : n \in 1 .. L}]
    BY <2>3
  <2>5. \A n \in 1 .. L : IsRoute(seen[n])
    BY <2>1, <2>3, RouteIsRoute
  <2>6. \A u \in Stops : /\ DOMAIN walk[u] \subseteq Stops \ {u}
                         /\ \A v \in DOMAIN walk[u] : walk[u][v] \in Time
    BY <2>1, WalksAreWalks DEF Stops
  <2> HIDE DEF seen, walk, L
  <2>7. DOMAIN seen = 1 .. L /\ Len(seen) = L
    BY <2>3, <2>4, FunctionIsSeq
  <2>8. L \in 0 .. FOOTPATH_ROUTE_ID - 1
    BY <2>1, RoutesAreFew DEF L
  <2> QED
    BY <2>2, <2>5, <2>6, <2>7, <2>8 DEF IsGraph
<1> QED
  BY <1>1, FeedInvariantHolds, PTL

-----------------------------------------------------------------------------
(* From the feed to what is served.                                        *)
LEMMA RawOfFacts ==
  ASSUME NEW ids, IsFiniteSet(ids), ids \subseteq Nat, NEW x \in ids
  PROVE  RawOf(ids, IdIn(ids, x)) = x
<1>1. \A y \in ids : IdIn(ids, y) \in Nat
  BY IdFacts
<1>2. \A y \in ids : y # x => IdIn(ids, y) # IdIn(ids, x)
  <2>1. TAKE y \in ids
  <2>2. y < x \/ x < y \/ x = y
    OBVIOUS
  <2>3. \A a, b \in ids : a < b => IdIn(ids, a) < IdIn(ids, b)
    BY IdFacts
  <2> QED
    BY <1>1, <2>2, <2>3
<1>3. \A y \in ids : IdIn(ids, y) = IdIn(ids, x) => y = x
  BY <1>2
<1> QED
  BY <1>3 DEF RawOf

(* What the feed says in a row the compiler packs.                         *)
FeedRow(st) == [trip |-> st.trip, stop |-> st.stop, arr |-> st.arr, dep |-> st.dep, seq |-> st.seq]
Unpacked(st) ==
  [trip |-> RawOf(feed.trips, st.trip_id), stop |-> RawOf(RawStops, st.stop_id),
   arr |-> st.arr_sec, dep |-> st.dep_sec, seq |-> st.stop_sequence]

LEMMA UnpackedFacts ==
  ASSUME feed \in Feeds, NEW st, Resolves(st)
  PROVE  Unpacked(Packed(st)) = FeedRow(st)
<1>1. /\ IsFiniteSet(feed.trips) /\ feed.trips \subseteq Nat
      /\ IsFiniteSet(RawStops) /\ RawStops \subseteq Nat
      /\ st.trip \in feed.trips /\ st.stop \in RawStops
  BY FeedFacts DEF Resolves
<1>2. /\ RawOf(feed.trips, IdIn(feed.trips, st.trip)) = st.trip
      /\ RawOf(RawStops, IdIn(RawStops, st.stop)) = st.stop
  BY <1>1, RawOfFacts
<1> QED
  BY <1>2 DEF Unpacked, Packed, FeedRow

(* The rows of the index, reached by its offsets, are those it was given.  *)
LEMMA ServedRowsAreRaw ==
  ASSUME IndexTypeOK, TripsAreGrouped, LayoutIsSound, remaining = {}
  PROVE  /\ \A n \in DOMAIN routes : \A t \in 1 .. routes[n].num_trips :
              \A i \in 1 .. routes[n].num_stops : \E st \in Range(raw_stop_times) :
                 ServedRow(routes[n], t, i) = Unpacked(st)
         /\ \A st \in Range(raw_stop_times) :
              \E n \in DOMAIN routes : \E t \in 1 .. routes[n].num_trips :
              \E i \in 1 .. routes[n].num_stops : ServedRow(routes[n], t, i) = Unpacked(st)
<1>1. ASSUME NEW n \in DOMAIN routes, NEW t \in 1 .. routes[n].num_trips,
             NEW i \in 1 .. routes[n].num_stops
      PROVE  \E st \in Range(raw_stop_times) : ServedRow(routes[n], t, i) = Unpacked(st)
  <2> DEFINE r == routes[n]
  <2>1. PICK ids : KeepsTrips(r, ids)
    BY RouteKeepsTrips
  <2> HIDE DEF r
  <2>2. t \in 1 .. r.num_trips /\ i \in 1 .. r.num_stops
    BY DEF r
  <2>3. RowOf(r, t, i) \in Range(raw_stop_times) /\ RowOf(r, t, i).stop_id = PatternOf(r)[i]
    BY <2>1, <2>2 DEF KeepsTrips, IsTrip
  <2>4. ServedRow(r, t, i) = Unpacked(RowOf(r, t, i))
    BY <2>3 DEF ServedRow, Unpacked
  <2> QED
    BY <2>3, <2>4 DEF r
<1>2. ASSUME NEW st \in Range(raw_stop_times)
      PROVE  \E n \in DOMAIN routes : \E t \in 1 .. routes[n].num_trips :
             \E i \in 1 .. routes[n].num_stops : ServedRow(routes[n], t, i) = Unpacked(st)
  <2>1. PICK id \in Trips : st.trip_id = id
    BY DEF Trips
  <2>2. PICK n \in DOMAIN routes : PatternOf(routes[n]) = Pattern(id)
    BY TripHasARoute
  <2> DEFINE r == routes[n]
  <2>3. PICK ids : KeepsTrips(r, ids)
    BY RouteKeepsTrips
  <2>4. PatternOf(r) = Pattern(id)
    BY <2>2
  <2> HIDE DEF r
  <2>5. PICK t \in 1 .. r.num_trips : ids[t] = id
    BY <2>3, <2>4 DEF KeepsTrips
  <2>6. PICK i \in 1 .. r.num_stops : trip_stoptimes[id][i] = st
    BY <2>1, <2>3, <2>5 DEF KeepsTrips, IsTrip
  <2>7. RowOf(r, t, i) = st /\ st.stop_id = PatternOf(r)[i]
    BY <2>3, <2>5, <2>6 DEF KeepsTrips
  <2>8. ServedRow(r, t, i) = Unpacked(st)
    BY <2>7 DEF ServedRow, Unpacked
  <2> QED
    BY <2>5, <2>6, <2>8 DEF r
<1> QED
  BY <1>1, <1>2

LEMMA DistinctStops ==
  ASSUME feed \in Feeds,
         \A i, j \in DOMAIN feed.stops : feed.stops[i].raw_id = feed.stops[j].raw_id => i = j
  PROVE  Len(feed.stops) = Cardinality(RawStops)
<1> DEFINE L == Len(feed.stops)
           f == [i \in 1 .. L |-> feed.stops[i].raw_id]
<1>1. L \in Nat /\ DOMAIN feed.stops = 1 .. L
  BY FeedFacts
<1>2. /\ f \in [1 .. L -> RawStops] /\ \A i, j \in 1 .. L : i # j => f[i] # f[j]
      /\ \A x \in RawStops : \E i \in 1 .. L : f[i] = x
  BY <1>1 DEF RawStops
<1> HIDE DEF f
<1>3. Cardinality(RawStops) = L
  BY <1>1, <1>2, CountedBy
<1> QED
  BY <1>3

(* An engine started after a complete run of the compiler serves the feed  *)
(* (ServesTheFeed): for each row of stop_times.txt that resolves a row of  *)
(* the index with the same trip, stop, times and sequence, and no other,   *)
(* through every run, failure, start and stop before.  stop_id is the key  *)
(* of stops.txt: a feed that lists a stop twice gets more stops than ids.  *)
THEOREM ServesTheFeedAlways ==
  ASSUME \A f \in Feeds : \A i, j \in DOMAIN f.stops : f.stops[i].raw_id = f.stops[j].raw_id => i = j
  PROVE  FeedSpec => []ServesTheFeed
<1>1. ASSUME FeedInvariant PROVE ServesTheFeed
  <2> SUFFICES ASSUME steady, epc = "indexing", ipc = "ready"
               PROVE  /\ ServedRows = FeedRows
                      /\ NumberOfStops = Cardinality(RawStops)
                      /\ IdsAreStops
    BY DEF ServesTheFeed
  <2>1. /\ IndexTypeOK /\ TripsAreGrouped /\ LayoutIsSound /\ remaining = {}
        /\ feed \in Feeds /\ TimesPacked(Len(feed.stop_times))
        /\ Len(stops_bin) = Len(feed.stops)
        /\ stops = stops_bin /\ raw_stop_times = stop_times_bin
    BY <1>1 DEF FeedInvariant, IndexInvariant, LayoutInvariant, Ungrouped, FilesTypeOK,
                FilesSayTheFeed, LoadedIsOnDisk
  <2>2. NumberOfStops = Cardinality(RawStops)
    BY <2>1, DistinctStops DEF NumberOfStops
  <2> DEFINE Told == {st \in Range(feed.stop_times) : Resolves(st)}
  <2>3. /\ DOMAIN raw_stop_times = 1 .. Len(raw_stop_times)
        /\ DOMAIN feed.stop_times = 1 .. Len(feed.stop_times)
    BY <2>1, RawRows, FeedFacts
  <2>4. /\ \A st \in Told : \E raw \in Range(raw_stop_times) : raw = Packed(st)
        /\ \A raw \in Range(raw_stop_times) : \E st \in Told : raw = Packed(st)
    <3> DEFINE K == 1 .. Len(feed.stop_times)
               M == 1 .. Len(raw_stop_times)
    <3>1. /\ \A k \in K : Resolves(feed.stop_times[k]) =>
               \E m \in M : raw_stop_times[m] = Packed(feed.stop_times[k])
          /\ \A m \in M : \E k \in K :
               Resolves(feed.stop_times[k]) /\ raw_stop_times[m] = Packed(feed.stop_times[k])
      BY <2>1 DEF TimesPacked
    <3> HIDE DEF K, M
    <3>2. /\ \A st \in Told : Resolves(st) /\ \E k \in K : st = feed.stop_times[k]
          /\ \A k \in K : Resolves(feed.stop_times[k]) => feed.stop_times[k] \in Told
      BY <2>3 DEF Range, K
    <3>3. /\ \A raw \in Range(raw_stop_times) : \E m \in M : raw = raw_stop_times[m]
          /\ \A m \in M : raw_stop_times[m] \in Range(raw_stop_times)
      BY <2>3 DEF Range, M
    <3> HIDE DEF Told
    <3> QED
      BY <3>1, <3>2, <3>3
  <2>5. FeedRows = {FeedRow(st) : st \in Told}
    BY DEF FeedRows, FeedRow, Resolves
  <2>6. \A st \in Told : Unpacked(Packed(st)) = FeedRow(st)
    BY <2>1, UnpackedFacts
  <2>7. \A st \in Told : Packed(st).stop_id = IdIn(RawStops, st.stop) /\ st.stop \in RawStops
    BY DEF Packed, Resolves
  <2> HIDE DEF Told
  <2>8. IdsAreStops
    <3>1. IsFiniteSet(RawStops) /\ RawStops \subseteq Nat
      BY <2>1, FeedFacts
    <3>2. \A x \in RawStops : IdIn(RawStops, x) < Cardinality(RawStops)
      BY <3>1, IdFacts
    <3> QED
      BY <2>2, <2>4, <2>7, <3>2 DEF IdsAreStops
  <2>9. \A row1 \in ServedRows : row1 \in FeedRows
    <3>1. TAKE row1 \in ServedRows
    <3>2. PICK r \in Range(routes) :
            row1 \in {ServedRow(r, t, i) : t \in 1 .. r.num_trips, i \in 1 .. r.num_stops}
      BY DEF ServedRows
    <3>3. PICK n \in DOMAIN routes : r = routes[n]
      BY DEF Range
    <3>4. PICK t \in 1 .. r.num_trips, i \in 1 .. r.num_stops : row1 = ServedRow(r, t, i)
      BY <3>2
    <3>5. PICK raw \in Range(raw_stop_times) : row1 = Unpacked(raw)
      BY <2>1, <3>3, <3>4, ServedRowsAreRaw
    <3>6. PICK st \in Told : raw = Packed(st)
      BY <2>4
    <3> QED
      BY <2>5, <2>6, <3>5, <3>6
  <2>10. \A row1 \in FeedRows : row1 \in ServedRows
    <3>1. TAKE row1 \in FeedRows
    <3>2. PICK st \in Told : row1 = FeedRow(st)
      BY <2>5
    <3>3. PICK raw \in Range(raw_stop_times) : raw = Packed(st)
      BY <2>4
    <3>4. row1 = Unpacked(raw)
      BY <2>6, <3>2, <3>3
    <3>5. PICK n \in DOMAIN routes : \E t \in 1 .. routes[n].num_trips :
            \E i \in 1 .. routes[n].num_stops : ServedRow(routes[n], t, i) = Unpacked(raw)
      BY <2>1, ServedRowsAreRaw
    <3>6. row1 \in {ServedRow(routes[n], t, i) :
                     t \in 1 .. routes[n].num_trips, i \in 1 .. routes[n].num_stops}
      BY <3>4, <3>5
    <3>7. routes[n] \in Range(routes)
      BY DEF Range
    <3> QED
      BY <3>6, <3>7 DEF ServedRows
  <2> QED
    BY <2>2, <2>8, <2>9, <2>10
<1> QED
  BY <1>1, FeedInvariantHolds, PTL
==============================================================================
