------------------------ MODULE EarliestArrivalProofs ------------------------
(***************************************************************************)
(* Lemmas about the reference, EarliestArrival, in terms of rides and of   *)
(* what one more bus brings, for whoever searches a timetable by rounds:   *)
(* RaptorRouter and RaptorEngine.                                          *)
(***************************************************************************)
EXTENDS EarliestArrival, FiniteSetTheorems, WellFoundedInduction, TLAPS
LOCAL INSTANCE FiniteSetsExt

USE NumStopsAssumption, WordAssumption DEF Stops, Time, INF, FOOTPATH_ROUTE_ID

(* What the lemmas need of a timetable.                                    *)
IsTimetable(g) ==
  /\ Len(g.routes) \in Nat
  /\ \A u \in Stops : /\ DOMAIN g.walk[u] \subseteq Stops \ {u}
                      /\ \A v \in DOMAIN g.walk[u] : g.walk[u][v] \in Nat
  /\ \A r \in 1 .. Len(g.routes) :
       /\ DOMAIN g.routes[r].stops = 1 .. Len(g.routes[r].stops)
       /\ Len(g.routes[r].stops) \in Nat
       /\ DOMAIN g.routes[r].trips = 1 .. Len(g.routes[r].trips)
       /\ Len(g.routes[r].trips) \in Nat
       /\ \A i \in DOMAIN g.routes[r].stops : g.routes[r].stops[i] \in Stops
       /\ \A t \in DOMAIN g.routes[r].trips : \A i \in DOMAIN g.routes[r].stops :
            /\ g.routes[r].trips[t][i].arr_sec \in Time
            /\ g.routes[r].trips[t][i].dep_sec \in Time

(* What is not empty has a least number.                                   *)
LEMMA NatMin ==
  ASSUME NEW S \in SUBSET Nat, S # {}
  PROVE  \E m \in S : \A n \in S : m <= n
<1> DEFINE R == OpToRel(<, Nat)
<1>1. IsWellFoundedOn(R, Nat)
  BY NatLessThanWellFounded
<1>2. \A x, y \in Nat : x < y => <<x, y>> \in R
  BY DEF OpToRel
<1> HIDE DEF R
<1>3. PICK m \in S : \A y \in S : ~(<<y, m>> \in R)
  BY <1>1, WFMin
<1>4. \A y \in S : ~(y < m)
  BY <1>2, <1>3
<1> QED
  BY <1>4

(* What holds at 0 and goes on to the next number, up to n.                *)
LEMMA CountingUp ==
  ASSUME NEW upto \in Nat, NEW Ok, 0 \in Ok, \A i \in 0 .. upto - 1 : i \in Ok => i + 1 \in Ok
  PROVE  \A i \in 0 .. upto : i \in Ok
<1> DEFINE Without == {i \in 0 .. upto : i \notin Ok}
<1> SUFFICES ASSUME Without # {} PROVE FALSE
  OBVIOUS
<1>1. PICK m \in Without : \A i \in Without : m <= i
  <2>1. Without \in SUBSET Nat
    OBVIOUS
  <2> HIDE DEF Without
  <2> QED
    BY <2>1, NatMin
<1>2. m # 0 /\ m - 1 \in 0 .. upto - 1 /\ m - 1 \notin Without /\ (m - 1) + 1 = m /\ m \notin Ok
  BY <1>1
<1>3. m - 1 \in Ok
  BY <1>2
<1> QED
  BY <1>2, <1>3

LEMMA TimetableFields ==
  ASSUME NEW g, IsTimetable(g)
  PROVE  /\ Len(g.routes) \in Nat
         /\ \A u \in Stops : /\ DOMAIN g.walk[u] \subseteq Stops \ {u}
                             /\ \A v \in DOMAIN g.walk[u] : g.walk[u][v] \in Nat
         /\ \A r \in 1 .. Len(g.routes) :
              /\ DOMAIN g.routes[r].stops = 1 .. Len(g.routes[r].stops)
              /\ Len(g.routes[r].stops) \in Nat
              /\ DOMAIN g.routes[r].trips = 1 .. Len(g.routes[r].trips)
              /\ Len(g.routes[r].trips) \in Nat
              /\ \A i \in DOMAIN g.routes[r].stops : g.routes[r].stops[i] \in Stops
              /\ \A t \in DOMAIN g.routes[r].trips : \A i \in DOMAIN g.routes[r].stops :
                   /\ g.routes[r].trips[t][i].arr_sec \in Time
                   /\ g.routes[r].trips[t][i].dep_sec \in Time
BY Zenon DEF IsTimetable

(***************************************************************************)
(* Rides: a trip of a route from one of its positions to a later one.      *)
(***************************************************************************)
Rides(g) ==
  UNION {{x \in [r : {r}, t : DOMAIN g.routes[r].trips,
                 i : DOMAIN g.routes[r].stops, j : DOMAIN g.routes[r].stops] : x.i < x.j}
         : r \in 1 .. Len(g.routes)}

BoardedAt(g, x) == g.routes[x.r].stops[x.i]
LeftAt(g, x) == g.routes[x.r].stops[x.j]
DepartureOf(g, x) == g.routes[x.r].trips[x.t][x.i].dep_sec
ArrivalOf(g, x) == g.routes[x.r].trips[x.t][x.j].arr_sec

(* Whoever is at the stops at the times lab is in time for the ride.       *)
Caught(g, x, lab) ==
  lab[BoardedAt(g, x)] # INF /\ lab[BoardedAt(g, x)] <= DepartureOf(g, x)

WalksFrom(g, x) == DOMAIN g.walk[LeftAt(g, x)]
WalkTime(g, x, v) == g.walk[LeftAt(g, x)][v]

(* No stop is later than the ride, or the ride and a walk, would make it.  *)
RideCounts(g, x, lab) == lab[LeftAt(g, x)] <= ArrivalOf(g, x)
WalksCount(g, x, lab) ==
  \A v \in WalksFrom(g, x) : lab[v] <= ArrivalOf(g, x) + WalkTime(g, x, v)

(* The time of s is an old one or that of a ride, with or without a walk.  *)
CameBy(g, s, x, lab) == s = LeftAt(g, x) /\ lab[s] = ArrivalOf(g, x)
WalkedFrom(g, s, x, lab) ==
  /\ s \in WalksFrom(g, x) /\ lab[s] = ArrivalOf(g, x) + WalkTime(g, x, s)
  /\ RideCounts(g, x, lab) /\ WalksCount(g, x, lab)

IsExplained(g, s, old, lab) ==
  \/ lab[s] = old[s]
  \/ \E x \in Rides(g) : /\ Caught(g, x, old)
                         /\ CameBy(g, s, x, lab) \/ WalkedFrom(g, s, x, lab)

(* new is old and one more bus: what Later computes, without computing it. *)
OneMoreBus(g, old, new) ==
  /\ \A s \in Stops : new[s] <= old[s] /\ IsExplained(g, s, old, new)
  /\ \A x \in Rides(g) : Caught(g, x, old) => RideCounts(g, x, new) /\ WalksCount(g, x, new)

(* The rides that do not start at a marked stop bring nothing new.         *)
OthersCount(g, marked, old, lab) ==
  \A x \in Rides(g) : Caught(g, x, old) /\ BoardedAt(g, x) \notin marked =>
    RideCounts(g, x, lab) /\ WalksCount(g, x, lab)

(* Nobody is earlier somewhere by walking there.                           *)
WalkedOut(g, lab) ==
  \A u \in Stops : \A v \in DOMAIN g.walk[u] : lab[v] <= lab[u] + g.walk[u][v]

-----------------------------------------------------------------------------
(***************************************************************************)
(* The reference, step by step.                                            *)
(***************************************************************************)
StartingAt(s, d) == [x \in Stops |-> IF x = s THEN d ELSE INF]

Later(g, lab) == Earlier(lab, Walked(g, Ridden(g, lab)))

(* A recursive function on five numbers: the function exists, so it is the *)
(* one its equation says.                                                  *)
LEMMA BestIsUnfolded ==
  ASSUME NEW g, NEW s, NEW d
  PROVE  /\ Best(g, s, d)[0] = Walked(g, StartingAt(s, d))
         /\ \A n \in 0 .. 3 : Best(g, s, d)[n + 1] = Later(g, Best(g, s, d)[n])
<1> DEFINE first == Walked(g, StartingAt(s, d))
           Holds(f) == f = [n \in 0 .. 4 |-> IF n = 0 THEN first ELSE Later(g, f[n - 1])]
<1>1. Best(g, s, d) = CHOOSE f : Holds(f)
  BY Zenon DEF Best, StartingAt, Later
<1> HIDE DEF first
<1>2. \E f : Holds(f)
  <2> DEFINE b0 == first
             b1 == Later(g, b0)
             b2 == Later(g, b1)
             b3 == Later(g, b2)
             b4 == Later(g, b3)
             f == [n \in 0 .. 4 |-> IF n = 0 THEN b0 ELSE IF n = 1 THEN b1 ELSE
                                    IF n = 2 THEN b2 ELSE IF n = 3 THEN b3 ELSE b4]
  <2>1. f[0] = b0 /\ f[1] = b1 /\ f[2] = b2 /\ f[3] = b3 /\ f[4] = b4
    BY Z3
  <2>2. Holds(f)
    <3> SUFFICES ASSUME NEW n \in 0 .. 4 PROVE f[n] = IF n = 0 THEN first ELSE Later(g, f[n - 1])
      OBVIOUS
    <3> QED
      BY <2>1
  <2> QED
    BY <2>2
<1>3. Holds(Best(g, s, d))
  BY <1>1, <1>2, Zenon
<1> DEFINE b == Best(g, s, d)
<1> HIDE DEF b
<1>4. b = [n \in 0 .. 4 |-> IF n = 0 THEN first ELSE Later(g, b[n - 1])]
  BY <1>3 DEF b
<1>5. b[0] = first /\ \A n \in 0 .. 3 : b[n + 1] = Later(g, b[n])
  BY <1>4
<1> QED
  BY <1>5 DEF b, first

LEMMA ComputedIsIt == ASSUME NEW f PROVE Computed(f) = f
BY DEF Computed

LEMMA LeastOf ==
  ASSUME NEW S \in SUBSET Nat, S # {}
  PROVE  Min(S) \in S /\ \A n \in S : Min(S) <= n
<1>1. \E m \in S : \A n \in S : m <= n
  BY NatMin
<1> QED
  BY <1>1, Zenon DEF Min

(* A ride is a trip and two positions of a route, in their order.          *)
LEMMA RideFields ==
  ASSUME NEW g, IsTimetable(g), NEW x \in Rides(g)
  PROVE  /\ x.r \in 1 .. Len(g.routes)
         /\ x.t \in DOMAIN g.routes[x.r].trips
         /\ x.i \in DOMAIN g.routes[x.r].stops /\ x.j \in DOMAIN g.routes[x.r].stops
         /\ x.i \in Nat /\ x.j \in Nat /\ x.t \in Nat /\ x.i < x.j
         /\ BoardedAt(g, x) \in Stops /\ LeftAt(g, x) \in Stops
         /\ DepartureOf(g, x) \in Time /\ ArrivalOf(g, x) \in Time
<1>1. PICK r \in 1 .. Len(g.routes) :
        x \in {y \in [r : {r}, t : DOMAIN g.routes[r].trips, i : DOMAIN g.routes[r].stops, j : DOMAIN g.routes[r].stops] :
                 y.i < y.j}
  BY DEF Rides
<1>2. /\ x.r = r /\ x.t \in DOMAIN g.routes[r].trips /\ x.i < x.j
      /\ x.i \in DOMAIN g.routes[r].stops /\ x.j \in DOMAIN g.routes[r].stops
  BY <1>1
<1>3. /\ DOMAIN g.routes[r].stops = 1 .. Len(g.routes[r].stops)
      /\ DOMAIN g.routes[r].trips = 1 .. Len(g.routes[r].trips)
  BY TimetableFields
<1>4. x.i \in Nat /\ x.j \in Nat /\ x.t \in Nat
  BY <1>2, <1>3
<1>5. /\ BoardedAt(g, x) \in Stops /\ LeftAt(g, x) \in Stops
      /\ DepartureOf(g, x) \in Time /\ ArrivalOf(g, x) \in Time
  BY <1>2, TimetableFields, Zenon DEF BoardedAt, LeftAt, DepartureOf, ArrivalOf
<1> QED
  BY <1>2, <1>4, <1>5

LEMMA IsRide ==
  ASSUME NEW g, IsTimetable(g), NEW r \in 1 .. Len(g.routes), NEW t \in DOMAIN g.routes[r].trips,
         NEW i \in DOMAIN g.routes[r].stops, NEW j \in DOMAIN g.routes[r].stops, i < j
  PROVE  \E x \in Rides(g) : x.r = r /\ x.t = t /\ x.i = i /\ x.j = j
<1> DEFINE x == [r |-> r, t |-> t, i |-> i, j |-> j]
<1>1. x \in {y \in [r : {r}, t : DOMAIN g.routes[r].trips, i : DOMAIN g.routes[r].stops, j : DOMAIN g.routes[r].stops] :
               y.i < y.j}
  OBVIOUS
<1>2. x \in Rides(g)
  BY <1>1 DEF Rides
<1> QED
  BY <1>2

(* The reference's set of arrivals by one bus, told by the rides.          *)
LEMMA RidesToAre ==
  ASSUME NEW g, IsTimetable(g), NEW lab, NEW s \in Stops
  PROVE  RidesTo(g, lab, s) =
           {ArrivalOf(g, x) : x \in {y \in Rides(g) : Caught(g, y, lab) /\ LeftAt(g, y) = s}}
<1> DEFINE exits(r) == {j \in DOMAIN g.routes[r].stops : g.routes[r].stops[j] = s}
           catches(r, t, j) == \E i \in 1 .. j - 1 :
                                 /\ lab[g.routes[r].stops[i]] # INF
                                 /\ lab[g.routes[r].stops[i]] <= g.routes[r].trips[t][i].dep_sec
           arrivals(r) == {g.routes[r].trips[tj[1]][tj[2]].arr_sec :
                             tj \in {x \in (DOMAIN g.routes[r].trips) \X exits(r) : catches(r, x[1], x[2])}}
<1>1. RidesTo(g, lab, s) = UNION {arrivals(r) : r \in 1 .. Len(g.routes)}
  BY DEF RidesTo
<1>2. ASSUME NEW a \in RidesTo(g, lab, s)
      PROVE  \E x \in Rides(g) : Caught(g, x, lab) /\ LeftAt(g, x) = s /\ a = ArrivalOf(g, x)
  <2>1. PICK r \in 1 .. Len(g.routes) : a \in arrivals(r)
    BY <1>1
  <2>2. PICK tj \in (DOMAIN g.routes[r].trips) \X exits(r) :
          catches(r, tj[1], tj[2]) /\ a = g.routes[r].trips[tj[1]][tj[2]].arr_sec
    BY <2>1
  <2>3. tj[1] \in DOMAIN g.routes[r].trips /\ tj[2] \in DOMAIN g.routes[r].stops /\ g.routes[r].stops[tj[2]] = s
    BY <2>2
  <2>4. PICK i \in 1 .. tj[2] - 1 :
          /\ lab[g.routes[r].stops[i]] # INF
          /\ lab[g.routes[r].stops[i]] <= g.routes[r].trips[tj[1]][i].dep_sec
    BY <2>2
  <2>5. i \in DOMAIN g.routes[r].stops /\ i < tj[2]
    <3>1. DOMAIN g.routes[r].stops = 1 .. Len(g.routes[r].stops) /\ Len(g.routes[r].stops) \in Nat
      BY TimetableFields, Zenon
    <3> QED
      BY <2>3, <3>1
  <2>6. PICK x \in Rides(g) : x.r = r /\ x.t = tj[1] /\ x.i = i /\ x.j = tj[2]
    BY <2>3, <2>5, IsRide
  <2> QED
    BY <2>2, <2>3, <2>4, <2>6 DEF Caught, BoardedAt, DepartureOf, LeftAt, ArrivalOf
<1>3. ASSUME NEW x \in Rides(g), Caught(g, x, lab), LeftAt(g, x) = s
      PROVE  ArrivalOf(g, x) \in RidesTo(g, lab, s)
  <2>1. /\ x.r \in 1 .. Len(g.routes) /\ x.t \in DOMAIN g.routes[x.r].trips
        /\ x.j \in exits(x.r) /\ x.i \in Nat /\ x.j \in Nat /\ x.i < x.j
        /\ x.i \in DOMAIN g.routes[x.r].stops
    BY <1>3, RideFields DEF LeftAt
  <2>2. x.i \in 1 .. x.j - 1
    <3>1. x.i >= 1
      <4>1. DOMAIN g.routes[x.r].stops = 1 .. Len(g.routes[x.r].stops)
        BY <2>1, TimetableFields, Zenon
      <4> QED
        BY <2>1, <4>1
    <3> QED
      BY <2>1, <3>1
  <2>3. catches(x.r, x.t, x.j)
    BY <1>3, <2>2 DEF Caught, BoardedAt, DepartureOf
  <2> DEFINE tj == <<x.t, x.j>>
  <2>4. tj \in (DOMAIN g.routes[x.r].trips) \X exits(x.r) /\ tj[1] = x.t /\ tj[2] = x.j
    BY <2>1
  <2>5. ArrivalOf(g, x) \in arrivals(x.r)
    BY <2>3, <2>4 DEF ArrivalOf
  <2>6. x.r \in 1 .. Len(g.routes)
    BY <2>1
  <2> HIDE DEF arrivals
  <2> QED
    BY <1>1, <2>5, <2>6
<1> QED
  BY <1>2, <1>3

LEMMA RiddenIs ==
  ASSUME NEW g, IsTimetable(g), NEW lab, NEW s \in Stops
  PROVE  /\ Ridden(g, lab)[s] \in Time
         /\ \A x \in Rides(g) : Caught(g, x, lab) /\ LeftAt(g, x) = s =>
              Ridden(g, lab)[s] <= ArrivalOf(g, x)
         /\ Ridden(g, lab)[s] # INF =>
              \E x \in Rides(g) : /\ Caught(g, x, lab) /\ LeftAt(g, x) = s
                               /\ Ridden(g, lab)[s] = ArrivalOf(g, x)
<1> DEFINE T == {INF} \cup RidesTo(g, lab, s)
<1>1. Ridden(g, lab)[s] = Min(T)
  BY ComputedIsIt DEF Ridden
<1>2. T \in SUBSET Time /\ T # {}
  BY RidesToAre, RideFields
<1>3. Min(T) \in T /\ \A n \in T : Min(T) <= n
  <2>1. T \in SUBSET Nat
    BY <1>2
  <2> HIDE DEF T
  <2> QED
    BY <1>2, <2>1, LeastOf
<1>4. \A x \in Rides(g) : Caught(g, x, lab) /\ LeftAt(g, x) = s => ArrivalOf(g, x) \in T
  BY RidesToAre
<1>5. Min(T) # INF => \E x \in Rides(g) : Caught(g, x, lab) /\ LeftAt(g, x) = s /\ Min(T) = ArrivalOf(g, x)
  BY <1>3, RidesToAre
<1> HIDE DEF T
<1> QED
  BY <1>1, <1>2, <1>3, <1>4, <1>5

(* ... and of walks.                                                       *)
LEMMA WalkedIs ==
  ASSUME NEW g, IsTimetable(g), NEW lab \in [Stops -> Time], NEW s \in Stops
  PROVE  /\ Walked(g, lab)[s] \in Nat
         /\ Walked(g, lab)[s] <= lab[s]
         /\ \A u \in Stops : s \in DOMAIN g.walk[u] /\ lab[u] # INF =>
              Walked(g, lab)[s] <= lab[u] + g.walk[u][s]
         /\ Walked(g, lab)[s] # lab[s] =>
              \E u \in Stops : /\ s \in DOMAIN g.walk[u] /\ lab[u] # INF
                               /\ Walked(g, lab)[s] = lab[u] + g.walk[u][s]
<1> DEFINE T == {lab[s]} \cup WalksTo(g, lab, s)
<1>1. Walked(g, lab)[s] = Min(T)
  BY ComputedIsIt DEF Walked
<1>2. \A u \in Stops : s \in DOMAIN g.walk[u] =>
        lab[u] \in Nat /\ g.walk[u][s] \in Nat /\ lab[u] + g.walk[u][s] \in Nat
  BY TimetableFields
<1>3. T \in SUBSET Nat /\ T # {}
  BY <1>2 DEF WalksTo
<1>4. Min(T) \in T /\ \A n \in T : Min(T) <= n
  <2> HIDE DEF T
  <2> QED
    BY <1>3, LeastOf
<1>5. lab[s] \in T
  OBVIOUS
<1>6. \A u \in Stops : s \in DOMAIN g.walk[u] /\ lab[u] # INF =>
        lab[u] + g.walk[u][s] \in T
  BY DEF WalksTo
<1>7. Min(T) # lab[s] =>
        \E u \in Stops : /\ s \in DOMAIN g.walk[u] /\ lab[u] # INF
                         /\ Min(T) = lab[u] + g.walk[u][s]
  BY <1>4 DEF WalksTo
<1> HIDE DEF T
<1> QED
  BY <1>1, <1>3, <1>4, <1>5, <1>6, <1>7

LEMMA EarlierIs ==
  ASSUME NEW a, NEW b, NEW s \in Stops, a[s] \in Nat, b[s] \in Nat
  PROVE  /\ Earlier(a, b)[s] \in {a[s], b[s]}
         /\ Earlier(a, b)[s] <= a[s] /\ Earlier(a, b)[s] <= b[s]
<1> DEFINE T == {a[s], b[s]}
<1>1. Earlier(a, b)[s] = Min(T)
  BY ComputedIsIt DEF Earlier
<1>2. T \in SUBSET Nat /\ T # {}
  OBVIOUS
<1>3. Min(T) \in T /\ \A n \in T : Min(T) <= n
  <2> HIDE DEF T
  <2> QED
    BY <1>2, LeastOf
<1> QED
  BY <1>1, <1>3

(* One more bus is what the reference computes.                            *)
LEMMA LaterIsOneMoreBus ==
  ASSUME NEW g, IsTimetable(g), NEW lab \in [Stops -> Time]
  PROVE  /\ Later(g, lab) \in [Stops -> Time]
         /\ OneMoreBus(g, lab, Later(g, lab))
<1> DEFINE ridden == Ridden(g, lab)
           walked == Walked(g, ridden)
           new == Later(g, lab)
<1>1. ridden \in [Stops -> Time]
  <2>1. ridden = [s \in Stops |-> Min({INF} \cup RidesTo(g, lab, s))]
    BY ComputedIsIt DEF Ridden
  <2>2. \A s \in Stops : ridden[s] \in Time
    BY RiddenIs
  <2> HIDE DEF ridden
  <2> QED
    BY <2>1, <2>2
<1>2. ASSUME NEW s \in Stops
      PROVE  /\ \A x \in Rides(g) : Caught(g, x, lab) /\ LeftAt(g, x) = s => ridden[s] <= ArrivalOf(g, x)
             /\ ridden[s] # INF => \E x \in Rides(g) : /\ Caught(g, x, lab) /\ LeftAt(g, x) = s
                                                    /\ ridden[s] = ArrivalOf(g, x)
  BY RiddenIs
<1> HIDE DEF ridden
<1>3. ASSUME NEW s \in Stops
      PROVE  /\ walked[s] \in Nat /\ walked[s] <= ridden[s]
             /\ \A u \in Stops : s \in DOMAIN g.walk[u] /\ ridden[u] # INF =>
                  walked[s] <= ridden[u] + g.walk[u][s]
             /\ walked[s] # ridden[s] =>
                  \E u \in Stops : /\ s \in DOMAIN g.walk[u] /\ ridden[u] # INF
                                   /\ walked[s] = ridden[u] + g.walk[u][s]
  BY <1>1, WalkedIs
<1>4. new = Earlier(lab, walked)
  BY DEF Later, ridden
<1> HIDE DEF walked
<1>5. ASSUME NEW s \in Stops
      PROVE  /\ new[s] \in {lab[s], walked[s]}
             /\ new[s] <= lab[s] /\ new[s] <= walked[s] /\ new[s] \in Time
  <2>1. lab[s] \in Time /\ lab[s] \in Nat
    OBVIOUS
  <2>2. walked[s] \in Nat
    BY <1>3
  <2>3. /\ new[s] \in {lab[s], walked[s]}
        /\ new[s] <= lab[s] /\ new[s] <= walked[s]
    BY <1>4, <2>1, <2>2, EarlierIs
  <2> QED
    BY <2>1, <2>2, <2>3
<1>6. new \in [Stops -> Time]
  <2>1. new = [s \in Stops |-> Min({lab[s], walked[s]})]
    BY <1>4, ComputedIsIt DEF Earlier
  <2> HIDE DEF new
  <2> QED
    BY <1>5, <2>1
<1> HIDE DEF new
<1>7. ASSUME NEW x \in Rides(g), Caught(g, x, lab)
      PROVE  RideCounts(g, x, new) /\ WalksCount(g, x, new)
  <2>1. LeftAt(g, x) \in Stops /\ ArrivalOf(g, x) \in Time
    BY RideFields
  <2>2. ridden[LeftAt(g, x)] <= ArrivalOf(g, x) /\ ridden[LeftAt(g, x)] \in Time
    BY <1>1, <1>2, <1>7, <2>1
  <2>3. new[LeftAt(g, x)] <= ArrivalOf(g, x)
    <3>1. /\ walked[LeftAt(g, x)] \in Nat /\ new[LeftAt(g, x)] \in Time
          /\ walked[LeftAt(g, x)] <= ridden[LeftAt(g, x)]
          /\ new[LeftAt(g, x)] <= walked[LeftAt(g, x)]
      BY <1>3, <1>5, <2>1, Zenon
    <3> QED
      BY <2>1, <2>2, <3>1
  <2>4. ASSUME NEW v \in WalksFrom(g, x)
        PROVE  new[v] <= ArrivalOf(g, x) + WalkTime(g, x, v)
    <3>1. v \in Stops /\ WalkTime(g, x, v) \in Nat /\ v \in DOMAIN g.walk[LeftAt(g, x)]
      BY <2>1, TimetableFields DEF WalksFrom, WalkTime
    <3>2. CASE ridden[LeftAt(g, x)] = INF
      <4>1. ArrivalOf(g, x) = INF
        BY <2>1, <2>2, <3>2
      <4> QED
        BY <1>5, <3>1, <4>1
    <3>3. CASE ridden[LeftAt(g, x)] # INF
      <4>1. walked[v] <= ridden[LeftAt(g, x)] + WalkTime(g, x, v)
        BY <1>3, <2>1, <3>1, <3>3 DEF WalkTime
      <4>2. new[v] <= walked[v] /\ new[v] \in Nat /\ walked[v] \in Nat
        <5>1. v \in Stops
          BY <3>1
        <5>2. walked[v] \in Nat
          BY <1>3, <5>1
        <5>3. new[v] <= walked[v] /\ new[v] \in Time
          BY <1>5, <5>1
        <5> QED
          BY <5>2, <5>3
      <4> DEFINE at == ridden[LeftAt(g, x)]
                 arr == ArrivalOf(g, x)
                 time == WalkTime(g, x, v)
      <4>3. at <= arr /\ at \in Nat /\ arr \in Nat /\ time \in Nat /\ walked[v] <= at + time
        BY <2>1, <2>2, <3>1, <4>1
      <4> HIDE DEF at, arr, time
      <4>4. new[v] <= arr + time
        BY <4>2, <4>3
      <4> QED
        BY <4>4 DEF arr, time
    <3> QED
      BY <3>2, <3>3
  <2> QED
    BY <2>3, <2>4 DEF RideCounts, WalksCount
<1>8. ASSUME NEW s \in Stops
      PROVE  IsExplained(g, s, lab, new)
  <2>1. CASE new[s] = lab[s]
    BY <2>1 DEF IsExplained
  <2>2. CASE new[s] = walked[s] /\ new[s] # lab[s] /\ walked[s] = ridden[s]
    <3>1. ridden[s] # INF
      BY <1>5, <2>2
    <3>2. PICK x \in Rides(g) : Caught(g, x, lab) /\ LeftAt(g, x) = s /\ ridden[s] = ArrivalOf(g, x)
      BY <1>2, <3>1
    <3> QED
      BY <2>2, <3>2 DEF IsExplained, CameBy
  <2>3. CASE new[s] = walked[s] /\ walked[s] # ridden[s]
    <3>1. PICK u \in Stops : /\ s \in DOMAIN g.walk[u] /\ ridden[u] # INF
                             /\ walked[s] = ridden[u] + g.walk[u][s]
      BY <1>3, <2>3
    <3>2. PICK x \in Rides(g) : Caught(g, x, lab) /\ LeftAt(g, x) = u /\ ridden[u] = ArrivalOf(g, x)
      BY <1>2, <3>1
    <3>3. WalkedFrom(g, s, x, new)
      BY <1>7, <2>3, <3>1, <3>2 DEF WalkedFrom, WalksFrom, WalkTime
    <3> QED
      BY <3>2, <3>3 DEF IsExplained
  <2> QED
    BY <1>5, <2>1, <2>2, <2>3
<1>9. OneMoreBus(g, lab, new)
  BY <1>5, <1>7, <1>8 DEF OneMoreBus
<1> QED
  BY <1>6, <1>9 DEF new

(* ... and nothing else is.                                                *)
LEMMA OneMoreBusIsUnique ==
  ASSUME NEW g, IsTimetable(g), NEW lab \in [Stops -> Time],
         NEW a \in [Stops -> Time], NEW b \in [Stops -> Time],
         OneMoreBus(g, lab, a), OneMoreBus(g, lab, b), NEW s \in Stops
  PROVE  a[s] <= b[s]
<1>1. a[s] <= lab[s] /\ IsExplained(g, s, lab, b)
  BY DEF OneMoreBus
<1>2. CASE b[s] = lab[s]
  BY <1>1, <1>2
<1>3. ASSUME NEW x \in Rides(g), Caught(g, x, lab), CameBy(g, s, x, b)
      PROVE  a[s] <= b[s]
  BY <1>3 DEF OneMoreBus, RideCounts, CameBy
<1>4. ASSUME NEW x \in Rides(g), Caught(g, x, lab), WalkedFrom(g, s, x, b)
      PROVE  a[s] <= b[s]
  BY <1>4 DEF OneMoreBus, WalksCount, WalkedFrom
<1> QED
  BY <1>1, <1>2, <1>3, <1>4 DEF IsExplained

LEMMA OneMoreBusIsLater ==
  ASSUME NEW g, IsTimetable(g), NEW lab \in [Stops -> Time], NEW new \in [Stops -> Time],
         OneMoreBus(g, lab, new)
  PROVE  new = Later(g, lab)
<1> DEFINE later == Later(g, lab)
<1>1. later \in [Stops -> Time] /\ OneMoreBus(g, lab, later)
  BY LaterIsOneMoreBus
<1> HIDE DEF later
<1>2. \A s \in Stops : new[s] <= later[s] /\ later[s] <= new[s]
  BY <1>1, OneMoreBusIsUnique
<1>3. \A s \in Stops : new[s] = later[s]
  BY <1>1, <1>2
<1> QED
  BY <1>1, <1>3 DEF later

(* Where footpaths are closed, who came by a ride and a walk gains nothing *)
(* by walking on.                                                          *)
LEMMA WalkingOnGainsNothing ==
  ASSUME NEW g, IsTimetable(g), WalksClosed(g), NEW new \in [Stops -> Time],
         NEW x \in Rides(g), NEW u \in Stops, WalkedFrom(g, u, x, new),
         NEW v \in DOMAIN g.walk[u]
  PROVE  new[v] <= new[u] + g.walk[u][v]
<1>0. v \in Stops /\ v # u /\ g.walk[u][v] \in Nat /\ new[v] \in Nat
  BY TimetableFields
<1> DEFINE w == LeftAt(g, x)
           a == ArrivalOf(g, x)
<1>1. w \in Stops /\ a \in Nat
  BY RideFields
<1>2. /\ u \in DOMAIN g.walk[w] /\ new[u] = a + g.walk[w][u]
      /\ new[w] <= a
      /\ \A y \in DOMAIN g.walk[w] : new[y] <= a + g.walk[w][y]
  BY DEF WalkedFrom, WalksFrom, WalkTime, RideCounts, WalksCount
<1> HIDE DEF w, a
<1>3. g.walk[w][u] \in Nat /\ new[w] \in Nat
  BY <1>1, <1>2, TimetableFields
<1> DEFINE wu == g.walk[w][u]
           uv == g.walk[u][v]
           nu == new[u]
           nv == new[v]
<1>4. wu \in Nat /\ uv \in Nat /\ nu = a + wu /\ nv \in Nat
  BY <1>0, <1>2, <1>3
<1>5. CASE v = w
  <2>1. nv <= a
    BY <1>2, <1>5
  <2> HIDE DEF wu, uv, nu, nv
  <2>2. nv <= nu + uv
    BY <1>1, <1>4, <2>1
  <2> QED
    BY <2>2 DEF nu, nv, uv
<1>6. CASE v # w
  <2> DEFINE wv == g.walk[w][v]
  <2>1. v \in DOMAIN g.walk[w] /\ wv <= wu + uv
    BY <1>1, <1>2, <1>6 DEF WalksClosed
  <2>2. nv <= a + wv
    BY <1>2, <2>1
  <2>3. wv \in Nat
    BY <1>1, <2>1, TimetableFields
  <2> HIDE DEF wu, uv, wv, nu, nv
  <2>4. nv <= nu + uv
    <3>1. wv <= wu + uv /\ a \in Nat
      BY <1>1, <2>1
    <3> QED
      BY <1>4, <2>2, <2>3, <3>1
  <2> QED
    BY <2>4 DEF nu, nv, uv
<1> QED
  BY <1>5, <1>6

(* Where footpaths are closed, one more bus leaves nobody who could have   *)
(* been earlier on foot.                                                   *)
LEMMA OneMoreBusIsWalkedOut ==
  ASSUME NEW g, IsTimetable(g), WalksClosed(g),
         NEW old \in [Stops -> Time], NEW new \in [Stops -> Time],
         WalkedOut(g, old), OneMoreBus(g, old, new)
  PROVE  WalkedOut(g, new)
<1> SUFFICES ASSUME NEW u \in Stops, NEW v \in DOMAIN g.walk[u]
             PROVE  new[v] <= new[u] + g.walk[u][v]
  BY DEF WalkedOut
<1>1. v \in Stops /\ v # u /\ g.walk[u][v] \in Nat
  BY TimetableFields
<1>2. /\ new[v] \in Nat /\ new[u] \in Nat /\ old[u] \in Nat /\ old[v] \in Nat
      /\ new[v] <= old[v] /\ old[v] <= old[u] + g.walk[u][v]
  BY <1>1 DEF OneMoreBus, WalkedOut
<1>3. CASE new[u] = old[u]
  <2> DEFINE ov == old[v]
             nu == new[u]
             nv == new[v]
             uv == g.walk[u][v]
  <2>1. nu \in Nat /\ nv \in Nat /\ ov \in Nat /\ uv \in Nat
    BY <1>1, <1>2
  <2>2. nv <= ov /\ ov <= nu + uv
    BY <1>2, <1>3
  <2> HIDE DEF ov, nu, nv, uv
  <2>3. nv <= nu + uv
    BY <2>1, <2>2
  <2> QED
    BY <2>3 DEF nu, nv, uv
<1>4. ASSUME NEW x \in Rides(g), Caught(g, x, old), CameBy(g, u, x, new)
      PROVE  new[v] <= new[u] + g.walk[u][v]
  BY <1>4 DEF OneMoreBus, CameBy, WalksCount, WalksFrom, WalkTime
<1>5. ASSUME NEW x \in Rides(g), Caught(g, x, old), WalkedFrom(g, u, x, new)
      PROVE  new[v] <= new[u] + g.walk[u][v]
  BY <1>5, WalkingOnGainsNothing
<1>6. IsExplained(g, u, old, new)
  BY DEF OneMoreBus
<1> QED
  BY <1>3, <1>4, <1>5, <1>6 DEF IsExplained

-----------------------------------------------------------------------------
(***************************************************************************)
(* The reference for a source and a departure.                             *)
(***************************************************************************)
(* Walking once from the source.                                           *)
FirstLabel(w, s, d, x) ==
  IF x = s THEN d ELSE IF x \in DOMAIN w /\ d + w[x] < INF THEN d + w[x] ELSE INF

(* Where nothing is reached later than d, walking once from the source is  *)
(* all there is to begin with.                                             *)
LEMMA FirstLabels ==
  ASSUME NEW g, IsTimetable(g), NEW s \in Stops, NEW d \in Time
  PROVE  /\ Walked(g, StartingAt(s, d)) \in [Stops -> Time]
         /\ \A x \in Stops : Walked(g, StartingAt(s, d))[x] = FirstLabel(g.walk[s], s, d, x)
<1> DEFINE start == StartingAt(s, d)
           new == Walked(g, start)
           w == g.walk[s]
<1>1. start \in [Stops -> Time]
  BY DEF StartingAt
<1>2. \A x \in Stops : start[x] = IF x = s THEN d ELSE INF
  BY DEF StartingAt
<1> HIDE DEF start
<1>3. ASSUME NEW x \in Stops
      PROVE  new[x] = IF x = s THEN d
                      ELSE IF x \in DOMAIN w /\ d + w[x] < INF THEN d + w[x] ELSE INF
  <2>1. /\ new[x] \in Nat /\ new[x] <= start[x]
        /\ \A u \in Stops : x \in DOMAIN g.walk[u] /\ start[u] # INF =>
             new[x] <= start[u] + g.walk[u][x]
        /\ new[x] # start[x] =>
             \E u \in Stops : /\ x \in DOMAIN g.walk[u] /\ start[u] # INF
                              /\ new[x] = start[u] + g.walk[u][x]
    BY <1>1, WalkedIs
  <2> HIDE DEF new
  <2>2. \A u \in Stops : start[u] # INF => u = s /\ start[u] = d
    BY <1>2
  <2>3. new[x] # start[x] => x \in DOMAIN w /\ new[x] = d + w[x] /\ d # INF
    BY <1>2, <2>1, <2>2
  <2>4. x \in DOMAIN w /\ d # INF => new[x] <= d + w[x]
    BY <1>2, <2>1
  <2>5. s \notin DOMAIN w /\ \A v \in DOMAIN w : w[v] \in Nat
    BY TimetableFields
  <2>6. CASE x = s
    BY <1>2, <2>3, <2>5, <2>6
  <2>7. CASE x # s /\ x \in DOMAIN w
    <3>1. w[x] \in Nat /\ start[x] = INF
      BY <1>2, <2>5, <2>7
    <3> QED
      BY <2>1, <2>3, <2>4, <2>7, <3>1
  <2>8. CASE x # s /\ x \notin DOMAIN w
    BY <1>2, <2>3, <2>8
  <2> QED
    BY <2>6, <2>7, <2>8
<1>4. new \in [Stops -> Time]
  <2>1. new = [x \in Stops |-> Min({start[x]} \cup WalksTo(g, start, x))]
    BY ComputedIsIt DEF Walked
  <2>2. \A v \in DOMAIN w : w[v] \in Nat
    BY TimetableFields
  <2>3. \A x \in Stops : new[x] \in Time
    BY <1>3, <2>2
  <2> HIDE DEF new
  <2> QED
    BY <2>1, <2>3
<1>5. \A x \in Stops : new[x] = FirstLabel(w, s, d, x)
  <2> HIDE DEF new, w
  <2> QED
    BY <1>3, Zenon DEF FirstLabel
<1> HIDE DEF new, w
<1> QED
  BY <1>4, <1>5, Zenon DEF new, start, w

LEMMA FirstLabelsAreWalkedOut ==
  ASSUME NEW g, IsTimetable(g), WalksClosed(g), NEW s \in Stops, NEW d \in Time
  PROVE  WalkedOut(g, Walked(g, StartingAt(s, d)))
<1> DEFINE new == Walked(g, StartingAt(s, d))
           w == g.walk[s]
<1>1. \A x \in Stops : new[x] = FirstLabel(w, s, d, x)
  BY FirstLabels, ZenonT(60)
<1>2. new \in [Stops -> Time]
  BY FirstLabels
<1> HIDE DEF new
<1> USE DEF FirstLabel
<1> SUFFICES ASSUME NEW u \in Stops, NEW v \in DOMAIN g.walk[u]
             PROVE  new[v] <= new[u] + g.walk[u][v]
  BY DEF WalkedOut, new
<1>3. /\ v \in Stops /\ v # u /\ g.walk[u][v] \in Nat /\ new[v] \in Time /\ new[u] \in Time
      /\ \A x \in DOMAIN w : w[x] \in Nat
  BY <1>2, TimetableFields
<1>4. CASE new[u] = INF
  BY <1>3, <1>4
<1>5. CASE u = s
  BY <1>1, <1>3, <1>5
<1>6. CASE u # s /\ u \in DOMAIN w /\ v = s
  BY <1>1, <1>3, <1>6
<1>7. CASE u # s /\ u \in DOMAIN w /\ v # s /\ new[u] # INF
  <2>1. v \in DOMAIN w /\ w[v] <= w[u] + g.walk[u][v]
    BY <1>7 DEF WalksClosed
  <2>2. new[u] = d + w[u] /\ w[u] \in Nat /\ w[v] \in Nat
    BY <1>1, <1>3, <1>7, <2>1
  <2>3. new[v] <= d + w[v]
    BY <1>1, <1>3, <1>7, <2>1, <2>2
  <2> HIDE DEF w
  <2> QED
    BY <1>3, <2>1, <2>2, <2>3
<1> QED
  BY <1>1, <1>4, <1>5, <1>6, <1>7

LEMMA BestFirst ==
  ASSUME NEW g, NEW s, NEW d
  PROVE  Best(g, s, d)[0] = Walked(g, StartingAt(s, d))
BY BestIsUnfolded

LEMMA BestOneMore ==
  ASSUME NEW g, NEW s, NEW d, NEW n \in 0 .. 3
  PROVE  Best(g, s, d)[n + 1] = Later(g, Best(g, s, d)[n])
BY BestIsUnfolded

(* What holds with no bus and goes on with one more holds up to four.      *)
LEMMA UpToFour ==
  ASSUME NEW S, 0 \in S, \A n \in 0 .. 3 : n \in S => n + 1 \in S
  PROVE  \A n \in 0 .. 4 : n \in S
<1>1. \A i \in 0 .. 4 - 1 : i \in S => i + 1 \in S
  OBVIOUS
<1>2. 4 \in Nat
  OBVIOUS
<1> QED
  BY <1>1, <1>2, CountingUp

LEMMA BestTypes ==
  ASSUME NEW g, IsTimetable(g), NEW s \in Stops, NEW d \in Time, NEW n \in 0 .. 4
  PROVE  Best(g, s, d)[n] \in [Stops -> Time]
<1> DEFINE S == {m \in 0 .. 4 : Best(g, s, d)[m] \in [Stops -> Time]}
<1>1. 0 \in S
  <2>1. Walked(g, StartingAt(s, d)) \in [Stops -> Time]
    BY FirstLabels, ZenonT(60)
  <2> QED
    BY <2>1, BestFirst
<1>2. ASSUME NEW m \in 0 .. 3, m \in S PROVE m + 1 \in S
  <2>1. Best(g, s, d)[m] \in [Stops -> Time]
    BY <1>2
  <2>2. Later(g, Best(g, s, d)[m]) \in [Stops -> Time]
    BY <2>1, LaterIsOneMoreBus
  <2> QED
    BY <2>2, BestOneMore
<1>3. \A m \in 0 .. 4 : m \in S
  <2> HIDE DEF S
  <2> QED
    BY <1>1, <1>2, UpToFour
<1> QED
  BY <1>3

(* Who is everywhere earlier is everywhere earlier with one more bus.      *)
LEMMA LaterIsMonotone ==
  ASSUME NEW g, IsTimetable(g), NEW a \in [Stops -> Time], NEW b \in [Stops -> Time],
         \A x \in Stops : a[x] <= b[x], NEW s \in Stops
  PROVE  Later(g, a)[s] <= Later(g, b)[s]
<1> DEFINE na == Later(g, a)
           nb == Later(g, b)
<1>1. na \in [Stops -> Time] /\ nb \in [Stops -> Time] /\ OneMoreBus(g, a, na) /\ OneMoreBus(g, b, nb)
  BY LaterIsOneMoreBus
<1> HIDE DEF na, nb
<1>2. ASSUME NEW x \in Rides(g), Caught(g, x, b)
      PROVE  Caught(g, x, a)
  <2>1. BoardedAt(g, x) \in Stops /\ DepartureOf(g, x) \in Time
    BY RideFields
  <2> QED
    BY <1>2, <2>1 DEF Caught
<1>3. IsExplained(g, s, b, nb)
  BY <1>1 DEF OneMoreBus
<1>4. CASE nb[s] = b[s]
  <2>1. na[s] <= a[s] /\ a[s] <= b[s]
    BY <1>1 DEF OneMoreBus
  <2>2. na[s] \in Time /\ a[s] \in Time /\ b[s] \in Time /\ nb[s] \in Time
    BY <1>1
  <2> QED
    BY <1>4, <2>1, <2>2 DEF na, nb
<1>5. ASSUME NEW x \in Rides(g), Caught(g, x, b), CameBy(g, s, x, nb)
      PROVE  na[s] <= nb[s]
  BY <1>1, <1>2, <1>5 DEF OneMoreBus, RideCounts, CameBy
<1>6. ASSUME NEW x \in Rides(g), Caught(g, x, b), WalkedFrom(g, s, x, nb)
      PROVE  na[s] <= nb[s]
  BY <1>1, <1>2, <1>6 DEF OneMoreBus, WalksCount, WalkedFrom
<1> QED
  BY <1>3, <1>4, <1>5, <1>6 DEF IsExplained, na, nb

(* Who leaves later arrives no earlier.                                    *)
LEMMA BestIsMonotone ==
  ASSUME NEW g, IsTimetable(g), NEW s \in Stops, NEW d \in Time, NEW e \in Time, d <= e,
         NEW n \in 0 .. 4, NEW x \in Stops
  PROVE  Best(g, s, d)[n][x] <= Best(g, s, e)[n][x]
<1> DEFINE a(m) == Best(g, s, d)[m]
           b(m) == Best(g, s, e)[m]
           S == {m \in 0 .. 4 : \A y \in Stops : a(m)[y] <= b(m)[y]}
<1>1. 0 \in S
  <2> SUFFICES ASSUME NEW y \in Stops PROVE a(0)[y] <= b(0)[y]
    OBVIOUS
  <2> DEFINE w == g.walk[s]
  <2>1. a(0)[y] = FirstLabel(w, s, d, y) /\ b(0)[y] = FirstLabel(w, s, e, y)
    <3> HIDE DEF w
    <3>1. \A z \in Stops : Walked(g, StartingAt(s, d))[z] = FirstLabel(g.walk[s], s, d, z)
      BY FirstLabels, ZenonT(60)
    <3>2. \A z \in Stops : Walked(g, StartingAt(s, e))[z] = FirstLabel(g.walk[s], s, e, z)
      BY FirstLabels, ZenonT(60)
    <3> QED
      BY <3>1, <3>2, BestFirst, ZenonT(60) DEF w
  <2>2. \A v \in DOMAIN w : w[v] \in Nat
    BY TimetableFields
  <2> HIDE DEF w, a, b
  <2> QED
    BY <2>1, <2>2 DEF FirstLabel
<1>2. ASSUME NEW m \in 0 .. 3, m \in S PROVE m + 1 \in S
  <2>1. m \in 0 .. 4 /\ m + 1 \in 0 .. 4
    OBVIOUS
  <2>2. a(m) \in [Stops -> Time] /\ b(m) \in [Stops -> Time]
    BY <2>1, BestTypes
  <2>3. a(m + 1) = Later(g, a(m)) /\ b(m + 1) = Later(g, b(m))
    BY BestOneMore
  <2>4. \A y \in Stops : a(m)[y] <= b(m)[y]
    BY <1>2
  <2> HIDE DEF a, b
  <2>5. \A y \in Stops : Later(g, a(m))[y] <= Later(g, b(m))[y]
    BY <2>2, <2>4, LaterIsMonotone
  <2> QED
    BY <2>1, <2>3, <2>5
<1>3. \A m \in 0 .. 4 : m \in S
  <2> HIDE DEF S
  <2> QED
    BY <1>1, <1>2, UpToFour
<1> QED
  BY <1>3

(* A bus that changes nothing is the last one that matters.                *)
LEMMA BestStays ==
  ASSUME NEW g, NEW s, NEW d, NEW n \in 0 .. 3, Best(g, s, d)[n + 1] = Best(g, s, d)[n]
  PROVE  Best(g, s, d)[4] = Best(g, s, d)[n]
<1> DEFINE b(m) == Best(g, s, d)[m]
<1>1. \A m \in 0 .. 3 : b(m + 1) = Later(g, b(m))
  BY BestOneMore
<1>2. b(n + 1) = b(n)
  OBVIOUS
<1> HIDE DEF b
<1>3. b(1) = Later(g, b(0)) /\ b(2) = Later(g, b(1)) /\ b(3) = Later(g, b(2)) /\ b(4) = Later(g, b(3))
  BY <1>1
<1>4. n = 0 \/ n = 1 \/ n = 2 \/ n = 3
  OBVIOUS
<1>5. b(4) = b(n)
  BY <1>2, <1>3, <1>4
<1> QED
  BY <1>5 DEF b

(* Whoever leaves at INF or later gets nowhere.                            *)
LEMMA BestTooLate ==
  ASSUME NEW g, IsTimetable(g), NEW s \in Stops, NEW d \in Nat, d >= INF,
         NEW n \in 0 .. 4, NEW x \in Stops, x # s
  PROVE  Best(g, s, d)[n][x] = INF
<1> DEFINE Late(lab) == lab[s] \in Nat /\ lab[s] >= INF /\ \A y \in Stops : y # s => lab[y] = INF
           S == {m \in 0 .. 4 : Late(Best(g, s, d)[m])}
<1>1. ASSUME NEW lab, Late(lab)
      PROVE  Late(Walked(g, lab))
  <2>1. \A y \in Stops : WalksTo(g, lab, y) \in SUBSET Nat /\ \A w \in WalksTo(g, lab, y) : w >= INF
    BY <1>1, TimetableFields DEF WalksTo
  <2>2. ASSUME NEW y \in Stops PROVE Walked(g, lab)[y] \in Nat /\ Walked(g, lab)[y] >= INF
                                      /\ (y # s => Walked(g, lab)[y] = INF)
    <3> DEFINE T == {lab[y]} \cup WalksTo(g, lab, y)
    <3>1. T \in SUBSET Nat /\ T # {} /\ lab[y] \in T /\ \A w \in T : w >= INF
      BY <1>1, <2>1
    <3>2. Walked(g, lab)[y] = Min(T)
      BY ComputedIsIt DEF Walked
    <3>3. y # s => lab[y] = INF
      BY <1>1
    <3> HIDE DEF T
    <3>4. Min(T) \in T /\ \A w \in T : Min(T) <= w
      BY <3>1, LeastOf
    <3>5. Min(T) \in Nat /\ Min(T) >= INF /\ Min(T) <= lab[y]
      BY <3>1, <3>4
    <3> QED
      BY <3>2, <3>3, <3>5
  <2> QED
    BY <2>2
<1>2. ASSUME NEW lab, Late(lab)
      PROVE  Late(Later(g, lab))
  <2> DEFINE ridden == Ridden(g, lab)
             walked == Walked(g, ridden)
  <2>1. ASSUME NEW y \in Stops PROVE ridden[y] = INF
    <3>1. ridden[y] \in Time
      BY RiddenIs
    <3>2. ASSUME NEW z \in Rides(g), Caught(g, z, lab), ridden[y] = ArrivalOf(g, z)
          PROVE  FALSE
      <4>1. BoardedAt(g, z) \in Stops /\ DepartureOf(g, z) \in Time
        BY RideFields
      <4>2. /\ lab[BoardedAt(g, z)] # INF /\ lab[BoardedAt(g, z)] <= DepartureOf(g, z)
        BY <3>2 DEF Caught
      <4>3. lab[BoardedAt(g, z)] \in Nat /\ lab[BoardedAt(g, z)] >= INF
        BY <1>2, <4>1
      <4> QED
        BY <4>1, <4>2, <4>3
    <3> HIDE DEF ridden
    <3> QED
      BY <3>1, <3>2, RiddenIs DEF ridden
  <2>2. Late(ridden)
    BY <2>1
  <2>3. Late(walked)
    BY <1>1, <2>2
  <2>4. ASSUME NEW y \in Stops PROVE Later(g, lab)[y] \in Nat /\ Later(g, lab)[y] >= INF
                                      /\ (y # s => Later(g, lab)[y] = INF)
    <3>1. lab[y] \in Nat /\ walked[y] \in Nat /\ lab[y] >= INF /\ walked[y] >= INF
          /\ (y # s => lab[y] = INF /\ walked[y] = INF)
      BY <1>2, <2>3
    <3> HIDE DEF walked
    <3>2. Earlier(lab, walked)[y] \in {lab[y], walked[y]}
      BY <3>1, EarlierIs
    <3>3. Later(g, lab) = Earlier(lab, walked)
      BY DEF Later, walked
    <3> QED
      BY <3>1, <3>2, <3>3
  <2> QED
    BY <2>4
<1>3. 0 \in S
  <2>1. Late(StartingAt(s, d))
    BY DEF StartingAt
  <2> HIDE DEF Late
  <2> QED
    BY <1>1, <2>1, BestFirst
<1>4. ASSUME NEW m \in 0 .. 3, m \in S PROVE m + 1 \in S
  <2>1. Late(Best(g, s, d)[m])
    BY <1>4
  <2> HIDE DEF Late
  <2>2. Late(Later(g, Best(g, s, d)[m]))
    BY <1>2, <2>1
  <2> QED
    BY <2>2, BestOneMore
<1>5. n \in S
  <2> HIDE DEF S
  <2> QED
    BY <1>3, <1>4, UpToFour
<1> QED
  BY <1>5

-----------------------------------------------------------------------------
(***************************************************************************)
(* A round under way: labels that come down from old.                      *)
(***************************************************************************)
(* What counts goes on counting, and what is explained stays so while it   *)
(* does not change.                                                        *)
LEMMA FallingLabelsCount ==
  ASSUME NEW g, IsTimetable(g), NEW old \in [Stops -> Time],
         NEW a \in [Stops -> Time], NEW b \in [Stops -> Time], \A s \in Stops : b[s] <= a[s]
  PROVE  /\ \A x \in Rides(g) : /\ RideCounts(g, x, a) => RideCounts(g, x, b)
                                /\ WalksCount(g, x, a) => WalksCount(g, x, b)
         /\ \A s \in Stops : IsExplained(g, s, old, a) /\ b[s] = a[s] => IsExplained(g, s, old, b)
         /\ \A marked : OthersCount(g, marked, old, a) => OthersCount(g, marked, old, b)
<1>1. ASSUME NEW x \in Rides(g)
      PROVE  /\ RideCounts(g, x, a) => RideCounts(g, x, b)
             /\ WalksCount(g, x, a) => WalksCount(g, x, b)
  <2>1. LeftAt(g, x) \in Stops /\ ArrivalOf(g, x) \in Nat
    BY RideFields
  <2>2. \A v \in WalksFrom(g, x) : v \in Stops /\ WalkTime(g, x, v) \in Nat
    BY <2>1, TimetableFields DEF WalksFrom, WalkTime
  <2>3. RideCounts(g, x, a) => RideCounts(g, x, b)
    BY <2>1 DEF RideCounts
  <2>4. ASSUME WalksCount(g, x, a), NEW v \in WalksFrom(g, x)
        PROVE  b[v] <= ArrivalOf(g, x) + WalkTime(g, x, v)
    <3> DEFINE arr == ArrivalOf(g, x)
               time == WalkTime(g, x, v)
    <3>1. a[v] <= arr + time
      BY <2>4 DEF WalksCount
    <3>2. v \in Stops /\ arr \in Nat /\ time \in Nat
      BY <2>1, <2>2
    <3>3. a[v] \in Nat /\ b[v] \in Nat /\ b[v] <= a[v]
      BY <3>2
    <3> HIDE DEF arr, time
    <3>4. b[v] <= arr + time
      BY <3>1, <3>2, <3>3
    <3> QED
      BY <3>4 DEF arr, time
  <2> QED
    BY <2>3, <2>4 DEF WalksCount
<1>2. \A s \in Stops : IsExplained(g, s, old, a) /\ b[s] = a[s] => IsExplained(g, s, old, b)
  BY <1>1, Zenon DEF IsExplained, CameBy, WalkedFrom
<1>3. \A marked : OthersCount(g, marked, old, a) => OthersCount(g, marked, old, b)
  BY <1>1 DEF OthersCount
<1> QED
  BY <1>1, <1>2, <1>3

(* Whoever gets earlier somewhere by foot came by a ride.                  *)
LEMMA FootIsExplained ==
  ASSUME NEW g, IsTimetable(g), WalksClosed(g), NEW old,
         NEW lab \in [Stops -> Time], NEW new \in [Stops -> Time],
         NEW u \in Stops, IsExplained(g, u, old, lab), lab[u] # old[u], new[u] = lab[u],
         \A v \in DOMAIN g.walk[u] : new[v] <= lab[u] + g.walk[u][v],
         NEW s \in DOMAIN g.walk[u], new[s] = lab[u] + g.walk[u][s], new[s] < lab[s]
  PROVE  IsExplained(g, s, old, new)
<1>1. PICK x \in Rides(g) : /\ Caught(g, x, old)
                            /\ CameBy(g, u, x, lab) \/ WalkedFrom(g, u, x, lab)
  BY DEF IsExplained
<1>2. ~WalkedFrom(g, u, x, lab)
  <2> SUFFICES ASSUME WalkedFrom(g, u, x, lab) PROVE FALSE
    OBVIOUS
  <2>1. lab[s] <= lab[u] + g.walk[u][s]
    BY WalkingOnGainsNothing
  <2>2. s \in Stops
    BY TimetableFields
  <2>3. new[s] \in Nat /\ lab[s] \in Nat
    BY <2>2
  <2> QED
    BY <2>1, <2>3
<1>3. u = LeftAt(g, x) /\ lab[u] = ArrivalOf(g, x)
  BY <1>1, <1>2 DEF CameBy
<1>4. RideCounts(g, x, new)
  <2>1. new[u] \in Nat
    OBVIOUS
  <2> QED
    BY <1>3, <2>1 DEF RideCounts
<1>5. WalksCount(g, x, new)
  BY <1>3 DEF WalksCount, WalksFrom, WalkTime
<1>6. WalkedFrom(g, s, x, new)
  BY <1>3, <1>4, <1>5 DEF WalkedFrom, WalksFrom, WalkTime
<1> QED
  BY <1>1, <1>6 DEF IsExplained

(* Where a ride brought nothing new, neither do the walks from there.      *)
LEMMA OldWalksCount ==
  ASSUME NEW g, IsTimetable(g), NEW old \in [Stops -> Time], WalkedOut(g, old),
         NEW lab \in [Stops -> Time], \A s \in Stops : lab[s] <= old[s],
         NEW x \in Rides(g), RideCounts(g, x, lab), lab[LeftAt(g, x)] = old[LeftAt(g, x)]
  PROVE  WalksCount(g, x, lab)
<1> DEFINE u == LeftAt(g, x)
           a == ArrivalOf(g, x)
<1>1. u \in Stops /\ a \in Nat
  BY RideFields
<1>2. old[u] <= a
  BY DEF RideCounts
<1> SUFFICES ASSUME NEW v \in WalksFrom(g, x) PROVE lab[v] <= a + WalkTime(g, x, v)
  BY DEF WalksCount
<1>3. v \in DOMAIN g.walk[u] /\ WalkTime(g, x, v) = g.walk[u][v]
  BY DEF WalksFrom, WalkTime
<1> DEFINE time == g.walk[u][v]
<1>4. v \in Stops /\ time \in Nat
  <2> HIDE DEF u
  <2> QED
    BY <1>1, <1>3, TimetableFields
<1>5. old[v] <= old[u] + time /\ lab[v] <= old[v]
  BY <1>1, <1>3, <1>4 DEF WalkedOut
<1>6. lab[v] \in Nat /\ old[v] \in Nat /\ old[u] \in Nat
  BY <1>1, <1>4
<1> HIDE DEF u, a, time
<1>7. lab[v] <= a + time
  BY <1>1, <1>2, <1>4, <1>5, <1>6
<1> QED
  BY <1>3, <1>7 DEF time, a

(* After the walks from where a ride was left, its walks count.            *)
LEMMA NewWalksCount ==
  ASSUME NEW g, IsTimetable(g), NEW lab \in [Stops -> Time], NEW new \in [Stops -> Time],
         NEW u \in Stops, \A v \in DOMAIN g.walk[u] : new[v] <= lab[u] + g.walk[u][v],
         NEW x \in Rides(g), LeftAt(g, x) = u, RideCounts(g, x, lab)
  PROVE  WalksCount(g, x, new)
<1>1. ArrivalOf(g, x) \in Nat /\ lab[u] <= ArrivalOf(g, x)
  BY RideFields DEF RideCounts
<1> SUFFICES ASSUME NEW v \in WalksFrom(g, x)
             PROVE  new[v] <= ArrivalOf(g, x) + WalkTime(g, x, v)
  BY DEF WalksCount
<1>2. v \in DOMAIN g.walk[u] /\ WalkTime(g, x, v) = g.walk[u][v]
  BY DEF WalksFrom, WalkTime
<1>3. v \in Stops /\ g.walk[u][v] \in Nat
  BY <1>2, TimetableFields
<1>4. new[v] <= lab[u] + g.walk[u][v]
  BY <1>2
<1>5. new[v] \in Nat /\ lab[u] \in Nat
  BY <1>3
<1> DEFINE time == g.walk[u][v]
           arr == ArrivalOf(g, x)
           nv == new[v]
           lu == lab[u]
<1>6. /\ arr \in Nat /\ lu <= arr /\ time \in Nat /\ nv <= lu + time /\ nv \in Nat /\ lu \in Nat
  BY <1>1, <1>3, <1>4, <1>5
<1> HIDE DEF time, arr, nv, lu
<1>7. nv <= arr + time
  BY <1>6
<1> QED
  BY <1>2, <1>7 DEF time, arr, nv

(* When only rides from newly reached stops are left for the next round.   *)
LEMMA OthersCountOn ==
  ASSUME NEW g, IsTimetable(g), NEW old, NEW new, OneMoreBus(g, old, new),
         NEW marked, \A s \in Stops : s \in marked <=> new[s] # old[s]
  PROVE  OthersCount(g, marked, new, new)
<1> SUFFICES ASSUME NEW x \in Rides(g), Caught(g, x, new), BoardedAt(g, x) \notin marked
             PROVE  RideCounts(g, x, new) /\ WalksCount(g, x, new)
  BY DEF OthersCount
<1>1. BoardedAt(g, x) \in Stops
  BY RideFields
<1>2. Caught(g, x, old)
  BY <1>1 DEF Caught
<1> QED
  BY <1>2 DEF OneMoreBus

-----------------------------------------------------------------------------
(* A recursive function on numbers up to n exists: each value is made of   *)
(* the number and the value before it.                                     *)
IsRecursion(f, m, base, Step) == f[0] = base /\ \A j \in 1 .. m : f[j] = Step[j][f[j - 1]]

LEMMA RecursionExists ==
  ASSUME NEW Values, NEW top \in Nat, NEW base \in Values, NEW Step \in [1 .. top -> [Values -> Values]]
  PROVE  \E h \in [0 .. top -> Values] : IsRecursion(h, top, base, Step)
<1> USE DEF IsRecursion
<1> DEFINE IsUpto(f, m) == f \in [0 .. m -> Values] /\ IsRecursion(f, m, base, Step)
           Upto(m) == \E f : IsUpto(f, m)
           S == {m \in 0 .. top : Upto(m)}
<1>1. 0 \in S
  <2> DEFINE f == [j \in 0 .. 0 |-> base]
  <2>1. IsUpto(f, 0)
    OBVIOUS
  <2> HIDE DEF IsUpto, f
  <2> QED
    BY <2>1
<1>2. ASSUME NEW m \in 0 .. top - 1, m \in S
      PROVE  m + 1 \in S
  <2>1. PICK f : IsUpto(f, m)
    BY <1>2
  <2> DEFINE e == [j \in 0 .. m + 1 |-> IF j = m + 1 THEN Step[m + 1][f[m]] ELSE f[j]]
  <2>2. m \in Nat /\ m + 1 \in 1 .. top /\ f[m] \in Values
    BY <2>1
  <2>3. Step[m + 1][f[m]] \in Values
    BY <2>2
  <2>4. e \in [0 .. m + 1 -> Values]
    BY <2>1, <2>3
  <2>5. e[0] = base /\ e[m + 1] = Step[m + 1][f[m]] /\ \A j \in 0 .. m : e[j] = f[j]
    BY <2>1, <2>2
  <2> HIDE DEF e
  <2>6. ASSUME NEW j \in 1 .. m + 1 PROVE e[j] = Step[j][e[j - 1]]
    <3>1. CASE j = m + 1
      BY <2>2, <2>5, <3>1
    <3>2. CASE j # m + 1
      <4>1. j \in 1 .. m /\ j \in 0 .. m /\ j - 1 \in 0 .. m
        BY <2>2, <3>2
      <4>2. f[j] = Step[j][f[j - 1]]
        BY <2>1, <4>1
      <4> QED
        BY <2>5, <4>1, <4>2
    <3> QED
      BY <3>1, <3>2
  <2>7. IsUpto(e, m + 1)
    BY <2>4, <2>5, <2>6
  <2> HIDE DEF IsUpto
  <2> QED
    BY <2>2, <2>7
<1> HIDE DEF S
<1>3. \A m \in 0 .. top : m \in S
  BY <1>1, <1>2, CountingUp
<1>4. top \in S
  BY <1>3
<1> HIDE DEF IsRecursion
<1> QED
  BY <1>4 DEF S
=============================================================================
