----------------------------- MODULE ViewsProofs -----------------------------
(***************************************************************************)
(* Theorems about the views of stop_events, for any number of trips, stops, *)
(* scrapes and rows: the table keeps one row per key and scrape, the views  *)
(* agree where they must and their figures add up.                          *)
(***************************************************************************)
EXTENDS ViewStats, FiniteSetTheorems, TLAPS

------------------------------------------------------------------------------
(* Largest and smallest of a finite set *)

\* A function to the integers has a largest value on a finite set.
LEMMA LargestExists ==
  ASSUME NEW S, IsFiniteSet(S), S # {}, NEW f \in [S -> Int]
  PROVE  \E m \in S : \A n \in S : f[n] <= f[m]
  <1> DEFINE Above(x) == {y \in S : f[x] < f[y]}
             T == {Above(x) : x \in S}
  <1>1. IsWellFoundedOn(StrictSubsetOrdering(S), FiniteSubsetsOf(S))
    BY FS_StrictSubsetOrderingWellFounded
  <1>2. T \subseteq FiniteSubsetsOf(S) /\ T # {}
    <2>1. T \subseteq SUBSET S /\ T # {}
      <3>1. \A x \in S : Above(x) \in SUBSET S
        OBVIOUS
      <3> HIDE DEF Above
      <3>2. QED
        BY <3>1
    <2>2. FiniteSubsetsOf(S) = SUBSET S
      BY FS_FiniteSubsetsOfFinite
    <2>3. QED
      BY <2>1, <2>2
  <1>3. PICK X \in T : \A Y \in T : <<Y, X>> \notin StrictSubsetOrdering(S)
    <2> HIDE DEF T
    <2> QED BY <1>1, <1>2, WFMin
  <1>4. PICK m \in S : X = Above(m)
    OBVIOUS
  <1>5. ASSUME NEW n \in S, ~(f[n] <= f[m])
        PROVE  FALSE
    <2>1. n \in Above(m) /\ n \notin Above(n)
      BY <1>5
    <2>2. Above(n) \subseteq Above(m)
      BY <1>5
    <2>3. <<Above(n), Above(m)>> \in StrictSubsetOrdering(S)
      BY <2>1, <2>2 DEF StrictSubsetOrdering
    <2>4. QED
      BY <1>3, <1>4, <2>3
  <1>6. QED
    BY <1>5

\* ... and a smallest.
LEMMA SmallestExists ==
  ASSUME NEW S, IsFiniteSet(S), S # {}, NEW f \in [S -> Int]
  PROVE  \E m \in S : \A n \in S : f[m] <= f[n]
  <1> DEFINE g == [x \in S |-> 0 - f[x]]
  <1>1. g \in [S -> Int]
    OBVIOUS
  <1>2. PICK m \in S : \A n \in S : g[n] <= g[m]
    <2> HIDE DEF g
    <2> QED BY <1>1, LargestExists
  <1>3. \A n \in S : f[m] <= f[n]
    BY <1>2
  <1>4. QED
    BY <1>3

\* FirstStop and LastStop are what their names say.
LEMMA EndStops ==
  ASSUME NEW S, S \subseteq Stops, S # {}
  PROVE  /\ FirstStop(S) \in S /\ \A u \in S : FirstStop(S) <= u
         /\ LastStop(S) \in S /\ \A u \in S : u <= LastStop(S)
  <1> DEFINE f == [x \in S |-> x]
  <1>1. IsFiniteSet(S) /\ f \in [S -> Int]
    <2>1. S \in SUBSET Stops /\ Stops \subseteq Nat /\ IsFiniteSet(Stops)
      BY ViewsAssumption
    <2>2. IsFiniteSet(S)
      BY <2>1, FS_Subset
    <2>3. QED
      BY <2>1, <2>2
  <1>2. (\E m \in S : \A n \in S : f[n] <= f[m]) /\ (\E m \in S : \A n \in S : f[m] <= f[n])
    <2> HIDE DEF f
    <2> QED BY <1>1, LargestExists, SmallestExists
  <1>3. (\E m \in S : \A n \in S : n <= m) /\ (\E m \in S : \A n \in S : m <= n)
    BY <1>2
  <1>4. QED
    BY <1>3 DEF FirstStop, LastStop

LEMMA ScrapedTyped ==
  ASSUME NEW r \in Rows
  PROVE  r.scraped \in Int
  <1>1. r.scraped \in Scrapes
    BY DEF Rows
  <1>2. QED
    BY <1>1, ViewsAssumption

\* So are Earliest and Newest.
LEMMA EndRows ==
  ASSUME NEW S, S \subseteq Rows, IsFiniteSet(S), S # {}
  PROVE  /\ Earliest(S) \in S /\ \A r \in S : Earliest(S).scraped <= r.scraped
         /\ Newest(S) \in S /\ \A r \in S : r.scraped <= Newest(S).scraped
  <1> DEFINE f == [r \in S |-> r.scraped]
  <1>1. f \in [S -> Int]
    BY ScrapedTyped
  <1>2. (\E m \in S : \A n \in S : f[n] <= f[m]) /\ (\E m \in S : \A n \in S : f[m] <= f[n])
    <2> HIDE DEF f
    <2> QED BY <1>1, LargestExists, SmallestExists
  <1>3. /\ \E m \in S : \A n \in S : n.scraped <= m.scraped
        /\ \E m \in S : \A n \in S : m.scraped <= n.scraped
    BY <1>2
  <1>4. QED
    BY <1>3 DEF Earliest, Newest

------------------------------------------------------------------------------
(* The table *)

OneRowPerScrape == \A r, q \in rows : r.key = q.key /\ r.scraped = q.scraped => r = q

TableInv == TypeOK /\ OneRowPerScrape /\ IsFiniteSet(rows)

LEMMA RowOfTyped ==
  ASSUME NEW k \in Keys, NEW e \in Reports, NEW at \in Scrapes
  PROVE  RowOf(k, e, at) \in Rows /\ RowOf(k, e, at).key = k /\ RowOf(k, e, at).scraped = at
  <1>1. e \in [delay : Int \cup {None}, cancelled : BOOLEAN, sched : BOOLEAN,
               cat : BOOLEAN, platform : Sources, route : Sources]
    BY ViewsAssumption
  <1>2. Schedule[k] \in Int /\ (e.sched \/ e.delay # None)
    BY ViewsAssumption
  <1> DEFINE ct == IF e.delay = None THEN None ELSE Schedule[k] + e.delay
             planned == IF e.sched THEN Schedule[k] ELSE ct
             pp == IF e.sched THEN "plan" ELSE ""
             row == [key |-> k, scraped |-> at, actual |-> ct, planned |-> planned, pp |-> pp,
                     platform |-> e.platform, route |-> e.route,
                     cancelled |-> e.cancelled, cat |-> e.cat]
  <1>3. ct \in Int \cup {None} /\ planned \in Int
    BY <1>1, <1>2
  <1>4. pp \in Sources
    BY DEF Sources
  <1>5. RowOf(k, e, at) = row
    BY DEF RowOf
  <1>6. /\ e.platform \in Sources /\ e.route \in Sources
        /\ e.cancelled \in BOOLEAN /\ e.cat \in BOOLEAN
    BY <1>1
  <1>7. row \in Rows /\ row.key = k /\ row.scraped = at
    <2> HIDE DEF ct, planned, pp
    <2> QED BY <1>3, <1>4, <1>6 DEF Rows
  <1>8. QED
    BY <1>5, <1>7

LEMMA InsertKeeps ==
  ASSUME TableInv, NEW k \in Keys, NEW e \in Reports, NEW at \in Scrapes, Insert(k, e, at)
  PROVE  TableInv'
  <1> DEFINE new == RowOf(k, e, at)
  <1>1. new \in Rows /\ new.key = k /\ new.scraped = at
    BY RowOfTyped
  <1>2. rows' = rows \cup {new} /\ \A r \in rows : r.key = k => r.scraped # at
    BY DEF Insert, Of
  <1> HIDE DEF new
  <1>3. TypeOK' /\ OneRowPerScrape'
    BY <1>1, <1>2 DEF TableInv, TypeOK, OneRowPerScrape
  <1>4. IsFiniteSet(rows')
    BY <1>2, FS_AddElement DEF TableInv
  <1>5. QED
    BY <1>3, <1>4 DEF TableInv

\* Rewriting rows one by one, keys and scrapes kept.
LEMMA RewriteKeeps ==
  ASSUME TableInv, NEW f \in [rows -> Rows], rows' = {f[r] : r \in rows},
         \A r \in rows : f[r].key = r.key /\ f[r].scraped = r.scraped
  PROVE  TableInv'
  <1>1. TypeOK'
    BY DEF TypeOK
  <1>2. ASSUME NEW x \in rows', NEW y \in rows', x.key = y.key, x.scraped = y.scraped
        PROVE  x = y
    <2>1. PICK q \in rows : x = f[q]
      OBVIOUS
    <2>2. PICK r \in rows : y = f[r]
      OBVIOUS
    <2>3. q = r
      BY <1>2, <2>1, <2>2 DEF TableInv, OneRowPerScrape
    <2>4. QED
      BY <2>1, <2>2, <2>3
  <1>3. IsFiniteSet(rows')
    <2>1. f \in Surjection(rows, rows')
      BY DEF Surjection
    <2>2. QED
      BY <2>1, FS_Surjection DEF TableInv
  <1>4. QED
    BY <1>1, <1>2, <1>3 DEF TableInv, OneRowPerScrape

LEMMA BackfillKeeps ==
  ASSUME TableInv, NEW k \in Keys, Pin(k) \/ FillPlatform(k) \/ FillRoute(k)
  PROVE  TableInv'
  <1> DEFINE pin == [r \in rows |-> [r EXCEPT !.planned = IF r.key = k THEN Schedule[k] ELSE @]]
             plat == [r \in rows |-> [r EXCEPT !.pp = IF r.key = k /\ @ = "" THEN "plan" ELSE @]]
             route == [r \in rows |-> [r EXCEPT !.route = IF r.key = k /\ @ = "" THEN "plan" ELSE @]]
  <1>1. rows \subseteq Rows /\ Schedule[k] \in Int
    BY ViewsAssumption DEF TableInv, TypeOK
  <1>2. CASE Pin(k)
    <2>1. pin \in [rows -> Rows] /\ \A r \in rows : pin[r].key = r.key /\ pin[r].scraped = r.scraped
      BY <1>1 DEF Rows
    <2>2. rows' = {pin[r] : r \in rows}
      BY <1>2 DEF Pin
    <2> HIDE DEF pin
    <2>3. QED
      BY <2>1, <2>2, RewriteKeeps
  <1>3. CASE FillPlatform(k)
    <2>1. plat \in [rows -> Rows] /\ \A r \in rows : plat[r].key = r.key /\ plat[r].scraped = r.scraped
      BY <1>1 DEF Rows, Sources
    <2>2. rows' = {plat[r] : r \in rows}
      BY <1>3 DEF FillPlatform
    <2> HIDE DEF plat
    <2>3. QED
      BY <2>1, <2>2, RewriteKeeps
  <1>4. CASE FillRoute(k)
    <2>1. route \in [rows -> Rows] /\ \A r \in rows : route[r].key = r.key /\ route[r].scraped = r.scraped
      BY <1>1 DEF Rows, Sources
    <2>2. rows' = {route[r] : r \in rows}
      BY <1>4 DEF FillRoute
    <2> HIDE DEF route
    <2>3. QED
      BY <2>1, <2>2, RewriteKeeps
  <1>5. QED
    BY <1>2, <1>3, <1>4

LEMMA TableStep == TableInv /\ [Next]_rows => TableInv'
  <1>1. TableInv /\ UNCHANGED rows => TableInv'
    BY DEF TableInv, TypeOK, OneRowPerScrape
  <1>2. QED
    BY <1>1, InsertKeeps, BackfillKeeps DEF Next

LEMMA TableInit == Init => TableInv
  BY FS_EmptySet DEF Init, TableInv, TypeOK, OneRowPerScrape

\* The table stays well-formed, one row per key and scrape.
THEOREM ViewsTable == Spec => []TableInv
  BY TableInit, TableStep, PTL DEF Spec

\* The rows the views read are well-typed through inserts and backfills.
THEOREM ViewsTypeCorrect == Spec => []TypeOK
  <1>1. TableInv => TypeOK
    BY DEF TableInv
  <1>2. QED
    BY <1>1, ViewsTable, PTL

------------------------------------------------------------------------------
(* Line and day *)

\* The picked rows of a trip are rows of the table, at stops of the trip.
LEMMA PickTyped ==
  ASSUME TableInv, NEW t \in Trips, NEW p \in Picks(t)
  PROVE  /\ DOMAIN p \subseteq Stops
         /\ \A s \in DOMAIN p :
              /\ p[s] \in rows /\ p[s] \in Latest(t, s) /\ p[s].planned \in Int
              /\ p[s].actual # None => p[s].actual \in Int
  <1>1. DOMAIN p \subseteq Stops /\ \A s \in DOMAIN p : p[s] \in rows /\ p[s] \in Latest(t, s)
    BY DEF Picks
  <1>2. \A r \in rows : r.planned \in Int /\ r.actual \in Int \cup {None}
    BY DEF TableInv, TypeOK, Rows
  <1>3. QED
    BY <1>1, <1>2

LEMMA LineIsWorse ==
  ASSUME TableInv, NEW t \in Trips, NEW p \in Picks(t), NEW q \in Picks(t), Departures(q) # {},
         \A r, u \in Latest(t, LastStop(DOMAIN q)) :
           EndDelay(r) = EndDelay(u) /\ r.cancelled = u.cancelled
  PROVE  LineDelay(p) >= DayTrip(q).delay /\ (DayTrip(q).cancelled => LineCancelled(p))
  <1> DEFINE late == {s \in DOMAIN p : p[s].actual # None /\ DelayOf(p[s]) > 0}
             last == LastStop(DOMAIN p)
             delay == EndDelay(p[last])
  <1>1. /\ DOMAIN p \subseteq Stops /\ DOMAIN p = DOMAIN q
        /\ \A s \in DOMAIN p : p[s].actual # None => DelayOf(p[s]) \in Int
    <2>1. DOMAIN p = DOMAIN q
      BY DEF Picks
    <2>2. QED
      BY <2>1, PickTyped DEF DelayOf
  <1>2. DOMAIN p # {}
    BY <1>1 DEF Departures
  <1>3. last \in DOMAIN p /\ \A u \in DOMAIN p : u <= last
    BY <1>1, <1>2, EndStops
  <1>4. p[last] \in Latest(t, last) /\ q[last] \in Latest(t, last)
    <2> HIDE DEF last
    <2> QED BY <1>1, <1>3, PickTyped
  <1>5. delay = EndDelay(q[last]) /\ p[last].cancelled = q[last].cancelled
    BY <1>1, <1>4
  <1>6. DayTrip(q).delay = delay /\ (DayTrip(q).cancelled => p[last].cancelled)
    BY <1>1, <1>5 DEF DayTrip
  <1>7. LineCancelled(p) = p[last].cancelled
    BY DEF LineCancelled
  <1>8. LineDelay(p) = IF late = {} THEN 0 ELSE DelayOf(p[LastStop(late)])
    BY DEF LineDelay
  <1>9. delay \in Int /\ (last \notin late => delay <= 0)
    BY <1>1, <1>3 DEF EndDelay
  <1>10. CASE late = {}
    BY <1>6, <1>7, <1>8, <1>9, <1>10
  <1>11. CASE late # {}
    <2>1. late \subseteq Stops
      BY <1>1
    <2>2. LastStop(late) \in late /\ \A u \in late : u <= LastStop(late)
      <3> HIDE DEF late
      <3> QED BY <1>11, <2>1, EndStops
    <2>3. LastStop(late) \in DOMAIN p /\ DelayOf(p[LastStop(late)]) \in Int
          /\ DelayOf(p[LastStop(late)]) > 0
      BY <1>1, <2>2
    <2>4. CASE last \in late
      <3>1. last <= LastStop(late) /\ LastStop(late) <= last
        BY <1>3, <2>2, <2>3, <2>4
      <3>2. last \in Nat /\ LastStop(late) \in Nat
        BY <1>1, <1>3, <2>3, ViewsAssumption
      <3>3. last = LastStop(late)
        <4> HIDE DEF last, late
        <4> QED BY <3>1, <3>2
      <3>4. delay = DelayOf(p[last])
        BY <2>4 DEF EndDelay
      <3>5. QED
        BY <1>6, <1>7, <1>8, <1>9, <1>11, <3>3, <3>4
    <2>5. CASE last \notin late
      <3>1. delay <= 0
        BY <1>9, <2>5
      <3> HIDE DEF last, late, delay
      <3>2. QED
        BY <1>6, <1>7, <1>8, <1>9, <1>11, <2>3, <3>1
    <2>6. QED
      BY <2>4, <2>5
  <1>12. QED
    BY <1>10, <1>11

\* A line's run is never shown better than the day's list shows the trip: not
\* less late, and not as running where the list has it cancelled -- whatever
\* handleLine's and computeDay's queries pick of an arrival and a departure of
\* one scrape, if at the last stop these tell the same.
THEOREM ViewsLineNeverBetter == Spec => []LineNeverBetter
  <1>1. TableInv => LineNeverBetter
    BY LineIsWorse DEF LineNeverBetter
  <1>2. QED
    BY <1>1, ViewsTable, PTL

\* A set of rows of one key has one newest row.
LEMMA NewestOfKey ==
  ASSUME TableInv, NEW k, NEW S, S \subseteq Of(k), S # {}
  PROVE  /\ Newest(S) \in S /\ Earliest(S) \in S
         /\ \A r \in S : r.scraped <= Newest(S).scraped
         /\ \A r \in S : Newest(S).scraped <= r.scraped => r = Newest(S)
  <1>1. S \in SUBSET rows /\ S \subseteq Rows
    BY DEF Of, TableInv, TypeOK
  <1>2. IsFiniteSet(S)
    BY <1>1, FS_Subset DEF TableInv
  <1>3. Newest(S) \in S /\ Earliest(S) \in S /\ \A r \in S : r.scraped <= Newest(S).scraped
    BY <1>1, <1>2, EndRows
  <1>4. ASSUME NEW r \in S, Newest(S).scraped <= r.scraped
        PROVE  r = Newest(S)
    <2>1. r.scraped \in Int /\ Newest(S).scraped \in Int
      BY <1>1, <1>3, ScrapedTyped
    <2>2. r.scraped = Newest(S).scraped
      BY <1>3, <1>4, <2>1
    <2>3. r \in rows /\ Newest(S) \in rows /\ r.key = k /\ Newest(S).key = k
      BY <1>3 DEF Of
    <2>4. QED
      BY <2>2, <2>3 DEF TableInv, OneRowPerScrape
  <1>5. QED
    BY <1>3, <1>4

\* A stop's latest snapshot, of either direction, is the newest of its key.
LEMMA LatestIsNewest ==
  ASSUME TableInv, NEW t \in Trips,
         \A k \in Keys : k[2] = t /\ Of(k) # {} => OfDay(Newest(Of(k))),
         NEW s, NEW r \in Latest(t, s)
  PROVE  r = Newest(Of(r.key)) /\ r.key \in Keys /\ r.key[2] = t /\ Of(r.key) # {}
  <1> DEFINE n == Newest(Of(r.key))
  <1>1. r \in rows /\ TripOf(r) = t /\ StopOf(r) = s
    BY DEF Latest
  <1>2. r.key \in Keys /\ r.key[2] = t
    BY <1>1 DEF TableInv, TypeOK, Rows, TripOf
  <1>3. r \in Of(r.key)
    BY <1>1 DEF Of
  <1>4. n \in Of(r.key) /\ (n.scraped <= r.scraped => r = n)
    BY <1>3, NewestOfKey
  <1>5. OfDay(n)
    BY <1>2, <1>3
  <1>6. n \in rows /\ TripOf(n) = t /\ StopOf(n) = s
    BY <1>1, <1>4 DEF Of, TripOf, StopOf
  <1>7. n.scraped <= r.scraped
    <2> HIDE DEF n
    <2> QED BY <1>5, <1>6 DEF Latest
  <1>8. QED
    BY <1>2, <1>3, <1>4, <1>7

\* A stop with a snapshot of the day has a latest one.
LEMMA LatestExists ==
  ASSUME TableInv, NEW t \in Trips, NEW r \in rows, TripOf(r) = t, OfDay(r)
  PROVE  Latest(t, StopOf(r)) # {}
  <1> DEFINE rs == {q \in rows : TripOf(q) = t /\ StopOf(q) = StopOf(r) /\ OfDay(q)}
  <1>1. r \in rs /\ rs \in SUBSET rows /\ rs \subseteq Rows
    BY DEF TableInv, TypeOK
  <1>2. Latest(t, StopOf(r)) = {x \in rs : \A q \in rs : q.scraped <= x.scraped}
    BY DEF Latest
  <1> HIDE DEF rs
  <1>3. IsFiniteSet(rs)
    BY <1>1, FS_Subset DEF TableInv
  <1>4. Newest(rs) \in rs /\ \A q \in rs : q.scraped <= Newest(rs).scraped
    BY <1>1, <1>3, EndRows
  <1>5. QED
    BY <1>2, <1>4

LEMMA StopTyped ==
  ASSUME NEW k \in Keys
  PROVE  /\ k[3] \in Stops /\ k[2] \in Trips
         /\ k = <<"departure", k[2], k[3]>> \/ k = <<"arrival", k[2], k[3]>>
  <1>1. PICK e \in Events, u \in Trips : k = <<e[1], u, e[2]>>
    BY DEF Keys
  <1>2. e[1] \in {"arrival", "departure"} /\ e[2] \in Stops
    BY ViewsAssumption DEF Directions
  <1>3. QED
    BY <1>1, <1>2

\* The journey shows of a stop the newest snapshot of one of its keys.
LEMMA JourneyOfKey ==
  ASSUME TableInv, NEW t \in Trips, NEW s \in JourneyStops(t)
  PROVE  \E k \in Keys : /\ k[2] = t /\ Of(k) # {}
                         /\ JourneyStop(t, s).cancelled = Newest(Of(k)).cancelled
  <1>1. JourneyRows(t, s) # {}
    BY DEF JourneyStops
  <1>2. PICK k : k \in {<<"departure", t, s>>, <<"arrival", t, s>>} /\ JourneyRows(t, s) = Of(k)
    BY DEF JourneyRows
  <1>3. PICK r \in rows : r.key = k
    BY <1>1, <1>2 DEF Of
  <1>4. k \in Keys
    BY <1>3 DEF TableInv, TypeOK, Rows
  <1>5. JourneyStop(t, s).cancelled = Newest(Of(k)).cancelled
    BY <1>2 DEF JourneyStop
  <1>6. QED
    BY <1>1, <1>2, <1>4, <1>5

LEMMA OneWord ==
  ASSUME TableInv, NEW t \in Trips, NEW c \in BOOLEAN,
         NEW seen, seen = {k \in Keys : k[2] = t /\ Of(k) # {}}, seen # {},
         \A k \in seen : OfDay(Newest(Of(k))) /\ Newest(Of(k)).cancelled = c
  PROVE  /\ JourneyCancelled(t) = c
         /\ \A p \in Picks(t) :
              LineCancelled(p) = c /\ (Departures(p) # {} => DayTrip(p).cancelled = c)
  <1>1. PICK k \in seen : TRUE
    OBVIOUS
  <1>2. /\ k \in Keys /\ k[2] = t /\ Of(k) # {} /\ k[3] \in Stops
        /\ k = <<"departure", t, k[3]>> \/ k = <<"arrival", t, k[3]>>
    BY <1>1, StopTyped
  <1>3. \A s \in JourneyStops(t) : JourneyStop(t, s).cancelled = c
    BY JourneyOfKey
  <1>4. k[3] \in JourneyStops(t)
    BY <1>2 DEF JourneyStops, JourneyRows
  <1>5. JourneyCancelled(t) = c
    BY <1>3, <1>4 DEF JourneyCancelled
  <1>6. ASSUME NEW p \in Picks(t)
        PROVE  LineCancelled(p) = c /\ (Departures(p) # {} => DayTrip(p).cancelled = c)
    <2>1. \A s \in DOMAIN p : p[s].cancelled = c
      <3> SUFFICES ASSUME NEW s \in DOMAIN p PROVE p[s].cancelled = c
        OBVIOUS
      <3>1. p[s] \in Latest(t, s)
        BY PickTyped
      <3>2. \A j \in Keys : j[2] = t /\ Of(j) # {} => OfDay(Newest(Of(j)))
        OBVIOUS
      <3>3. p[s] = Newest(Of(p[s].key)) /\ p[s].key \in seen
        BY <3>1, <3>2, LatestIsNewest
      <3>4. QED
        BY <3>3
    <2>2. DOMAIN p # {}
      <3> DEFINE n == Newest(Of(k))
      <3>1. n \in Of(k) /\ OfDay(n)
        BY <1>1, <1>2, NewestOfKey
      <3> HIDE DEF n
      <3>2. n \in rows /\ TripOf(n) = t /\ StopOf(n) = k[3]
        BY <1>2, <3>1 DEF Of, TripOf, StopOf
      <3>3. Latest(t, k[3]) # {}
        BY <3>1, <3>2, LatestExists
      <3>4. k[3] \in {s \in Stops : Latest(t, s) # {}}
        BY <1>2, <3>3
      <3>5. DOMAIN p = {s \in Stops : Latest(t, s) # {}}
        BY DEF Picks
      <3>6. QED
        BY <3>4, <3>5
    <2>3. DOMAIN p \subseteq Stops
      BY PickTyped
    <2>4. LastStop(DOMAIN p) \in DOMAIN p
      BY <2>2, <2>3, EndStops
    <2>5. ASSUME Departures(p) # {}
          PROVE  FirstStop(Departures(p)) \in DOMAIN p
      <3>1. Departures(p) \subseteq DOMAIN p
        BY DEF Departures
      <3>2. QED
        BY <2>3, <2>5, <3>1, EndStops
    <2>6. QED
      BY <2>1, <2>4, <2>5 DEF LineCancelled, DayTrip
  <1>7. QED
    BY <1>5, <1>6

\* Where the latest snapshots of all of a trip's arrivals and departures say
\* that it is cancelled, or that it is not, the journey, the line and the day
\* say the same, through stops included.
THEOREM ViewsCancellationAgrees == Spec => []CancellationAgrees
  <1>1. TableInv => CancellationAgrees
    BY OneWord DEF CancellationAgrees
  <1>2. QED
    BY <1>1, ViewsTable, PTL

------------------------------------------------------------------------------
(* Board and journey *)

LEMMA BoardTellsJourney ==
  ASSUME TableInv, NEW t \in Trips, NEW s \in Stops, NEW at \in Ats,
         NEW rs, rs = Of(<<"departure", t, s>>), rs # {},
         \A r \in rs : r.planned = Schedule[r.key] /\ r.pp = "plan",
         Known(t, s, at) = rs, Newest(rs).cat
  PROVE  /\ BoardRow(t, s, at).cancelled = JourneyStop(t, s).cancelled
         /\ BoardRow(t, s, at).delay # None =>
              BoardRow(t, s, at).planned + BoardRow(t, s, at).delay = JourneyStop(t, s).actual
         /\ BoardRow(t, s, at).platChanged => JourneyStop(t, s).platFrom # JourneyStop(t, s).platTo
  <1> DEFINE n == Newest(rs)
             first == Earliest(rs)
             key == <<"departure", t, s>>
  <1>1. /\ n \in rs /\ first \in rs
        /\ \A r \in rs : r.scraped <= n.scraped
        /\ \A r \in rs : n.scraped <= r.scraped => r = n
    BY NewestOfKey
  <1>2. rs \subseteq Rows /\ \A r \in rs : r.key = key
    BY DEF Of, TableInv, TypeOK
  <1>3. \A r \in rs : r.cat \in BOOLEAN
    BY <1>2 DEF Rows
  <1> HIDE DEF n, first
  <1>4. Best(rs) = n
    <2>1. n.cat = TRUE
      BY <1>1, <1>3 DEF n
    <2>2. \A q \in rs : (n.cat /\ ~q.cat) \/ (n.cat = q.cat /\ q.scraped <= n.scraped)
      BY <1>1, <1>3, <2>1
    <2>3. ASSUME NEW r \in rs,
                 \A q \in rs : (r.cat /\ ~q.cat) \/ (r.cat = q.cat /\ q.scraped <= r.scraped)
          PROVE  r = n
      BY <1>1, <2>1, <2>3
    <2>4. QED
      BY <1>1, <2>2, <2>3 DEF Best
  <1>5. JourneyRows(t, s) = rs
    BY DEF JourneyRows
  <1>6. n.planned = first.planned /\ n.pp = "plan" /\ first.pp = "plan" /\ first.planned \in Int
    <2>1. first.planned \in Int
      BY <1>1, <1>2 DEF Rows
    <2>2. QED
      BY <1>1, <1>2, <2>1
  <1>7. BoardRow(t, s, at).cancelled = JourneyStop(t, s).cancelled
    BY <1>4, <1>5 DEF BoardRow, JourneyStop, n
  <1>8. ASSUME n.actual # None
        PROVE  FinalDelay(rs) = DelayOf(n) /\ n.actual \in Int
    <2> DEFINE timed == {r \in rs : r.actual # None}
    <2>1. n \in timed /\ timed \subseteq rs
      BY <1>1, <1>8
    <2>2. Newest(timed) \in timed /\ \A r \in timed : r.scraped <= Newest(timed).scraped
      <3> HIDE DEF timed
      <3>1. timed \subseteq Of(key) /\ timed # {}
        BY <2>1
      <3>2. QED
        BY <3>1, NewestOfKey
    <2>3. Newest(timed) = n
      <3> HIDE DEF timed
      <3> QED BY <1>1, <2>1, <2>2
    <2>4. FinalDelay(rs) = IF timed = {} THEN 0 ELSE DelayOf(Newest(timed))
      BY DEF FinalDelay
    <2>5. n.actual \in Int
      <3>1. n.actual \in Int \cup {None}
        BY <1>1, <1>2 DEF Rows
      <3>2. QED
        BY <1>8, <3>1
    <2> HIDE DEF timed
    <2>6. QED
      BY <2>1, <2>3, <2>4, <2>5
  <1>9. /\ BoardRow(t, s, at).delay = IF n.actual = None THEN None ELSE DelayOf(n)
        /\ BoardRow(t, s, at).planned = n.planned
        /\ BoardRow(t, s, at).platChanged = PlatChanged(n)
    BY <1>4 DEF BoardRow
  <1>10. /\ JourneyStop(t, s).actual = first.planned + FinalDelay(rs)
         /\ JourneyStop(t, s).platFrom = "plan"
         /\ JourneyStop(t, s).platTo = IF SnapPlat(n) = "" THEN "plan" ELSE SnapPlat(n)
    BY <1>5, <1>6 DEF JourneyStop, n, first
  <1>11. BoardRow(t, s, at).delay # None =>
           BoardRow(t, s, at).planned + BoardRow(t, s, at).delay = JourneyStop(t, s).actual
    BY <1>6, <1>8, <1>9, <1>10
  <1>12. BoardRow(t, s, at).platChanged => JourneyStop(t, s).platFrom # JourneyStop(t, s).platTo
    BY <1>6, <1>9, <1>10 DEF PlatChanged, SnapPlat
  <1>13. QED
    BY <1>7, <1>11, <1>12

\* The board and the journey tell the same of a departure whose schedule is in
\* and whose newest snapshot has a category.
THEOREM ViewsJourneyAgrees == Spec => []JourneyAgrees
  <1>1. TableInv => JourneyAgrees
    BY BoardTellsJourney DEF JourneyAgrees
  <1>2. QED
    BY <1>1, ViewsTable, PTL

------------------------------------------------------------------------------
(* The figures of a list of delays *)

Below(f, v) == {t \in DOMAIN f : f[t] < v}
UpTo(f, v) == {t \in DOMAIN f : f[t] <= v}

LEMMA CountsTyped ==
  ASSUME NEW S, IsFiniteSet(S), NEW f \in [S -> Int], NEW v
  PROVE  /\ IsFiniteSet(Below(f, v)) /\ Cardinality(Below(f, v)) \in Nat
         /\ IsFiniteSet(UpTo(f, v)) /\ Cardinality(UpTo(f, v)) \in Nat
         /\ Cardinality(UpTo(f, v)) <= Cardinality(S) /\ Cardinality(S) \in Nat
  <1>1. Below(f, v) \in SUBSET S /\ UpTo(f, v) \in SUBSET S
    BY DEF Below, UpTo
  <1>2. QED
    BY <1>1, FS_Subset, FS_CardinalityType

\* Every index of a finite list has its entry.
LEMMA RankedIs ==
  ASSUME NEW S, IsFiniteSet(S), NEW f \in [S -> Int], NEW i \in Nat, i < Cardinality(S)
  PROVE  /\ \E t \in S : Ranked(f, i) = f[t]
         /\ Cardinality(Below(f, Ranked(f, i))) <= i
         /\ Cardinality(UpTo(f, Ranked(f, i))) > i
  <1> DEFINE T == {t \in S : Cardinality(Below(f, f[t])) <= i}
  <1>1. T # {}
    <2>1. S # {}
      BY FS_EmptySet
    <2>2. PICK m \in S : \A n \in S : f[m] <= f[n]
      BY <2>1, SmallestExists
    <2>3. Below(f, f[m]) = {}
      BY <2>2 DEF Below
    <2>4. QED
      BY <2>3, FS_EmptySet
  <1>2. PICK m \in T : \A n \in T : f[n] <= f[m]
    <2> DEFINE g == [t \in T |-> f[t]]
    <2>1. T \in SUBSET S
      OBVIOUS
    <2>2. IsFiniteSet(T)
      BY <2>1, FS_Subset
    <2>3. g \in [T -> Int]
      BY <2>1
    <2>4. \E t \in T : \A n \in T : g[n] <= g[t]
      <3> HIDE DEF g, T
      <3> QED BY <1>1, <2>2, <2>3, LargestExists
    <2>5. QED
      BY <2>4
  <1>3. m \in S /\ Cardinality(Below(f, f[m])) <= i
    BY <1>2
  <1>4. Cardinality(UpTo(f, f[m])) > i
    <2> SUFFICES ASSUME Cardinality(UpTo(f, f[m])) <= i PROVE FALSE
      BY CountsTyped
    <2> DEFINE above == S \ UpTo(f, f[m])
    <2>1. IsFiniteSet(above) /\ above # {} /\ above \subseteq S
      <3>1. UpTo(f, f[m]) # S
        BY CountsTyped
      <3>2. UpTo(f, f[m]) \subseteq S
        BY DEF UpTo
      <3>3. above \in SUBSET S /\ above # {}
        BY <3>1, <3>2
      <3>4. QED
        BY <3>3, FS_Subset
    <2>2. PICK n \in above : \A u \in above : f[n] <= f[u]
      <3> DEFINE g == [t \in above |-> f[t]]
      <3>1. g \in [above -> Int]
        OBVIOUS
      <3>2. \E t \in above : \A u \in above : g[t] <= g[u]
        <4> HIDE DEF g, above
        <4> QED BY <2>1, <3>1, SmallestExists
      <3>3. QED
        BY <3>2
    <2>3. n \in S /\ f[m] < f[n]
      BY <1>3, <2>2 DEF UpTo
    <2>4. Below(f, f[n]) = UpTo(f, f[m])
      <3>1. \A t \in S : f[t] < f[n] <=> f[t] <= f[m]
        BY <1>3, <2>2, <2>3 DEF UpTo
      <3>2. QED
        BY <3>1 DEF Below, UpTo
    <2>5. n \in T
      BY <2>3, <2>4
    <2>6. QED
      BY <1>2, <1>3, <2>3, <2>5
  <1>5. QED
    <2> DEFINE v == f[m]
    <2>1. /\ v \in {f[t] : t \in DOMAIN f}
          /\ Cardinality({t \in DOMAIN f : f[t] < v}) <= i
          /\ Cardinality({t \in DOMAIN f : f[t] <= v}) > i
      BY <1>3, <1>4 DEF Below, UpTo
    <2> HIDE DEF v
    <2>2. /\ Ranked(f, i) \in {f[t] : t \in DOMAIN f}
          /\ Cardinality({t \in DOMAIN f : f[t] < Ranked(f, i)}) <= i
          /\ Cardinality({t \in DOMAIN f : f[t] <= Ranked(f, i)}) > i
      BY <2>1 DEF Ranked
    <2>3. QED
      BY <2>2 DEF Below, UpTo

LEMMA MaxIntIs ==
  ASSUME NEW S, IsFiniteSet(S), NEW f \in [S -> Int]
  PROVE  MaxInt(f) \in Nat /\ \A t \in S : f[t] <= MaxInt(f)
  <1> DEFINE Is(m) == m \in {0} \cup {f[t] : t \in DOMAIN f} /\ m >= 0
                        /\ \A t \in DOMAIN f : f[t] <= m
  <1>1. \E m : Is(m)
    <2>1. CASE \A t \in S : f[t] <= 0
      BY <2>1
    <2>2. CASE \E t \in S : ~(f[t] <= 0)
      <3>1. S # {}
        BY <2>2
      <3>2. PICK m \in S : \A n \in S : f[n] <= f[m]
        BY <3>1, LargestExists
      <3>3. f[m] >= 0
        BY <2>2, <3>2
      <3>4. Is(f[m])
        BY <3>2, <3>3
      <3>5. QED
        BY <3>4
    <2>3. QED
      BY <2>1, <2>2
  <1>2. Is(MaxInt(f))
    BY <1>1 DEF MaxInt
  <1>3. QED
    BY <1>2

\* A quotient is bounded by what its dividend is bounded by.
LEMMA Quotient ==
  ASSUME NEW a \in Nat, NEW n \in Nat \ {0}
  PROVE  a \div n \in Nat /\ n * (a \div n) <= a /\ a < n * (a \div n) + n
  <1> DEFINE q == a \div n
             r == a % n
  <1>1. r \in 0..(n - 1) /\ q \in Int /\ a = n * q + r
    BY SMT
  <1>2. q >= 0
    BY SMT
  <1> HIDE DEF q, r
  <1>3. n * q \in Int
    BY <1>1
  <1>4. QED
    BY <1>1, <1>2, <1>3 DEF q

LEMMA AtLeast ==
  ASSUME NEW a \in Nat, NEW n \in Nat \ {0}, a >= 90 * n
  PROVE  a \div n >= 90
  <1> DEFINE q == a \div n
  <1>1. q \in Nat /\ a < n * q + n
    BY Quotient
  <1> HIDE DEF q
  <1>2. ASSUME q <= 89 PROVE FALSE
    <2>1. n * q <= n * 89
      BY <1>1, <1>2
    <2>2. QED
      BY <1>1, <2>1
  <1>3. QED
    BY <1>1, <1>2 DEF q

LEMMA AtMost ==
  ASSUME NEW a \in Nat, NEW n \in Nat \ {0}, a <= 90 * n
  PROVE  a \div n <= 90
  <1> DEFINE q == a \div n
  <1>1. q \in Nat /\ n * q <= a
    BY Quotient
  <1> HIDE DEF q
  <1>2. ASSUME q >= 91 PROVE FALSE
    <2>1. n * q >= n * 91
      BY <1>1, <1>2
    <2>2. QED
      BY <1>1, <2>1
  <1>3. QED
    BY <1>1, <1>2 DEF q

\* The percentiles of a list of delays are in their order and below its
\* maximum; and 90 per cent are punctual just when the 90th percentile is.
LEMMA FiguresFit ==
  ASSUME NEW S, IsFiniteSet(S), NEW f \in [S -> Int]
  PROVE  /\ Percentile(f, 50) <= Percentile(f, 90) /\ Percentile(f, 90) <= MaxInt(f)
         /\ S # {} => IF Percentile(f, 90) <= 5 THEN PuncOf(f) >= 90 ELSE PuncOf(f) <= 90
  <1> DEFINE n == Cardinality(S)
             i == (50 * n) \div 100
             j == (90 * n) \div 100
  <1>1. n \in Nat /\ (n = 0 <=> S = {})
    BY FS_CardinalityType, FS_EmptySet
  <1>2. CASE S = {}
    <2>1. Cardinality(DOMAIN f) = 0
      BY <1>1, <1>2
    <2>2. Percentile(f, 50) = 0 /\ Percentile(f, 90) = 0
      BY <2>1 DEF Percentile
    <2>3. MaxInt(f) \in Nat
      BY MaxIntIs
    <2>4. QED
      BY <1>2, <2>2, <2>3
  <1>3. CASE S # {}
    <2> HIDE DEF n
    <2>1. i \in Nat /\ j \in Nat /\ i <= j /\ i < n /\ j < n /\ 100 * j <= 90 * n /\ 90 * n < 100 * j + 100
      BY <1>1, <1>3
    <2>2. Cardinality(DOMAIN f) = n
      BY DEF n
    <2> HIDE DEF i, j
    <2>3. Percentile(f, 50) = Ranked(f, i) /\ Percentile(f, 90) = Ranked(f, j)
      BY <1>1, <1>3, <2>1, <2>2 DEF Percentile, i, j
    <2> DEFINE v == Ranked(f, i)
               w == Ranked(f, j)
    <2>4. /\ v \in Int /\ Cardinality(Below(f, v)) <= i
          /\ w \in Int /\ Cardinality(Below(f, w)) <= j /\ Cardinality(UpTo(f, w)) > j
          /\ \E t \in S : w = f[t]
      BY <2>1, RankedIs DEF n
    <2> HIDE DEF v, w
    <2>5. v <= w
      <3> SUFFICES ASSUME w < v PROVE FALSE
        BY <2>4
      <3>1. UpTo(f, w) \subseteq Below(f, v)
        BY <2>4 DEF UpTo, Below
      <3>2. Cardinality(UpTo(f, w)) <= Cardinality(Below(f, v))
        BY <3>1, CountsTyped, FS_Subset
      <3>3. Cardinality(UpTo(f, w)) \in Nat /\ Cardinality(Below(f, v)) \in Nat
        BY CountsTyped
      <3>4. QED
        BY <2>1, <2>4, <3>2, <3>3
    <2>6. w <= MaxInt(f)
      BY <2>4, MaxIntIs
    <2>7. IF w <= 5 THEN PuncOf(f) >= 90 ELSE PuncOf(f) <= 90
      <3> DEFINE c == Cardinality(UpTo(f, 5))
      <3>1. c \in Nat
        BY CountsTyped
      <3>2. PuncOf(f) = (100 * c) \div n
        BY <1>3, <2>2 DEF PuncOf, UpTo
      <3>3. CASE w <= 5
        <4>1. UpTo(f, w) \subseteq UpTo(f, 5)
          BY <2>4, <3>3 DEF UpTo
        <4>2. Cardinality(UpTo(f, w)) <= c /\ Cardinality(UpTo(f, w)) \in Nat
          BY <4>1, CountsTyped, FS_Subset
        <4> HIDE DEF c
        <4>3. 100 * c >= 90 * n
          BY <1>1, <2>1, <2>4, <3>1, <4>2
        <4>4. (100 * c) \div n >= 90
          BY <1>1, <1>3, <3>1, <4>3, AtLeast
        <4>5. QED
          BY <3>2, <3>3, <4>4
      <3>4. CASE 5 < w
        <4>1. UpTo(f, 5) \subseteq Below(f, w)
          BY <2>4, <3>4 DEF UpTo, Below
        <4>2. c <= Cardinality(Below(f, w)) /\ Cardinality(Below(f, w)) \in Nat
          BY <4>1, CountsTyped, FS_Subset
        <4> HIDE DEF c
        <4>3. 100 * c <= 90 * n
          BY <1>1, <2>1, <2>4, <3>1, <4>2
        <4>4. (100 * c) \div n <= 90
          BY <1>1, <1>3, <3>1, <4>3, AtMost
        <4>5. QED
          BY <2>4, <3>2, <3>4, <4>4
      <3>5. QED
        BY <2>4, <3>3, <3>4
    <2>8. QED
      BY <1>3, <2>3, <2>5, <2>6, <2>7 DEF v, w
  <1>4. QED
    BY <1>2, <1>3
------------------------------------------------------------------------------
(* The figures of a line and of a day *)

\* What the queries pick of each trip; only trips with rows are picked from.
LEMMA DayPicked ==
  ASSUME TableInv, NEW P \in DayPicks
  PROVE  /\ DOMAIN P = Trips /\ \A t \in Trips : P[t] \in Picks(t)
         /\ IsFiniteSet({t \in Trips : DOMAIN P[t] # {}})
  <1>1. DOMAIN P = Trips /\ \A t \in Trips : P[t] \in Picks(t)
    BY DEF DayPicks
  <1> DEFINE f == [r \in rows |-> TripOf(r)]
             T == {TripOf(r) : r \in rows}
  <1>2. IsFiniteSet(T)
    <2>1. f \in Surjection(rows, T)
      BY DEF Surjection
    <2>2. IsFiniteSet(rows)
      BY DEF TableInv
    <2> HIDE DEF f, T
    <2>3. QED
      BY <2>1, <2>2, FS_Surjection
  <1>3. \A t \in Trips : DOMAIN P[t] # {} => t \in T
    <2> SUFFICES ASSUME NEW t \in Trips, DOMAIN P[t] # {} PROVE t \in T
      OBVIOUS
    <2>1. PICK s \in DOMAIN P[t] : TRUE
      OBVIOUS
    <2>2. P[t] \in Picks(t)
      BY <1>1
    <2>3. P[t][s] \in rows /\ P[t][s] \in Latest(t, s)
      BY <2>1, <2>2, PickTyped
    <2>4. TripOf(P[t][s]) = t
      BY <2>3 DEF Latest
    <2>5. QED
      BY <2>3, <2>4
  <1>4. QED
    <2>1. {t \in Trips : DOMAIN P[t] # {}} \in SUBSET T
      BY <1>3
    <2>2. QED
      BY <1>1, <1>2, <2>1, FS_Subset

\* Both views give a picked trip a number of minutes.
LEMMA DelaysTyped ==
  ASSUME TableInv, NEW t \in Trips, NEW p \in Picks(t), DOMAIN p # {}
  PROVE  /\ LineDelay(p) \in Int
         /\ Departures(p) # {} => DayTrip(p).delay \in Int /\ DayTrip(p).dep \in Int
  <1> DEFINE late == {s \in DOMAIN p : p[s].actual # None /\ DelayOf(p[s]) > 0}
             last == LastStop(DOMAIN p)
  <1>1. /\ DOMAIN p \subseteq Stops
        /\ \A s \in DOMAIN p : p[s].planned \in Int /\ (p[s].actual # None => DelayOf(p[s]) \in Int)
    BY PickTyped DEF DelayOf
  <1>2. LineDelay(p) \in Int
    <2>1. CASE late = {}
      BY <2>1 DEF LineDelay
    <2>2. CASE late # {}
      <3>1. late \subseteq Stops
        BY <1>1
      <3>2. LastStop(late) \in late
        <4> HIDE DEF late
        <4> QED BY <2>2, <3>1, EndStops
      <3>3. DelayOf(p[LastStop(late)]) \in Int
        BY <1>1, <3>2
      <3>4. QED
        BY <2>2, <3>3 DEF LineDelay
    <2>3. QED
      BY <2>1, <2>2
  <1>3. last \in DOMAIN p
    BY <1>1, EndStops
  <1>4. ASSUME Departures(p) # {}
        PROVE  DayTrip(p).delay \in Int /\ DayTrip(p).dep \in Int
    <2>1. Departures(p) \subseteq Stops /\ Departures(p) \subseteq DOMAIN p
      BY <1>1 DEF Departures
    <2>2. FirstStop(Departures(p)) \in DOMAIN p
      BY <1>4, <2>1, EndStops
    <2>3. QED
      BY <1>1, <1>3, <2>2 DEF DayTrip, EndDelay
  <1>5. QED
    BY <1>2, <1>4

\* The figures made of a set of trips, a part of it cancelled, fit.
LEMMA SummaryFits ==
  ASSUME NEW all, IsFiniteSet(all), NEW gone \in SUBSET all, NEW f \in [all \ gone -> Int]
  PROVE  /\ Fits(Summary(Cardinality(all), Cardinality(gone), f))
         /\ all \ gone # {} => Cardinality(all) > Cardinality(gone)
  <1>1. IsFiniteSet(gone) /\ IsFiniteSet(all \ gone)
    BY FS_Subset, FS_Difference
  <1>2. Cardinality(all) \in Nat /\ Cardinality(gone) \in Nat /\ Cardinality(gone) <= Cardinality(all)
    BY <1>1, FS_CardinalityType, FS_Subset
  <1>3. Cardinality(all) = Cardinality(gone) => gone = all
    BY FS_Subset
  <1>4. all \ gone # {} <=> Cardinality(all) > Cardinality(gone)
    BY <1>2, <1>3
  <1>5. /\ Percentile(f, 50) <= Percentile(f, 90) /\ Percentile(f, 90) <= MaxInt(f)
        /\ all \ gone # {} => IF Percentile(f, 90) <= 5 THEN PuncOf(f) >= 90 ELSE PuncOf(f) <= 90
    <2> DEFINE S == all \ gone
    <2> HIDE DEF S
    <2>1. f \in [S -> Int] /\ IsFiniteSet(S)
      BY <1>1 DEF S
    <2>2. /\ Percentile(f, 50) <= Percentile(f, 90) /\ Percentile(f, 90) <= MaxInt(f)
          /\ S # {} => IF Percentile(f, 90) <= 5 THEN PuncOf(f) >= 90 ELSE PuncOf(f) <= 90
      BY <2>1, FiguresFit
    <2>3. QED
      BY <2>2 DEF S
  <1>6. QED
    BY <1>4, <1>5 DEF Fits, Summary

LEMMA PageFigures ==
  ASSUME TableInv, NEW Q \in DayPicks, NEW l
  PROVE  Fits(LineStats(Q, l))
  <1> DEFINE all == {t \in DOMAIN Q : LineOf[t] = l /\ DOMAIN Q[t] # {}}
             cx == {t \in all : LineCancelled(Q[t])}
             fin == [t \in all \ cx |-> LineDelay(Q[t])]
  <1>1. /\ DOMAIN Q = Trips /\ \A t \in Trips : Q[t] \in Picks(t)
        /\ IsFiniteSet({t \in Trips : DOMAIN Q[t] # {}})
    BY DayPicked
  <1>2. all \in SUBSET {t \in Trips : DOMAIN Q[t] # {}}
    BY <1>1
  <1>3. IsFiniteSet(all)
    BY <1>1, <1>2, FS_Subset
  <1>4. \A t \in all : LineDelay(Q[t]) \in Int
    BY <1>1, DelaysTyped
  <1>5. cx \in SUBSET all /\ fin \in [all \ cx -> Int]
    BY <1>4
  <1>6. LineStats(Q, l) = Summary(Cardinality(all), Cardinality(cx), fin)
    BY DEF LineStats
  <1> HIDE DEF all, cx, fin
  <1>7. QED
    BY <1>3, <1>5, <1>6, SummaryFits

LEMMA LeaderFigures ==
  ASSUME TableInv, NEW P \in DayPicks, NEW l \in Leaders(Facts(P))
  PROVE  Fits(LeaderRow(Facts(P), l)) /\ LeaderRow(Facts(P), l).n > LeaderRow(Facts(P), l).cx
  <1> DEFINE F == Facts(P)
             counted == {t \in DOMAIN F : LineOf[t] = l}
             gone == counted \ Ran(F)
             delays == Delays(F, counted \cap Ran(F))
  <1>1. /\ DOMAIN P = Trips /\ \A t \in Trips : P[t] \in Picks(t)
        /\ IsFiniteSet({t \in Trips : DOMAIN P[t] # {}})
    BY DayPicked
  <1>2. /\ DOMAIN F = {t \in Trips : Departures(P[t]) # {}}
        /\ \A t \in DOMAIN F : F[t] = DayTrip(P[t])
        /\ \A t \in DOMAIN F : t \in Trips /\ DOMAIN P[t] # {}
    BY DEF Facts, Departures
  <1>3. IsFiniteSet(counted)
    <2>1. counted \in SUBSET {t \in Trips : DOMAIN P[t] # {}}
      BY <1>1, <1>2
    <2> HIDE DEF counted
    <2>2. QED
      BY <1>1, <2>1, FS_Subset
  <1>4. gone \in SUBSET counted /\ counted \ gone = counted \cap Ran(F)
    OBVIOUS
  <1>5. delays \in [counted \cap Ran(F) -> Int]
    <2>1. \A t \in counted : t \in Trips /\ P[t] \in Picks(t) /\ Departures(P[t]) # {}
                             /\ F[t] = DayTrip(P[t]) /\ DOMAIN P[t] # {}
      BY <1>1, <1>2
    <2> HIDE DEF counted, F
    <2>2. \A t \in counted : F[t].delay \in Int
      BY <2>1, DelaysTyped
    <2>3. QED
      BY <2>2 DEF Delays
  <1>6. counted \ gone # {}
    <2>1. PICK t \in Ran(F) : LineOf[t] = l
      BY DEF Leaders
    <2>2. t \in DOMAIN F
      BY DEF Ran
    <2>3. QED
      BY <2>1, <2>2
  <1>7. LeaderRow(F, l) = Summary(Cardinality(counted), Cardinality(gone), delays)
    BY DEF LeaderRow
  <1> HIDE DEF F, counted, gone, delays
  <1>8. delays \in [counted \ gone -> Int]
    BY <1>4, <1>5
  <1>9. /\ Fits(Summary(Cardinality(counted), Cardinality(gone), delays))
        /\ Cardinality(counted) > Cardinality(gone)
    BY <1>3, <1>4, <1>6, <1>8, SummaryFits
  <1>10. \A n, c, g : Summary(n, c, g).n = n /\ Summary(n, c, g).cx = c
    BY DEF Summary
  <1>11. QED
    BY <1>7, <1>9, <1>10 DEF F

\* The leaderboard counts trips of its query that a page counts too: a stop has
\* a latest snapshot for both queries or for neither.
LEMMA PageCountsMore ==
  ASSUME TableInv, NEW P \in DayPicks, NEW Q \in DayPicks, NEW l
  PROVE  LeaderRow(Facts(P), l).n <= LineStats(Q, l).n
  <1> DEFINE F == Facts(P)
             counted == {t \in DOMAIN F : LineOf[t] = l}
             all == {t \in DOMAIN Q : LineOf[t] = l /\ DOMAIN Q[t] # {}}
  <1>1. /\ DOMAIN P = Trips /\ DOMAIN Q = Trips
        /\ \A t \in Trips : P[t] \in Picks(t) /\ Q[t] \in Picks(t)
        /\ IsFiniteSet({t \in Trips : DOMAIN Q[t] # {}})
    BY DayPicked
  <1>2. \A t \in Trips : DOMAIN P[t] = DOMAIN Q[t]
    BY <1>1 DEF Picks
  <1>3. DOMAIN F = {t \in Trips : Departures(P[t]) # {}}
    BY DEF Facts
  <1>4. \A t \in DOMAIN F : t \in Trips /\ DOMAIN P[t] # {}
    BY <1>3 DEF Departures
  <1>5. counted \in SUBSET all
    BY <1>1, <1>2, <1>4
  <1>6. all \in SUBSET {t \in Trips : DOMAIN Q[t] # {}}
    BY <1>1
  <1>7. LeaderRow(F, l).n = Cardinality(counted) /\ LineStats(Q, l).n = Cardinality(all)
    BY DEF LeaderRow, LineStats, Summary
  <1> HIDE DEF F, counted, all
  <1>8. IsFiniteSet(all)
    BY <1>1, <1>6, FS_Subset
  <1>9. Cardinality(counted) <= Cardinality(all)
    BY <1>5, <1>8, FS_Subset
  <1>10. QED
    BY <1>7, <1>9 DEF F

\* Of every line on the leaderboard and on its own page the figures fit, a
\* line on the leaderboard has a run that was not cancelled, and the leaderboard
\* counts no trip the page does not (computeDay, buildLine).
THEOREM ViewsStatsAgree == Spec => []StatsAgree
  <1>1. TableInv => StatsAgree
    BY PageFigures, LeaderFigures, PageCountsMore DEF StatsAgree
  <1>2. QED
    BY <1>1, ViewsTable, PTL
------------------------------------------------------------------------------
(* The hours of the day *)

\* One step of the sum over a table of hours.
HourStep(hours, k) ==
  [s \in SUBSET DOMAIN hours |->
     IF s = {} THEN 0 ELSE hours[CHOOSE x \in s : TRUE] + k[s \ {CHOOSE x \in s : TRUE}]]

LEMMA SumIsSolution ==
  ASSUME NEW hours
  PROVE  FoldFunction(+, 0, hours) = (CHOOSE k : k = HourStep(hours, k))[DOMAIN hours]
  BY DEF FoldFunction, FoldFunctionOnSet, MapThenFoldSet, HourStep

\* The equation of the sum has one solution.
LEMMA OneSolution ==
  ASSUME NEW hours, IsFiniteSet(DOMAIN hours),
         NEW k, k = HourStep(hours, k), NEW g, g = HourStep(hours, g)
  PROVE  \A s \in SUBSET DOMAIN hours : k[s] = g[s]
  <1> DEFINE H == DOMAIN hours
             Bad == {s \in SUBSET H : k[s] # g[s]}
  <1>1. SUFFICES ASSUME Bad # {} PROVE FALSE
    OBVIOUS
  <1>2. IsWellFoundedOn(StrictSubsetOrdering(H), FiniteSubsetsOf(H))
    BY FS_StrictSubsetOrderingWellFounded
  <1>3. Bad \subseteq FiniteSubsetsOf(H)
    <2>1. FiniteSubsetsOf(H) = SUBSET H
      BY FS_FiniteSubsetsOfFinite
    <2>2. QED
      BY <2>1
  <1>4. PICK s \in Bad : \A u \in Bad : <<u, s>> \notin StrictSubsetOrdering(H)
    <2> HIDE DEF Bad
    <2> QED BY <1>1, <1>2, <1>3, WFMin
  <1>5. s # {}
    <2>1. HourStep(hours, k)[{}] = 0 /\ HourStep(hours, g)[{}] = 0
      BY DEF HourStep
    <2>2. k[{}] = 0 /\ g[{}] = 0
      BY <2>1
    <2>3. QED
      BY <1>4, <2>2
  <1> DEFINE x == CHOOSE y \in s : TRUE
             u == s \ {x}
  <1>6. x \in s /\ s \in SUBSET H /\ u \in SUBSET H /\ u \subseteq s /\ u # s
    BY <1>4, <1>5
  <1>7. k[u] = g[u]
    <2>1. <<u, s>> \in StrictSubsetOrdering(H)
      BY <1>6 DEF StrictSubsetOrdering
    <2>2. u \notin Bad
      <3> HIDE DEF u
      <3> QED BY <1>4, <2>1
    <2>3. QED
      BY <1>6, <2>2
  <1>8. HourStep(hours, k)[s] = hours[x] + k[u] /\ HourStep(hours, g)[s] = hours[x] + g[u]
    BY <1>5, <1>6 DEF HourStep
  <1>9. k[s] = g[s]
    BY <1>7, <1>8
  <1>10. QED
    BY <1>4, <1>9

\* Trips counted hour by hour are counted once.
LEMMA CountedOnce ==
  ASSUME NEW T, IsFiniteSet(T), NEW h \in [T -> Int], NEW hours,
         hours = [x \in {h[t] : t \in T} |-> Cardinality({t \in T : h[t] = x})]
  PROVE  FoldFunction(+, 0, hours) = Cardinality(T)
  <1> DEFINE H == {h[t] : t \in T}
             In(s) == {t \in T : h[t] \in s}
             g == [s \in SUBSET H |-> Cardinality(In(s))]
  <1>1. DOMAIN hours = H
    OBVIOUS
  <1>2. IsFiniteSet(H)
    <2>1. h \in Surjection(T, H)
      BY DEF Surjection
    <2> HIDE DEF H
    <2>2. QED
      BY <2>1, FS_Surjection
  <1>3. \A s : IsFiniteSet(In(s)) /\ Cardinality(In(s)) \in Nat
    <2>1. \A s : In(s) \in SUBSET T
      OBVIOUS
    <2> HIDE DEF In
    <2>2. QED
      BY <2>1, FS_Subset, FS_CardinalityType
  <1>4. In({}) = {} /\ In(H) = T
    OBVIOUS
  <1>5. ASSUME NEW s \in SUBSET H, s # {}
        PROVE  g[s] = hours[CHOOSE y \in s : TRUE] + g[s \ {CHOOSE y \in s : TRUE}]
    <2> DEFINE x == CHOOSE y \in s : TRUE
    <2>1. x \in s
      BY <1>5
    <2> HIDE DEF x
    <2>2. hours[x] = Cardinality(In({x}))
      <3>1. {t \in T : h[t] = x} = In({x})
        OBVIOUS
      <3>2. x \in H
        BY <2>1
      <3> HIDE DEF In, H
      <3>3. QED
        BY <1>1, <3>1, <3>2 DEF H
    <2>3. In(s) = In({x}) \cup In(s \ {x}) /\ In({x}) \cap In(s \ {x}) = {}
      BY <2>1
    <2> HIDE DEF In
    <2>4. Cardinality(In(s)) = Cardinality(In({x})) + Cardinality(In(s \ {x}))
      <3>1. Cardinality(In({x}) \cap In(s \ {x})) = 0
        BY <2>3, FS_EmptySet
      <3>2. /\ IsFiniteSet(In({x})) /\ Cardinality(In({x})) \in Nat
            /\ IsFiniteSet(In(s \ {x})) /\ Cardinality(In(s \ {x})) \in Nat
        BY <1>3
      <3>3. Cardinality(In({x}) \cup In(s \ {x})) =
              Cardinality(In({x})) + Cardinality(In(s \ {x})) - Cardinality(In({x}) \cap In(s \ {x}))
        BY <3>2, FS_Union
      <3>4. Cardinality(In({x}) \cup In(s \ {x})) = Cardinality(In(s))
        BY <2>3, Zenon
      <3>5. QED
        BY <3>1, <3>2, <3>3, <3>4
    <2>5. g[s] = Cardinality(In(s)) /\ g[s \ {x}] = Cardinality(In(s \ {x}))
      OBVIOUS
    <2> HIDE DEF g
    <2>6. g[s] = hours[x] + g[s \ {x}]
      BY <2>2, <2>4, <2>5
    <2>7. QED
      BY <2>6 DEF x
  <1>6. g[{}] = 0
    BY <1>4, FS_EmptySet
  <1>7. g = HourStep(hours, g)
    <2>1. g = [s \in SUBSET H |-> g[s]]
      OBVIOUS
    <2> HIDE DEF g, H
    <2>2. QED
      BY <1>1, <1>5, <1>6, <2>1 DEF HourStep
  <1> DEFINE k == CHOOSE k : k = HourStep(hours, k)
  <1>8. k = HourStep(hours, k)
    <2> HIDE DEF g
    <2> QED BY <1>7
  <1> HIDE DEF k
  <1>9. g[H] = Cardinality(T)
    BY <1>4
  <1> HIDE DEF g, H, In
  <1>10. k[H] = g[H]
    <2>1. IsFiniteSet(DOMAIN hours) /\ H \in SUBSET DOMAIN hours
      BY <1>1, <1>2
    <2>2. \A s \in SUBSET DOMAIN hours : k[s] = g[s]
      BY <1>7, <1>8, <2>1, OneSolution
    <2>3. QED
      BY <2>1, <2>2
  <1>11. QED
    BY <1>1, <1>9, <1>10, SumIsSolution DEF k

\* Go's remainder, made positive, is the minute of the day.
LEMMA HourTyped ==
  ASSUME NEW d \in Int
  PROVE  HourOf(d) \in 0..23 /\ HourOf(d) = (d % 1440) \div 60
  <1> DEFINE g == GoRem(d, 1440)
             m == d % 1440
  <1>1. m \in 0..1439
    OBVIOUS
  <1>2. g + 1440 \in Nat /\ (g + 1440) % 1440 = m
    <2>1. CASE d >= 0
      <3>1. g = m
        BY <2>1 DEF GoRem
      <3> HIDE DEF g, m
      <3>2. QED
        BY <1>1, <3>1
    <2>2. CASE d < 0
      <3> DEFINE n == (0 - d) % 1440
      <3>1. n \in 0..1439 /\ g = 0 - n
        BY <2>2 DEF GoRem
      <3>2. IF n = 0 THEN m = 0 ELSE m = 1440 - n
        BY <2>2
      <3> HIDE DEF g, m, n
      <3>3. CASE n = 0
        BY <3>1, <3>2, <3>3
      <3>4. CASE n # 0
        BY <3>1, <3>2, <3>4
      <3>5. QED
        BY <3>3, <3>4
    <2>3. QED
      BY <2>1, <2>2
  <1>3. GoRem(g + 1440, 1440) = m
    <2> HIDE DEF g, m
    <2> QED BY <1>2 DEF GoRem
  <1>4. HourOf(d) = m \div 60
    BY <1>3 DEF HourOf
  <1> HIDE DEF m
  <1>5. m \div 60 \in 0..23
    BY <1>1
  <1>6. QED
    BY <1>4, <1>5 DEF m

LEMMA HoursOfDay ==
  ASSUME TableInv, NEW P \in DayPicks
  PROVE  /\ DOMAIN Hours(Facts(P)) \subseteq 0..23
         /\ \A t \in Ran(Facts(P)) : (Facts(P)[t].dep % 1440) \div 60 \in DOMAIN Hours(Facts(P))
         /\ FoldFunction(+, 0, Hours(Facts(P))) + Kpis(Facts(P)).cx = Kpis(Facts(P)).runs
  <1> DEFINE F == Facts(P)
             T == Ran(F)
             h == [t \in T |-> HourOf(F[t].dep)]
             D == DOMAIN F
  <1>1. /\ DOMAIN P = Trips /\ \A t \in Trips : P[t] \in Picks(t)
        /\ IsFiniteSet({t \in Trips : DOMAIN P[t] # {}})
    BY DayPicked
  <1>2. /\ D = {t \in Trips : Departures(P[t]) # {}}
        /\ \A t \in D : F[t] = DayTrip(P[t])
        /\ \A t \in D : t \in Trips /\ DOMAIN P[t] # {}
    BY DEF Facts, Departures
  <1>3. IsFiniteSet(D)
    <2>1. D \in SUBSET {t \in Trips : DOMAIN P[t] # {}}
      BY <1>2
    <2> HIDE DEF D
    <2>2. QED
      BY <1>1, <2>1, FS_Subset
  <1>4. T \in SUBSET D
    BY DEF Ran
  <1>5. \A t \in D : HourOf(F[t].dep) \in 0..23 /\ HourOf(F[t].dep) = (F[t].dep % 1440) \div 60
    <2>1. \A t \in D : Departures(P[t]) # {}
      BY <1>2
    <2> HIDE DEF D, F
    <2>2. \A t \in D : DayTrip(P[t]).dep \in Int
      BY <1>1, <1>2, <2>1, DelaysTyped
    <2>3. \A t \in D : F[t].dep \in Int
      BY <1>2, <2>2
    <2>4. QED
      BY <2>3, HourTyped
  <1> HIDE DEF D
  <1>6. h \in [T -> Int] /\ \A t \in T : h[t] = HourOf(F[t].dep)
    <2> HIDE DEF T, F
    <2> QED BY <1>4, <1>5
  <1>7. Hours(F) = [x \in {h[t] : t \in T} |-> Cardinality({t \in T : h[t] = x})]
    <2>1. {HourOf(F[t].dep) : t \in T} = {h[t] : t \in T}
      BY <1>6
    <2>2. \A x : {t \in T : HourOf(F[t].dep) = x} = {t \in T : h[t] = x}
      BY <1>6
    <2>3. Hours(F) = [x \in {HourOf(F[t].dep) : t \in T} |->
                        Cardinality({t \in T : HourOf(F[t].dep) = x})]
      BY DEF Hours
    <2> HIDE DEF h, T, F
    <2>4. QED
      BY <2>1, <2>2, <2>3
  <1>8. DOMAIN Hours(F) \subseteq 0..23
    <2>1. DOMAIN Hours(F) = {h[t] : t \in T}
      BY <1>7
    <2> HIDE DEF h, T, F
    <2>2. QED
      BY <1>4, <1>5, <1>6, <2>1
  <1>9. IsFiniteSet(T)
    <2> HIDE DEF T
    <2> QED BY <1>3, <1>4, FS_Subset
  <1>10. FoldFunction(+, 0, Hours(F)) = Cardinality(T)
    <2> HIDE DEF h, T, F
    <2> QED BY <1>6, <1>7, <1>9, CountedOnce
  <1>11. Kpis(F).cx = Cardinality(D \ T) /\ Kpis(F).runs = Cardinality(D)
    BY DEF Kpis, D
  <1>12. Cardinality(T) + Cardinality(D \ T) = Cardinality(D)
    <2> HIDE DEF T
    <2>1. D \cap T = T
      BY <1>4
    <2>2. Cardinality(D \ T) = Cardinality(D) - Cardinality(D \cap T)
      BY <1>3, FS_Difference
    <2>3. Cardinality(D) \in Nat /\ Cardinality(T) \in Nat
      BY <1>3, <1>9, FS_CardinalityType
    <2>4. Cardinality(D \cap T) = Cardinality(T)
      BY <2>1, Zenon
    <2>5. QED
      BY <2>2, <2>3, <2>4
  <1>13. \A t \in T : (F[t].dep % 1440) \div 60 \in DOMAIN Hours(F)
    <2>1. DOMAIN Hours(F) = {h[t] : t \in T}
      BY <1>7
    <2>2. \A t \in T : t \in D /\ h[t] = HourOf(F[t].dep)
      BY <1>4, <1>6
    <2> HIDE DEF h, T, F
    <2>3. \A t \in T : HourOf(F[t].dep) \in DOMAIN Hours(F)
      BY <2>1, <2>2
    <2>4. QED
      BY <1>5, <2>2, <2>3
  <1> HIDE DEF T, F
  <1>14. QED
    BY <1>8, <1>10, <1>11, <1>12, <1>13 DEF F, T

\* The hours are those of the clock, also before the day's midnight, and the
\* trips of the day are in its hours, or cancelled (computeDay).
THEOREM ViewsHoursAddUp == Spec => []HoursAddUp
  <1>1. TableInv => HoursAddUp
    BY HoursOfDay DEF HoursAddUp
  <1>2. QED
    BY <1>1, ViewsTable, PTL

================================================================================
