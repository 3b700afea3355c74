--------------------------------- MODULE Views ---------------------------------
(***************************************************************************)
(* The views cmd/api's data UI builds from stop_events: the board of a      *)
(* station at a point of the day, the journey of a trip, the runs of a line *)
(* and the trips of a day.                                                  *)
(*                                                                         *)
(* The state is the table alone.  It changes as the worker changes it: a    *)
(* task's snapshot passes the dedup and is added -- tasks may be slow, so   *)
(* snapshots of any scrape are committed in any order -- and the backfill   *)
(* fills scheduled fields.  The views are functions of the table.           *)
(*                                                                         *)
(* Times are minutes from the day's midnight.  The trips are those whose id *)
(* carries the day's date, the queries' "Fahrtag" condition.                *)
(***************************************************************************)
EXTENDS Integers, FiniteSets

CONSTANTS
  Trips,
  Stops,      \* indexes of a trip's stops, each at a station of its own
  Events,     \* <<direction, stop>>: what a trip has at its stops
  Schedule,   \* [Keys -> minute]
  Reports,    \* what IRIS and the plan cache may say of a key when it is scraped
  PlanKeys,   \* keys whose plan hour is fetched after rows of theirs
  Scrapes,    \* times of the scrapes
  Ats,        \* times a board is asked for
  Back,       \* minutes a board shows before its time (150)
  Ahead,      \* ... and after it (240)
  DayEnd,     \* the day's last midnight (1440)
  RouteLength,\* [routes -> number of places on the way]
  None,       \* no time
  MaxRows     \* bound: rows in the table

Directions == {"arrival", "departure"}
Keys == {<<e[1], t, e[2]>> : e \in Events, t \in Trips}
Sources == {"", "plan", "chg"}

ASSUME ViewsAssumption ==
  /\ Stops \subseteq Nat /\ IsFiniteSet(Stops) /\ Events \subseteq Directions \X Stops
  /\ Schedule \in [Keys -> Int]
  /\ PlanKeys \subseteq Keys
  /\ Scrapes \subseteq Int /\ Ats \subseteq Int
  /\ Reports \subseteq [delay : Int \cup {None}, cancelled : BOOLEAN, sched : BOOLEAN,
                        cat : BOOLEAN, platform : Sources, route : Sources]
  /\ \A e \in Reports : e.sched \/ e.delay # None
  /\ Back \in Nat /\ Ahead \in Nat /\ DayEnd \in Nat /\ MaxRows \in Nat
  /\ RouteLength \in [Sources -> Nat] /\ RouteLength[""] = 0
  /\ None \notin Int

VARIABLE rows   \* stop_events

DirOf(r) == r.key[1]
TripOf(r) == r.key[2]
StopOf(r) == r.key[3]

------------------------------------------------------------------------------
(* The writer *)

\* Mutant: the communicated time does not stand in for an unknown schedule.
RowOfMutant(k, e, at) ==
  [key |-> k, scraped |-> at,
   actual |-> IF e.delay = None THEN None ELSE Schedule[k] + e.delay,
   planned |-> IF e.sched THEN Schedule[k] ELSE None,
   pp |-> IF e.sched THEN "plan" ELSE "",
   platform |-> e.platform, route |-> e.route, cancelled |-> e.cancelled, cat |-> e.cat]
\* irisEventToStopEvent: the communicated time stands in for an unknown
\* schedule; a row without <tl> and label has no category.
RowOf(k, e, at) ==
  LET ct == IF e.delay = None THEN None ELSE Schedule[k] + e.delay
  IN [key |-> k, scraped |-> at, actual |-> ct,
      planned |-> IF e.sched THEN Schedule[k] ELSE ct,
      pp |-> IF e.sched THEN "plan" ELSE "",
      platform |-> e.platform, route |-> e.route, cancelled |-> e.cancelled, cat |-> e.cat]

Earliest(rs) == CHOOSE r \in rs : \A q \in rs : r.scraped <= q.scraped
Newest(rs) == CHOOSE r \in rs : \A q \in rs : q.scraped <= r.scraped
Of(k) == {r \in rows : r.key = k}
Observable(r) == <<r.actual, r.platform, r.route, r.cancelled>>

\* PersistStopEvent
Insert(k, e, at) ==
  /\ Cardinality(rows) < MaxRows
  /\ \A r \in Of(k) : r.scraped # at
  /\ Of(k) # {} => Observable(Newest(Of(k))) # Observable(RowOf(k, e, at))
  /\ rows' = rows \cup {RowOf(k, e, at)}

\* BackfillPlanned, statement by statement, as far as the views here read what
\* it fills: its fourth statement fills direction_name, which they do not.
Pin(k) == rows' = {[r EXCEPT !.planned = IF r.key = k THEN Schedule[k] ELSE @] : r \in rows}
FillPlatform(k) == rows' = {[r EXCEPT !.pp = IF r.key = k /\ @ = "" THEN "plan" ELSE @] : r \in rows}
FillRoute(k) == rows' = {[r EXCEPT !.route = IF r.key = k /\ @ = "" THEN "plan" ELSE @] : r \in rows}

Init == rows = {}
Next == \E k \in Keys :
  \/ \E e \in Reports, at \in Scrapes : Insert(k, e, at)
  \/ k \in PlanKeys /\ (Pin(k) \/ FillPlatform(k) \/ FillRoute(k))
Spec == Init /\ [][Next]_rows

------------------------------------------------------------------------------
(* Board *)

DelayOf(r) == r.actual - r.planned
InWindow(r, at) == at - Back <= r.planned /\ r.planned <= at + Ahead

\* The departure's snapshots in the planned window that were known at the time.
Known(t, s, at) ==
  {r \in rows : r.key = <<"departure", t, s>> /\ InWindow(r, at) /\ r.scraped <= at}

\* DISTINCT ON: rows with a category first, then the latest.
Best(rs) == CHOOSE r \in rs : \A q \in rs :
  (r.cat /\ ~q.cat) \/ (r.cat = q.cat /\ q.scraped <= r.scraped)

\* The lateral join: the route-bearing snapshots of either direction ...
Routes(t, s, at) ==
  {r \in rows : TripOf(r) = t /\ StopOf(r) = s /\ r.scraped <= at /\ r.route # ""}
\* ... of which the longest route wins, and the latest of those; where the
\* latest are of both directions, either.
BestRoutes(rs) ==
  {r.route : r \in {r \in rs : \A q \in rs :
     \/ RouteLength[q.route] < RouteLength[r.route]
     \/ RouteLength[q.route] = RouteLength[r.route] /\ q.scraped <= r.scraped}}

PlatChanged(r) == r.platform # "" /\ r.pp # "" /\ r.platform # r.pp

\* A row of buildBoard.
BoardRow(t, s, at) ==
  LET r == Best(Known(t, s, at))
  IN [planned |-> r.planned, cancelled |-> r.cancelled,
      delay |-> IF r.actual = None THEN None ELSE DelayOf(r),
      known |-> r.actual # None \/ r.cancelled,
      ist |-> r.actual # None /\ r.actual <= r.scraped,
      plat |-> r.platform, platChanged |-> PlatChanged(r),
      dest |-> BestRoutes(Routes(t, s, at))]

------------------------------------------------------------------------------
(* Journey *)

\* The rows a stop of the journey is built from: departures, or arrivals where
\* there is no departure.
JourneyRows(t, s) ==
  IF Of(<<"departure", t, s>>) # {} THEN Of(<<"departure", t, s>>) ELSE Of(<<"arrival", t, s>>)
JourneyStops(t) == {s \in Stops : JourneyRows(t, s) # {}}

\* A snapshot's platform: the planned one where it names none.
SnapPlat(r) == IF r.platform = "" THEN r.pp ELSE r.platform

\* Mutant: the delay of the first snapshot that has one.
FinalDelayMutant(rs) ==
  LET timed == {r \in rs : r.actual # None} IN IF timed = {} THEN 0 ELSE DelayOf(Earliest(timed))
FinalDelay(rs) ==
  LET timed == {r \in rs : r.actual # None} IN IF timed = {} THEN 0 ELSE DelayOf(Newest(timed))

\* buildStop
JourneyStop(t, s) ==
  LET rs == JourneyRows(t, s)
      first == Earliest(rs)
      from == IF first.pp = "" THEN first.platform ELSE first.pp
      to == SnapPlat(Newest(rs))
  IN [planned |-> first.planned, finalD |-> FinalDelay(rs),
      actual |-> first.planned + FinalDelay(rs),
      cancelled |-> Newest(rs).cancelled,
      platFrom |-> from, platTo |-> IF to = "" THEN from ELSE to]

\* allCancelled
JourneyCancelled(t) ==
  JourneyStops(t) # {} /\ \A s \in JourneyStops(t) : JourneyStop(t, s).cancelled

------------------------------------------------------------------------------
(* Line and day *)

\* What both queries look at: the day's snapshots that have a category.
OfDay(r) == r.cat /\ 0 <= r.scraped /\ r.scraped < DayEnd

\* The latest of a stop's snapshots in either direction: two, if its arrival
\* and its departure were scraped together.
Latest(t, s) ==
  LET rs == {r \in rows : TripOf(r) = t /\ StopOf(r) = s /\ OfDay(r)}
  IN {r \in rs : \A q \in rs : q.scraped <= r.scraped}

\* The stops of a trip as the database may pick them.
Picks(t) ==
  LET seen == {s \in Stops : Latest(t, s) # {}}
  IN {p \in [seen -> rows] : \A s \in seen : p[s] \in Latest(t, s)}

FirstStop(S) == CHOOSE s \in S : \A u \in S : s <= u
LastStop(S) == CHOOSE s \in S : \A u \in S : u <= s

\* Mutant: the stops are gone through from the first.
LineDelayMutant(p) ==
  LET late == {s \in DOMAIN p : p[s].actual # None /\ DelayOf(p[s]) > 0}
  IN IF late = {} THEN 0 ELSE DelayOf(p[FirstStop(late)])
\* buildLine's final delay: of the last stop that is late.
LineDelay(p) ==
  LET late == {s \in DOMAIN p : p[s].actual # None /\ DelayOf(p[s]) > 0}
  IN IF late = {} THEN 0 ELSE DelayOf(p[LastStop(late)])
LineCancelled(p) == p[LastStop(DOMAIN p)].cancelled

\* computeDay's "first": stops whose latest snapshot is a departure.  A trip
\* without one is not counted.
Departures(p) == {s \in DOMAIN p : DirOf(p[s]) = "departure"}
\* The delay of a trip's last stop: none counts as zero.
EndDelay(r) == IF r.actual = None THEN 0 ELSE DelayOf(r)

\* Mutant: a trip that ends early is cancelled, one cancelled as a whole is not.
DayTripMutant(p) ==
  LET first == p[FirstStop(Departures(p))]
      last == p[LastStop(DOMAIN p)]
  IN [dep |-> first.planned, delay |-> EndDelay(last),
      cancelled |-> first.cancelled /\ ~last.cancelled]
DayTrip(p) ==
  LET first == p[FirstStop(Departures(p))]
      last == p[LastStop(DOMAIN p)]
  IN [dep |-> first.planned, delay |-> EndDelay(last),
      cancelled |-> first.cancelled /\ last.cancelled]

------------------------------------------------------------------------------
(* Properties *)

Rows == [key : Keys, scraped : Scrapes, actual : Int \cup {None}, planned : Int,
         pp : Sources, platform : Sources, route : Sources, cancelled : BOOLEAN, cat : BOOLEAN]
TypeOK == rows \subseteq Rows

\* Once the schedule is on all of a departure's rows, the board and the
\* journey tell the same: whether it is cancelled, when it leaves and that its
\* platform changed -- if the latest snapshot has a category.
JourneyAgrees == \A t \in Trips, s \in Stops, at \in Ats :
  LET rs == Of(<<"departure", t, s>>)
      board == BoardRow(t, s, at)
      stop == JourneyStop(t, s)
  IN (/\ rs # {} /\ \A r \in rs : r.planned = Schedule[r.key] /\ r.pp = "plan"
      /\ Known(t, s, at) = rs /\ Newest(rs).cat)
     => /\ board.cancelled = stop.cancelled
        /\ board.delay # None => board.planned + board.delay = stop.actual
        /\ board.platChanged => stop.platFrom # stop.platTo

\* Journey, line and day agree on a cancellation, and on one taken back: where
\* the latest snapshots of a trip's arrivals and departures all say the same --
\* and are the day's, and have a category --, all three views say it, whichever
\* of an arrival and a departure their queries pick.  (A trip cancelled in part
\* is told by each view in its own way.)
CancellationAgrees == \A t \in Trips, c \in BOOLEAN :
  LET seen == {k \in Keys : k[2] = t /\ Of(k) # {}}
  IN (/\ seen # {}
      /\ \A k \in seen : OfDay(Newest(Of(k))) /\ Newest(Of(k)).cancelled = c)
     => /\ JourneyCancelled(t) = c
        /\ \A p \in Picks(t) :
             LineCancelled(p) = c /\ (Departures(p) # {} => DayTrip(p).cancelled = c)

\* A line's run is never shown better than the same trip in the day's list: not
\* less late, not as running where the list has it cancelled.  The two queries
\* run apart and may pick differently where a stop's arrival and departure are
\* of one scrape; these must tell the same only at the last stop.
LineNeverBetter == \A t \in Trips : \A p, q \in Picks(t) :
  (/\ Departures(q) # {}
   /\ \A r, u \in Latest(t, LastStop(DOMAIN q)) :
        EndDelay(r) = EndDelay(u) /\ r.cancelled = u.cancelled)
  => LineDelay(p) >= DayTrip(q).delay /\ (DayTrip(q).cancelled => LineCancelled(p))

\* handleBoard's comment: "pro Halt der letzte Stand <= Wissensstand".
LastWordShown == \A t \in Trips, s \in Stops, at \in Ats :
  LET rs == Known(t, s, at) IN rs # {} => BoardRow(t, s, at).cancelled = Newest(rs).cancelled
================================================================================

