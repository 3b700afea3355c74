------------------------------ MODULE EventStore ------------------------------
(***************************************************************************)
(* What the stop_events table promises its readers (the dataset export, the *)
(* API): a log of snapshots.  Snapshots are only ever added, one per key    *)
(* and scrape; what IRIS communicated in one is never rewritten; and of the *)
(* scheduled reference fields, planned_time may be pinned to the schedule   *)
(* and an empty planned platform, route or end point may be filled from the *)
(* plan, each by a statement of its own.                                    *)
(***************************************************************************)
EXTENDS Integers

CONSTANTS
  Keys,      \* the (direction, stop_id) pairs of one station
  Schedule   \* [Keys -> time]: the time the plan document schedules

VARIABLE rows

TypeOK == \A r \in rows : r.key \in Keys

Init == rows = {}

\* A transaction adds snapshots under fresh (key, scraped_at) pairs.
Insert ==
  /\ rows \subseteq rows'
  /\ \A r, s \in rows' : r.key = s.key /\ r.scraped = s.scraped => r = s

Pin(K) ==
  rows' = {[r EXCEPT !.planned = IF r.key \in K THEN Schedule[r.key] ELSE @] : r \in rows}

FillPlatform(K) ==
  rows' = {[r EXCEPT !.pp = IF r.key \in K /\ @ = "" THEN "plan" ELSE @] : r \in rows}

FillRoute(K) ==
  rows' = {[r EXCEPT !.route = IF r.key \in K /\ @ = "" THEN "plan" ELSE @] : r \in rows}

FillEndpoint(K) ==
  rows' = {[r EXCEPT !.endpoint = IF r.key \in K /\ @ = "" THEN "plan" ELSE @] : r \in rows}

Next ==
  \/ Insert
  \/ \E K \in SUBSET Keys : Pin(K) \/ FillPlatform(K) \/ FillRoute(K) \/ FillEndpoint(K)

Spec == Init /\ [][Next]_rows

\* The same snapshot, with nothing but its schedule brought up to date.
SameSnapshot(r, q) ==
  /\ q = [r EXCEPT !.planned = q.planned, !.pp = q.pp, !.route = q.route, !.endpoint = q.endpoint]
  /\ q.planned \in {r.planned, Schedule[r.key]}
  /\ r.pp # "" => q.pp = r.pp
  /\ r.route # "" => q.route = r.route
  /\ r.endpoint # "" => q.endpoint = r.endpoint

\* No snapshot is lost, and of none anything changes but a time that was a
\* guess and a platform, route or end point that was not known.
SnapshotsStay == [][\A r \in rows : \E q \in rows' : SameSnapshot(r, q)]_rows
==============================================================================
