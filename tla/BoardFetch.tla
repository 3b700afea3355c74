------------------------------ MODULE BoardFetch ------------------------------
(***************************************************************************)
(* The board:fetch tasks of one station: cmd/worker's handler with the      *)
(* IRIS fetch, the plan cache, the merge, the two direction batches, the    *)
(* backfill of scheduled fields and the discovery of station names.         *)
(*                                                                         *)
(* Several tasks of one station may run at once (a backlog after an outage, *)
(* the seeder, a catch-up slot, a retry beside the next cycle).  Every      *)
(* request, transaction and statement is a step of its own: IRIS changes,   *)
(* the hour turns and other tasks move in between; each step may fail, and  *)
(* the worker process may be killed and restarted.                          *)
(*                                                                         *)
(* An IRIS event is abstracted to its communicated time ct and one flag chg *)
(* for any other communicated change (platform, path, end point,            *)
(* cancellation).  A row keeps apart the fields the code treats apart:      *)
(* planned time, planned platform (pp), platform, route (via_path), end     *)
(* point (direction_name) and the communicated time.                        *)
(***************************************************************************)
EXTENDS Integers, FiniteSets

CONSTANTS
  Tasks,        \* board:fetch tasks enqueued for the station
  Arrivals,     \* keys of the arrival batch
  Departures,   \* keys of the departure batch
  Schedule,     \* [Keys -> time]: pt of each key's event in its plan document
  PlanHour,     \* [Keys -> hour]: the plan document the event is in
  Changes,      \* [Keys -> set of the fchg events IRIS may show: [ct, chg, pt]]
  Hours,        \* 1..n, the hours that pass
  UnknownRoutes,\* routes, "plan" or "chg", that name a place without a stations row
  None,         \* no time / no event
  MaxTries,     \* bound: attempts of a task (asynq MaxRetry, plus one)
  MaxUpdates,   \* bound: changes of the fchg document
  MaxFailures   \* bound: failed steps and worker crashes

Keys == Arrivals \cup Departures

ASSUME BoardAssumption ==
  /\ Arrivals \cap Departures = {}
  /\ Schedule \in [Keys -> Int]
  /\ PlanHour \in [Keys -> Hours]
  /\ Hours \subseteq Nat /\ 1 \in Hours
  /\ None \notin Int
  /\ DOMAIN Changes = Keys
  /\ \A k \in Keys : \A c \in Changes[k] :
       c # None /\ c.ct \in Int \cup {None} /\ c.chg \in BOOLEAN /\ c.pt \in BOOLEAN
  /\ UnknownRoutes \subseteq {"plan", "chg"}
  /\ MaxTries \in Nat \ {0} /\ MaxUpdates \in Nat /\ MaxFailures \in Nat

VARIABLES
  fchg,       \* IRIS: the live document, each key's event or None
  updates,    \* IRIS: how often it changed
  hour,       \* Berlin wall-clock hour
  now,        \* clock the scrapes are stamped with
  planCache,  \* worker: the hours whose plan document is cached
  janitors,   \* worker: hours passed to janitor goroutines not yet run
  job,        \* worker and queue: the state of each task
  rows,       \* database: stop_events of the station
  noIris,     \* database: stations.no_iris
  pending,    \* database: pending_stations, as the routes they come from
  failures,   \* failed steps and crashes so far
  overlap,    \* history: two attempts were once in flight together
  crossed,    \* history: an attempt was in flight when an hour turned
  seen        \* history: the last event a transaction committed, per key

vars == <<fchg, updates, hour, now, planCache, janitors, job, rows, noIris,
          pending, failures, overlap, crossed, seen>>

iris == <<fchg, updates, hour, crossed>>
cache == <<planCache, janitors>>
db == <<rows, noIris, pending, seen>>

------------------------------------------------------------------------------
(* Documents, events and rows *)

Boards == {f \in [Keys -> (UNION {Changes[k] : k \in Keys}) \cup {None}] :
             \A k \in Keys : f[k] \in Changes[k] \cup {None}}
NoBoard == [k \in Keys |-> None]
InPlan(h) == {k \in Keys : PlanHour[k] = h}

\* An event is emitted for a key that is in either document, unless neither
\* document gives it a time.
Emitted(f, plan) ==
  {k \in Keys : k \in plan \/ (f[k] # None /\ (f[k].ct # None \/ f[k].pt))}

\* Mutant: an unknown schedule is not replaced by the communicated time.
PlannedTimeMutant(k, f, plan) == IF k \in plan \/ f[k].pt THEN Schedule[k] ELSE None
PlannedTime(k, f, plan) == IF k \in plan \/ f[k].pt THEN Schedule[k] ELSE f[k].ct

\* mergeEvent and irisEventToStopEvent: communicated beats planned, and the
\* communicated time stands in for an unknown schedule.
EventOf(k, f, plan, at) ==
  LET ct == IF f[k] = None THEN None ELSE f[k].ct
      chg == f[k] # None /\ f[k].chg
      sched == k \in plan \/ f[k].pt
      attr == IF sched THEN "plan" ELSE ""
  IN [key |-> k, scraped |-> at, actual |-> ct,
      planned |-> PlannedTime(k, f, plan),
      pp |-> attr,
      platform |-> IF chg THEN "chg" ELSE attr,
      route |-> IF chg THEN "chg" ELSE attr,
      endpoint |-> IF chg THEN "chg" ELSE attr]

RowsOf(rs, k) == {r \in rs : r.key = k}
Latest(rs, k) == CHOOSE r \in RowsOf(rs, k) : \A s \in RowsOf(rs, k) : s.scraped <= r.scraped

\* Mutant: the communicated time is not looked at.
ObservableMutant(r) == <<r.platform, r.route, r.endpoint>>
\* The columns the dedup compares.
Observable(r) == <<r.actual, r.platform, r.route, r.endpoint>>
\* Those of them no backfill ever fills.
Communicated(r) == <<r.actual, r.platform>>

\* The dedup: the latest snapshot by scraped_at shows the same.
IsUnchanged(rs, ev) ==
  RowsOf(rs, ev.key) # {} /\ Observable(Latest(rs, ev.key)) = Observable(ev)

\* Mutant: the columns are compared with = instead of IS NOT DISTINCT FROM,
\* so that an unknown time never equals an unknown time.
ChangedMutant(batch) == {ev \in batch : ev.actual = None \/ ~IsUnchanged(rows, ev)}
\* What the dedup lets through.
Changed(batch) == {ev \in batch : ~IsUnchanged(rows, ev)}

------------------------------------------------------------------------------
(* Attempts *)

\* An attempt at pc without locals: they are reset once nothing reads them.
Blank(pc, tries) ==
  [pc |-> pc, tries |-> tries, at |-> 0, fchg |-> NoBoard, hour |-> 1,
   plan |-> {}, fresh |-> FALSE, insert |-> {}, names |-> {}]

InFlight(t) == job[t].pc \notin {"queued", "done", "archived"}
Quiet == \A t \in Tasks : ~InFlight(t)

\* One direction's batch, as the handler splits the emitted events.
Batch(j, dir) == {EventOf(k, j.fchg, j.plan, j.at) : k \in Emitted(j.fchg, j.plan) \cap dir}

\* The attempt ends: its locals are gone.
End(t, pc, tries) == job' = [job EXCEPT ![t] = Blank(pc, tries)]

\* An error returned to asynq: the whole task runs again later, or is
\* archived when its retries are used up.
Retried(j) ==
  Blank(IF j.tries + 1 < MaxTries THEN "queued" ELSE "archived", j.tries + 1)

\* Where the handler goes on: empty batches, a cached plan or an empty
\* baseline, and an empty list of new names are passed over.
AfterBackfill(j) == IF j.names # {} THEN "record" ELSE "done"
AfterDepartures(j) == IF j.fresh /\ j.plan # {} THEN "pin" ELSE AfterBackfill(j)
AfterArrivals(j) == IF Batch(j, Departures) # {} THEN "departures" ELSE AfterDepartures(j)
AfterFetch(j) ==
  IF Emitted(j.fchg, j.plan) = {} THEN "count"
  ELSE IF Batch(j, Arrivals) # {} THEN "arrivals" ELSE "departures"

\* Go on at pc with locals j; past the batches the documents are not read.
Proceed(t, j, pc) ==
  IF pc = "done" THEN End(t, pc, j.tries)
  ELSE job' = [job EXCEPT ![t] =
    IF pc \in {"pin", "record"}
      THEN [j EXCEPT !.pc = pc, !.fchg = NoBoard, !.insert = {}, !.at = 0]
      ELSE [j EXCEPT !.pc = pc, !.insert = {}]]

Fails == failures < MaxFailures /\ failures' = failures + 1

Events ==
  [key : Keys, scraped : Nat, actual : Int \cup {None}, planned : Int,
   pp : {"", "plan"}, platform : {"", "plan", "chg"}, route : {"", "plan", "chg"},
   endpoint : {"", "plan", "chg"}]

Attempts ==
  [pc : {"queued", "fchg", "plan", "count", "mark", "arrivals", "commitArrivals",
         "departures", "commitDepartures", "pin", "fillPlatform", "fillRoute",
         "fillEndpoint", "record", "done", "archived"},
   tries : 0..MaxTries, at : Nat, fchg : Boards, hour : Hours, plan : SUBSET Keys,
   fresh : BOOLEAN, insert : SUBSET Events, names : SUBSET UnknownRoutes]

TypeOK ==
  /\ fchg \in Boards /\ updates \in 0..MaxUpdates
  /\ hour \in Hours /\ now \in Nat
  /\ planCache \subseteq Hours /\ janitors \subseteq Hours
  /\ job \in [Tasks -> Attempts]
  /\ \A t \in Tasks : job[t].at <= now /\ \A r \in job[t].insert : r.scraped = job[t].at
  /\ rows \subseteq Events /\ \A r \in rows : r.scraped <= now
  /\ noIris \in BOOLEAN /\ overlap \in BOOLEAN /\ crossed \in BOOLEAN
  /\ pending \subseteq UnknownRoutes
  /\ failures \in 0..MaxFailures
  /\ seen \in [Keys -> {None} \cup ((Int \cup {None}) \X {"", "plan", "chg"})]

Init ==
  /\ fchg \in Boards
  /\ updates = 0 /\ hour = 1 /\ now = 0
  /\ planCache = {} /\ janitors = {}
  /\ job = [t \in Tasks |-> Blank("queued", 0)]
  /\ rows = {} /\ noIris = FALSE /\ pending = {}
  /\ failures = 0 /\ overlap = FALSE /\ crossed = FALSE
  /\ seen = [k \in Keys |-> None]

------------------------------------------------------------------------------
(* The environment *)

IrisChanges ==
  /\ updates < MaxUpdates
  /\ updates' = updates + 1
  /\ \E k \in Keys : \E c \in Changes[k] \cup {None} : fchg' = [fchg EXCEPT ![k] = c]
  /\ UNCHANGED <<hour, crossed, now, cache, job, db, failures, overlap>>

HourTurns ==
  /\ hour + 1 \in Hours
  /\ hour' = hour + 1
  /\ crossed' = (crossed \/ ~Quiet)
  /\ UNCHANGED <<fchg, updates, now, cache, job, db, failures, overlap>>

\* The worker process dies: its cache and every attempt in flight are lost,
\* and asynq's recoverer hands the tasks out again.
Crash ==
  /\ Fails
  /\ planCache' = {} /\ janitors' = {}
  /\ job' = [t \in Tasks |-> IF InFlight(t) THEN Retried(job[t]) ELSE job[t]]
  /\ UNCHANGED <<iris, now, db, overlap>>

------------------------------------------------------------------------------
(* The fetch *)

\* scrapedAt is taken before the limiter and the request; two tasks may read
\* the same clock.
Start(t) ==
  /\ job[t].pc = "queued"
  /\ \/ now' = now + 1
     \/ now' = now /\ \E u \in Tasks : InFlight(u) /\ job[u].at = now
  /\ job' = [job EXCEPT ![t].pc = "fchg", ![t].at = now']
  /\ overlap' = (overlap \/ ~Quiet)
  /\ UNCHANGED <<iris, cache, db, failures>>

\* /fchg answers, and the current hour's plan is looked up in the cache.
BoardArrives(t) ==
  /\ job[t].pc = "fchg"
  /\ LET j == [job[t] EXCEPT !.fchg = fchg]
         hit == [j EXCEPT !.plan = InPlan(hour)]
     IN IF hour \in planCache
        THEN Proceed(t, hit, AfterFetch(hit))
        ELSE job' = [job EXCEPT ![t] = [j EXCEPT !.pc = "plan", !.hour = hour]]
  /\ UNCHANGED <<iris, now, cache, db, failures, overlap>>

\* The plan document is fetched and cached; in the minutes divisible by 15 a
\* janitor is started for that hour (in the others: one that never runs).
PlanArrives(t) ==
  /\ job[t].pc = "plan"
  /\ planCache' = planCache \cup {job[t].hour}
  /\ janitors' = janitors \cup {job[t].hour}
  /\ LET j == [job[t] EXCEPT !.plan = InPlan(job[t].hour), !.fresh = TRUE, !.hour = 1]
     IN Proceed(t, j, AfterFetch(j))
  /\ UNCHANGED <<iris, now, db, failures, overlap>>

\* An error of the plan request is dropped: the board goes on without a plan.
PlanFails(t) ==
  /\ job[t].pc = "plan"
  /\ Fails
  /\ LET j == [job[t] EXCEPT !.hour = 1] IN Proceed(t, j, AfterFetch(j))
  /\ UNCHANGED <<iris, now, cache, db, overlap>>

\* The janitor keeps the hour it was started for, whatever the hour is now.
Janitor(h) ==
  /\ h \in janitors
  /\ janitors' = janitors \ {h}
  /\ planCache' = planCache \cap {h}
  /\ UNCHANGED <<iris, now, job, db, failures, overlap>>

\* The limiter's context, the network, a status other than 200 or 400, or a
\* database error before a commit: nothing of this step is kept.
AttemptFails(t) ==
  /\ job[t].pc \in {"fchg", "arrivals", "commitArrivals", "departures", "commitDepartures"}
  /\ Fails
  /\ job' = [job EXCEPT ![t] = Retried(job[t])]
  /\ UNCHANGED <<iris, now, cache, db, overlap>>

\* Status 400: IRIS does not serve this station; marking it may fail.
Unserved(t) ==
  /\ job[t].pc = "fchg"
  /\ Fails
  /\ noIris' \in {noIris, TRUE}
  /\ End(t, "archived", job[t].tries)
  /\ UNCHANGED <<iris, now, cache, rows, pending, seen, overlap>>

------------------------------------------------------------------------------
(* The empty board *)

CountPrior(t) ==
  /\ job[t].pc = "count"
  /\ End(t, IF rows = {} THEN "mark" ELSE "done", job[t].tries)
  /\ UNCHANGED <<iris, now, cache, db, failures, overlap>>

\* The count fails: the station is left unmarked.
CountFails(t) ==
  /\ job[t].pc = "count"
  /\ Fails
  /\ End(t, "done", job[t].tries)
  /\ UNCHANGED <<iris, now, cache, db, overlap>>

MarkEmpty(t) ==
  /\ job[t].pc = "mark"
  /\ \/ noIris' = TRUE /\ UNCHANGED failures
     \/ Fails /\ UNCHANGED noIris
  /\ End(t, "done", job[t].tries)
  /\ UNCHANGED <<iris, now, cache, rows, pending, seen, overlap>>

------------------------------------------------------------------------------
(* The two batches: PersistStopEvent *)

\* Inside the transaction: what the dedup lets through and which names are
\* neither stations nor pending, both judged on committed data.  The upsert of
\* the scrape_runs row locks it against another scrape of the same second.
Judge(t, dir, from, to) ==
  /\ job[t].pc = from
  /\ \A u \in Tasks : ~(job[u].pc = to /\ job[u].at = job[t].at)
  /\ LET batch == Batch(job[t], dir)
     IN job' = [job EXCEPT
          ![t].pc = to,
          ![t].insert = Changed(batch),
          ![t].names = @ \cup ({ev.route : ev \in batch} \cap (UnknownRoutes \ pending))]
  /\ UNCHANGED <<iris, now, cache, db, failures, overlap>>

\* ON CONFLICT (station_eva, direction, stop_id, scraped_at) DO NOTHING.
Added(new) ==
  rows \cup {ev \in new : \A r \in rows : r.key = ev.key => r.scraped # ev.scraped}

Write(t, dir, from) ==
  /\ job[t].pc = from
  /\ rows' = Added(job[t].insert)
  /\ seen' = [k \in Keys |->
       LET evs == {ev \in Batch(job[t], dir) : ev.key = k}
       IN IF evs = {} THEN seen[k] ELSE Communicated(CHOOSE ev \in evs : TRUE)]
  /\ UNCHANGED <<iris, now, cache, noIris, pending, overlap>>

Commit(t, dir, from, next) ==
  /\ Write(t, dir, from)
  /\ Proceed(t, job[t], next)
  /\ UNCHANGED failures

\* The transaction is committed and its answer lost: to the handler it failed,
\* and the whole task is tried again on top of what is committed.
Unanswered(t, dir, from) ==
  /\ Write(t, dir, from)
  /\ Fails
  /\ job' = [job EXCEPT ![t] = Retried(job[t])]

JudgeArrivals(t) == Judge(t, Arrivals, "arrivals", "commitArrivals")
CommitArrivals(t) == Commit(t, Arrivals, "commitArrivals", AfterArrivals(job[t]))
JudgeDepartures(t) == Judge(t, Departures, "departures", "commitDepartures")
CommitDepartures(t) == Commit(t, Departures, "commitDepartures", AfterDepartures(job[t]))
AnswerLost(t) ==
  Unanswered(t, Arrivals, "commitArrivals") \/ Unanswered(t, Departures, "commitDepartures")

------------------------------------------------------------------------------
(* The backfill of a fresh plan hour, statement by statement, and discovery *)

\* Mutant: rows that carry a communicated time are left alone.
PinnedMutant(r, K) ==
  IF r.key \in K /\ r.actual = None THEN [r EXCEPT !.planned = Schedule[r.key]] ELSE r
Pinned(r, K) == IF r.key \in K THEN [r EXCEPT !.planned = Schedule[r.key]] ELSE r

PlatformFilled(r, K) == IF r.key \in K /\ r.pp = "" THEN [r EXCEPT !.pp = "plan"] ELSE r

\* Mutant: the planned route is written over the communicated one.
RouteFilledMutant(r, K) == IF r.key \in K THEN [r EXCEPT !.route = "plan"] ELSE r
RouteFilled(r, K) == IF r.key \in K /\ r.route = "" THEN [r EXCEPT !.route = "plan"] ELSE r

\* Mutant: only rows that have no route yet are given their end point.
EndpointFilledMutant(r, K) ==
  IF r.key \in K /\ r.route = "" /\ r.endpoint = "" THEN [r EXCEPT !.endpoint = "plan"] ELSE r
EndpointFilled(r, K) ==
  IF r.key \in K /\ r.endpoint = "" THEN [r EXCEPT !.endpoint = "plan"] ELSE r

Backfill(t, from, next, filled) ==
  /\ job[t].pc = from
  /\ rows' = filled
  /\ Proceed(t, job[t], next)
  /\ UNCHANGED <<iris, now, cache, noIris, pending, seen, failures, overlap>>

PinPlannedTime(t) ==
  Backfill(t, "pin", "fillPlatform", {Pinned(r, job[t].plan) : r \in rows})
FillPlannedPlatform(t) ==
  Backfill(t, "fillPlatform", "fillRoute", {PlatformFilled(r, job[t].plan) : r \in rows})
FillRoute(t) ==
  Backfill(t, "fillRoute", "fillEndpoint", {RouteFilled(r, job[t].plan) : r \in rows})
FillEndpoint(t) ==
  Backfill(t, "fillEndpoint", AfterBackfill(job[t]),
           {EndpointFilled(r, job[t].plan) : r \in rows})

\* A failed statement ends the backfill with a warning; the task goes on.
BackfillFails(t) ==
  /\ job[t].pc \in {"pin", "fillPlatform", "fillRoute", "fillEndpoint"}
  /\ Fails
  /\ Proceed(t, job[t], AfterBackfill(job[t]))
  /\ UNCHANGED <<iris, now, cache, db, overlap>>

\* RecordPendingStations; its failure is only a warning.
RecordNames(t) ==
  /\ job[t].pc = "record"
  /\ \/ pending' = pending \cup job[t].names /\ UNCHANGED failures
     \/ Fails /\ UNCHANGED pending
  /\ End(t, "done", job[t].tries)
  /\ UNCHANGED <<iris, now, cache, rows, noIris, seen, overlap>>

------------------------------------------------------------------------------
Step(t) ==
  \/ Start(t) \/ BoardArrives(t) \/ PlanArrives(t) \/ PlanFails(t)
  \/ AttemptFails(t) \/ Unserved(t)
  \/ CountPrior(t) \/ CountFails(t) \/ MarkEmpty(t)
  \/ JudgeArrivals(t) \/ CommitArrivals(t) \/ JudgeDepartures(t) \/ CommitDepartures(t)
  \/ AnswerLost(t)
  \/ PinPlannedTime(t) \/ FillPlannedPlatform(t) \/ FillRoute(t) \/ FillEndpoint(t)
  \/ BackfillFails(t)
  \/ RecordNames(t)

Next ==
  \/ IrisChanges \/ HourTurns \/ Crash
  \/ \E h \in Hours : Janitor(h)
  \/ \E t \in Tasks : Step(t)

Spec == Init /\ [][Next]_vars

------------------------------------------------------------------------------
(* Properties *)

\* The table is the log its readers take it for: rows are only added, one per
\* key and scrape, communicated fields are never rewritten, and the backfill
\* touches nothing but the scheduled fields it may.
Store == INSTANCE EventStore WITH rows <- rows, Keys <- Keys, Schedule <- Schedule
ImplementsStore == Store!Spec

\* A transaction never adds a row that shows what the latest one shows --
\* unless two tasks of the station were in flight at once, since the dedup
\* reads only committed rows and the UNIQUE key tells their scrapes apart.
NewRows == {r \in rows' : \A s \in RowsOf(rows, r.key) : s.scraped # r.scraped}
DuplicateNeedsOverlap == [][\A r \in NewRows : IsUnchanged(rows, r) => overlap]_vars

\* Readers take the latest snapshot by scraped_at for the last word.  Without
\* overlapping tasks it shows the last event a transaction committed, through
\* every dedup, backfill, retry and crash.
LatestIsLastSeen ==
  ~overlap => \A k \in Keys :
    seen[k] # None => RowsOf(rows, k) # {} /\ Communicated(Latest(rows, k)) = seen[k]

PlanApplied ==
  \A r \in rows : PlanHour[r.key] = hour =>
    r.planned = Schedule[r.key] /\ r.pp = "plan" /\ r.route # "" /\ r.endpoint # ""

\* Once the current hour's plan is in and no task is at work, every row of
\* that hour carries its true schedule -- as long as no step ever failed and
\* no two tasks overlapped.
PlanAppliedUndisturbed ==
  Quiet /\ hour \in planCache /\ failures = 0 /\ ~overlap => PlanApplied

\* The same for tasks that overlap: as long as no attempt was at work when an
\* hour turned, every row of the hour carries its schedule, although several
\* tasks insert, fetch the plan and run their backfills across each other.
PlanAppliedInOneHour ==
  Quiet /\ hour \in planCache /\ failures = 0 /\ ~crossed => PlanApplied
==============================================================================
