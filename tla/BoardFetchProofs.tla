--------------------------- MODULE BoardFetchProofs ---------------------------
(***************************************************************************)
(* Proofs about the board:fetch tasks of one station, for any number of     *)
(* tasks, any trains, any schedule and anything IRIS may communicate, with  *)
(* any number of failures and crashes.                                      *)
(***************************************************************************)
EXTENDS BoardFetch, TLAPS

Idle == {"queued", "done", "archived"}
Committing == {"commitArrivals", "commitDepartures"}

\* An attempt at clock n: what it is about to insert belongs to its own
\* scrape, one event per key, and is there only between the judging and the
\* commit; a task that may still run has an attempt left.
AttemptOK(j, n) ==
  /\ j \in Attempts
  /\ j.at <= n
  /\ j.insert # {} => j.pc \in Committing
  /\ \A r \in j.insert : r.scraped = j.at
  /\ \A r, s \in j.insert : r.key = s.key => r = s
  /\ j.pc \notin {"done", "archived"} => j.tries < MaxTries

\* The keys whose rows are all older than an attempt's scrape while no other
\* task is at work: those of the batches it has yet to commit.
Ahead(pc) ==
  IF pc \in {"fchg", "plan", "arrivals", "commitArrivals"} THEN Keys
  ELSE IF pc \in {"departures", "commitDepartures"} THEN Departures
  ELSE {}

\* Only task t moved, and it is well again.
Moved(t) ==
  /\ job' \in [Tasks -> Attempts]
  /\ \A u \in Tasks \ {t} : job'[u] = job[u]
  /\ AttemptOK(job'[t], now')

\* Task t, at work, went on to no batch it was past and holds nothing to insert.
Advances(t) ==
  /\ InFlight(t)
  /\ Moved(t)
  /\ job'[t].insert = {} /\ job'[t].pc \notin Committing
  /\ Ahead(job'[t].pc) \subseteq Ahead(job[t].pc)
  /\ Ahead(job'[t].pc) # {} => job'[t].at = job[t].at

\* One row per key and scrape, as the UNIQUE constraint of the table has it.
OneRowPerScrape ==
  \A r, s \in rows : r.key = s.key /\ r.scraped = s.scraped => r = s

\* What TypeOK says of everything but the attempts.
Surroundings ==
  /\ fchg \in Boards /\ updates \in 0..MaxUpdates
  /\ hour \in Hours /\ now \in Nat
  /\ planCache \subseteq Hours /\ janitors \subseteq Hours
  /\ rows \subseteq Events /\ \A r \in rows : r.scraped <= now
  /\ noIris \in BOOLEAN /\ overlap \in BOOLEAN /\ crossed \in BOOLEAN
  /\ pending \subseteq UnknownRoutes
  /\ failures \in 0..MaxFailures
  /\ seen \in [Keys -> {None} \cup ((Int \cup {None}) \X {"", "plan", "chg"})]

Attempting ==
  /\ job \in [Tasks -> Attempts]
  /\ \A t \in Tasks : AttemptOK(job[t], now)

\* The invariant under the table's promise: it holds with any overlap.
StoreInv == Surroundings /\ Attempting /\ OneRowPerScrape

------------------------------------------------------------------------------
(* Events *)

\* An event of the merge is a well-formed row of its key and its scrape: a
\* planned time is always known, since a key without a schedule is emitted
\* only with a communicated time.
LEMMA EventTyped ==
  ASSUME NEW f \in Boards, NEW plan \in SUBSET Keys, NEW at \in Nat,
         NEW k \in Emitted(f, plan)
  PROVE  /\ k \in Keys
         /\ EventOf(k, f, plan, at) \in Events
         /\ EventOf(k, f, plan, at).key = k
         /\ EventOf(k, f, plan, at).scraped = at
  <1>1. k \in Keys /\ (k \in plan \/ (f[k] # None /\ (f[k].ct # None \/ f[k].pt)))
    BY DEF Emitted
  <1>2. f[k] # None => f[k] \in Changes[k]
    BY <1>1 DEF Boards
  <1>3. f[k] # None => f[k].ct \in Int \cup {None}
    BY <1>1, <1>2, BoardAssumption DEF BoardAssumption
  <1>4. PlannedTime(k, f, plan) \in Int
    BY <1>1, <1>3, BoardAssumption DEF PlannedTime, BoardAssumption
  <1>5. (IF f[k] = None THEN None ELSE f[k].ct) \in Int \cup {None}
    BY <1>3
  <1>6. QED
    BY <1>1, <1>4, <1>5 DEF EventOf, Events

\* A batch holds well-formed events of one scrape, one per key.
LEMMA BatchTyped ==
  ASSUME NEW j \in Attempts, NEW dir
  PROVE  /\ Batch(j, dir) \subseteq Events
         /\ \A r \in Batch(j, dir) : r.scraped = j.at /\ r.key \in dir
         /\ \A r, s \in Batch(j, dir) : r.key = s.key => r = s
  <1>1. j.fchg \in Boards /\ j.plan \in SUBSET Keys /\ j.at \in Nat
    BY DEF Attempts
  <1>2. \A k \in Emitted(j.fchg, j.plan) :
          /\ EventOf(k, j.fchg, j.plan, j.at) \in Events
          /\ EventOf(k, j.fchg, j.plan, j.at).key = k
          /\ EventOf(k, j.fchg, j.plan, j.at).scraped = j.at
    BY <1>1, EventTyped
  <1>3. QED
    BY <1>2 DEF Batch

LEMMA NoBoardTyped ==
  NoBoard \in Boards
  <1>. DEFINE evs == UNION {Changes[k] : k \in Keys}
  <1>1. NoBoard \in [Keys -> evs \cup {None}]
    <2>. HIDE DEF evs
    <2>. QED BY DEF NoBoard
  <1>2. \A k \in Keys : NoBoard[k] \in Changes[k] \cup {None}
    BY DEF NoBoard
  <1>3. Boards = {f \in [Keys -> evs \cup {None}] :
                    \A k \in Keys : f[k] \in Changes[k] \cup {None}}
    BY DEF Boards
  <1>. HIDE DEF evs
  <1>4. QED
    BY <1>1, <1>2, <1>3

------------------------------------------------------------------------------
(* Where an attempt goes *)

\* Without locals, only the place and the number of tries matter.
LEMMA BlankOK ==
  ASSUME NEW n \in Nat, NEW pc \in {"queued", "mark", "done", "archived"},
         NEW tries \in 0..MaxTries,
         pc \notin {"done", "archived"} => tries < MaxTries
  PROVE  AttemptOK(Blank(pc, tries), n) /\ Blank(pc, tries).pc = pc
  <1>1. 1 \in Hours
    BY BoardAssumption DEF BoardAssumption
  <1>2. Blank(pc, tries) \in Attempts
    BY <1>1, NoBoardTyped DEF Blank, Attempts
  <1>3. QED
    BY <1>2 DEF Blank, AttemptOK

\* A failed attempt goes back to the queue only while it has a try left.
LEMMA RetriedOK ==
  ASSUME NEW n \in Nat, NEW j, AttemptOK(j, n), j.pc \notin {"done", "archived"}
  PROVE  AttemptOK(Retried(j), n) /\ Retried(j).pc \in Idle
  <1>. DEFINE pc == IF j.tries + 1 < MaxTries THEN "queued" ELSE "archived"
  <1>1. j.tries \in 0..MaxTries /\ j.tries < MaxTries /\ MaxTries \in Nat
    BY BoardAssumption DEF AttemptOK, Attempts, BoardAssumption
  <1>2. j.tries + 1 \in 0..MaxTries
    BY <1>1
  <1>3. pc \in {"queued", "archived"} /\ (pc # "archived" => j.tries + 1 < MaxTries)
    OBVIOUS
  <1>4. Retried(j) = Blank(pc, j.tries + 1)
    BY DEF Retried
  <1>. HIDE DEF pc
  <1>5. AttemptOK(Blank(pc, j.tries + 1), n) /\ Blank(pc, j.tries + 1).pc = pc
    BY <1>2, <1>3, BlankOK
  <1>6. QED
    BY <1>3, <1>4, <1>5 DEF Idle

\* Going on clears what was to be inserted, and keeps the scrape unless the
\* batches are past.
LEMMA ProceedMoves ==
  ASSUME NEW t \in Tasks, job \in [Tasks -> Attempts], now' \in Nat,
         NEW j \in Attempts, j.at <= now', j.tries < MaxTries,
         NEW pc \in {"count", "arrivals", "departures", "pin", "fillPlatform",
                     "fillRoute", "fillEndpoint", "record", "done"},
         Proceed(t, j, pc)
  PROVE  /\ Moved(t)
         /\ job'[t].pc = pc /\ job'[t].insert = {}
         /\ pc \in {"count", "arrivals", "departures"} => job'[t].at = j.at
  <1>1. j.tries \in 0..MaxTries /\ DOMAIN job = Tasks
    BY DEF Attempts
  <1>2. CASE pc = "done"
    <2>1. job' = [job EXCEPT ![t] = Blank(pc, j.tries)]
      BY <1>2 DEF Proceed, End
    <2>2. /\ AttemptOK(Blank(pc, j.tries), now') /\ Blank(pc, j.tries).pc = pc
          /\ Blank(pc, j.tries) \in Attempts
      BY <1>1, <1>2, BlankOK DEF AttemptOK
    <2>3. Blank(pc, j.tries).insert = {}
      BY DEF Blank
    <2>4. QED
      BY <1>1, <1>2, <2>1, <2>2, <2>3 DEF Moved
  <1>3. CASE pc \in {"pin", "record"}
    <2>. DEFINE k == [j EXCEPT !.pc = pc, !.fchg = NoBoard, !.insert = {}, !.at = 0]
    <2>1. job' = [job EXCEPT ![t] = k]
      BY <1>3 DEF Proceed
    <2>2. k \in Attempts /\ k.pc = pc /\ k.insert = {} /\ k.at = 0 /\ k.tries = j.tries
      BY <1>3, NoBoardTyped DEF Attempts
    <2>. HIDE DEF k
    <2>3. AttemptOK(k, now')
      BY <2>2 DEF AttemptOK
    <2>4. QED
      BY <1>1, <1>3, <2>1, <2>2, <2>3 DEF Moved
  <1>4. CASE pc \notin {"done", "pin", "record"}
    <2>. DEFINE k == [j EXCEPT !.pc = pc, !.insert = {}]
    <2>1. job' = [job EXCEPT ![t] = k]
      BY <1>4 DEF Proceed
    <2>2. k \in Attempts /\ k.pc = pc /\ k.insert = {} /\ k.at = j.at /\ k.tries = j.tries
      BY <1>4 DEF Attempts
    <2>. HIDE DEF k
    <2>3. AttemptOK(k, now')
      BY <2>2 DEF AttemptOK
    <2>4. QED
      BY <1>1, <1>4, <2>1, <2>2, <2>3 DEF Moved
  <1>5. QED
    BY <1>2, <1>3, <1>4

\* Ending an attempt leaves nothing behind.
LEMMA EndMoves ==
  ASSUME NEW t \in Tasks, job \in [Tasks -> Attempts], now' \in Nat,
         NEW pc \in {"mark", "done", "archived"},
         AttemptOK(job[t], now), job[t].pc \notin Idle,
         End(t, pc, job[t].tries)
  PROVE  Moved(t) /\ job'[t].pc = pc /\ job'[t].insert = {}
  <1>1. job[t].tries \in 0..MaxTries /\ job[t].tries < MaxTries
    BY DEF AttemptOK, Attempts, Idle
  <1>2. /\ AttemptOK(Blank(pc, job[t].tries), now') /\ Blank(pc, job[t].tries).pc = pc
        /\ Blank(pc, job[t].tries) \in Attempts
    BY <1>1, BlankOK DEF AttemptOK
  <1>3. Blank(pc, job[t].tries).insert = {}
    BY DEF Blank
  <1>4. QED
    BY <1>2, <1>3 DEF End, Moved

\* While one task moves and the clock does not go back, the others stay well.
LEMMA MovedKeepsAttempting ==
  ASSUME NEW t \in Tasks, Attempting, Moved(t), now \in Nat, now' \in Nat, now <= now'
  PROVE  Attempting'
  <1>1. ASSUME NEW u \in Tasks
        PROVE  AttemptOK(job'[u], now')
    <2>1. CASE u = t
      BY <2>1 DEF Moved
    <2>2. CASE u # t
      <3>1. job'[u] = job[u] /\ AttemptOK(job[u], now)
        BY <2>2 DEF Moved, Attempting
      <3>2. job[u].at \in Nat
        BY <3>1 DEF AttemptOK, Attempts
      <3>3. QED
        BY <3>1, <3>2 DEF AttemptOK
    <2>3. QED
      BY <2>1, <2>2
  <1>2. QED
    BY <1>1 DEF Moved, Attempting

------------------------------------------------------------------------------
(* Every action keeps StoreInv *)

LEMMA StoreInvInit ==
  Init => StoreInv
  <1>. SUFFICES ASSUME Init PROVE StoreInv
    OBVIOUS
  <1>1. Surroundings
    <2>1. MaxUpdates \in Nat /\ MaxFailures \in Nat /\ 1 \in Hours
      BY BoardAssumption DEF BoardAssumption
    <2>2. seen \in [Keys -> {None} \cup ((Int \cup {None}) \X {"", "plan", "chg"})]
      BY DEF Init
    <2>3. /\ fchg \in Boards /\ updates = 0 /\ hour = 1 /\ now = 0 /\ planCache = {}
          /\ janitors = {} /\ rows = {} /\ noIris = FALSE /\ pending = {}
          /\ failures = 0 /\ overlap = FALSE
      BY DEF Init
    <2>4. noIris \in BOOLEAN /\ overlap \in BOOLEAN /\ crossed \in BOOLEAN
      BY DEF Init
    <2>5. updates \in 0..MaxUpdates /\ failures \in 0..MaxFailures /\ now \in Nat
      BY <2>1, <2>3
    <2>6. /\ planCache \subseteq Hours /\ janitors \subseteq Hours /\ pending \subseteq UnknownRoutes
          /\ rows \subseteq Events /\ hour \in Hours /\ \A r \in rows : r.scraped <= now
      BY <2>1, <2>3
    <2>. QED BY <2>2, <2>3, <2>4, <2>5, <2>6 DEF Surroundings
  <1>2. 0 \in 0..MaxTries /\ 0 < MaxTries
    BY BoardAssumption DEF BoardAssumption
  <1>3. AttemptOK(Blank("queued", 0), now) /\ Blank("queued", 0) \in Attempts
    <2>1. AttemptOK(Blank("queued", 0), 0)
      BY <1>2, BlankOK
    <2>. QED BY <2>1 DEF Init, AttemptOK
  <1>4. Attempting
    BY <1>3 DEF Init, Attempting
  <1>5. QED
    BY <1>1, <1>4 DEF StoreInv, OneRowPerScrape, Init

LEMMA IrisChangesKeeps ==
  ASSUME StoreInv, IrisChanges
  PROVE  StoreInv'
  <1>1. PICK k \in Keys : \E c \in Changes[k] \cup {None} : fchg' = [fchg EXCEPT ![k] = c]
    BY DEF IrisChanges
  <1>2. PICK c \in Changes[k] \cup {None} : fchg' = [fchg EXCEPT ![k] = c]
    BY <1>1
  <1>3. fchg' \in Boards
    <2>. DEFINE evs == UNION {Changes[l] : l \in Keys}
    <2>1. fchg \in [Keys -> evs \cup {None}] /\ \A l \in Keys : fchg[l] \in Changes[l] \cup {None}
      BY DEF StoreInv, Surroundings, Boards
    <2>2. c \in evs \cup {None}
      BY <1>2
    <2>3. Boards = {f \in [Keys -> evs \cup {None}] :
                      \A l \in Keys : f[l] \in Changes[l] \cup {None}}
      BY DEF Boards
    <2>. HIDE DEF evs
    <2>4. fchg' \in [Keys -> evs \cup {None}]
      BY <1>2, <2>1, <2>2
    <2>5. \A l \in Keys : fchg'[l] \in Changes[l] \cup {None}
      BY <1>2, <2>1
    <2>6. QED
      BY <2>3, <2>4, <2>5
  <1>4. updates' \in 0..MaxUpdates
    <2>1. /\ updates \in 0..MaxUpdates /\ updates < MaxUpdates /\ MaxUpdates \in Nat
          /\ updates' = updates + 1
      BY BoardAssumption DEF IrisChanges, StoreInv, Surroundings, BoardAssumption
    <2>. QED BY <2>1
  <1>5. UNCHANGED <<hour, now, planCache, janitors, job, rows, noIris, pending, seen,
                    failures, overlap, crossed>>
    BY DEF IrisChanges, cache, db
  <1>6. QED
    BY <1>3, <1>4, <1>5 DEF StoreInv, Surroundings, Attempting, OneRowPerScrape

\* The clock of the wall, the janitor: nothing of an attempt is touched.
LEMMA HourTurnsKeeps ==
  ASSUME StoreInv, HourTurns
  PROVE  StoreInv'
  BY DEF HourTurns, StoreInv, Surroundings, Attempting, OneRowPerScrape, cache, db

LEMMA JanitorKeeps ==
  ASSUME StoreInv, NEW h \in Hours, Janitor(h)
  PROVE  StoreInv'
  BY DEF Janitor, StoreInv, Surroundings, Attempting, OneRowPerScrape, iris, db

LEMMA FailsTyped ==
  ASSUME failures \in 0..MaxFailures, Fails
  PROVE  failures' \in 0..MaxFailures
  BY BoardAssumption DEF Fails, BoardAssumption

LEMMA CrashKeeps ==
  ASSUME StoreInv, Crash
  PROVE  StoreInv'
  <1>1. now' = now /\ now \in Nat
    BY DEF StoreInv, Surroundings, Crash
  <1>2. ASSUME NEW t \in Tasks
        PROVE  AttemptOK(job'[t], now') /\ job'[t] \in Attempts
    <2>1. AttemptOK(job[t], now) /\ job[t] \in Attempts
      BY DEF StoreInv, Attempting
    <2>2. CASE InFlight(t)
      <3>1. job'[t] = Retried(job[t])
        BY <2>2 DEF Crash
      <3>2. AttemptOK(Retried(job[t]), now)
        BY <1>1, <2>1, <2>2, RetriedOK DEF InFlight
      <3>3. QED
        BY <1>1, <3>1, <3>2 DEF AttemptOK
    <2>3. CASE ~InFlight(t)
      BY <1>1, <2>1, <2>3 DEF Crash
    <2>4. QED
      BY <2>2, <2>3
  <1>3. job' \in [Tasks -> Attempts]
    BY <1>2 DEF Crash
  <1>4. Attempting'
    BY <1>2, <1>3 DEF Attempting
  <1>5. Surroundings' /\ OneRowPerScrape'
    BY FailsTyped DEF Crash, StoreInv, Surroundings, OneRowPerScrape, iris, db
  <1>6. QED
    BY <1>4, <1>5 DEF StoreInv

------------------------------------------------------------------------------
(* What each step of a task does to its attempt *)

LEMMA NextPlaces ==
  ASSUME NEW j
  PROVE  /\ AfterFetch(j) \in {"count", "arrivals", "departures"}
         /\ AfterArrivals(j) \in {"departures", "pin", "record", "done"}
         /\ AfterDepartures(j) \in {"pin", "record", "done"}
         /\ AfterBackfill(j) \in {"record", "done"}
  BY DEF AfterFetch, AfterArrivals, AfterDepartures, AfterBackfill

\* The facts every step starts from.
LEMMA AtWork ==
  ASSUME StoreInv, NEW t \in Tasks
  PROVE  /\ job \in [Tasks -> Attempts] /\ job[t] \in Attempts
         /\ AttemptOK(job[t], now) /\ now \in Nat
         /\ job[t].at \in Nat /\ job[t].at <= now
         /\ job[t].pc \notin {"done", "archived"} => job[t].tries < MaxTries
         /\ job[t].pc \notin Committing => job[t].insert = {}
  BY DEF StoreInv, Attempting, AttemptOK, Attempts, Surroundings

\* A step that goes on through Proceed from a place at work.
LEMMA ProceedAdvances ==
  ASSUME StoreInv, NEW t \in Tasks, job[t].pc \notin Idle, now' = now,
         NEW j \in Attempts, j.at = job[t].at, j.tries = job[t].tries,
         NEW pc \in {"count", "arrivals", "departures", "pin", "fillPlatform",
                     "fillRoute", "fillEndpoint", "record", "done"},
         Ahead(pc) \subseteq Ahead(job[t].pc),
         Proceed(t, j, pc)
  PROVE  Advances(t)
  <1>1. /\ job \in [Tasks -> Attempts] /\ now' \in Nat /\ j.at <= now'
        /\ j.tries < MaxTries
    BY AtWork DEF Idle
  <1>2. /\ Moved(t) /\ job'[t].pc = pc /\ job'[t].insert = {}
        /\ pc \in {"count", "arrivals", "departures"} => job'[t].at = j.at
    BY <1>1, ProceedMoves
  <1>3. Ahead(pc) # {} => job'[t].at = job[t].at
    BY <1>2 DEF Ahead
  <1>4. QED
    BY <1>2, <1>3 DEF Advances, InFlight, Idle, Committing

LEMMA EndAdvances ==
  ASSUME StoreInv, NEW t \in Tasks, job[t].pc \notin Idle, now' = now,
         NEW pc \in {"mark", "done", "archived"},
         End(t, pc, job[t].tries)
  PROVE  Advances(t)
  <1>1. Moved(t) /\ job'[t].pc = pc /\ job'[t].insert = {}
    BY AtWork, EndMoves
  <1>2. QED
    BY <1>1 DEF Advances, Ahead, InFlight, Idle, Committing

LEMMA BoardArrivesAdvances ==
  ASSUME StoreInv, NEW t \in Tasks, BoardArrives(t)
  PROVE  Advances(t)
  <1>. DEFINE j == [job[t] EXCEPT !.fchg = fchg]
              hit == [j EXCEPT !.plan = InPlan(hour)]
              miss == [j EXCEPT !.pc = "plan", !.hour = hour]
  <1>1. /\ fchg \in Boards /\ hour \in Hours /\ InPlan(hour) \in SUBSET Keys
        /\ job[t].pc = "fchg" /\ now' = now
    BY DEF BoardArrives, StoreInv, Surroundings, InPlan
  <1>2. /\ hit \in Attempts /\ hit.at = job[t].at /\ hit.tries = job[t].tries
        /\ miss \in Attempts /\ miss.at = job[t].at /\ miss.tries = job[t].tries
        /\ miss.pc = "plan" /\ miss.insert = job[t].insert
    BY <1>1, AtWork DEF Attempts
  <1>3. IF hour \in planCache THEN Proceed(t, hit, AfterFetch(hit))
                              ELSE job' = [job EXCEPT ![t] = miss]
    BY DEF BoardArrives
  <1>. HIDE DEF hit, miss
  <1>4. CASE hour \in planCache
    <2>1. /\ AfterFetch(hit) \in {"count", "arrivals", "departures"}
          /\ Ahead(AfterFetch(hit)) \subseteq Ahead(job[t].pc)
      BY <1>1, NextPlaces DEF Ahead, Keys
    <2>2. QED
      BY <1>1, <1>2, <1>3, <1>4, <2>1, ProceedAdvances DEF Idle
  <1>5. CASE hour \notin planCache
    <2>1. job'[t] = miss /\ job' \in [Tasks -> Attempts]
          /\ \A u \in Tasks \ {t} : job'[u] = job[u]
      BY <1>2, <1>3, <1>5, AtWork
    <2>2. AttemptOK(miss, now')
      BY <1>1, <1>2, AtWork DEF AttemptOK, Committing
    <2>3. job[t].insert = {}
      BY <1>1, AtWork DEF Committing
    <2>4. QED
      BY <1>1, <1>2, <2>1, <2>2, <2>3 DEF Advances, Moved, Ahead, InFlight, Committing
  <1>6. QED
    BY <1>4, <1>5

LEMMA PlanAdvances ==
  ASSUME StoreInv, NEW t \in Tasks, PlanArrives(t) \/ PlanFails(t)
  PROVE  Advances(t)
  <1>. DEFINE got == [job[t] EXCEPT !.plan = InPlan(job[t].hour), !.fresh = TRUE, !.hour = 1]
              without == [job[t] EXCEPT !.hour = 1]
  <1>1. /\ job[t].pc = "plan" /\ now' = now /\ job[t].hour \in Hours /\ 1 \in Hours
        /\ InPlan(job[t].hour) \in SUBSET Keys
    BY AtWork, BoardAssumption DEF PlanArrives, PlanFails, InPlan, Attempts, BoardAssumption
  <1>2. /\ got \in Attempts /\ got.at = job[t].at /\ got.tries = job[t].tries
        /\ without \in Attempts /\ without.at = job[t].at /\ without.tries = job[t].tries
    BY <1>1, AtWork DEF Attempts
  <1>3. \/ Proceed(t, got, AfterFetch(got))
        \/ Proceed(t, without, AfterFetch(without))
    BY DEF PlanArrives, PlanFails
  <1>. HIDE DEF got, without
  <1>4. \A j : /\ AfterFetch(j) \in {"count", "arrivals", "departures"}
              /\ Ahead(AfterFetch(j)) \subseteq Ahead(job[t].pc)
    BY <1>1, NextPlaces DEF Ahead, Keys
  <1>5. QED
    BY <1>1, <1>2, <1>3, <1>4, ProceedAdvances DEF Idle

\* An attempt that goes back to the queue, or to the archive.
LEMMA RetriedAdvances ==
  ASSUME StoreInv, NEW t \in Tasks, job[t].pc \notin Idle, now' = now,
         job' = [job EXCEPT ![t] = Retried(job[t])]
  PROVE  Advances(t) /\ job'[t].pc \in Idle
  <1>1. AttemptOK(Retried(job[t]), now') /\ Retried(job[t]).pc \in Idle
    BY AtWork, RetriedOK DEF Idle
  <1>2. Retried(job[t]) \in Attempts /\ Retried(job[t]).insert = {}
    BY <1>1 DEF AttemptOK, Idle, Committing
  <1>3. job'[t] = Retried(job[t]) /\ Moved(t)
    BY <1>1, <1>2, AtWork DEF Moved
  <1>. QED
    BY <1>1, <1>2, <1>3 DEF Advances, Ahead, InFlight, Idle, Committing

LEMMA AttemptFailsAdvances ==
  ASSUME StoreInv, NEW t \in Tasks, AttemptFails(t)
  PROVE  Advances(t)
  BY RetriedAdvances DEF AttemptFails, Idle

\* The ends of an attempt: the empty board, the refused station, the names.
LEMMA EndingsAdvance ==
  ASSUME StoreInv, NEW t \in Tasks,
         Unserved(t) \/ CountPrior(t) \/ CountFails(t) \/ MarkEmpty(t) \/ RecordNames(t)
  PROVE  Advances(t)
  <1>1. job[t].pc \notin Idle /\ now' = now
    BY DEF Unserved, CountPrior, CountFails, MarkEmpty, RecordNames, Idle
  <1>2. \E pc \in {"mark", "done", "archived"} :
          End(t, pc, job[t].tries)
    <2>1. CASE Unserved(t)
      BY <2>1 DEF Unserved
    <2>2. CASE CountPrior(t)
      BY <2>2 DEF CountPrior
    <2>3. CASE CountFails(t) \/ MarkEmpty(t) \/ RecordNames(t)
      BY <2>3 DEF CountFails, MarkEmpty, RecordNames
    <2>4. QED
      BY <2>1, <2>2, <2>3
  <1>3. QED
    BY <1>1, <1>2, EndAdvances

LEMMA AnswerLostAdvances ==
  ASSUME StoreInv, NEW t \in Tasks, AnswerLost(t)
  PROVE  Advances(t) /\ job'[t].pc \in Idle
  BY RetriedAdvances DEF AnswerLost, Unanswered, Write, Idle

LEMMA CommitsAdvance ==
  ASSUME StoreInv, NEW t \in Tasks, CommitArrivals(t) \/ CommitDepartures(t)
  PROVE  Advances(t)
  <1>. DEFINE next == IF job[t].pc = "commitArrivals" THEN AfterArrivals(job[t])
                                                     ELSE AfterDepartures(job[t])
  <1>1. /\ job[t].pc \in Committing /\ now' = now
        /\ Proceed(t, job[t], next)
    BY DEF CommitArrivals, CommitDepartures, AnswerLost, Commit, Unanswered, Write, Committing
  <1>2. /\ next \in {"departures", "pin", "record", "done"}
        /\ Ahead(next) \subseteq Ahead(job[t].pc)
    BY <1>1, NextPlaces DEF Ahead, Committing, Keys
  <1>. HIDE DEF next
  <1>3. job[t].pc \notin Idle /\ job[t] \in Attempts
    BY <1>1, AtWork DEF Idle, Committing
  <1>4. QED
    BY <1>1, <1>2, <1>3, ProceedAdvances

LEMMA BackfillAdvances ==
  ASSUME StoreInv, NEW t \in Tasks,
         PinPlannedTime(t) \/ FillPlannedPlatform(t) \/ FillRoute(t)
           \/ FillEndpoint(t) \/ BackfillFails(t)
  PROVE  Advances(t)
  <1>1. /\ job[t].pc \in {"pin", "fillPlatform", "fillRoute", "fillEndpoint"} /\ now' = now
        /\ \E pc \in {"fillPlatform", "fillRoute", "fillEndpoint", AfterBackfill(job[t])} :
              Proceed(t, job[t], pc)
    BY DEF PinPlannedTime, FillPlannedPlatform, FillRoute, FillEndpoint, BackfillFails, Backfill
  <1>2. PICK pc \in {"fillPlatform", "fillRoute", "fillEndpoint", "record", "done"} : Proceed(t, job[t], pc)
    BY <1>1, NextPlaces
  <1>3. job[t].pc \notin Idle /\ job[t] \in Attempts /\ Ahead(pc) \subseteq Ahead(job[t].pc)
    BY <1>1, AtWork DEF Idle, Ahead
  <1>4. QED
    BY <1>1, <1>2, <1>3, ProceedAdvances

LEMMA StartMoves ==
  ASSUME StoreInv, NEW t \in Tasks, Start(t)
  PROVE  /\ Moved(t) /\ now' \in Nat /\ now <= now'
         /\ job'[t].insert = {} /\ job'[t].pc = "fchg" /\ job'[t].at = now'
  <1>1. /\ now \in Nat /\ job[t].pc = "queued" /\ (now' = now + 1 \/ now' = now)
        /\ job' = [job EXCEPT ![t].pc = "fchg", ![t].at = now']
    BY DEF Start, StoreInv, Surroundings
  <1>2. now' \in Nat /\ now <= now'
    BY <1>1
  <1>. DEFINE k == [job[t] EXCEPT !.pc = "fchg", !.at = now']
  <1>3. job' = [job EXCEPT ![t] = k]
    BY <1>1, AtWork
  <1>4. job[t].insert = {} /\ job[t].tries < MaxTries
    BY <1>1, AtWork DEF Committing
  <1>5. /\ k \in Attempts /\ k.pc = "fchg" /\ k.at = now' /\ k.tries = job[t].tries
        /\ k.insert = {}
    BY <1>2, <1>4, AtWork DEF Attempts
  <1>. HIDE DEF k
  <1>6. AttemptOK(k, now')
    BY <1>2, <1>4, <1>5 DEF AttemptOK
  <1>7. QED
    BY <1>2, <1>3, <1>5, <1>6, AtWork DEF Moved

\* What a batch inserts are events of it that the dedup let through.
LEMMA JudgeMoves ==
  ASSUME StoreInv, NEW t \in Tasks, JudgeArrivals(t) \/ JudgeDepartures(t)
  PROVE  /\ InFlight(t) /\ Moved(t) /\ job'[t].at = job[t].at
         /\ Ahead(job'[t].pc) = Ahead(job[t].pc)
         /\ \A r \in job'[t].insert : ~IsUnchanged(rows, r)
  <1>. DEFINE dir == IF job[t].pc = "arrivals" THEN Arrivals ELSE Departures
              to == IF job[t].pc = "arrivals" THEN "commitArrivals" ELSE "commitDepartures"
              batch == Batch(job[t], dir)
              new == Changed(batch)
              nm == job[t].names \cup ({ev.route : ev \in batch} \cap (UnknownRoutes \ pending))
              k == [job[t] EXCEPT !.pc = to, !.insert = new, !.names = nm]
  <1>1. job[t].pc \in {"arrivals", "departures"} /\ now' = now
    BY DEF JudgeArrivals, JudgeDepartures, Judge
  <1>2. job' = [job EXCEPT ![t] = k]
    <2>1. job' = [job EXCEPT ![t].pc = to, ![t].insert = new, ![t].names = nm]
      BY DEF JudgeArrivals, JudgeDepartures, Judge
    <2>. HIDE DEF to, new, nm
    <2>2. QED
      BY <2>1, AtWork
  <1>3. /\ batch \subseteq Events
        /\ \A r \in batch : r.scraped = job[t].at
        /\ \A r, s \in batch : r.key = s.key => r = s
    BY AtWork, BatchTyped
  <1>4. new \subseteq batch /\ \A r \in new : ~IsUnchanged(rows, r)
    BY DEF Changed
  <1>5. nm \subseteq UnknownRoutes
    <2>1. job[t].names \subseteq UnknownRoutes
      BY AtWork DEF Attempts
    <2>. QED BY <2>1
  <1>6. to \in Committing /\ Ahead(to) = Ahead(job[t].pc)
    BY <1>1 DEF Committing, Ahead
  <1>. HIDE DEF batch, new, nm, to
  <1>7. /\ k \in Attempts /\ k.pc = to /\ k.at = job[t].at /\ k.tries = job[t].tries
        /\ k.insert = new
    BY <1>3, <1>4, <1>5, <1>6, AtWork DEF Attempts, Committing
  <1>. HIDE DEF k
  <1>8. AttemptOK(k, now')
    <2>1. /\ job[t].at <= now' /\ job[t].tries < MaxTries
      BY <1>1, AtWork
    <2>2. QED
      BY <1>3, <1>4, <1>6, <1>7, <2>1 DEF AttemptOK
  <1>9. job'[t] = k /\ Moved(t)
    BY <1>2, <1>7, <1>8, AtWork DEF Moved
  <1>10. QED
    BY <1>1, <1>4, <1>6, <1>7, <1>9 DEF InFlight, Committing

------------------------------------------------------------------------------
(* The table *)

\* A commit adds the judged events whose key and scrape are not taken.
LEMMA CommitAdds ==
  ASSUME StoreInv, NEW t \in Tasks,
         CommitArrivals(t) \/ CommitDepartures(t) \/ AnswerLost(t)
  PROVE  /\ rows' = Added(job[t].insert)
         /\ rows \subseteq rows' /\ rows' \subseteq Events
         /\ \A r \in rows' \ rows : r \in job[t].insert /\ r.scraped = job[t].at
         /\ OneRowPerScrape'
  <1>1. rows' = Added(job[t].insert)
    BY DEF CommitArrivals, CommitDepartures, AnswerLost, Commit, Unanswered, Write
  <1>2. /\ job[t].insert \subseteq Events
        /\ \A r \in job[t].insert : r.scraped = job[t].at
        /\ \A r, s \in job[t].insert : r.key = s.key => r = s
    BY AtWork DEF AttemptOK, Attempts
  <1>3. rows \subseteq Events /\ OneRowPerScrape
    BY DEF StoreInv, Surroundings
  <1>4. OneRowPerScrape'
    BY <1>1, <1>2, <1>3 DEF OneRowPerScrape, Added
  <1>5. QED
    BY <1>1, <1>2, <1>3, <1>4 DEF Added

\* The statements of the backfill are the table's own operations.
LEMMA BackfillIsStore ==
  ASSUME StoreInv, NEW t \in Tasks,
         PinPlannedTime(t) \/ FillPlannedPlatform(t) \/ FillRoute(t) \/ FillEndpoint(t)
  PROVE  \E K \in SUBSET Keys : \/ Store!Pin(K) \/ Store!FillPlatform(K)
                                \/ Store!FillRoute(K) \/ Store!FillEndpoint(K)
  <1>1. job[t].plan \in SUBSET Keys
    BY AtWork DEF Attempts
  <1>. DEFINE K == job[t].plan
  <1>2. rows \subseteq Events
    BY DEF StoreInv, Surroundings
  <1>3. CASE PinPlannedTime(t)
    <2>1. rows' = {Pinned(r, K) : r \in rows}
      BY <1>3 DEF PinPlannedTime, Backfill
    <2>. DEFINE stored(r) == [r EXCEPT !.planned = IF r.key \in K THEN Schedule[r.key] ELSE @]
    <2>2. \A r \in Events : Pinned(r, K) = stored(r)
      BY DEF Pinned, Events
    <2>3. rows' = {stored(r) : r \in rows}
      <3>. HIDE DEF stored
      <3>. QED BY <1>2, <2>1, <2>2
    <2>4. Store!Pin(K)
      BY <2>3 DEF Store!Pin
    <2>5. QED
      BY <1>1, <2>4
  <1>4. CASE FillPlannedPlatform(t)
    <2>1. rows' = {PlatformFilled(r, K) : r \in rows}
      BY <1>4 DEF FillPlannedPlatform, Backfill
    <2>. DEFINE stored(r) == [r EXCEPT !.pp = IF r.key \in K /\ @ = "" THEN "plan" ELSE @]
    <2>2. \A r \in Events : PlatformFilled(r, K) = stored(r)
      BY DEF PlatformFilled, Events
    <2>3. rows' = {stored(r) : r \in rows}
      <3>. HIDE DEF stored
      <3>. QED BY <1>2, <2>1, <2>2
    <2>4. Store!FillPlatform(K)
      BY <2>3 DEF Store!FillPlatform
    <2>5. QED
      BY <1>1, <2>4
  <1>5. CASE FillRoute(t)
    <2>1. rows' = {RouteFilled(r, K) : r \in rows}
      BY <1>5 DEF FillRoute, FillEndpoint, Backfill
    <2>. DEFINE stored(r) == [r EXCEPT !.route = IF r.key \in K /\ @ = "" THEN "plan" ELSE @]
    <2>2. \A r \in Events : RouteFilled(r, K) = stored(r)
      BY DEF RouteFilled, Events
    <2>3. rows' = {stored(r) : r \in rows}
      <3>. HIDE DEF stored
      <3>. QED BY <1>2, <2>1, <2>2
    <2>4. Store!FillRoute(K)
      BY <2>3 DEF Store!FillRoute
    <2>5. QED
      BY <1>1, <2>4
  <1>6. CASE FillEndpoint(t)
    <2>1. rows' = {EndpointFilled(r, K) : r \in rows}
      BY <1>6 DEF FillEndpoint, FillEndpoint, Backfill
    <2>. DEFINE stored(r) == [r EXCEPT !.endpoint = IF r.key \in K /\ @ = "" THEN "plan" ELSE @]
    <2>2. \A r \in Events : EndpointFilled(r, K) = stored(r)
      BY DEF EndpointFilled, Events
    <2>3. rows' = {stored(r) : r \in rows}
      <3>. HIDE DEF stored
      <3>. QED BY <1>2, <2>1, <2>2
    <2>4. Store!FillEndpoint(K)
      BY <2>3 DEF Store!FillEndpoint
    <2>5. QED
      BY <1>1, <2>4
  <1>7. QED
    BY <1>3, <1>4, <1>5, <1>6

\* Row by row, the backfill leaves key, scrape and what IRIS communicated.
Maps(f) ==
  /\ f \in [rows -> Events]
  /\ rows' = {f[r] : r \in rows}
  /\ \A r \in rows : /\ f[r].key = r.key /\ f[r].scraped = r.scraped
                     /\ f[r].actual = r.actual /\ f[r].platform = r.platform

LEMMA BackfillMaps ==
  ASSUME StoreInv, NEW t \in Tasks,
         PinPlannedTime(t) \/ FillPlannedPlatform(t) \/ FillRoute(t) \/ FillEndpoint(t)
  PROVE  \E f : Maps(f)
  <1>. DEFINE K == job[t].plan
              pinned == [r \in rows |-> Pinned(r, K)]
              platform == [r \in rows |-> PlatformFilled(r, K)]
              route == [r \in rows |-> RouteFilled(r, K)]
              endpoint == [r \in rows |-> EndpointFilled(r, K)]
  <1>1. rows \subseteq Events /\ \A k \in Keys : Schedule[k] \in Int
    BY BoardAssumption DEF StoreInv, Surroundings, BoardAssumption
  <1>2. CASE PinPlannedTime(t)
    <2>1. \A r \in rows : /\ Pinned(r, K) \in Events
                         /\ Pinned(r, K).key = r.key /\ Pinned(r, K).scraped = r.scraped
                         /\ Pinned(r, K).actual = r.actual /\ Pinned(r, K).platform = r.platform
      BY <1>1 DEF Pinned, Events
    <2>2. rows' = {Pinned(r, K) : r \in rows}
      BY <1>2 DEF PinPlannedTime, Backfill
    <2>3. Maps(pinned)
      BY <2>1, <2>2 DEF Maps
    <2>4. QED
      BY <2>3
  <1>3. CASE FillPlannedPlatform(t)
    <2>1. \A r \in rows : /\ PlatformFilled(r, K) \in Events
                         /\ PlatformFilled(r, K).key = r.key /\ PlatformFilled(r, K).scraped = r.scraped
                         /\ PlatformFilled(r, K).actual = r.actual
                         /\ PlatformFilled(r, K).platform = r.platform
      BY <1>1 DEF PlatformFilled, Events
    <2>2. rows' = {PlatformFilled(r, K) : r \in rows}
      BY <1>3 DEF FillPlannedPlatform, Backfill
    <2>3. Maps(platform)
      BY <2>1, <2>2 DEF Maps
    <2>4. QED
      BY <2>3
  <1>4. CASE FillRoute(t)
    <2>1. \A r \in rows : /\ RouteFilled(r, K) \in Events
                         /\ RouteFilled(r, K).key = r.key /\ RouteFilled(r, K).scraped = r.scraped
                         /\ RouteFilled(r, K).actual = r.actual
                         /\ RouteFilled(r, K).platform = r.platform
      BY <1>1 DEF RouteFilled, Events
    <2>2. rows' = {RouteFilled(r, K) : r \in rows}
      BY <1>4 DEF FillRoute, FillEndpoint, Backfill
    <2>3. Maps(route)
      BY <2>1, <2>2 DEF Maps
    <2>4. QED
      BY <2>3
  <1>5. CASE FillEndpoint(t)
    <2>1. \A r \in rows : /\ EndpointFilled(r, K) \in Events
                         /\ EndpointFilled(r, K).key = r.key /\ EndpointFilled(r, K).scraped = r.scraped
                         /\ EndpointFilled(r, K).actual = r.actual
                         /\ EndpointFilled(r, K).platform = r.platform
      BY <1>1 DEF EndpointFilled, Events
    <2>2. rows' = {EndpointFilled(r, K) : r \in rows}
      BY <1>5 DEF FillEndpoint, FillEndpoint, Backfill
    <2>3. Maps(endpoint)
      BY <2>1, <2>2 DEF Maps
    <2>4. QED
      BY <2>3
  <1>6. QED
    BY <1>2, <1>3, <1>4, <1>5

LEMMA MapsKeepRows ==
  ASSUME StoreInv, NEW f, Maps(f), now' = now
  PROVE  /\ rows' \subseteq Events /\ \A r \in rows' : r.scraped <= now'
         /\ OneRowPerScrape'
  <1>1. \A x \in rows' : \E r \in rows : x = f[r] /\ x \in Events /\ x.key = r.key
                                         /\ x.scraped = r.scraped
    BY DEF Maps
  <1>2. \A r \in rows : r.scraped <= now'
    BY DEF StoreInv, Surroundings
  <1>3. rows' \subseteq Events /\ \A x \in rows' : x.scraped <= now'
    BY <1>1, <1>2
  <1>4. ASSUME NEW x \in rows', NEW y \in rows', x.key = y.key, x.scraped = y.scraped
        PROVE  x = y
    <2>1. PICK q \in rows : x = f[q] /\ x.key = q.key /\ x.scraped = q.scraped
      BY <1>1
    <2>2. PICK r \in rows : y = f[r] /\ y.key = r.key /\ y.scraped = r.scraped
      BY <1>1
    <2>3. q = r
      BY <1>4, <2>1, <2>2 DEF StoreInv, OneRowPerScrape
    <2>4. QED
      BY <2>1, <2>2, <2>3
  <1>5. QED
    BY <1>3, <1>4 DEF OneRowPerScrape

------------------------------------------------------------------------------
(* Every step keeps StoreInv *)

\* The steps that write no row.
Silent(t) ==
  \/ Start(t) \/ BoardArrives(t) \/ PlanArrives(t) \/ PlanFails(t)
  \/ AttemptFails(t) \/ Unserved(t)
  \/ CountPrior(t) \/ CountFails(t) \/ MarkEmpty(t)
  \/ JudgeArrivals(t) \/ JudgeDepartures(t) \/ BackfillFails(t) \/ RecordNames(t)

Commits(t) == CommitArrivals(t) \/ CommitDepartures(t) \/ AnswerLost(t)
Backfills(t) == PinPlannedTime(t) \/ FillPlannedPlatform(t) \/ FillRoute(t) \/ FillEndpoint(t)

LEMMA StepKinds ==
  ASSUME NEW t \in Tasks
  PROVE  Step(t) <=> Silent(t) \/ Commits(t) \/ Backfills(t)
  BY DEF Step, Silent, Commits, Backfills

\* A silent step changes neither the rows nor what was seen.
LEMMA SilentKeepsRows ==
  ASSUME NEW t \in Tasks, Silent(t)
  PROVE  rows' = rows /\ seen' = seen
  BY DEF Silent, Start, BoardArrives, PlanArrives, PlanFails, AttemptFails, Unserved,
         CountPrior, CountFails, MarkEmpty, JudgeArrivals, JudgeDepartures, Judge,
         BackfillFails, RecordNames, db

LEMMA StepMoves ==
  ASSUME StoreInv, NEW t \in Tasks, Step(t)
  PROVE  Moved(t) /\ now' \in Nat /\ now <= now'
  <1>1. CASE Start(t)
    BY <1>1, StartMoves
  <1>2. CASE ~Start(t)
    <2>1. now' = now /\ now \in Nat
      BY <1>2 DEF Step, BoardArrives, PlanArrives, PlanFails, AttemptFails, Unserved,
         CountPrior, CountFails, MarkEmpty, JudgeArrivals, JudgeDepartures, Judge,
         CommitArrivals, CommitDepartures, AnswerLost, Commit, Unanswered, Write, PinPlannedTime, FillPlannedPlatform,
         FillRoute, FillEndpoint, Backfill, BackfillFails, RecordNames, StoreInv, Surroundings
    <2>2. CASE JudgeArrivals(t) \/ JudgeDepartures(t)
      BY <2>1, <2>2, JudgeMoves
    <2>3. CASE ~(JudgeArrivals(t) \/ JudgeDepartures(t))
      <3>1. Advances(t)
        BY <1>2, <2>3, BoardArrivesAdvances, PlanAdvances, AttemptFailsAdvances,
           EndingsAdvance, CommitsAdvance, AnswerLostAdvances, BackfillAdvances DEF Step
      <3>2. QED
        BY <2>1, <3>1 DEF Advances
    <2>4. QED
      BY <2>2, <2>3
  <1>3. QED
    BY <1>1, <1>2

\* The variables an attempt changes besides rows, seen and its own state.
LEMMA StepKeepsRest ==
  ASSUME StoreInv, NEW t \in Tasks, Step(t)
  PROVE  /\ fchg' = fchg /\ updates' = updates /\ hour' = hour /\ crossed' = crossed
         /\ planCache' \subseteq Hours /\ janitors' \subseteq Hours
         /\ pending' \subseteq UnknownRoutes
         /\ failures' \in 0..MaxFailures
  <1>1. /\ planCache \subseteq Hours /\ janitors \subseteq Hours
        /\ pending \subseteq UnknownRoutes /\ failures \in 0..MaxFailures
        /\ job[t].hour \in Hours /\ job[t].names \subseteq UnknownRoutes
    BY AtWork DEF StoreInv, Surroundings, Attempts
  <1>2. Fails => failures' \in 0..MaxFailures
    BY <1>1, FailsTyped
  <1>3. CASE Silent(t)
    BY <1>1, <1>2, <1>3 DEF Silent, Start, BoardArrives, PlanArrives, PlanFails,
       AttemptFails, Unserved, CountPrior, CountFails, MarkEmpty, JudgeArrivals,
       JudgeDepartures, Judge, BackfillFails, RecordNames, iris, cache, db
  <1>4. CASE Commits(t) \/ Backfills(t)
    BY <1>1, <1>2, <1>4 DEF Commits, Backfills, CommitArrivals, CommitDepartures, AnswerLost, Commit, Unanswered, Write,
       PinPlannedTime, FillPlannedPlatform, FillRoute, FillEndpoint, Backfill, iris, cache
  <1>5. QED
    BY <1>3, <1>4, StepKinds

LEMMA StepKeepsFlags ==
  ASSUME StoreInv, NEW t \in Tasks, Step(t)
  PROVE  noIris' \in BOOLEAN /\ overlap' \in BOOLEAN
  <1>1. noIris \in BOOLEAN /\ overlap \in BOOLEAN
    BY DEF StoreInv, Surroundings
  <1>2. noIris' = noIris \/ noIris' = TRUE
    BY DEF Step, Start, BoardArrives, PlanArrives, PlanFails, AttemptFails, Unserved,
       CountPrior, CountFails, MarkEmpty, JudgeArrivals, JudgeDepartures, Judge,
       CommitArrivals, CommitDepartures, AnswerLost, Commit, Unanswered, Write, PinPlannedTime, FillPlannedPlatform,
       FillRoute, FillEndpoint, Backfill, BackfillFails, RecordNames, db
  <1>3. overlap' = overlap \/ overlap' = (overlap \/ ~Quiet)
    BY DEF Step, Start, BoardArrives, PlanArrives, PlanFails, AttemptFails, Unserved,
       CountPrior, CountFails, MarkEmpty, JudgeArrivals, JudgeDepartures, Judge,
       CommitArrivals, CommitDepartures, AnswerLost, Commit, Unanswered, Write, PinPlannedTime, FillPlannedPlatform,
       FillRoute, FillEndpoint, Backfill, BackfillFails, RecordNames
  <1>4. QED
    BY <1>1, <1>2, <1>3

\* What a commit records as seen: the event of its batch, where it has one.
LEMMA CommitSees ==
  ASSUME StoreInv, NEW t \in Tasks, NEW dir \in SUBSET Keys, NEW from,
         Write(t, dir, from)
  PROVE  /\ seen' \in [Keys -> {None} \cup ((Int \cup {None}) \X {"", "plan", "chg"})]
         /\ \A k \in Keys :
              \/ seen'[k] = seen[k] /\ \A ev \in Batch(job[t], dir) : ev.key # k
              \/ \E ev \in Batch(job[t], dir) :
                   ev.key = k /\ ev \in Events /\ seen'[k] = Communicated(ev)
  <1>. DEFINE batch == Batch(job[t], dir)
              old == seen
              evs(k) == {ev \in batch : ev.key = k}
              new(k) == IF evs(k) = {} THEN old[k] ELSE Communicated(CHOOSE ev \in evs(k) : TRUE)
  <1>1. seen' = [k \in Keys |-> new(k)]
    BY DEF Write
  <1>2. batch \subseteq Events
    BY AtWork, BatchTyped
  <1>. HIDE DEF batch
  <1>. DEFINE shown == {None} \cup ((Int \cup {None}) \X {"", "plan", "chg"})
  <1>3. old \in [Keys -> shown]
    BY DEF StoreInv, Surroundings
  <1>4. ASSUME NEW k \in Keys
        PROVE  \/ new(k) = old[k] /\ \A ev \in batch : ev.key # k
               \/ \E ev \in batch : ev.key = k /\ ev \in Events /\ new(k) = Communicated(ev)
    <2>1. CASE evs(k) = {}
      BY <2>1
    <2>2. CASE evs(k) # {}
      <3>1. (CHOOSE ev \in evs(k) : TRUE) \in evs(k)
        BY <2>2
      <3>2. QED
        BY <1>2, <2>2, <3>1
    <2>3. QED
      BY <2>1, <2>2
  <1>5. \A ev \in Events : Communicated(ev) \in shown
    BY DEF Communicated, Events
  <1>. HIDE DEF new, evs, shown
  <1>6. \A k \in Keys : new(k) \in shown
    BY <1>3, <1>4, <1>5
  <1>7. seen' \in [Keys -> shown]
    BY <1>1, <1>6
  <1>8. \A k \in Keys : seen'[k] = new(k)
    BY <1>1
  <1>9. QED
    BY <1>4, <1>7, <1>8 DEF batch, shown

LEMMA StepKeepsStore ==
  ASSUME StoreInv, NEW t \in Tasks, Step(t)
  PROVE  StoreInv'
  <1>1. Moved(t) /\ now' \in Nat /\ now <= now' /\ now \in Nat
    BY StepMoves DEF StoreInv, Surroundings
  <1>2. Attempting'
    BY <1>1, MovedKeepsAttempting DEF StoreInv
  <1>. DEFINE Seen == [Keys -> {None} \cup ((Int \cup {None}) \X {"", "plan", "chg"})]
  <1>3. /\ rows' \subseteq Events /\ \A r \in rows' : r.scraped <= now'
        /\ OneRowPerScrape'
        /\ seen' \in Seen
    <2>. HIDE DEF Seen
    <2>1. rows \subseteq Events /\ (\A r \in rows : r.scraped <= now) /\ seen \in Seen
      BY DEF StoreInv, Surroundings, Seen
    <2>2. CASE Silent(t)
      <3>1. rows' = rows /\ seen' = seen
        BY <2>2, SilentKeepsRows
      <3>2. \A r \in rows : r.scraped \in Nat
        BY <2>1 DEF Events
      <3>3. QED
        BY <1>1, <2>1, <3>1, <3>2 DEF StoreInv, OneRowPerScrape
    <2>3. CASE Commits(t)
      <3>1. /\ rows' \subseteq Events /\ OneRowPerScrape' /\ now' = now
            /\ \A r \in rows' \ rows : r.scraped = job[t].at
        BY <2>3, CommitAdds DEF Commits, CommitArrivals, CommitDepartures, AnswerLost, Commit, Unanswered, Write
      <3>2. job[t].at <= now
        BY AtWork
      <3>3. seen' \in Seen
        BY <2>3, CommitSees
        DEF Commits, CommitArrivals, CommitDepartures, AnswerLost, Commit, Unanswered, Keys, Seen
      <3>4. QED
        BY <2>1, <3>1, <3>2, <3>3
    <2>4. CASE Backfills(t)
      <3>1. now' = now /\ seen' = seen
        BY <2>4 DEF Backfills, PinPlannedTime, FillPlannedPlatform, FillRoute, FillEndpoint, Backfill
      <3>2. PICK f : Maps(f)
        BY <2>4, BackfillMaps DEF Backfills
      <3>3. QED
        BY <2>1, <3>1, <3>2, MapsKeepRows
    <2>5. QED
      BY <2>2, <2>3, <2>4, StepKinds
  <1>4. /\ fchg' \in Boards /\ updates' \in 0..MaxUpdates /\ hour' \in Hours
        /\ planCache' \subseteq Hours /\ janitors' \subseteq Hours
        /\ pending' \subseteq UnknownRoutes /\ failures' \in 0..MaxFailures
    BY StepKeepsRest DEF StoreInv, Surroundings
  <1>5. noIris' \in BOOLEAN /\ overlap' \in BOOLEAN
    BY StepKeepsFlags
  <1>6. Surroundings'
    <2>1. crossed' \in BOOLEAN
      BY StepKeepsRest DEF StoreInv, Surroundings
    <2>. QED
      BY <1>1, <1>3, <1>4, <1>5, <2>1 DEF Surroundings
  <1>7. QED
    BY <1>2, <1>3, <1>6 DEF StoreInv

\* StoreInv is inductive.
LEMMA StoreInvStep ==
  StoreInv /\ [Next]_vars => StoreInv'
  <1>. SUFFICES ASSUME StoreInv, [Next]_vars PROVE StoreInv'
    OBVIOUS
  <1>1. CASE IrisChanges
    BY <1>1, IrisChangesKeeps
  <1>2. CASE HourTurns
    BY <1>2, HourTurnsKeeps
  <1>3. CASE Crash
    BY <1>3, CrashKeeps
  <1>4. CASE \E h \in Hours : Janitor(h)
    BY <1>4, JanitorKeeps
  <1>5. CASE \E t \in Tasks : Step(t)
    BY <1>5, StepKeepsStore
  <1>6. CASE UNCHANGED vars
    BY <1>6 DEF vars, cache, db, StoreInv, Surroundings, Attempting, OneRowPerScrape
  <1>7. QED
    BY <1>1, <1>2, <1>3, <1>4, <1>5, <1>6 DEF Next

\* The invariant under the table's promise, for any number of tasks at once.
THEOREM BoardInvariant == Spec => []StoreInv
  <1>1. Init => StoreInv
    BY StoreInvInit
  <1>2. StoreInv /\ [Next]_vars => StoreInv'
    BY StoreInvStep
  <1>3. QED
    BY <1>1, <1>2, PTL DEF Spec

\* Type correctness: in particular, whatever IRIS communicates and whenever,
\* no row is ever written without a planned time, none carries a scrape of
\* the future, and no task is tried more often than asynq allows.
THEOREM BoardTypeCorrect == Spec => []TypeOK
  <1>1. StoreInv => TypeOK
    BY DEF StoreInv, Surroundings, Attempting, AttemptOK, TypeOK
  <1>2. QED
    BY <1>1, BoardInvariant, PTL

------------------------------------------------------------------------------
(* The table keeps its promise *)

LEMMA StoreStep ==
  ASSUME StoreInv, [Next]_vars
  PROVE  [Store!Next]_rows
  <1>1. ASSUME NEW t \in Tasks, Step(t)
        PROVE  [Store!Next]_rows
    <2>1. CASE Silent(t)
      BY <2>1, SilentKeepsRows
    <2>2. CASE Commits(t)
      <3>1. rows \subseteq rows' /\ OneRowPerScrape'
        BY <2>2, CommitAdds DEF Commits
      <3>2. Store!Insert
        BY <3>1 DEF OneRowPerScrape, Store!Insert
      <3>3. QED
        BY <3>2 DEF Store!Next
    <2>3. CASE Backfills(t)
      <3>1. \E K \in SUBSET Keys : \/ Store!Pin(K) \/ Store!FillPlatform(K)
                                 \/ Store!FillRoute(K) \/ Store!FillEndpoint(K)
        BY <2>3, BackfillIsStore DEF Backfills
      <3>2. QED
        BY <3>1 DEF Store!Next
    <2>4. QED
      BY <1>1, <2>1, <2>2, <2>3, StepKinds
  <1>2. CASE IrisChanges \/ HourTurns \/ Crash \/ (\E h \in Hours : Janitor(h)) \/ UNCHANGED vars
    BY <1>2 DEF IrisChanges, HourTurns, Crash, Janitor, vars, db
  <1>3. QED
    BY <1>1, <1>2 DEF Next

\* The worker's tasks implement the table's specification: with any number of
\* tasks interleaved, plans fetched twice, backfills cut short, retries and
\* crashes, snapshots are only added, one per key and scrape, what IRIS
\* communicated is never rewritten, and only the scheduled fields are filled.
THEOREM BoardImplementsStore == Spec => ImplementsStore
  <1>1. Init => Store!Init
    BY DEF Init, Store!Init
  <1>2. StoreInv /\ [Next]_vars => [Store!Next]_rows
    BY StoreStep
  <1>3. QED
    BY <1>1, <1>2, BoardInvariant, PTL DEF Spec, ImplementsStore, Store!Spec

\* What a step of the store does to a row it has.
LEMMA SnapshotKept ==
  ASSUME rows \subseteq Events, [Store!Next]_rows, NEW r \in rows
  PROVE  \E q \in rows' : Store!SameSnapshot(r, q)
  <1>1. /\ r \in Events
        /\ r = [r EXCEPT !.planned = r.planned, !.pp = r.pp, !.route = r.route, !.endpoint = r.endpoint]
    BY DEF Events
  <1>2. CASE rows \subseteq rows'
    BY <1>1, <1>2 DEF Store!SameSnapshot
  <1>3. ASSUME NEW K \in SUBSET Keys, Store!Pin(K)
        PROVE  \E q \in rows' : Store!SameSnapshot(r, q)
    <2>. DEFINE q == [r EXCEPT !.planned = IF r.key \in K THEN Schedule[r.key] ELSE @]
    <2>1. q \in rows'
      BY <1>3 DEF Store!Pin
    <2>2. Store!SameSnapshot(r, q)
      BY <1>1 DEF Store!SameSnapshot, Events
    <2>. QED
      BY <2>1, <2>2
  <1>4. ASSUME NEW K \in SUBSET Keys, Store!FillPlatform(K)
        PROVE  \E q \in rows' : Store!SameSnapshot(r, q)
    <2>. DEFINE q == [r EXCEPT !.pp = IF r.key \in K /\ @ = "" THEN "plan" ELSE @]
    <2>1. q \in rows'
      BY <1>4 DEF Store!FillPlatform
    <2>2. Store!SameSnapshot(r, q)
      BY <1>1 DEF Store!SameSnapshot, Events
    <2>. QED
      BY <2>1, <2>2
  <1>5. ASSUME NEW K \in SUBSET Keys, Store!FillRoute(K)
        PROVE  \E q \in rows' : Store!SameSnapshot(r, q)
    <2>. DEFINE q == [r EXCEPT !.route = IF r.key \in K /\ @ = "" THEN "plan" ELSE @]
    <2>1. q \in rows'
      BY <1>5 DEF Store!FillRoute
    <2>2. Store!SameSnapshot(r, q)
      BY <1>1 DEF Store!SameSnapshot, Events
    <2>. QED
      BY <2>1, <2>2
  <1>6. ASSUME NEW K \in SUBSET Keys, Store!FillEndpoint(K)
        PROVE  \E q \in rows' : Store!SameSnapshot(r, q)
    <2>. DEFINE q == [r EXCEPT !.endpoint = IF r.key \in K /\ @ = "" THEN "plan" ELSE @]
    <2>1. q \in rows'
      BY <1>6 DEF Store!FillEndpoint
    <2>2. Store!SameSnapshot(r, q)
      BY <1>1 DEF Store!SameSnapshot, Events
    <2>. QED
      BY <2>1, <2>2
  <1>. QED
    BY <1>2, <1>3, <1>4, <1>5, <1>6 DEF Store!Next, Store!Insert

\* Whatever the tasks do to each other, a committed snapshot stays: what IRIS
\* communicated in it is never rewritten, and its schedule only filled in or
\* pinned to that of the plan (process.go 36-44, 227-241).
THEOREM BoardSnapshotsStay == Spec => Store!SnapshotsStay
  <1>1. StoreInv /\ [Next]_vars => [\A r \in rows : \E q \in rows' : Store!SameSnapshot(r, q)]_rows
    <2>. SUFFICES ASSUME StoreInv, [Next]_vars, NEW r \in rows
                  PROVE  \E q \in rows' : Store!SameSnapshot(r, q)
      OBVIOUS
    <2>1. rows \subseteq Events
      BY DEF StoreInv, Surroundings
    <2>. QED
      BY <2>1, StoreStep, SnapshotKept
  <1>. QED
    BY <1>1, BoardInvariant, PTL DEF Spec, Store!SnapshotsStay
==============================================================================
