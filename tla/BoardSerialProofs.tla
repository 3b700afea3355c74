-------------------------- MODULE BoardSerialProofs --------------------------
(***************************************************************************)
(* Proofs about the tasks of a station that never had two attempts in       *)
(* flight together, whatever failed, was retried or crashed in between: the *)
(* dedup then adds no row that shows nothing new, and the latest row by     *)
(* scraped_at is the last word of IRIS.                                     *)
(***************************************************************************)
EXTENDS BoardFetchProofs

OneAtWork == \A t, u \in Tasks : InFlight(t) /\ InFlight(u) => t = u

\* The rows an attempt's batches will be compared with are older than it.
OlderRows ==
  \A t \in Tasks : \A r \in rows :
    r.key \in Ahead(job[t].pc) => r.scraped < job[t].at

\* What the dedup found is still so at the commit.
StillJudged ==
  \A t \in Tasks :
    /\ job[t].pc = "commitArrivals" => job[t].insert = Changed(Batch(job[t], Arrivals))
    /\ job[t].pc = "commitDepartures" => job[t].insert = Changed(Batch(job[t], Departures))

\* A key with rows has a latest one.
Newest(rs, k, r) == r \in RowsOf(rs, k) /\ \A s \in RowsOf(rs, k) : s.scraped <= r.scraped
HasLatest == \A k \in Keys : RowsOf(rows, k) # {} => \E r : Newest(rows, k, r)

SerialInv ==
  /\ HasLatest
  /\ ~overlap => OneAtWork /\ OlderRows /\ StillJudged
  /\ LatestIsLastSeen

------------------------------------------------------------------------------
(* Latest *)

LEMMA LatestIsNewest ==
  ASSUME NEW rs, NEW k, \E r : Newest(rs, k, r)
  PROVE  Newest(rs, k, Latest(rs, k))
  BY DEF Newest, Latest

\* With one row per key and scrape, only one row is the newest.
LEMMA NewestIsLatest ==
  ASSUME NEW rs \in SUBSET Events, NEW k, NEW r, Newest(rs, k, r),
         \A x, y \in rs : x.key = y.key /\ x.scraped = y.scraped => x = y
  PROVE  Latest(rs, k) = r
  <1>1. Newest(rs, k, Latest(rs, k))
    BY LatestIsNewest
  <1>2. /\ Latest(rs, k) \in rs /\ Latest(rs, k).key = k /\ r \in rs /\ r.key = k
        /\ r.scraped <= Latest(rs, k).scraped /\ Latest(rs, k).scraped <= r.scraped
    BY <1>1 DEF Newest, RowsOf
  <1>3. r.scraped \in Nat /\ Latest(rs, k).scraped \in Nat
    BY <1>2 DEF Events
  <1>4. QED
    BY <1>2, <1>3

------------------------------------------------------------------------------
(* Steps that write no row *)

\* Where nothing was written, a task that advances keeps SerialInv.
LEMMA AdvancesKeeps ==
  ASSUME StoreInv, SerialInv, NEW t \in Tasks, Advances(t),
         rows' = rows, seen' = seen, overlap' = overlap
  PROVE  SerialInv'
  <1>1. HasLatest' /\ LatestIsLastSeen'
    BY DEF SerialInv, HasLatest, Newest, RowsOf, LatestIsLastSeen, Latest
  <1>2. ASSUME ~overlap
        PROVE  OneAtWork' /\ OlderRows' /\ StillJudged'
    <2>1. OneAtWork /\ OlderRows /\ StillJudged /\ InFlight(t)
      BY <1>2 DEF SerialInv, Advances
    <2>2. \A u \in Tasks \ {t} : job'[u] = job[u] /\ ~InFlight(u)
      BY <2>1 DEF Advances, Moved, OneAtWork
    <2>3. OneAtWork'
      BY <2>1, <2>2 DEF OneAtWork, InFlight
    <2>4. OlderRows'
      BY <2>1, <2>2 DEF OlderRows, Advances
    <2>5. StillJudged'
      <3>1. \A u \in Tasks : job'[u].pc \notin Committing
        BY <2>2 DEF Advances, Committing, InFlight
      <3>2. QED
        BY <3>1 DEF StillJudged, Committing
    <2>6. QED
      BY <2>3, <2>4, <2>5
  <1>3. QED
    BY <1>1, <1>2 DEF SerialInv

\* A start that does not overlap finds every other task at rest, and its
\* scrape is later than every row.
LEMMA StartKeeps ==
  ASSUME StoreInv, SerialInv, NEW t \in Tasks, Start(t)
  PROVE  SerialInv'
  <1>1. rows' = rows /\ seen' = seen /\ overlap' = (overlap \/ ~Quiet)
    BY DEF Start, db
  <1>2. HasLatest'
    BY <1>1 DEF SerialInv, HasLatest, Newest, RowsOf
  <1>3. ~overlap' => ~overlap /\ Quiet
    BY <1>1
  <1>4. LatestIsLastSeen'
    BY <1>1, <1>3 DEF SerialInv, LatestIsLastSeen, RowsOf, Latest
  <1>5. /\ Moved(t) /\ job'[t].insert = {} /\ job'[t].pc = "fchg" /\ job'[t].at = now'
    BY StartMoves
  <1>7. ASSUME Quiet
        PROVE  OneAtWork' /\ OlderRows' /\ StillJudged'
    <2>1. \A u \in Tasks \ {t} : job'[u] = job[u] /\ ~InFlight(u)
      BY <1>5, <1>7 DEF Moved, Quiet
    <2>2. now' = now + 1 /\ now \in Nat
      BY <1>7 DEF Start, Quiet, StoreInv, Surroundings
    <2>3. \A r \in rows : r.scraped \in Nat /\ r.scraped < now'
      <3>1. \A r \in rows : r.scraped \in Nat /\ r.scraped <= now
        BY DEF StoreInv, Surroundings, Events
      <3>2. QED
        BY <2>2, <3>1
    <2>4. OneAtWork'
      BY <2>1 DEF OneAtWork, InFlight
    <2>5. OlderRows'
      <3>1. \A u \in Tasks \ {t} : Ahead(job'[u].pc) = {}
        BY <2>1 DEF Ahead, InFlight
      <3>2. QED
        BY <1>1, <1>5, <2>3, <3>1 DEF OlderRows
    <2>6. StillJudged'
      <3>1. \A u \in Tasks : job'[u].pc \notin Committing
        BY <1>5, <2>1 DEF Committing, InFlight
      <3>2. QED
        BY <3>1 DEF StillJudged, Committing
    <2>7. QED
      BY <2>4, <2>5, <2>6
  <1>8. QED
    BY <1>2, <1>3, <1>4, <1>7 DEF SerialInv

\* The judging reads the attempt's own batch and leaves it as it is.
LEMMA JudgeExact ==
  ASSUME StoreInv, NEW t \in Tasks, NEW dir, NEW from, NEW to, Judge(t, dir, from, to)
  PROVE  /\ job'[t].pc = to
         /\ job'[t].insert = Changed(Batch(job[t], dir))
         /\ \A d : Batch(job'[t], d) = Batch(job[t], d)
  <1>. DEFINE batch == Batch(job[t], dir)
              nm == job[t].names \cup ({ev.route : ev \in batch} \cap (UnknownRoutes \ pending))
              new == Changed(batch)
              k == [job[t] EXCEPT !.pc = to, !.insert = new, !.names = nm]
  <1>1. job' = [job EXCEPT ![t].pc = to, ![t].insert = new, ![t].names = nm]
    BY DEF Judge
  <1>. HIDE DEF new, nm
  <1>2. job'[t] = k
    BY <1>1, AtWork
  <1>3. /\ k.pc = to /\ k.insert = new /\ k.fchg = job[t].fchg /\ k.plan = job[t].plan
        /\ k.at = job[t].at
    BY AtWork DEF Attempts
  <1>. HIDE DEF k
  <1>4. \A d : Batch(k, d) = Batch(job[t], d)
    BY <1>3 DEF Batch
  <1>5. QED
    BY <1>2, <1>3, <1>4 DEF new

LEMMA JudgeKeeps ==
  ASSUME StoreInv, SerialInv, NEW t \in Tasks, JudgeArrivals(t) \/ JudgeDepartures(t)
  PROVE  SerialInv'
  <1>1. rows' = rows /\ seen' = seen /\ overlap' = overlap
    BY DEF JudgeArrivals, JudgeDepartures, Judge, db
  <1>2. HasLatest' /\ LatestIsLastSeen'
    BY <1>1 DEF SerialInv, HasLatest, Newest, RowsOf, LatestIsLastSeen, Latest
  <1>3. /\ InFlight(t) /\ Moved(t) /\ job'[t].at = job[t].at
        /\ Ahead(job'[t].pc) = Ahead(job[t].pc)
    BY JudgeMoves
  <1>5. ASSUME ~overlap
        PROVE  OneAtWork' /\ OlderRows' /\ StillJudged'
    <2>1. OneAtWork /\ OlderRows
      BY <1>5 DEF SerialInv
    <2>2. \A u \in Tasks \ {t} : job'[u] = job[u] /\ ~InFlight(u)
      BY <1>3, <2>1 DEF Moved, OneAtWork
    <2>3. OneAtWork'
      BY <1>3, <2>2 DEF OneAtWork, InFlight
    <2>4. OlderRows'
      BY <1>1, <1>3, <2>1, <2>2 DEF OlderRows
    <2>5. StillJudged'
      <3>1. \A b : Changed(b)' = Changed(b)
        BY <1>1 DEF Changed, IsUnchanged, RowsOf, Latest
      <3>2. \A u \in Tasks \ {t} : job'[u].pc \notin Committing
        BY <2>2 DEF InFlight, Committing
      <3>3. CASE JudgeArrivals(t)
        <4>1. /\ job'[t].pc = "commitArrivals"
              /\ job'[t].insert = Changed(Batch(job[t], Arrivals))
              /\ Batch(job'[t], Arrivals) = Batch(job[t], Arrivals)
          BY <3>3, JudgeExact DEF JudgeArrivals
        <4>2. QED
          BY <3>1, <3>2, <4>1 DEF StillJudged, Committing
      <3>4. CASE JudgeDepartures(t)
        <4>1. /\ job'[t].pc = "commitDepartures"
              /\ job'[t].insert = Changed(Batch(job[t], Departures))
              /\ Batch(job'[t], Departures) = Batch(job[t], Departures)
          BY <3>4, JudgeExact DEF JudgeDepartures
        <4>2. QED
          BY <3>1, <3>2, <4>1 DEF StillJudged, Committing
      <3>5. QED
        BY <3>3, <3>4
    <2>6. QED
      BY <2>3, <2>4, <2>5
  <1>6. QED
    BY <1>1, <1>2, <1>5 DEF SerialInv

------------------------------------------------------------------------------
(* A commit *)

\* Where a commit goes on.
LEMMA CommitPlaces ==
  ASSUME StoreInv, NEW t \in Tasks, CommitArrivals(t) \/ CommitDepartures(t)
  PROVE  /\ job'[t].pc \in {"departures", "pin", "record", "done"}
         /\ job[t].pc = "commitDepartures" => job'[t].pc # "departures"
  <1>1. /\ job \in [Tasks -> Attempts] /\ now' \in Nat /\ job[t].at <= now'
        /\ job[t].tries < MaxTries /\ job[t] \in Attempts
    BY AtWork DEF CommitArrivals, CommitDepartures, Commit, Write
  <1>2. PICK pc \in {"departures", "pin", "record", "done"} :
          /\ Proceed(t, job[t], pc)
          /\ job[t].pc = "commitDepartures" => pc # "departures"
    BY NextPlaces DEF CommitArrivals, CommitDepartures, Commit, Write
  <1>3. job'[t].pc = pc
    BY <1>1, <1>2, ProceedMoves
  <1>4. QED
    BY <1>2, <1>3

\* The same when its answer may be lost: then the attempt is over.
LEMMA WritePlaces ==
  ASSUME StoreInv, NEW t \in Tasks, Commits(t)
  PROVE  /\ Advances(t)
         /\ Ahead(job'[t].pc) \subseteq Departures
         /\ job[t].pc = "commitDepartures" => Ahead(job'[t].pc) = {}
  <1>1. CASE CommitArrivals(t) \/ CommitDepartures(t)
    BY <1>1, CommitsAdvance, CommitPlaces DEF Ahead
  <1>2. CASE AnswerLost(t)
    BY <1>2, AnswerLostAdvances DEF Ahead, Idle
  <1>. QED
    BY <1>1, <1>2 DEF Commits

\* A row that joins a table with a newest row per key leaves it with one.
LEMMA CommitKeepsLatest ==
  ASSUME StoreInv, HasLatest, NEW t \in Tasks, Commits(t)
  PROVE  HasLatest'
  <1>1. /\ rows \subseteq rows' /\ rows' \subseteq Events
        /\ \A r \in rows' \ rows : r \in job[t].insert /\ r.scraped = job[t].at
    BY CommitAdds DEF Commits
  <1>2. \A r, q \in job[t].insert : r.key = q.key => r = q
    BY AtWork DEF AttemptOK
  <1>3. \A r \in rows' : r.scraped \in Nat
    BY <1>1 DEF Events
  <1>4. ASSUME NEW k \in Keys, NEW x \in rows', x.key = k
        PROVE  \E r : Newest(rows', k, r)
    <2>1. CASE \A r \in rows' : r.key = k => r \in rows
      <3>1. RowsOf(rows', k) = RowsOf(rows, k) /\ x \in RowsOf(rows, k)
        BY <1>1, <1>4, <2>1 DEF RowsOf
      <3>2. QED
        BY <3>1 DEF HasLatest, Newest
    <2>2. CASE \E n \in rows' : n.key = k /\ n \notin rows
      <3>1. PICK n \in rows' : n.key = k /\ n \notin rows
        BY <2>2
      <3>2. \A r \in rows' : r.key = k => r = n \/ r \in rows
        BY <1>1, <1>2, <3>1
      <3>3. CASE RowsOf(rows, k) = {}
        <4>1. \A r \in rows' : r.key = k => r = n
          BY <3>2, <3>3 DEF RowsOf
        <4>2. Newest(rows', k, n)
          BY <1>3, <3>1, <4>1 DEF Newest, RowsOf
        <4>3. QED
          BY <4>2
      <3>4. CASE RowsOf(rows, k) # {}
        <4>1. PICK m : Newest(rows, k, m)
          BY <3>4 DEF HasLatest
        <4>2. /\ m \in rows' /\ m.key = k
              /\ \A r \in rows : r.key = k => r.scraped <= m.scraped
          BY <1>1, <4>1 DEF Newest, RowsOf
        <4>3. CASE m.scraped <= n.scraped
          <5>1. Newest(rows', k, n)
            BY <1>1, <1>3, <3>1, <3>2, <4>2, <4>3 DEF Newest, RowsOf
          <5>2. QED
            BY <5>1
        <4>4. CASE ~(m.scraped <= n.scraped)
          <5>1. n.scraped <= m.scraped
            BY <1>3, <3>1, <4>2, <4>4
          <5>2. Newest(rows', k, m)
            BY <1>1, <1>3, <3>2, <4>2, <5>1 DEF Newest, RowsOf
          <5>3. QED
            BY <5>2
        <4>5. QED
          BY <4>3, <4>4
      <3>5. QED
        BY <3>3, <3>4
    <2>3. QED
      BY <2>1, <2>2
  <1>5. QED
    BY <1>4 DEF HasLatest, RowsOf

\* After a commit of one direction without overlap, the latest row of every
\* key shows what was seen last: the event just written, or the row the dedup
\* found to show the same.
LEMMA CommitKeepsLastSeen ==
  ASSUME StoreInv, SerialInv, ~overlap, NEW t \in Tasks,
         NEW dir \in {Arrivals, Departures}, NEW from,
         Write(t, dir, from), Commits(t),
         dir \subseteq Ahead(job[t].pc),
         job[t].insert = Changed(Batch(job[t], dir))
  PROVE  \A k \in Keys : seen'[k] # None =>
           RowsOf(rows', k) # {} /\ Communicated(Latest(rows', k)) = seen'[k]
  <1>. DEFINE batch == Batch(job[t], dir)
  <1>1. /\ rows' = Added(job[t].insert) /\ rows \subseteq rows' /\ rows' \subseteq Events
        /\ \A r \in rows' \ rows : r \in job[t].insert /\ r.scraped = job[t].at
        /\ OneRowPerScrape'
    BY CommitAdds DEF Commits
  <1>2. /\ batch \subseteq Events
        /\ \A r \in batch : r.scraped = job[t].at /\ r.key \in dir
        /\ \A r, q \in batch : r.key = q.key => r = q
    BY AtWork, BatchTyped
  <1>3. dir \in SUBSET Keys
    BY DEF Keys
  <1>4. \A k \in Keys :
          \/ seen'[k] = seen[k] /\ \A ev \in batch : ev.key # k
          \/ \E ev \in batch : ev.key = k /\ ev \in Events /\ seen'[k] = Communicated(ev)
    BY <1>3, CommitSees
  <1>5. /\ job[t].insert \subseteq batch
        /\ \A ev \in batch : ev \in job[t].insert \/ IsUnchanged(rows, ev)
    BY DEF Changed
  <1>6. \A r \in rows : r.key \in dir => r.scraped < job[t].at
    BY DEF SerialInv, OlderRows
  <1>7. \A k \in Keys : seen[k] # None =>
          RowsOf(rows, k) # {} /\ Communicated(Latest(rows, k)) = seen[k]
    BY DEF SerialInv, LatestIsLastSeen
  <1>. HIDE DEF batch
  <1>8. ASSUME NEW k \in Keys, \A r \in rows' : r.key = k => r \in rows
        PROVE  RowsOf(rows', k) = RowsOf(rows, k) /\ Latest(rows', k) = Latest(rows, k)
    <2>1. RowsOf(rows', k) = RowsOf(rows, k)
      BY <1>1, <1>8 DEF RowsOf
    <2>2. QED
      BY <2>1 DEF Latest
  <1>9. ASSUME NEW k \in Keys, seen'[k] # None
        PROVE  RowsOf(rows', k) # {} /\ Communicated(Latest(rows', k)) = seen'[k]
    <2>1. CASE seen'[k] = seen[k] /\ \A ev \in batch : ev.key # k
      <3>1. \A r \in rows' : r.key = k => r \in rows
        BY <1>1, <1>5, <2>1
      <3>2. QED
        BY <1>7, <1>8, <1>9, <2>1, <3>1
    <2>2. CASE \E ev \in batch : ev.key = k /\ ev \in Events /\ seen'[k] = Communicated(ev)
      <3>1. PICK ev \in batch : ev.key = k /\ ev \in Events /\ seen'[k] = Communicated(ev)
        BY <2>2
      <3>2. CASE ev \in job[t].insert
        <4>1. ev.scraped = job[t].at /\ ev.scraped \in Nat /\ k \in dir
          BY <1>2, <3>1 DEF Events
        <4>2. \A r \in rows : r.key = k => r.scraped < ev.scraped /\ r.scraped \in Nat
          BY <1>1, <1>6, <4>1 DEF Events
        <4>3. ev \in rows'
          <5>1. \A r \in rows : r.key = ev.key => r.scraped # ev.scraped
            BY <3>1, <4>1, <4>2
          <5>2. QED
            BY <1>1, <3>2, <5>1 DEF Added
        <4>4. \A r \in rows' : r.key = k => r.scraped <= ev.scraped
          <5>1. \A r \in rows' \ rows : r.key = k => r = ev
            BY <1>1, <1>2, <1>5, <3>1
          <5>2. QED
            BY <4>1, <4>2, <5>1
        <4>5. Newest(rows', k, ev)
          BY <3>1, <4>3, <4>4 DEF Newest, RowsOf
        <4>6. Latest(rows', k) = ev
          BY <1>1, <4>5, NewestIsLatest DEF OneRowPerScrape
        <4>7. QED
          BY <3>1, <4>3, <4>6 DEF RowsOf
      <3>3. CASE ev \notin job[t].insert
        <4>1. RowsOf(rows, k) # {} /\ Observable(Latest(rows, k)) = Observable(ev)
          BY <1>5, <3>1, <3>3 DEF IsUnchanged
        <4>2. Communicated(Latest(rows, k)) = Communicated(ev)
          BY <4>1 DEF Observable, Communicated
        <4>3. \A r \in rows' : r.key = k => r \in rows
          BY <1>1, <1>2, <1>5, <3>1, <3>3
        <4>4. QED
          BY <1>8, <3>1, <4>1, <4>2, <4>3
      <3>4. QED
        BY <3>2, <3>3
    <2>3. QED
      BY <1>4, <2>1, <2>2
  <1>10. QED
    BY <1>9

LEMMA CommitKeeps ==
  ASSUME StoreInv, SerialInv, NEW t \in Tasks, Commits(t)
  PROVE  SerialInv'
  <1>. DEFINE dir == IF job[t].pc = "commitArrivals" THEN Arrivals ELSE Departures
  <1>1. /\ overlap' = overlap /\ job[t].pc \in Committing
        /\ \E from : Write(t, dir, from)
    BY DEF Commits, CommitArrivals, CommitDepartures, AnswerLost, Commit, Unanswered, Write, Committing
  <1>2. HasLatest'
    BY CommitKeepsLatest DEF SerialInv
  <1>3. Advances(t)
    BY WritePlaces
  <1>4. /\ rows' = Added(job[t].insert)
        /\ \A r \in rows' \ rows : r \in job[t].insert
    BY CommitAdds DEF Commits
  <1>5. /\ Ahead(job'[t].pc) \subseteq Departures
        /\ job[t].pc = "commitDepartures" => Ahead(job'[t].pc) = {}
    BY WritePlaces
  <1>6. ASSUME ~overlap
        PROVE  /\ OneAtWork' /\ OlderRows' /\ StillJudged'
               /\ LatestIsLastSeen'
    <2>1. OneAtWork /\ OlderRows /\ StillJudged
      BY <1>6 DEF SerialInv
    <2>2. \A u \in Tasks \ {t} : job'[u] = job[u] /\ ~InFlight(u)
      BY <1>3, <2>1 DEF Advances, Moved, OneAtWork
    <2>3. OneAtWork'
      BY <1>3, <2>2 DEF OneAtWork, InFlight, Advances
    <2>4. job[t].insert = Changed(Batch(job[t], dir))
      BY <1>1, <2>1 DEF StillJudged, Committing
    <2>. HIDE DEF dir
    <2>5. \A r \in job[t].insert : r.key \in dir
      <3>1. \A r \in Batch(job[t], dir) : r.key \in dir
        BY AtWork, BatchTyped
      <3>2. QED
        BY <2>4, <3>1 DEF Changed
    <2>6. Ahead(job'[t].pc) \cap dir = {} /\ dir \subseteq Ahead(job[t].pc)
          /\ dir \in {Arrivals, Departures}
      <3>1. CASE job[t].pc = "commitArrivals"
        <4>2. QED
          BY <1>5, <3>1, BoardAssumption DEF BoardAssumption, Ahead, Keys, dir
      <3>2. CASE job[t].pc = "commitDepartures"
        BY <1>5, <3>2 DEF Ahead, dir
      <3>3. QED
        BY <1>1, <3>1, <3>2 DEF Committing
    <2>7. OlderRows'
      <3>1. \A u \in Tasks \ {t} : Ahead(job'[u].pc) = {}
        BY <2>2 DEF Ahead, InFlight
      <3>2. ASSUME NEW r \in rows', r.key \in Ahead(job'[t].pc)
            PROVE  r.scraped < job'[t].at
        <4>1. r \in rows
          BY <1>4, <2>5, <2>6, <3>2
        <4>2. r.key \in Ahead(job[t].pc) /\ job'[t].at = job[t].at
          BY <1>3, <3>2 DEF Advances
        <4>3. QED
          BY <2>1, <4>1, <4>2 DEF OlderRows
      <3>3. QED
        BY <3>1, <3>2 DEF OlderRows
    <2>8. StillJudged'
      <3>1. \A u \in Tasks : job'[u].pc \notin Committing
        BY <1>3, <2>2 DEF Advances, Committing, InFlight
      <3>2. QED
        BY <3>1 DEF StillJudged, Committing
    <2>9. LatestIsLastSeen'
      <3>1. PICK from : Write(t, dir, from)
        BY <1>1
      <3>2. QED
        BY <1>6, <2>4, <2>6, <3>1, CommitKeepsLastSeen DEF LatestIsLastSeen
    <2>10. QED
      BY <2>3, <2>7, <2>8, <2>9
  <1>7. QED
    BY <1>1, <1>2, <1>6 DEF SerialInv, LatestIsLastSeen

------------------------------------------------------------------------------
(* The backfill *)

\* Row by row, the newest row of a key stays the newest, and shows the same.
LEMMA MapsKeepLatest ==
  ASSUME StoreInv, HasLatest, NEW f, Maps(f), now' = now, NEW k \in Keys,
         RowsOf(rows, k) # {}
  PROVE  /\ RowsOf(rows', k) # {}
         /\ Newest(rows', k, Latest(rows', k))
         /\ Communicated(Latest(rows', k)) = Communicated(Latest(rows, k))
  <1>. DEFINE old == Latest(rows, k)
  <1>1. Newest(rows, k, old)
    BY LatestIsNewest DEF HasLatest
  <1>2. /\ old \in rows /\ old.key = k
        /\ \A r \in rows : r.key = k => r.scraped <= old.scraped
    BY <1>1 DEF Newest, RowsOf
  <1>. HIDE DEF old
  <1>3. \A x \in rows' : \E r \in rows : x = f[r] /\ x.key = r.key /\ x.scraped = r.scraped
    BY DEF Maps
  <1>4. /\ f[old] \in rows' /\ f[old].key = k /\ f[old].scraped = old.scraped
        /\ f[old].actual = old.actual /\ f[old].platform = old.platform
    BY <1>2 DEF Maps
  <1>5. \A x \in rows' : x.key = k => x.scraped <= f[old].scraped
    BY <1>2, <1>3, <1>4
  <1>6. Newest(rows', k, f[old])
    BY <1>4, <1>5 DEF Newest, RowsOf
  <1>7. Latest(rows', k) = f[old]
    BY <1>6, MapsKeepRows, NewestIsLatest DEF OneRowPerScrape
  <1>8. QED
    BY <1>4, <1>6, <1>7 DEF Communicated, RowsOf, old

LEMMA BackfillKeeps ==
  ASSUME StoreInv, SerialInv, NEW t \in Tasks, Backfills(t)
  PROVE  SerialInv'
  <1>1. now' = now /\ seen' = seen /\ overlap' = overlap
    BY DEF Backfills, PinPlannedTime, FillPlannedPlatform, FillRoute, FillEndpoint, Backfill
  <1>2. PICK f : Maps(f)
    BY BackfillMaps DEF Backfills
  <1>3. Advances(t) /\ job[t].pc \in {"pin", "fillPlatform", "fillRoute", "fillEndpoint"}
    BY BackfillAdvances
    DEF Backfills, PinPlannedTime, FillPlannedPlatform, FillRoute, FillEndpoint, Backfill
  <1>4. \A x \in rows' : \E r \in rows : x.key = r.key /\ x.scraped = r.scraped
    BY <1>2 DEF Maps
  <1>5. \A k \in Keys : RowsOf(rows', k) # {} => RowsOf(rows, k) # {}
    BY <1>4 DEF RowsOf
  <1>6. HasLatest'
    BY <1>1, <1>2, <1>5, MapsKeepLatest DEF SerialInv, HasLatest
  <1>7. LatestIsLastSeen'
    <2>1. ASSUME ~overlap, NEW k \in Keys, seen[k] # None
          PROVE  RowsOf(rows', k) # {} /\ Communicated(Latest(rows', k)) = seen[k]
      <3>1. RowsOf(rows, k) # {} /\ Communicated(Latest(rows, k)) = seen[k]
        BY <2>1 DEF SerialInv, LatestIsLastSeen
      <3>2. QED
        BY <1>1, <1>2, <3>1, MapsKeepLatest DEF SerialInv
    <2>2. QED
      BY <1>1, <2>1 DEF LatestIsLastSeen
  <1>8. ASSUME ~overlap
        PROVE  /\ OneAtWork' /\ OlderRows' /\ StillJudged'
    <2>1. OneAtWork /\ OlderRows
      BY <1>8 DEF SerialInv
    <2>2. \A u \in Tasks \ {t} : job'[u] = job[u] /\ ~InFlight(u)
      BY <1>3, <2>1 DEF Advances, Moved, OneAtWork
    <2>3. OneAtWork'
      BY <1>3, <2>2 DEF OneAtWork, InFlight, Advances
    <2>4. OlderRows'
      <3>1. \A u \in Tasks : Ahead(job'[u].pc) = {}
        BY <1>3, <2>2 DEF Advances, Ahead, InFlight
      <3>2. QED
        BY <3>1 DEF OlderRows
    <2>5. StillJudged'
      <3>1. \A u \in Tasks : job'[u].pc \notin Committing
        BY <1>3, <2>2 DEF Advances, Committing, InFlight
      <3>2. QED
        BY <3>1 DEF StillJudged, Committing
    <2>6. QED
      BY <2>3, <2>4, <2>5
  <1>9. QED
    BY <1>1, <1>6, <1>7, <1>8 DEF SerialInv

------------------------------------------------------------------------------
(* The environment *)

\* A crash takes every attempt's judgement with it.
LEMMA CrashKeepsSerial ==
  ASSUME StoreInv, SerialInv, Crash
  PROVE  SerialInv'
  <1>1. rows' = rows /\ seen' = seen /\ overlap' = overlap
    BY DEF Crash, db
  <1>2. HasLatest' /\ LatestIsLastSeen'
    BY <1>1 DEF SerialInv, HasLatest, Newest, RowsOf, LatestIsLastSeen, Latest
  <1>3. ASSUME NEW t \in Tasks
        PROVE  job'[t].pc \in Idle
    <2>1. CASE InFlight(t)
      <3>1. job'[t] = Retried(job[t])
        BY <2>1 DEF Crash
      <3>2. Retried(job[t]).pc \in Idle
        BY <2>1, AtWork, RetriedOK DEF InFlight
      <3>3. QED
        BY <3>1, <3>2
    <2>2. CASE ~InFlight(t)
      BY <2>2 DEF Crash, InFlight, Idle
    <2>3. QED
      BY <2>1, <2>2
  <1>4. OneAtWork' /\ OlderRows' /\ StillJudged'
    <2>1. \A t \in Tasks : /\ Ahead(job'[t].pc) = {} /\ job'[t].pc \notin Committing
                          
      BY <1>3 DEF Ahead, Committing, Idle
    <2>2. OneAtWork'
      BY <1>3 DEF OneAtWork, InFlight, Idle
    <2>3. OlderRows'
      BY <2>1 DEF OlderRows
    <2>4. StillJudged'
      BY <2>1 DEF StillJudged, Committing
    <2>5. QED
      BY <2>2, <2>3, <2>4
  <1>5. QED
    BY <1>2, <1>4 DEF SerialInv

\* IRIS, the hour and the janitor touch neither tasks nor the table.
LEMMA ElsewhereKeepsSerial ==
  ASSUME SerialInv, UNCHANGED <<job, rows, seen, overlap>>
  PROVE  SerialInv'
  <1>1. HasLatest' /\ LatestIsLastSeen'
    BY DEF SerialInv, HasLatest, Newest, RowsOf, LatestIsLastSeen, Latest
  <1>2. /\ OneAtWork => OneAtWork'
        /\ OlderRows => OlderRows'
    BY DEF OneAtWork, OlderRows, InFlight
  <1>3. StillJudged => StillJudged'
    <2>1. job' = job /\ rows' = rows
      OBVIOUS
    <2>2. \A b : Changed(b)' = Changed(b)
      BY <2>1 DEF Changed, IsUnchanged, RowsOf, Latest
    <2>3. QED
      BY <2>1, <2>2 DEF StillJudged
  <1>4. QED
    BY <1>1, <1>2, <1>3 DEF SerialInv

------------------------------------------------------------------------------
(* The theorems *)

LEMMA SerialInvInit ==
  Init => SerialInv
  <1>. SUFFICES ASSUME Init PROVE SerialInv
    OBVIOUS
  <1>1. rows = {} /\ (\A k \in Keys : seen[k] = None) /\ \A t \in Tasks : job[t].pc = "queued"
    BY DEF Init, Blank
  <1>2. HasLatest /\ LatestIsLastSeen
    BY <1>1 DEF HasLatest, RowsOf, LatestIsLastSeen
  <1>3. OneAtWork /\ OlderRows /\ StillJudged
    BY <1>1 DEF OneAtWork, OlderRows, StillJudged, InFlight
  <1>4. QED
    BY <1>2, <1>3 DEF SerialInv

LEMMA SerialInvStep ==
  StoreInv /\ SerialInv /\ [Next]_vars => SerialInv'
  <1>. SUFFICES ASSUME StoreInv, SerialInv, [Next]_vars PROVE SerialInv'
    OBVIOUS
  <1>1. CASE IrisChanges \/ HourTurns \/ (\E h \in Hours : Janitor(h)) \/ UNCHANGED vars
    <2>1. UNCHANGED <<job, rows, seen, overlap>>
      BY <1>1 DEF IrisChanges, HourTurns, Janitor, vars, db
    <2>2. QED
      BY <2>1, ElsewhereKeepsSerial
  <1>2. CASE Crash
    BY <1>2, CrashKeepsSerial
  <1>3. ASSUME NEW t \in Tasks, Step(t)
        PROVE  SerialInv'
    <2>1. CASE Start(t)
      BY <2>1, StartKeeps
    <2>2. CASE JudgeArrivals(t) \/ JudgeDepartures(t)
      BY <2>2, JudgeKeeps
    <2>3. CASE Commits(t)
      BY <2>3, CommitKeeps
    <2>4. CASE Backfills(t)
      BY <2>4, BackfillKeeps
    <2>5. CASE /\ Silent(t) /\ ~Start(t) /\ ~JudgeArrivals(t) /\ ~JudgeDepartures(t)
      <3>1. Advances(t)
        BY <2>5, BoardArrivesAdvances, PlanAdvances, AttemptFailsAdvances, EndingsAdvance,
           BackfillAdvances DEF Silent
      <3>2. rows' = rows /\ seen' = seen
        BY <2>5, SilentKeepsRows
      <3>3. overlap' = overlap
        BY <2>5 DEF Silent, BoardArrives, PlanArrives, PlanFails, AttemptFails, Unserved,
           CountPrior, CountFails, MarkEmpty, BackfillFails, RecordNames
      <3>4. QED
        BY <3>1, <3>2, <3>3, AdvancesKeeps
    <2>6. QED
      BY <1>3, <2>1, <2>2, <2>3, <2>4, <2>5, StepKinds
  <1>4. QED
    BY <1>1, <1>2, <1>3 DEF Next

\* What holds as long as no two attempts of the station were in flight at once.
THEOREM SerialInvariant == Spec => []SerialInv
  <1>1. Init => SerialInv
    BY SerialInvInit
  <1>2. StoreInv /\ SerialInv /\ [Next]_vars => SerialInv'
    BY SerialInvStep
  <1>3. QED
    BY <1>1, <1>2, BoardInvariant, PTL DEF Spec

\* The latest row by scraped_at, which every reader takes for the last word,
\* shows the last event a transaction committed: through every dedup, failed
\* batch, retry, crash and backfill, as long as the tasks did not overlap.
THEOREM BoardKeepsLastSeen == Spec => []LatestIsLastSeen
  <1>1. SerialInv => LatestIsLastSeen
    BY DEF SerialInv
  <1>2. QED
    BY <1>1, SerialInvariant, PTL

\* The dedup lets through only what differs from the latest row of its key at
\* the moment of the commit, unless two tasks were in flight at once.
THEOREM BoardDuplicatesNeedOverlap == Spec => DuplicateNeedsOverlap
  <1>1. ASSUME StoreInv, SerialInv, [Next]_vars
        PROVE  [\A r \in NewRows : IsUnchanged(rows, r) => overlap]_vars
    <2>1. ASSUME ~overlap, NEW r \in NewRows
          PROVE  ~IsUnchanged(rows, r)
      <3>1. r \in rows' /\ \A q \in rows : q.key = r.key => q.scraped # r.scraped
        BY DEF NewRows, RowsOf
      <3>2. ASSUME NEW t \in Tasks, Step(t)
            PROVE  ~IsUnchanged(rows, r)
        <4>1. CASE Silent(t)
          BY <3>1, <4>1, SilentKeepsRows
        <4>2. CASE Backfills(t)
          <5>1. PICK f : Maps(f)
            BY <1>1, <4>2, BackfillMaps DEF Backfills
          <5>2. QED
            BY <3>1, <5>1 DEF Maps
        <4>3. CASE Commits(t)
          <5>1. r \in job[t].insert
            BY <1>1, <3>1, <4>3, CommitAdds DEF Commits
          <5>2. job[t].pc \in Committing /\ StillJudged
            BY <1>1, <2>1, <4>3
            DEF SerialInv, Commits, CommitArrivals, CommitDepartures, AnswerLost, Commit, Unanswered, Write, Committing
          <5>3. QED
            BY <5>1, <5>2 DEF StillJudged, Committing, Changed
        <4>4. QED
          BY <3>2, <4>1, <4>2, <4>3, StepKinds
      <3>3. CASE \/ IrisChanges \/ HourTurns \/ Crash \/ (\E h \in Hours : Janitor(h))
                \/ UNCHANGED vars
        BY <3>1, <3>3 DEF IrisChanges, HourTurns, Crash, Janitor, vars, db
      <3>4. QED
        BY <1>1, <3>2, <3>3 DEF Next
    <2>2. QED
      BY <2>1
  <1>2. QED
    BY <1>1, BoardInvariant, SerialInvariant, PTL DEF Spec, DuplicateNeedsOverlap

------------------------------------------------------------------------------
(* The plan of the current hour, while nothing fails *)

Writing == {"arrivals", "commitArrivals", "departures", "commitDepartures"}
Routing == Writing \cup {"pin", "fillPlatform", "fillRoute"}
Filling == Routing \cup {"fillEndpoint"}

\* Task t has fetched the current hour's plan and has yet to bring it to the
\* rows, up to one of these places.
Brings(t, places) ==
  job[t].pc \in places /\ job[t].fresh /\ job[t].plan = InPlan(hour)

\* A row of the current hour has its schedule, or a task is about to give it.
Scheduled(r) ==
  /\ r.planned = Schedule[r.key] \/ \E t \in Tasks : Brings(t, Writing \cup {"pin"})
  /\ r.pp = "plan" \/ \E t \in Tasks : Brings(t, Writing \cup {"pin", "fillPlatform"})
  /\ r.route # "" \/ \E t \in Tasks : Brings(t, Routing)
  /\ r.endpoint # "" \/ \E t \in Tasks : Brings(t, Filling)

\* No plan is cached ahead of its hour, and what is written under a cached
\* plan is written with it.
PlanInv ==
  failures = 0 /\ ~overlap =>
    /\ \A h \in planCache : h <= hour
    /\ \A t \in Tasks :
         /\ job[t].pc = "plan" => job[t].hour <= hour /\ hour \notin planCache
         /\ job[t].pc \in Writing /\ hour \in planCache => job[t].plan = InPlan(hour)
    /\ hour \in planCache => \A r \in rows : PlanHour[r.key] = hour => Scheduled(r)

\* A step that writes no row and brings no plan.
LEMMA PlanKept ==
  ASSUME PlanInv, rows' = rows, hour' = hour, planCache' \subseteq planCache,
         failures' = 0 => failures = 0, ~overlap' => ~overlap,
         \A t \in Tasks :
           /\ job'[t].pc = "plan" =>
                \/ job[t].pc = "plan" /\ job'[t].hour = job[t].hour
                \/ job'[t].hour <= hour /\ hour \notin planCache
           /\ job'[t].pc \in Writing =>
                \/ job[t].pc \in Writing /\ job'[t].plan = job[t].plan
                \/ job'[t].plan = InPlan(hour)
           /\ job[t].pc \in Filling =>
                /\ job'[t].plan = job[t].plan /\ job'[t].fresh = job[t].fresh
                /\ job'[t].pc = job[t].pc \/ (job[t].pc \in Writing /\ job'[t].pc \in Writing)
  PROVE  PlanInv'
  <1>. SUFFICES ASSUME failures = 0, ~overlap PROVE PlanInv'
    BY DEF PlanInv
  <1>1. \A t \in Tasks :
          /\ Brings(t, Writing \cup {"pin"}) => Brings(t, Writing \cup {"pin"})'
          /\ Brings(t, Writing \cup {"pin", "fillPlatform"}) =>
               Brings(t, Writing \cup {"pin", "fillPlatform"})'
          /\ Brings(t, Routing) => Brings(t, Routing)'
          /\ Brings(t, Filling) => Brings(t, Filling)'
    BY DEF Brings, Filling, Routing, InPlan
  <1>2. \A r : Scheduled(r) => Scheduled(r)'
    BY <1>1 DEF Scheduled
  <1>3. InPlan(hour)' = InPlan(hour)
    BY DEF InPlan
  <1>. QED
    BY <1>2, <1>3 DEF PlanInv

\* Going on keeps the plan, unless the task is done.
LEMMA ProceedKeepsPlan ==
  ASSUME StoreInv, NEW t \in Tasks, NEW j \in Attempts, NEW pc, pc # "done", Proceed(t, j, pc)
  PROVE  job'[t].pc = pc /\ job'[t].plan = j.plan /\ job'[t].fresh = j.fresh
  <1>1. job \in [Tasks -> Attempts]
    BY AtWork
  <1>2. CASE pc \in {"pin", "record"}
    <2>. DEFINE k == [j EXCEPT !.pc = pc, !.fchg = NoBoard, !.insert = {}, !.at = 0]
    <2>1. job'[t] = k
      BY <1>1, <1>2 DEF Proceed
    <2>2. k.pc = pc /\ k.plan = j.plan /\ k.fresh = j.fresh
      BY DEF Attempts
    <2>. QED
      BY <2>1, <2>2
  <1>3. CASE pc \notin {"pin", "record"}
    <2>. DEFINE k == [j EXCEPT !.pc = pc, !.insert = {}]
    <2>1. job'[t] = k
      BY <1>1, <1>3 DEF Proceed
    <2>2. k.pc = pc /\ k.plan = j.plan /\ k.fresh = j.fresh
      BY DEF Attempts
    <2>. QED
      BY <2>1, <2>2
  <1>. QED
    BY <1>2, <1>3

\* A plan that has been fetched is not empty-handed: the task goes on to a
\* batch or to the backfill, or the hour has no trains.
LEMMA AfterPlan ==
  ASSUME NEW j \in Attempts
  PROVE  /\ j.plan # {} => AfterFetch(j) \in {"arrivals", "departures"}
         /\ j.fresh /\ j.plan # {} => AfterArrivals(j) \in {"departures", "pin"}
         /\ j.fresh /\ j.plan # {} => AfterDepartures(j) = "pin"
  <1>1. j.plan \subseteq Emitted(j.fchg, j.plan)
    BY DEF Attempts, Emitted
  <1>. QED
    BY <1>1 DEF AfterFetch, AfterArrivals, AfterDepartures

\* An event of a batch written with the plan has its schedule.
LEMMA BatchScheduled ==
  ASSUME NEW j \in Attempts, NEW dir, NEW r \in Batch(j, dir), r.key \in j.plan
  PROVE  r.planned = Schedule[r.key] /\ r.pp = "plan" /\ r.route # "" /\ r.endpoint # ""
  <1>1. PICK k \in Emitted(j.fchg, j.plan) : r = EventOf(k, j.fchg, j.plan, j.at)
    BY DEF Batch
  <1>2. r.key = k
    BY <1>1 DEF EventOf
  <1>. QED
    BY <1>1, <1>2 DEF EventOf, PlannedTime

\* The other tasks bring nothing while t is at work alone.
LEMMA OthersBringNothing ==
  ASSUME SerialInv, ~overlap, NEW t \in Tasks, InFlight(t), Moved(t)
  PROVE  \A u \in Tasks \ {t} : /\ job'[u] = job[u]
                               /\ job[u].pc \notin Filling /\ job[u].pc # "plan"
  <1>1. \A u \in Tasks \ {t} : ~InFlight(u)
    BY DEF SerialInv, OneAtWork
  <1>. QED
    BY <1>1 DEF InFlight, Filling, Routing, Writing, Moved

LEMMA PlanArrivesKeeps ==
  ASSUME StoreInv, SerialInv, PlanInv, NEW t \in Tasks, PlanArrives(t)
  PROVE  PlanInv'
  <1>. SUFFICES ASSUME failures' = 0, ~overlap' PROVE PlanInv'
    BY DEF PlanInv
  <1>. DEFINE j == [job[t] EXCEPT !.plan = InPlan(job[t].hour), !.fresh = TRUE, !.hour = 1]
  <1>1. /\ job[t].pc = "plan" /\ planCache' = planCache \cup {job[t].hour}
        /\ rows' = rows /\ hour' = hour /\ failures = 0 /\ ~overlap
        /\ Proceed(t, j, AfterFetch(j))
    BY DEF PlanArrives, iris, db
  <1>2. /\ job[t].hour <= hour /\ hour \notin planCache /\ hour \in Nat /\ job[t].hour \in Nat
        /\ \A h \in planCache : h <= hour
    BY <1>1, AtWork, BoardAssumption DEF PlanInv, StoreInv, Surroundings, Attempts
  <1>3. j \in Attempts /\ j.plan = InPlan(job[t].hour) /\ j.fresh
    <2>1. job[t] \in Attempts /\ InPlan(job[t].hour) \in SUBSET Keys /\ 1 \in Hours
      BY AtWork, BoardAssumption DEF InPlan
    <2>. QED
      BY <2>1 DEF Attempts
  <1>. HIDE DEF j
  <1>4. AfterFetch(j) \in {"count", "arrivals", "departures"}
    BY NextPlaces
  <1>5. /\ job'[t].pc = AfterFetch(j) /\ job'[t].plan = InPlan(job[t].hour) /\ job'[t].fresh
    BY <1>1, <1>3, <1>4, ProceedKeepsPlan
  <1>6. \A u \in Tasks \ {t} : /\ job'[u] = job[u]
                              /\ job[u].pc \notin Filling /\ job[u].pc # "plan"
    <2>1. InFlight(t) /\ Moved(t)
      BY <1>1, PlanAdvances DEF Advances
    <2>. QED
      BY <1>1, <2>1, OthersBringNothing
  <1>7. ASSUME hour \in planCache', NEW r \in rows, PlanHour[r.key] = hour
        PROVE  Scheduled(r)'
    <2>1. job[t].hour = hour
      BY <1>1, <1>2, <1>7
    <2>2. r.key \in InPlan(hour)
      BY <1>7 DEF InPlan, StoreInv, Surroundings, Events
    <2>3. AfterFetch(j) \in {"arrivals", "departures"}
      BY <1>3, <2>1, <2>2, AfterPlan
    <2>4. InPlan(hour)' = InPlan(hour)
      BY <1>1 DEF InPlan
    <2>5. job'[t].pc \in Writing /\ job'[t].fresh /\ job'[t].plan = InPlan(hour)'
      BY <1>5, <2>1, <2>3, <2>4 DEF Writing
    <2>. QED
      BY <2>5 DEF Scheduled, Brings, Filling, Routing
  <1>8. ASSUME hour \in planCache'
        PROVE  job'[t].plan = InPlan(hour)
    BY <1>1, <1>2, <1>5, <1>8
  <1>9. InPlan(hour)' = InPlan(hour)
    BY <1>1 DEF InPlan
  <1>10. \A h \in planCache' : h <= hour'
    BY <1>1, <1>2
  <1>11. \A u \in Tasks :
           /\ job'[u].pc # "plan"
           /\ job'[u].pc \in Writing /\ hour \in planCache' => job'[u].plan = InPlan(hour)
    BY <1>4, <1>5, <1>6, <1>8 DEF Filling, Routing
  <1>. QED
    BY <1>1, <1>7, <1>9, <1>10, <1>11 DEF PlanInv

LEMMA BoardArrivesKeepsPlan ==
  ASSUME StoreInv, PlanInv, NEW t \in Tasks, BoardArrives(t)
  PROVE  PlanInv'
  <1>. DEFINE j == [job[t] EXCEPT !.fchg = fchg]
              hit == [j EXCEPT !.plan = InPlan(hour)]
              miss == [j EXCEPT !.pc = "plan", !.hour = hour]
  <1>1. /\ job[t].pc = "fchg" /\ rows' = rows /\ hour' = hour /\ planCache' = planCache
        /\ failures' = failures /\ overlap' = overlap
        /\ IF hour \in planCache THEN Proceed(t, hit, AfterFetch(hit))
                                 ELSE job' = [job EXCEPT ![t] = miss]
    BY DEF BoardArrives, iris, cache, db
  <1>2. hour \in Hours /\ hour \in Nat /\ fchg \in Boards
    BY BoardAssumption DEF StoreInv, Surroundings
  <1>3. hit \in Attempts /\ hit.plan = InPlan(hour)
    BY <1>2, AtWork DEF Attempts, InPlan
  <1>4. miss.pc = "plan" /\ miss.hour = hour
    BY AtWork DEF Attempts
  <1>. HIDE DEF hit, miss
  <1>5. Moved(t)
    BY BoardArrivesAdvances DEF Advances
  <1>6. \/ job'[t].pc = "plan" /\ job'[t].hour <= hour /\ hour \notin planCache
        \/ job'[t].pc # "plan" /\ job'[t].plan = InPlan(hour)
    <2>1. CASE hour \in planCache
      <3>1. AfterFetch(hit) \in {"count", "arrivals", "departures"}
        BY NextPlaces
      <3>2. job'[t].pc = AfterFetch(hit) /\ job'[t].plan = InPlan(hour)
        BY <1>1, <1>3, <2>1, <3>1, ProceedKeepsPlan
      <3>. QED
        BY <3>1, <3>2
    <2>2. CASE hour \notin planCache
      BY <1>1, <1>2, <1>4, <2>2, AtWork
    <2>. QED
      BY <2>1, <2>2
  <1>7. ASSUME NEW u \in Tasks
        PROVE  /\ job'[u].pc = "plan" =>
                    \/ job[u].pc = "plan" /\ job'[u].hour = job[u].hour
                    \/ job'[u].hour <= hour /\ hour \notin planCache
               /\ job'[u].pc \in Writing =>
                    \/ job[u].pc \in Writing /\ job'[u].plan = job[u].plan
                    \/ job'[u].plan = InPlan(hour)
               /\ job[u].pc \in Filling =>
                    /\ job'[u].plan = job[u].plan /\ job'[u].fresh = job[u].fresh
                    /\ \/ job'[u].pc = job[u].pc
                       \/ job[u].pc \in Writing /\ job'[u].pc \in Writing
    <2>1. CASE u = t
      BY <1>1, <1>6, <2>1 DEF Writing, Filling, Routing
    <2>2. CASE u # t
      BY <1>5, <2>2 DEF Moved
    <2>. QED
      BY <2>1, <2>2
  <1>. QED
    BY <1>1, <1>7, PlanKept

LEMMA FailuresCounted ==
  ASSUME StoreInv
  PROVE  failures \in Nat
  <1>1. failures \in 0..MaxFailures
    BY DEF StoreInv, Surroundings
  <1>. QED
    BY <1>1, BoardAssumption DEF BoardAssumption

\* The other steps that write no row: a start, the judging of a batch, the
\* ends of an attempt.
LEMMA SilentKeepsPlan ==
  ASSUME StoreInv, SerialInv, PlanInv, NEW t \in Tasks,
         Start(t) \/ JudgeArrivals(t) \/ JudgeDepartures(t)
           \/ CountPrior(t) \/ MarkEmpty(t) \/ RecordNames(t)
  PROVE  PlanInv'
  <1>. SUFFICES ASSUME failures' = 0, ~overlap' PROVE PlanInv'
    BY DEF PlanInv
  <1>1. /\ rows' = rows /\ hour' = hour /\ planCache' = planCache
        /\ failures = 0 /\ ~overlap
    <2>1. CASE Start(t)
      BY <2>1 DEF Start, iris, cache, db
    <2>2. CASE JudgeArrivals(t) \/ JudgeDepartures(t)
      BY <2>2 DEF JudgeArrivals, JudgeDepartures, Judge, iris, cache, db
    <2>3. CASE CountPrior(t)
      BY <2>3 DEF CountPrior, iris, cache, db
    <2>4. CASE MarkEmpty(t) \/ RecordNames(t)
      <3>1. failures' # failures + 1
        BY FailuresCounted
      <3>. QED
        BY <2>4, <3>1 DEF MarkEmpty, RecordNames, Fails, iris, cache
    <2>. QED
      BY <2>1, <2>2, <2>3, <2>4
  <1>2. /\ Moved(t)
        /\ job'[t].pc # "plan"
        /\ job'[t].pc \in Writing => job[t].pc \in Writing /\ job'[t].plan = job[t].plan
        /\ job[t].pc \in Filling =>
             /\ job'[t].plan = job[t].plan /\ job'[t].fresh = job[t].fresh
             /\ job[t].pc \in Writing /\ job'[t].pc \in Writing
    <2>1. CASE Start(t)
      <3>1. job'[t].pc = "fchg" /\ Moved(t)
        BY <2>1, StartMoves
      <3>. QED
        BY <2>1, <3>1 DEF Start, Writing, Filling, Routing
    <2>2. CASE JudgeArrivals(t) \/ JudgeDepartures(t)
      <3>. DEFINE dir == IF job[t].pc = "arrivals" THEN Arrivals ELSE Departures
                  from == IF job[t].pc = "arrivals" THEN "arrivals" ELSE "departures"
                  to == IF job[t].pc = "arrivals" THEN "commitArrivals" ELSE "commitDepartures"
      <3>1. /\ Judge(t, dir, from, to)
            /\ from \in {"arrivals", "departures"} /\ to \in Committing
        BY <2>2 DEF JudgeArrivals, JudgeDepartures, Judge, Committing
      <3>. HIDE DEF dir, from, to
      <3>. DEFINE new == Changed(Batch(job[t], dir))
                  nm == job[t].names
                    \cup ({ev.route : ev \in Batch(job[t], dir)} \cap (UnknownRoutes \ pending))
                  k == [job[t] EXCEPT !.pc = to, !.insert = new, !.names = nm]
      <3>2. job' = [job EXCEPT ![t].pc = to, ![t].insert = new, ![t].names = nm]
        BY <3>1 DEF Judge
      <3>. HIDE DEF new, nm
      <3>3. job'[t] = k
        BY <3>2, AtWork
      <3>4. k.pc = to /\ k.plan = job[t].plan /\ k.fresh = job[t].fresh
        BY AtWork DEF Attempts
      <3>. HIDE DEF k
      <3>5. job[t].pc = from /\ Moved(t)
        BY <2>2, <3>1, JudgeMoves DEF Judge
      <3>. QED
        BY <3>1, <3>3, <3>4, <3>5 DEF Writing, Committing
    <2>3. CASE CountPrior(t) \/ MarkEmpty(t) \/ RecordNames(t)
      <3>1. /\ job[t].pc \in {"count", "mark", "record"}
            /\ \E pc \in {"mark", "done"} : End(t, pc, job[t].tries)
        BY <2>3 DEF CountPrior, MarkEmpty, RecordNames
      <3>2. job'[t].pc \in {"mark", "done"}
        BY <3>1, AtWork DEF End, Blank
      <3>3. Moved(t)
        BY <2>3, EndingsAdvance DEF Advances
      <3>. QED
        BY <3>1, <3>2, <3>3 DEF Writing, Filling, Routing
    <2>. QED
      BY <2>1, <2>2, <2>3
  <1>3. \A u \in Tasks \ {t} : job'[u] = job[u]
    BY <1>2 DEF Moved
  <1>. QED
    BY <1>1, <1>2, <1>3, PlanKept

\* While one task alone moves, a row of the hour has all of its schedule
\* unless that task brings it.
Complete(r) ==
  r.planned = Schedule[r.key] /\ r.pp = "plan" /\ r.route # "" /\ r.endpoint # ""

LEMMA OnlyItBrings ==
  ASSUME SerialInv, PlanInv, failures = 0, ~overlap, hour \in planCache,
         NEW t \in Tasks, InFlight(t), Moved(t),
         NEW r \in rows, PlanHour[r.key] = hour
  PROVE  /\ r.planned = Schedule[r.key] \/ Brings(t, Writing \cup {"pin"})
         /\ r.pp = "plan" \/ Brings(t, Writing \cup {"pin", "fillPlatform"})
         /\ r.route # "" \/ Brings(t, Routing)
         /\ r.endpoint # "" \/ Brings(t, Filling)
  <1>1. Scheduled(r)
    BY DEF PlanInv
  <1>2. \A u \in Tasks \ {t} : job[u].pc \notin Filling
    BY OthersBringNothing
  <1>. QED
    BY <1>1, <1>2 DEF Scheduled, Brings, Filling, Routing

LEMMA CommitKeepsPlan ==
  ASSUME StoreInv, SerialInv, PlanInv, NEW t \in Tasks, CommitArrivals(t) \/ CommitDepartures(t)
  PROVE  PlanInv'
  <1>. DEFINE dir == IF job[t].pc = "commitArrivals" THEN Arrivals ELSE Departures
              next == IF job[t].pc = "commitArrivals" THEN AfterArrivals(job[t])
                                                      ELSE AfterDepartures(job[t])
  <1>0. /\ failures' = failures /\ overlap' = overlap /\ hour' = hour /\ planCache' = planCache
        /\ job[t].pc \in Committing /\ Proceed(t, job[t], next)
    BY DEF CommitArrivals, CommitDepartures, Commit, Write, Committing, iris, cache
  <1>. SUFFICES ASSUME failures = 0, ~overlap PROVE PlanInv'
    BY <1>0 DEF PlanInv
  <1>1. InFlight(t) /\ Moved(t)
    BY CommitsAdvance DEF Advances
  <1>2. \A u \in Tasks \ {t} : /\ job'[u] = job[u]
                              /\ job[u].pc \notin Filling /\ job[u].pc # "plan"
    BY <1>1, OthersBringNothing
  <1>3. next \in {"departures", "pin", "record", "done"}
    BY NextPlaces
  <1>4. job'[t].pc \in {"departures", "pin", "record", "done"}
    BY CommitPlaces
  <1>5. next # "done" =>
          job'[t].pc = next /\ job'[t].plan = job[t].plan /\ job'[t].fresh = job[t].fresh
    BY <1>0, AtWork, ProceedKeepsPlan
  <1>6. next = "done" => job'[t].pc = "done"
    BY <1>0, AtWork DEF Proceed, End, Blank
  <1>7. job[t].insert = Changed(Batch(job[t], dir))
    BY <1>0 DEF SerialInv, StillJudged, Committing
  <1>8. job[t].fresh /\ job[t].plan # {} => next \in {"departures", "pin"}
    BY AtWork, AfterPlan
  <1>. HIDE DEF next, dir
  <1>9. InPlan(hour)' = InPlan(hour)
    BY <1>0 DEF InPlan
  <1>10. hour \in planCache => job[t].plan = InPlan(hour)
    BY <1>0 DEF PlanInv, Committing, Writing
  <1>11. ASSUME hour \in planCache, NEW r \in rows', PlanHour[r.key] = hour
         PROVE  Scheduled(r)'
    <2>1. r \in Events /\ r.key \in InPlan(hour)
      BY <1>11, CommitAdds DEF Events, InPlan
    <2>2. CASE job[t].fresh
      <3>1. next \in {"departures", "pin"}
        BY <1>8, <1>10, <1>11, <2>1, <2>2
      <3>2. /\ job'[t].pc \in {"departures", "pin"} /\ job'[t].fresh
            /\ job'[t].plan = InPlan(hour)'
        BY <1>5, <1>9, <1>10, <1>11, <2>2, <3>1
      <3>. QED
        BY <3>2 DEF Scheduled, Brings, Writing, Filling, Routing
    <2>3. CASE ~job[t].fresh /\ r \in rows
      <3>1. Complete(r)
        BY <1>1, <1>11, <2>3, OnlyItBrings DEF Complete, Brings
      <3>. QED
        BY <3>1 DEF Scheduled, Complete
    <2>4. CASE r \notin rows
      <3>1. r \in Batch(job[t], dir)
        BY <1>7, <1>11, <2>4, CommitAdds DEF Changed
      <3>2. Complete(r)
        <4>1. job[t] \in Attempts /\ r.key \in job[t].plan
          BY <1>10, <1>11, <2>1, AtWork
        <4>. QED
          BY <3>1, <4>1, BatchScheduled DEF Complete
      <3>. QED
        BY <3>2 DEF Scheduled, Complete
    <2>. QED
      BY <2>2, <2>3, <2>4
  <1>12. \A u \in Tasks :
           /\ job'[u].pc # "plan"
           /\ job'[u].pc \in Writing /\ hour \in planCache => job'[u].plan = InPlan(hour)
    BY <1>2, <1>3, <1>4, <1>5, <1>6, <1>10 DEF Filling, Routing, Writing
  <1>. QED
    BY <1>0, <1>9, <1>11, <1>12 DEF PlanInv

\* Each statement fills the field whose place it passes.
LEMMA BackfillKeepsPlan ==
  ASSUME StoreInv, SerialInv, PlanInv, NEW t \in Tasks, Backfills(t)
  PROVE  PlanInv'
  <1>0. /\ failures' = failures /\ overlap' = overlap /\ hour' = hour /\ planCache' = planCache
        /\ job[t].pc \in {"pin", "fillPlatform", "fillRoute", "fillEndpoint"}
    BY DEF Backfills, PinPlannedTime, FillPlannedPlatform, FillRoute, FillEndpoint, Backfill, iris, cache
  <1>. SUFFICES ASSUME failures = 0, ~overlap PROVE PlanInv'
    BY <1>0 DEF PlanInv
  <1>1. InFlight(t) /\ Moved(t)
    BY BackfillAdvances DEF Backfills, Advances
  <1>2. \A u \in Tasks \ {t} : /\ job'[u] = job[u]
                              /\ job[u].pc \notin Filling /\ job[u].pc # "plan"
    BY <1>1, OthersBringNothing
  <1>. DEFINE K == job[t].plan
  <1>3. /\ PinPlannedTime(t) \/ FillPlannedPlatform(t) =>
             /\ job'[t].pc = IF job[t].pc = "pin" THEN "fillPlatform" ELSE "fillRoute"
             /\ job'[t].plan = K /\ job'[t].fresh = job[t].fresh
        /\ FillRoute(t) =>
             /\ job'[t].pc = "fillEndpoint"
             /\ job'[t].plan = K /\ job'[t].fresh = job[t].fresh
        /\ FillEndpoint(t) => job'[t].pc \in {"record", "done"}
    <2>1. CASE PinPlannedTime(t)
      <3>1. Proceed(t, job[t], "fillPlatform") /\ job[t].pc = "pin"
        BY <2>1 DEF PinPlannedTime, Backfill
      <3>. QED
        BY <3>1, AtWork, ProceedKeepsPlan DEF FillRoute, FillEndpoint, Backfill
    <2>2. CASE FillPlannedPlatform(t)
      <3>1. Proceed(t, job[t], "fillRoute") /\ job[t].pc = "fillPlatform"
        BY <2>2 DEF FillPlannedPlatform, Backfill
      <3>. QED
        BY <3>1, AtWork, ProceedKeepsPlan DEF FillRoute, FillEndpoint, Backfill
    <2>3. CASE FillRoute(t)
      <3>1. Proceed(t, job[t], "fillEndpoint") /\ job[t].pc = "fillRoute"
        BY <2>3 DEF FillRoute, Backfill
      <3>. QED
        BY <3>1, AtWork, ProceedKeepsPlan
        DEF PinPlannedTime, FillPlannedPlatform, FillEndpoint, Backfill
    <2>4. CASE FillEndpoint(t)
      <3>1. Proceed(t, job[t], AfterBackfill(job[t])) /\ job[t].pc = "fillEndpoint"
        BY <2>4 DEF FillEndpoint, Backfill
      <3>2. AfterBackfill(job[t]) \in {"record", "done"}
        BY NextPlaces
      <3>3. CASE AfterBackfill(job[t]) = "done"
        BY <3>1, <3>3, AtWork DEF Proceed, End, Blank, PinPlannedTime, FillPlannedPlatform, FillRoute, Backfill
      <3>4. CASE AfterBackfill(job[t]) # "done"
        <4>1. job'[t].pc = AfterBackfill(job[t])
          BY <3>1, <3>4, AtWork, ProceedKeepsPlan
        <4>. QED
          BY <3>1, <3>2, <4>1 DEF PinPlannedTime, FillPlannedPlatform, FillRoute, Backfill
      <3>. QED
        BY <3>3, <3>4
    <2>. QED
      BY <2>1, <2>2, <2>3, <2>4 DEF Backfills
  <1>4. InPlan(hour)' = InPlan(hour) /\ rows \subseteq Events
    BY <1>0 DEF InPlan, StoreInv, Surroundings
  <1>5. ASSUME hour \in planCache, NEW x \in rows', PlanHour[x.key] = hour
        PROVE  Scheduled(x)'
    <2>1. CASE PinPlannedTime(t)
      <3>1. PICK r \in rows : x = Pinned(r, K)
        BY <2>1 DEF PinPlannedTime, Backfill
      <3>2. /\ x.key = r.key /\ x.pp = r.pp /\ x.route = r.route
              /\ x.endpoint = r.endpoint /\ r.key \in Keys
            /\ r.key \in K => x.planned = Schedule[x.key]
            /\ r.key \notin K => x.planned = r.planned
        BY <1>4, <3>1 DEF Pinned, Events
      <3>3. r.key \in InPlan(hour)
        BY <1>5, <3>2 DEF InPlan
      <3>4. CASE job[t].fresh /\ K = InPlan(hour)
        BY <1>0, <1>3, <1>4, <2>1, <3>2, <3>3, <3>4
        DEF Scheduled, Brings, Writing, Filling, Routing, PinPlannedTime, Backfill
      <3>5. CASE ~(job[t].fresh /\ K = InPlan(hour))
        <4>1. Complete(r)
          BY <1>1, <1>5, <3>2, <3>5, OnlyItBrings DEF Complete, Brings
        <4>. QED
          BY <3>2, <4>1 DEF Complete, Scheduled
      <3>. QED
        BY <3>4, <3>5
    <2>2. CASE FillPlannedPlatform(t)
      <3>0. job[t].pc = "fillPlatform"
        BY <2>2 DEF FillPlannedPlatform, Backfill
      <3>1. PICK r \in rows : x = PlatformFilled(r, K)
        BY <2>2 DEF FillPlannedPlatform, Backfill
      <3>2. /\ x.key = r.key /\ x.planned = r.planned /\ x.route = r.route
              /\ x.endpoint = r.endpoint /\ r.key \in Keys
            /\ r.pp = "plan" => x.pp = "plan"
            /\ r.key \in K => x.pp = "plan"
        BY <1>4, <3>1 DEF PlatformFilled, Events
      <3>3. r.key \in InPlan(hour)
        BY <1>5, <3>2 DEF InPlan
      <3>4. CASE job[t].fresh /\ K = InPlan(hour)
        <4>1. x.planned = Schedule[x.key]
          BY <1>1, <1>5, <3>0, <3>2, OnlyItBrings DEF Brings, Writing
        <4>2. Brings(t, Routing)' /\ Brings(t, Filling)'
          BY <1>3, <1>4, <2>2, <3>0, <3>4 DEF Brings, Filling, Routing
        <4>. QED
          BY <3>2, <3>3, <3>4, <4>1, <4>2 DEF Scheduled
      <3>5. CASE ~(job[t].fresh /\ K = InPlan(hour))
        <4>1. Complete(r)
          BY <1>1, <1>5, <3>2, <3>5, OnlyItBrings DEF Complete, Brings
        <4>. QED
          BY <3>2, <4>1 DEF Complete, Scheduled
      <3>. QED
        BY <3>4, <3>5
    <2>3. CASE FillRoute(t)
      <3>0. job[t].pc = "fillRoute"
        BY <2>3 DEF FillRoute, Backfill
      <3>1. PICK r \in rows : x = RouteFilled(r, K)
        BY <2>3 DEF FillRoute, Backfill
      <3>2. /\ x.key = r.key /\ x.planned = r.planned /\ x.pp = r.pp
            /\ x.endpoint = r.endpoint /\ r.key \in Keys
            /\ r.route # "" => x.route # ""
            /\ r.key \in K => x.route # ""
        BY <1>4, <3>1 DEF RouteFilled, Events
      <3>3. r.key \in InPlan(hour)
        BY <1>5, <3>2 DEF InPlan
      <3>4. CASE job[t].fresh /\ K = InPlan(hour)
        <4>1. x.planned = Schedule[x.key] /\ x.pp = "plan"
          BY <1>1, <1>5, <3>0, <3>2, OnlyItBrings DEF Brings, Writing
        <4>2. Brings(t, Filling)'
          BY <1>3, <1>4, <2>3, <3>0, <3>4 DEF Brings, Filling, Routing
        <4>3. x.route # ""
          BY <3>2, <3>3, <3>4
        <4>. QED
          BY <4>1, <4>2, <4>3 DEF Scheduled
      <3>5. CASE ~(job[t].fresh /\ K = InPlan(hour))
        <4>1. Complete(r)
          BY <1>1, <1>5, <3>2, <3>5, OnlyItBrings DEF Complete, Brings
        <4>. QED
          BY <3>2, <4>1 DEF Complete, Scheduled
      <3>. QED
        BY <3>4, <3>5
    <2>4. CASE FillEndpoint(t)
      <3>0. job[t].pc = "fillEndpoint"
        BY <2>4 DEF FillEndpoint, Backfill
      <3>1. PICK r \in rows : x = EndpointFilled(r, K)
        BY <2>4 DEF FillEndpoint, Backfill
      <3>2. /\ x.key = r.key /\ x.planned = r.planned /\ x.pp = r.pp
            /\ x.route = r.route /\ r.key \in Keys
            /\ r.endpoint # "" => x.endpoint # ""
            /\ r.key \in K => x.endpoint # ""
        BY <1>4, <3>1 DEF EndpointFilled, Events
      <3>3. r.key \in InPlan(hour)
        BY <1>5, <3>2 DEF InPlan
      <3>4. x.planned = Schedule[x.key] /\ x.pp = "plan" /\ x.route # ""
        BY <1>1, <1>5, <3>0, <3>2, OnlyItBrings DEF Brings, Writing, Filling, Routing
      <3>5. x.endpoint # ""
        BY <1>1, <1>5, <3>2, <3>3, OnlyItBrings DEF Brings
      <3>. QED
        BY <3>4, <3>5 DEF Scheduled
    <2>. QED
      BY <2>1, <2>2, <2>3, <2>4 DEF Backfills
  <1>6. \A u \in Tasks : job'[u].pc # "plan" /\ job'[u].pc \notin Writing
    BY <1>0, <1>2, <1>3 DEF Filling, Routing, Writing, Backfills
  <1>. QED
    BY <1>0, <1>4, <1>5, <1>6 DEF PlanInv

\* IRIS, the hour and the janitor.
LEMMA ElsewhereKeepsPlan ==
  ASSUME StoreInv, PlanInv,
         IrisChanges \/ HourTurns \/ (\E h \in Hours : Janitor(h)) \/ UNCHANGED vars
  PROVE  PlanInv'
  <1>1. CASE HourTurns
    <2>1. /\ hour' = hour + 1 /\ planCache' = planCache /\ job' = job
          /\ failures' = failures /\ overlap' = overlap
      BY <1>1 DEF HourTurns, cache
    <2>2. hour \in Nat /\ planCache \subseteq Nat /\ \A t \in Tasks : job[t].hour \in Nat
      BY AtWork, BoardAssumption DEF StoreInv, Surroundings, Attempts
    <2>3. (\A h \in planCache : h <= hour) => hour' \notin planCache
      BY <2>1, <2>2
    <2>. SUFFICES ASSUME failures = 0, ~overlap PROVE PlanInv'
      BY <2>1 DEF PlanInv
    <2>4. /\ hour' \notin planCache' /\ \A h \in planCache' : h <= hour'
          /\ \A t \in Tasks : job'[t].pc = "plan" => job'[t].hour <= hour'
      BY <2>1, <2>2, <2>3 DEF PlanInv
    <2>. QED
      BY <2>4 DEF PlanInv
  <1>2. CASE IrisChanges \/ (\E h \in Hours : Janitor(h)) \/ UNCHANGED vars
    <2>1. /\ rows' = rows /\ hour' = hour /\ planCache' \subseteq planCache /\ job' = job
          /\ failures' = failures /\ overlap' = overlap
      BY <1>2 DEF IrisChanges, Janitor, vars, iris, cache, db
    <2>. QED
      BY <2>1, PlanKept
  <1>. QED
    BY <1>1, <1>2

LEMMA PlanInvStep ==
  StoreInv /\ SerialInv /\ PlanInv /\ [Next]_vars => PlanInv'
  <1>. SUFFICES ASSUME StoreInv, SerialInv, PlanInv, [Next]_vars PROVE PlanInv'
    OBVIOUS
  <1>1. Fails => PlanInv'
    <2>1. failures \in Nat
      BY FailuresCounted
    <2>. QED
      BY <2>1 DEF Fails, PlanInv
  <1>2. CASE IrisChanges \/ HourTurns \/ (\E h \in Hours : Janitor(h)) \/ UNCHANGED vars
    BY <1>2, ElsewhereKeepsPlan
  <1>3. CASE Crash
    BY <1>1, <1>3 DEF Crash
  <1>4. ASSUME NEW t \in Tasks, Step(t)
        PROVE  PlanInv'
    <2>1. CASE \/ PlanFails(t) \/ AttemptFails(t) \/ Unserved(t) \/ CountFails(t)
              \/ AnswerLost(t) \/ BackfillFails(t)
      BY <1>1, <2>1 DEF PlanFails, AttemptFails, Unserved, CountFails, AnswerLost, Unanswered,
         BackfillFails
    <2>2. CASE BoardArrives(t)
      BY <2>2, BoardArrivesKeepsPlan
    <2>3. CASE PlanArrives(t)
      BY <2>3, PlanArrivesKeeps
    <2>4. CASE Start(t) \/ JudgeArrivals(t) \/ JudgeDepartures(t)
                 \/ CountPrior(t) \/ MarkEmpty(t) \/ RecordNames(t)
      BY <2>4, SilentKeepsPlan
    <2>5. CASE CommitArrivals(t) \/ CommitDepartures(t)
      BY <2>5, CommitKeepsPlan
    <2>6. CASE Backfills(t)
      BY <2>6, BackfillKeepsPlan
    <2>. QED
      BY <1>4, <2>1, <2>2, <2>3, <2>4, <2>5, <2>6 DEF Step, Backfills
  <1>. QED
    BY <1>2, <1>3, <1>4 DEF Next

\* Once the current hour's plan is cached and no task is at work, every row of
\* that hour has its true schedule: those written before the plan came, those
\* of the task that fetched it, and those written with it -- for any trains,
\* changes and hours, as long as nothing failed and no two tasks overlapped.
THEOREM BoardAppliesPlan == Spec => []PlanAppliedUndisturbed
  <1>1. Init => PlanInv
    BY DEF Init, PlanInv, Blank, Writing
  <1>2. StoreInv /\ SerialInv /\ PlanInv /\ [Next]_vars => PlanInv'
    BY PlanInvStep
  <1>3. PlanInv => PlanAppliedUndisturbed
    <2>. SUFFICES ASSUME PlanInv, Quiet, hour \in planCache, failures = 0, ~overlap
                  PROVE  PlanApplied
      BY DEF PlanAppliedUndisturbed
    <2>1. \A t \in Tasks : job[t].pc \notin Filling
      BY DEF Quiet, InFlight, Filling, Routing, Writing
    <2>. QED
      BY <2>1 DEF PlanInv, PlanApplied, Scheduled, Brings, Filling, Routing
  <1>4. QED
    BY <1>1, <1>2, <1>3, BoardInvariant, SerialInvariant, PTL DEF Spec
==============================================================================
