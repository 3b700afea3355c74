-------------------------------- MODULE DayCache -------------------------------
(***************************************************************************)
(* The in-process caches of cmd/api's data UI: the day statistics           *)
(* (dayCache) behind a singleflight, the lines of a station (stationLn)     *)
(* without one, and the station index loaded once.                          *)
(*                                                                         *)
(* Callers are HTTP requests, each a goroutine, and the warm-up goroutine.  *)
(* Every lock, query and channel operation is a step of its own: clients    *)
(* disconnect, other callers move and time passes in between.  Of a cached  *)
(* value only two things are kept: when its scan of the database began and  *)
(* whether all that goes into it was read to the end; of an answer, whether *)
(* there is one.                                                            *)
(***************************************************************************)
EXTENDS Integers, FiniteSets

CONSTANTS
  Requests,   \* HTTP requests that may be under way at once
  Warm,       \* the warm-up goroutine
  Days,       \* days asked for, numbered from 0
  DayLength,  \* ticks of the clock per day
  TTL,        \* ticks an entry lives (ttlCache.ttl)
  None,       \* no entry, no call, no key
  MaxTime,    \* bound: the clock
  MaxAsks,    \* bound: requests of each client
  MaxFaults   \* bound: database errors

Callers == Requests \cup {Warm}
\* The keys of dayCache and, for one station, of stationLn.
Keys == {"day", "lines"} \X Days
Entries == [whole : BOOLEAN, born : Nat, expires : Nat]

ASSUME CacheAssumption ==
  /\ Warm \notin Requests
  /\ Days \subseteq Nat /\ 0 \in Days
  /\ DayLength \in Nat \ {0} /\ TTL \in Nat \ {0}
  /\ None \notin Nat /\ None \notin Callers /\ None \notin Entries
  /\ MaxTime \in Nat /\ MaxAsks \in Nat /\ MaxFaults \in Nat

VARIABLES
  clock,     \* wall clock
  cache,     \* dayCache.m and stationLn.m
  calls,     \* daySF.calls: the leader of each day's running call
  once,      \* stationsOnce: "new", "running" or "done"
  stations,  \* the station index: "none", "cut" or "whole"
  faults,    \* database errors so far
  req        \* the callers' local state

vars == <<clock, cache, calls, once, stations, faults, req>>

------------------------------------------------------------------------------
(* Values *)

\* A caller that is not scanning, at pc, about key, come at the time at.
Caller(pc, key, at, ok, asked) ==
  [pc |-> pc, key |-> key, at |-> at, live |-> TRUE, born |-> 0, ok |-> ok, asked |-> asked]

Today(t) == t \div DayLength

\* Mutant: the life of an entry is subtracted.
EntrySignMutant(whole, born, at) == [whole |-> whole, born |-> born, expires |-> at - TTL]
\* Mutant: the entry's life starts when it is stored.
EntryMutant(whole, born, at) == [whole |-> whole, born |-> born, expires |-> clock + TTL]
\* ttlCache.put: the life of an entry starts at the time its caller passes,
\* read before the scan.
Entry(whole, born, at) == [whole |-> whole, born |-> born, expires |-> at + TTL]

\* ttlCache.get
Hit(k, at) == cache[k] # None /\ at <= cache[k].expires
\* ... which drops what it finds expired.
AfterGet(k, at) == IF Hit(k, at) THEN cache ELSE [cache EXCEPT ![k] = None]

DayOf(k) == k[2]
\* The caller has its value (ok), or has none to show.
Answered(r, ok) == Caller("answered", None, 0, ok, r.asked)
\* The leader's computation has returned.
Computed(r, ok) == Caller("closing", r.key, 0, ok, r.asked)
Move(c, pc) == [req EXCEPT ![c].pc = pc]
Answer(c, ok) == [req EXCEPT ![c] = Answered(req[c], ok)]

------------------------------------------------------------------------------
(* The environment *)

Tick == clock < MaxTime /\ clock' = clock + 1 /\ UNCHANGED <<cache, calls, once, stations, faults, req>>

\* A client goes away, or the warm-up's three minutes are over.  Only a query
\* looks at the context: a follower waits on whatever becomes of its client.
Disconnect(c) ==
  /\ req[c].pc \in {"leading", "scanning"} /\ req[c].live
  /\ req' = [req EXCEPT ![c].live = FALSE]
  /\ UNCHANGED <<clock, cache, calls, once, stations, faults>>

\* A request for a day's statistics or a station's lines: the clock is read
\* before any lock is taken.
Arrive(c, k) ==
  /\ c \in Requests /\ req[c].pc = "idle" /\ req[c].asked < MaxAsks
  /\ DayOf(k) <= Today(clock)
  /\ req' = [req EXCEPT ![c] = Caller("arrived", k, clock, TRUE, req[c].asked + 1)]
  /\ UNCHANGED <<clock, cache, calls, once, stations, faults>>

\* A search request of a day.
ArriveSearch(c, d) ==
  /\ c \in Requests /\ req[c].pc = "idle" /\ req[c].asked < MaxAsks
  /\ d <= Today(clock)
  /\ req' = [req EXCEPT ![c] = Caller("search", <<"day", d>>, 0, TRUE, req[c].asked + 1)]
  /\ UNCHANGED <<clock, cache, calls, once, stations, faults>>

\* The response is written and the handler returns.
Return(c) ==
  /\ req[c].pc = "answered"
  /\ req' = [req EXCEPT ![c] = Caller("idle", None, 0, TRUE, req[c].asked)]
  /\ UNCHANGED <<clock, cache, calls, once, stations, faults>>

------------------------------------------------------------------------------
(* Day statistics and lines of a station *)

\* loadDay looks into the cache unless the day is today; the warm-up and
\* altLinesFor always do.
MayUseCache(c) == c = Warm \/ req[c].key[1] = "lines" \/ DayOf(req[c].key) # Today(req[c].at)

LookUp(c) ==
  LET k == req[c].key
      at == req[c].at
      next == IF k[1] = "day" THEN "asking" ELSE "leading"
  IN
  /\ req[c].pc = "arrived"
  /\ IF MayUseCache(c)
     THEN /\ cache' = AfterGet(k, at)
          /\ req' = IF Hit(k, at) THEN Answer(c, TRUE) ELSE Move(c, next)
     ELSE req' = Move(c, next) /\ UNCHANGED cache
  /\ UNCHANGED <<clock, calls, once, stations, faults>>

\* Mutant: a running call is not looked for.
JoinMutant(c) ==
  /\ req[c].pc = "asking"
  /\ calls' = [calls EXCEPT ![DayOf(req[c].key)] = c] /\ req' = Move(c, "leading")
  /\ UNCHANGED <<clock, cache, once, stations, faults>>

\* daySingleflight.Do under its lock: lead the day's call, or follow the one
\* that is registered -- one that is closed already answers at once.
Join(c) ==
  LET d == DayOf(req[c].key)
      l == calls[d]
  IN
  /\ req[c].pc = "asking"
  /\ \/ /\ l = None
        /\ calls' = [calls EXCEPT ![d] = c] /\ req' = Move(c, "leading")
     \/ /\ l # None
        /\ req' = IF req[l].pc = "closed" THEN Answer(c, req[l].ok)
                  ELSE [req EXCEPT ![c] = [req[c] EXCEPT !.pc = "waiting", !.at = 0]]
        /\ UNCHANGED calls
  /\ UNCHANGED <<clock, cache, once, stations, faults>>

\* The query is accepted and sees the database as it is now.
BeginScan(c) ==
  /\ req[c].pc = "leading" /\ req[c].live
  /\ req' = [req EXCEPT ![c] = [req[c] EXCEPT !.pc = "scanning", !.born = clock]]
  /\ UNCHANGED <<clock, cache, calls, once, stations, faults>>

\* Mutant: a failed computation returns without closing its call.
FailScanMutant(c) ==
  /\ req[c].pc \in {"leading", "scanning"}
  /\ req[c].live => faults < MaxFaults
  /\ faults' = IF req[c].live THEN faults + 1 ELSE faults
  /\ req' = Answer(c, FALSE)
  /\ UNCHANGED <<clock, cache, calls, once, stations>>

\* The query or a Scan fails: nothing is stored and, with a singleflight,
\* every follower shares the failure.
FailScan(c) ==
  /\ req[c].pc \in {"leading", "scanning"}
  /\ req[c].live => faults < MaxFaults
  /\ faults' = IF req[c].live THEN faults + 1 ELSE faults
  /\ req' = IF req[c].key[1] = "day"
            THEN [req EXCEPT ![c] = Computed(req[c], FALSE)]
            ELSE Answer(c, FALSE)
  /\ UNCHANGED <<clock, cache, calls, once, stations>>

\* rows.Next returns false at the end of the result, and just so when the
\* client has gone or the connection broke: rows.Err is not looked at, and
\* what was read is stored.  So is the count of snapshots that a day's scan is
\* followed by: a failed one is stored as zero, and the day is not whole.
EndScan(c, whole) ==
  LET r == req[c] IN
  /\ r.pc = "scanning"
  /\ ~whole /\ r.live => faults < MaxFaults
  /\ faults' = IF ~whole /\ r.live THEN faults + 1 ELSE faults
  /\ cache' = [cache EXCEPT ![r.key] = Entry(whole, r.born, r.at)]
  /\ req' = IF r.key[1] = "day" THEN [req EXCEPT ![c] = Computed(r, TRUE)] ELSE Answer(c, TRUE)
  /\ UNCHANGED <<clock, calls, once, stations>>

\* close(c.done): every follower reads the result.
Close(c) ==
  /\ req[c].pc = "closing"
  /\ req' = [x \in Callers |->
               IF x = c THEN [req[x] EXCEPT !.pc = "closed"]
               ELSE IF req[x].pc = "waiting" /\ req[x].key = req[c].key
               THEN Answered(req[x], req[c].ok)
               ELSE req[x]]
  /\ UNCHANGED <<clock, cache, calls, once, stations, faults>>

\* The call leaves the map.
Release(c) ==
  /\ req[c].pc = "closed"
  /\ calls' = [calls EXCEPT ![DayOf(req[c].key)] = None]
  /\ req' = Answer(c, req[c].ok)
  /\ UNCHANGED <<clock, cache, once, stations, faults>>

------------------------------------------------------------------------------
(* Search: the station index, then the cached day, never a computation *)

\* Mutant: a second search does not wait for the load that runs.
EnsureStationsMutant(c) ==
  /\ req[c].pc = "search"
  /\ once' = IF once = "new" THEN "running" ELSE once
  /\ req' = Move(c, IF once = "new" THEN "loading" ELSE "ready")
  /\ UNCHANGED <<clock, cache, calls, stations, faults>>

\* stationsOnce.Do: the first caller loads, the others wait until it is done.
EnsureStations(c) ==
  /\ req[c].pc = "search" /\ once # "running"
  /\ once' = IF once = "new" THEN "running" ELSE once
  /\ req' = Move(c, IF once = "new" THEN "loading" ELSE "ready")
  /\ UNCHANGED <<clock, cache, calls, stations, faults>>

\* The load ends, fails or is cut off -- by its own ten seconds, not by the
\* client's going away -- and is never tried again.
LoadStations(c, result) ==
  /\ req[c].pc = "loading"
  /\ result # "whole" => faults < MaxFaults
  /\ faults' = IF result = "whole" THEN faults ELSE faults + 1
  /\ stations' = result /\ once' = "done"
  /\ req' = Move(c, "ready")
  /\ UNCHANGED <<clock, cache, calls>>

\* cachedDay
Search(c) ==
  LET k == req[c].key IN
  /\ req[c].pc = "ready"
  /\ cache' = AfterGet(k, clock)
  /\ req' = Answer(c, Hit(k, clock))
  /\ UNCHANGED <<clock, calls, once, stations, faults>>

------------------------------------------------------------------------------
\* The server starts, and with it the warm-up of the day it starts on.
Init ==
  /\ clock = 0 /\ faults = 0
  /\ cache = [k \in Keys |-> None] /\ calls = [d \in Days |-> None]
  /\ once = "new" /\ stations = "none"
  /\ req = [c \in Callers |->
             IF c = Warm THEN Caller("arrived", <<"day", 0>>, 0, TRUE, 1)
             ELSE Caller("idle", None, 0, TRUE, 0)]

\* What a goroutine does once it is started.
Proceed(c) ==
  \/ LookUp(c) \/ Join(c) \/ BeginScan(c) \/ FailScan(c)
  \/ \E whole \in BOOLEAN : EndScan(c, whole)
  \/ Close(c) \/ Release(c)
  \/ EnsureStations(c) \/ \E s \in {"none", "cut", "whole"} : LoadStations(c, s)
  \/ Search(c)

Next ==
  \/ Tick
  \/ \E c \in Callers :
       \/ Disconnect(c) \/ Return(c) \/ Proceed(c)
       \/ \E k \in Keys : Arrive(c, k)
       \/ \E d \in Days : ArriveSearch(c, d)

\* Go runs every goroutine that can move, and the database answers or fails.
Spec == Init /\ [][Next]_vars /\ \A c \in Callers : WF_vars(Proceed(c))

------------------------------------------------------------------------------
(* Properties *)

States == {"idle", "arrived", "asking", "waiting", "leading", "scanning", "closing",
           "closed", "answered", "search", "loading", "ready"}

TypeOK ==
  /\ clock \in Nat /\ faults \in Nat
  /\ cache \in [Keys -> {None} \cup Entries]
  /\ calls \in [Days -> Callers \cup {None}]
  /\ once \in {"new", "running", "done"} /\ stations \in {"none", "cut", "whole"}
  /\ req \in [Callers -> [pc : States, key : Keys \cup {None}, at : Nat, live : BOOLEAN,
                          born : Nat, ok : BOOLEAN, asked : Nat]]

\* The day statistics keep their promise: however requests come, leave and
\* fail, no two scans of one day run at once, and what is in memory is the
\* result of the last one that ended.
Scans(d) == {c \in Callers : req[c].pc = "scanning" /\ req[c].key = <<"day", d>>}
ScanBegan == [d \in Days |-> IF Scans(d) = {} THEN None ELSE req[CHOOSE c \in Scans(d) : TRUE].born]
MemoBorn == [d \in Days |-> IF cache[<<"day", d>>] = None THEN None ELSE cache[<<"day", d>>].born]
Memo == INSTANCE DayMemo WITH scan <- ScanBegan, memo <- MemoBorn
ImplementsMemo == Memo!Spec

\* What a request finds in a cache was scanned at most TTL before the request
\* came, however long that scan took.
HitsAreFresh == \A c \in Callers :
  LET k == req[c].key IN
    req[c].pc = "arrived" /\ MayUseCache(c) /\ Hit(k, req[c].at) => req[c].at - cache[k].born <= TTL

\* A search sees the station index whole, also while another one loads it --
\* unless that one load failed.
SearchSeesIndex == faults = 0 => \A c \in Callers : req[c].pc = "ready" => stations = "whole"

\* Every request is answered: followers of a call too, whatever becomes of
\* its leader's client or its query.
EveryRequestAnswered ==
  \A c \in Callers : req[c].pc \in {"arrived", "search"} ~> req[c].pc = "answered"

\* "Tagesaggregate sind historisch stabil": a past day that was scanned whole
\* does not lose trips again.
HistoricStable == [][\A d \in Days :
  LET k == <<"day", d>> IN
    (/\ cache[k] # None /\ cache[k].whole /\ d < Today(cache[k].born)
     /\ cache'[k] # None) => cache'[k].whole]_vars
================================================================================
