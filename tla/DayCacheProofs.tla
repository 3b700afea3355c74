----------------------------- MODULE DayCacheProofs ----------------------------
(***************************************************************************)
(* Proofs about the API's caches, for any number of callers, days, faults   *)
(* and ticks.                                                               *)
(***************************************************************************)
EXTENDS DayCache, TLAPS

ReqType == [pc : States, key : Keys \cup {None}, at : Nat, live : BOOLEAN,
            born : Nat, ok : BOOLEAN, asked : Nat]

\* Who leads the call of a day.
Leads(r) == r.pc \in {"leading", "scanning", "closing", "closed"} /\ r.key[1] = "day"

\* What holds of the caller c in state r: its key is the one its operation is
\* about, a leader is the one registered, and a scan began after its caller
\* came and after the scan whose result is in memory.
SoundIn(r, c, leaders, memory, time, loaded) ==
  /\ r.pc \notin {"idle", "answered"} => r.key \in Keys
  /\ r.pc \in {"asking", "waiting", "closing", "closed"} => r.key[1] = "day"
  /\ Leads(r) => leaders[DayOf(r.key)] = c
  /\ r.pc \in {"arrived", "asking", "leading"} => r.at <= time
  /\ r.pc = "scanning" => r.at <= r.born /\ r.born <= time
  /\ r.pc = "scanning" /\ r.key[1] = "day" =>
       (memory[r.key] # None => memory[r.key].born <= r.born)
  /\ r.pc = "ready" => loaded = "done"

Sound(c) == SoundIn(req[c], c, calls, cache, clock, once)

\* An entry lives no longer than TTL from the scan it comes from.
EntrySound(e) == e # None => e.expires <= e.born + TTL /\ e.born <= clock

CacheInv ==
  /\ TypeOK
  /\ \A c \in Callers : Sound(c)
  /\ \A k \in Keys : EntrySound(cache[k])
  /\ once = "done" /\ faults = 0 => stations = "whole"

------------------------------------------------------------------------------
(* Helpers *)

LEMMA KeyParts ==
  ASSUME NEW k \in Keys
  PROVE  k[1] \in {"day", "lines"} /\ DayOf(k) \in Days /\ k = <<k[1], DayOf(k)>>
  BY DEF Keys, DayOf

LEMMA Constants ==
  /\ 0 \in Days /\ TTL \in Nat /\ DayLength \in Nat /\ DayLength # 0
  /\ None \notin Nat /\ None \notin Callers /\ None \notin Entries /\ Warm \in Callers
  BY CacheAssumption DEF CacheAssumption, Callers

LEMMA MovedSound ==
  ASSUME NEW r \in ReqType, NEW p \in States
  PROVE  /\ [r EXCEPT !.pc = p] \in ReqType
         /\ [r EXCEPT !.pc = p].pc = p
         /\ [r EXCEPT !.pc = p].key = r.key
         /\ [r EXCEPT !.pc = p].at = r.at
         /\ [r EXCEPT !.pc = p].born = r.born
  BY DEF ReqType

LEMMA AfterGetSound ==
  ASSUME TypeOK, NEW k \in Keys, NEW at \in Nat
  PROVE  /\ AfterGet(k, at) \in [Keys -> {None} \cup Entries]
         /\ \A x \in Keys : AfterGet(k, at)[x] = cache[x] \/ AfterGet(k, at)[x] = None
         /\ \A x \in Keys : x # k => AfterGet(k, at)[x] = cache[x]
  BY DEF TypeOK, AfterGet, Entries

------------------------------------------------------------------------------
(* Steps that change one caller keep what holds of the others. *)

\* What is claimed of an unchanged caller survives when the call it leads, the
\* memory of its scan and the loaded index are left alone or dropped.
LEMMA SoundKept ==
  ASSUME NEW c, NEW r \in ReqType, NEW l, NEW m, NEW t \in Nat, NEW o,
         NEW l2, NEW m2, NEW t2 \in Nat, NEW o2,
         SoundIn(r, c, l, m, t, o), t <= t2, o = "done" => o2 = "done",
         Leads(r) => l2[DayOf(r.key)] = l[DayOf(r.key)],
         r.pc = "scanning" /\ r.key[1] = "day" =>
           m2[r.key] = m[r.key] \/ m2[r.key] = None
  PROVE  SoundIn(r, c, l2, m2, t2, o2)
  BY DEF SoundIn, ReqType, Leads

\* A step of c alone: the rest of the invariant is about the others.
LEMMA OneCaller ==
  ASSUME CacheInv, NEW c \in Callers, NEW r \in ReqType,
         req' = [req EXCEPT ![c] = r],
         SoundIn(r, c, calls', cache', clock', once'),
         clock' \in Nat, clock <= clock', once = "done" => once' = "done",
         \A x \in Callers \ {c} :
           /\ Leads(req[x]) => calls'[DayOf(req[x].key)] = calls[DayOf(req[x].key)]
           /\ req[x].pc = "scanning" /\ req[x].key[1] = "day" =>
                cache'[req[x].key] = cache[req[x].key] \/ cache'[req[x].key] = None
  PROVE  /\ req' \in [Callers -> ReqType]
         /\ \A x \in Callers : Sound(x)'
  <1>1. req \in [Callers -> ReqType] /\ clock \in Nat
    BY DEF CacheInv, TypeOK, ReqType
  <1>2. req'[c] = r /\ \A x \in Callers : x # c => req'[x] = req[x]
    BY <1>1
  <1>3. \A x \in Callers : x # c => SoundIn(req[x], x, calls', cache', clock', once')
    <2> TAKE x \in Callers
    <2> HAVE x # c
    <2>1. req[x] \in ReqType /\ SoundIn(req[x], x, calls, cache, clock, once)
      BY <1>1 DEF CacheInv, Sound
    <2> QED
      BY <2>1, <1>1, SoundKept
  <1>4. \A x \in Callers : Sound(x)'
    BY <1>2, <1>3 DEF Sound
  <1> QED
    BY <1>1, <1>2, <1>4

\* A caller without a claim on anything but the time it came.
LEMMA ModestSound ==
  ASSUME NEW r, NEW c, NEW l, NEW m, NEW t, NEW o,
         r.pc \notin {"leading", "scanning", "closing", "closed", "ready"},
         r.pc \notin {"idle", "answered"} => r.key \in Keys,
         r.pc \in {"asking", "waiting"} => r.key[1] = "day",
         r.pc \in {"arrived", "asking"} => r.at <= t
  PROVE  SoundIn(r, c, l, m, t, o)
  BY DEF SoundIn, Leads

LEMMA Tokens ==
  /\ States = {"idle", "arrived", "asking", "waiting", "leading", "scanning", "closing",
               "closed", "answered", "search", "loading", "ready"}
  /\ "idle" \in States /\ "arrived" \in States /\ "search" \in States
  /\ "answered" \in States /\ "closing" \in States /\ "waiting" \in States
  /\ "asking" \in States /\ "leading" \in States /\ "scanning" \in States
  /\ "closed" \in States /\ "loading" \in States /\ "ready" \in States
  /\ None \in Keys \cup {None} /\ 0 \in Nat /\ TRUE \in BOOLEAN /\ FALSE \in BOOLEAN
  /\ \A k \in Keys : k \in Keys \cup {None}
  BY DEF States

LEMMA TypeParts ==
  TypeOK <=> /\ clock \in Nat /\ faults \in Nat
             /\ cache \in [Keys -> {None} \cup Entries]
             /\ calls \in [Days -> Callers \cup {None}]
             /\ once \in {"new", "running", "done"} /\ stations \in {"none", "cut", "whole"}
             /\ req \in [Callers -> ReqType]
  BY DEF TypeOK, Entries, ReqType

\* A step that leaves the caches, the calls and the index alone and moves one
\* caller to a place where it is sound.
LEMMA CallerStep ==
  ASSUME CacheInv, NEW c \in Callers, NEW r \in ReqType,
         req' = [req EXCEPT ![c] = r],
         SoundIn(r, c, calls, cache, clock, once),
         UNCHANGED <<clock, cache, calls, once, stations>>,
         faults' \in Nat, faults <= faults'
  PROVE  CacheInv'
  <1>1. clock \in Nat /\ clock <= clock' /\ faults \in Nat
    BY DEF CacheInv, TypeOK
  <1>2. SoundIn(r, c, calls', cache', clock', once')
    OBVIOUS
  <1>3. req' \in [Callers -> ReqType] /\ \A x \in Callers : Sound(x)'
    BY <1>1, <1>2, OneCaller
  <1>4. TypeOK'
    BY <1>1, <1>3, TypeParts DEF CacheInv, TypeOK, ReqType
  <1>5. \A k \in Keys : EntrySound(cache[k])'
    BY DEF CacheInv, EntrySound
  <1>6. (once = "done" /\ faults = 0 => stations = "whole")'
    BY <1>1 DEF CacheInv
  <1> QED
    BY <1>3, <1>4, <1>5, <1>6 DEF CacheInv

\* A lookup that may drop an entry.
LEMMA LookStep ==
  ASSUME CacheInv, NEW c \in Callers, NEW r \in ReqType,
         req' = [req EXCEPT ![c] = r],
         SoundIn(r, c, calls, cache', clock, once),
         NEW k \in Keys, NEW at \in Nat,
         cache' = cache \/ cache' = AfterGet(k, at),
         UNCHANGED <<clock, calls, once, stations, faults>>
  PROVE  CacheInv'
  <1>1. clock \in Nat /\ clock <= clock'
    BY DEF CacheInv, TypeOK
  <1>2. /\ cache' \in [Keys -> {None} \cup Entries]
        /\ \A x \in Keys : cache'[x] = cache[x] \/ cache'[x] = None
    BY AfterGetSound DEF CacheInv, TypeOK, Entries
  <1>3. \A x \in Callers \ {c} :
          /\ Leads(req[x]) => calls'[DayOf(req[x].key)] = calls[DayOf(req[x].key)]
          /\ req[x].pc = "scanning" /\ req[x].key[1] = "day" =>
               cache'[req[x].key] = cache[req[x].key] \/ cache'[req[x].key] = None
    BY <1>2 DEF CacheInv, Sound, SoundIn
  <1>4. req' \in [Callers -> ReqType] /\ \A x \in Callers : Sound(x)'
    BY <1>1, <1>3, OneCaller
  <1>5. TypeOK'
    BY <1>1, <1>2, <1>4, TypeParts DEF CacheInv, TypeOK, Entries, ReqType
  <1>6. \A x \in Keys : EntrySound(cache[x])'
    BY <1>2 DEF CacheInv, EntrySound
  <1> QED
    BY <1>4, <1>5, <1>6 DEF CacheInv

------------------------------------------------------------------------------
(* The steps *)

LEMMA TickStep == CacheInv /\ Tick => CacheInv'
  <1> SUFFICES ASSUME CacheInv, Tick PROVE CacheInv'
    OBVIOUS
  <1>1. clock \in Nat /\ clock' \in Nat /\ clock <= clock' /\ req \in [Callers -> ReqType]
    BY TypeParts DEF CacheInv, Tick
  <1>2. \A c \in Callers : Sound(c)'
    <2> TAKE c \in Callers
    <2>1. req[c] \in ReqType /\ SoundIn(req[c], c, calls, cache, clock, once)
      BY <1>1 DEF CacheInv, Sound
    <2>2. SoundIn(req[c], c, calls, cache, clock', once)
      BY <1>1, <2>1, SoundKept
    <2> QED
      BY <2>2 DEF Sound, Tick
  <1>3. TypeOK'
    BY <1>1, TypeParts DEF CacheInv, TypeOK, Tick
  <1>4. \A k \in Keys : EntrySound(cache[k])'
    <2> TAKE k \in Keys
    <2>1. cache[k] # None => cache[k] \in Entries
      BY TypeParts DEF CacheInv
    <2> QED
      BY <1>1, <2>1 DEF CacheInv, EntrySound, Tick, Entries
  <1> QED
    BY <1>2, <1>3, <1>4 DEF CacheInv, Tick

LEMMA DisconnectStep ==
  ASSUME CacheInv, NEW c \in Callers, Disconnect(c)
  PROVE  CacheInv'
  <1> DEFINE r == [req[c] EXCEPT !.live = FALSE]
  <1>1. req[c] \in ReqType /\ faults \in Nat /\ Sound(c)
    BY TypeParts DEF CacheInv
  <1>2. /\ r \in ReqType /\ r.pc = req[c].pc /\ r.key = req[c].key
        /\ r.at = req[c].at /\ r.born = req[c].born
    BY <1>1 DEF ReqType
  <1>3. SoundIn(r, c, calls, cache, clock, once)
    BY <1>1, <1>2 DEF Sound, SoundIn, Leads
  <1>4. /\ req' = [req EXCEPT ![c] = r] /\ faults' = faults /\ faults <= faults'
        /\ UNCHANGED <<clock, cache, calls, once, stations>>
    BY <1>1 DEF Disconnect
  <1> QED
    BY <1>1, <1>2, <1>3, <1>4, CallerStep

LEMMA ArriveStep ==
  ASSUME CacheInv, NEW c \in Callers, NEW k \in Keys, Arrive(c, k)
  PROVE  CacheInv'
  <1> DEFINE r == Caller("arrived", k, clock, TRUE, req[c].asked + 1)
  <1>1. req[c] \in ReqType /\ faults \in Nat /\ clock \in Nat
    BY TypeParts DEF CacheInv
  <1>2. req[c].asked + 1 \in Nat
    BY <1>1 DEF ReqType
  <1>3. r \in ReqType /\ r.pc = "arrived" /\ r.key = k /\ r.at = clock
    BY <1>1, <1>2, Tokens DEF Caller, ReqType
  <1> HIDE DEF r
  <1>4. SoundIn(r, c, calls, cache, clock, once)
    BY <1>1, <1>3 DEF SoundIn, Leads
  <1>5. /\ req' = [req EXCEPT ![c] = r] /\ faults' = faults /\ faults <= faults'
        /\ UNCHANGED <<clock, cache, calls, once, stations>>
    BY <1>1 DEF Arrive, r
  <1> QED
    BY <1>1, <1>3, <1>4, <1>5, CallerStep

LEMMA ArriveSearchStep ==
  ASSUME CacheInv, NEW c \in Callers, NEW d \in Days, ArriveSearch(c, d)
  PROVE  CacheInv'
  <1> DEFINE r == Caller("search", <<"day", d>>, 0, TRUE, req[c].asked + 1)
  <1>1. req[c] \in ReqType /\ faults \in Nat /\ clock \in Nat
    BY TypeParts DEF CacheInv
  <1>2. req[c].asked + 1 \in Nat /\ <<"day", d>> \in Keys
    BY <1>1 DEF ReqType, Keys
  <1>3. r \in ReqType /\ r.pc = "search" /\ r.key = <<"day", d>>
    BY <1>1, <1>2, Tokens DEF Caller, ReqType
  <1>4. SoundIn(r, c, calls, cache, clock, once)
    BY <1>2, <1>3, ModestSound
  <1>5. /\ req' = [req EXCEPT ![c] = r] /\ faults' = faults /\ faults <= faults'
        /\ UNCHANGED <<clock, cache, calls, once, stations>>
    BY <1>1 DEF ArriveSearch
  <1> QED
    BY <1>1, <1>3, <1>4, <1>5, CallerStep

LEMMA ReturnStep ==
  ASSUME CacheInv, NEW c \in Callers, Return(c)
  PROVE  CacheInv'
  <1> DEFINE r == Caller("idle", None, 0, TRUE, req[c].asked)
  <1>1. req[c] \in ReqType /\ faults \in Nat
    BY TypeParts DEF CacheInv
  <1>2. req[c].asked \in Nat
    BY <1>1 DEF ReqType
  <1>3. r \in ReqType /\ r.pc = "idle"
    BY <1>2, Tokens DEF Caller, ReqType
  <1>4. SoundIn(r, c, calls, cache, clock, once)
    BY <1>3, ModestSound
  <1>5. /\ req' = [req EXCEPT ![c] = r] /\ faults' = faults /\ faults <= faults'
        /\ UNCHANGED <<clock, cache, calls, once, stations>>
    BY <1>1 DEF Return
  <1> QED
    BY <1>1, <1>3, <1>4, <1>5, CallerStep

\* A caller that has its answer claims nothing.
LEMMA AnsweredSound ==
  ASSUME NEW r \in ReqType, NEW ok \in BOOLEAN,
         NEW c, NEW l, NEW m, NEW t, NEW o
  PROVE  Answered(r, ok) \in ReqType /\ SoundIn(Answered(r, ok), c, l, m, t, o)
         /\ Answered(r, ok).pc = "answered"
  <1>1. r.asked \in Nat
    BY DEF ReqType
  <1>2. Answered(r, ok) \in ReqType /\ Answered(r, ok).pc = "answered"
    BY <1>1, Tokens DEF Answered, Caller, ReqType
  <1> QED
    BY <1>2, ModestSound

LEMMA ComputedTyped ==
  ASSUME NEW r \in ReqType, NEW ok \in BOOLEAN
  PROVE  /\ Computed(r, ok) \in ReqType
         /\ Computed(r, ok).pc = "closing" /\ Computed(r, ok).key = r.key
  BY Tokens DEF Computed, Caller, ReqType

LEMMA LookUpStep ==
  ASSUME CacheInv, NEW c \in Callers, LookUp(c)
  PROVE  CacheInv'
  <1> DEFINE k == req[c].key
             at == req[c].at
             next == IF k[1] = "day" THEN "asking" ELSE "leading"
             moved == [req[c] EXCEPT !.pc = next]
  <1>1. req[c] \in ReqType /\ Sound(c) /\ req[c].pc = "arrived" /\ clock \in Nat
    BY TypeParts DEF CacheInv, LookUp
  <1>2. k \in Keys /\ at \in Nat /\ at <= clock
    BY <1>1 DEF Sound, SoundIn, ReqType
  <1>3. /\ moved \in ReqType /\ moved.pc = next /\ moved.key = k /\ moved.at = at
    <2>1. next \in States
      BY Tokens
    <2> HIDE DEF next
    <2> QED
      BY <1>1, <2>1, MovedSound
  <1>4. SoundIn(moved, c, calls, cache', clock, once)
    BY <1>2, <1>3 DEF SoundIn, Leads
  <1>5. CASE MayUseCache(c) /\ Hit(k, at)
    <2> DEFINE r == Answered(req[c], TRUE)
    <2>1. r \in ReqType /\ SoundIn(r, c, calls, cache', clock, once)
      BY <1>1, AnsweredSound, Tokens
    <2>2. req' = [req EXCEPT ![c] = r] /\ cache' = AfterGet(k, at)
      BY <1>5 DEF LookUp, Answer
    <2> HIDE DEF r
    <2> QED
      BY <1>2, <2>1, <2>2, LookStep DEF LookUp
  <1>6. CASE ~(MayUseCache(c) /\ Hit(k, at))
    <2>1. req' = [req EXCEPT ![c] = moved]
      BY <1>6 DEF LookUp, Move
    <2>2. cache' = cache \/ cache' = AfterGet(k, at)
      BY DEF LookUp
    <2> HIDE DEF moved
    <2> QED
      BY <1>2, <1>3, <1>4, <2>1, <2>2, LookStep DEF LookUp
  <1> QED
    BY <1>5, <1>6

LEMMA SearchStep ==
  ASSUME CacheInv, NEW c \in Callers, Search(c)
  PROVE  CacheInv'
  <1> DEFINE k == req[c].key
             r == Answered(req[c], Hit(k, clock))
  <1>1. req[c] \in ReqType /\ Sound(c) /\ req[c].pc = "ready" /\ clock \in Nat
    BY TypeParts DEF CacheInv, Search
  <1>2. k \in Keys
    BY <1>1 DEF Sound, SoundIn
  <1>3. Hit(k, clock) \in BOOLEAN
    BY DEF Hit
  <1>4. r \in ReqType /\ SoundIn(r, c, calls, cache', clock, once)
    BY <1>1, <1>3, AnsweredSound
  <1>5. req' = [req EXCEPT ![c] = r] /\ cache' = AfterGet(k, clock)
    BY DEF Search, Answer
  <1> HIDE DEF r
  <1> QED
    BY <1>1, <1>2, <1>4, <1>5, LookStep DEF Search

LEMMA EnsureStationsStep ==
  ASSUME CacheInv, NEW c \in Callers, EnsureStations(c)
  PROVE  CacheInv'
  <1> DEFINE q == IF once = "new" THEN "loading" ELSE "ready"
             r == [req[c] EXCEPT !.pc = q]
  <1>1. /\ req[c] \in ReqType /\ Sound(c) /\ req[c].pc = "search" /\ clock \in Nat
        /\ once \in {"new", "done"} /\ req \in [Callers -> ReqType] /\ faults \in Nat
    BY TypeParts DEF CacheInv, EnsureStations
  <1>2. r \in ReqType /\ r.pc = q /\ r.key = req[c].key
    <2>1. q \in States
      BY Tokens
    <2> HIDE DEF q
    <2> QED
      BY <1>1, <2>1, MovedSound
  <1>3. SoundIn(r, c, calls', cache', clock', once') /\ once' \in {"running", "done"}
    BY <1>1, <1>2 DEF EnsureStations, Sound, SoundIn, Leads
  <1>4. req' = [req EXCEPT ![c] = r]
    BY DEF EnsureStations, Move
  <1>5. req' \in [Callers -> ReqType] /\ \A x \in Callers : Sound(x)'
    <2> HIDE DEF r
    <2>1. /\ clock' \in Nat /\ clock <= clock' /\ (once = "done" => once' = "done")
          /\ UNCHANGED <<calls, cache>>
      BY <1>1 DEF EnsureStations
    <2> QED
      BY <1>2, <1>3, <1>4, <2>1, OneCaller
  <1>6. TypeOK'
    BY <1>3, <1>5, TypeParts DEF CacheInv, TypeOK, EnsureStations, ReqType, Entries
  <1>7. \A x \in Keys : EntrySound(cache[x])'
    BY DEF CacheInv, EntrySound, EnsureStations
  <1> QED
    BY <1>1, <1>5, <1>6, <1>7 DEF CacheInv, EnsureStations

LEMMA LoadStationsStep ==
  ASSUME CacheInv, NEW c \in Callers, NEW s \in {"none", "cut", "whole"}, LoadStations(c, s)
  PROVE  CacheInv'
  <1> DEFINE r == [req[c] EXCEPT !.pc = "ready"]
  <1>1. /\ req[c] \in ReqType /\ Sound(c) /\ req[c].pc = "loading" /\ clock \in Nat
        /\ req \in [Callers -> ReqType] /\ faults \in Nat
    BY TypeParts DEF CacheInv, LoadStations
  <1>2. r \in ReqType /\ r.pc = "ready" /\ r.key = req[c].key
    BY <1>1, MovedSound, Tokens
  <1>3. SoundIn(r, c, calls', cache', clock', once') /\ once' = "done"
    BY <1>1, <1>2 DEF LoadStations, Sound, SoundIn, Leads
  <1>4. req' = [req EXCEPT ![c] = r]
    BY DEF LoadStations, Move
  <1>5. req' \in [Callers -> ReqType] /\ \A x \in Callers : Sound(x)'
    <2> HIDE DEF r
    <2>1. /\ clock' \in Nat /\ clock <= clock' /\ (once = "done" => once' = "done")
          /\ UNCHANGED <<calls, cache>>
      BY <1>1 DEF LoadStations
    <2> QED
      BY <1>2, <1>3, <1>4, <2>1, OneCaller
  <1>6. faults' \in Nat /\ (faults' = 0 => s = "whole") /\ stations' = s
    BY <1>1 DEF LoadStations
  <1>7. TypeOK'
    BY <1>3, <1>5, <1>6, TypeParts DEF CacheInv, TypeOK, LoadStations, ReqType, Entries
  <1>8. \A x \in Keys : EntrySound(cache[x])'
    BY DEF CacheInv, EntrySound, LoadStations
  <1> QED
    BY <1>5, <1>6, <1>7, <1>8 DEF CacheInv

LEMMA BeginScanStep ==
  ASSUME CacheInv, NEW c \in Callers, BeginScan(c)
  PROVE  CacheInv'
  <1> DEFINE r == [req[c] EXCEPT !.pc = "scanning", !.born = clock]
  <1>1. /\ req[c] \in ReqType /\ Sound(c) /\ req[c].pc = "leading" /\ clock \in Nat
        /\ faults \in Nat
    BY TypeParts DEF CacheInv, BeginScan
  <1>2. /\ r \in ReqType /\ r.pc = "scanning" /\ r.key = req[c].key
        /\ r.at = req[c].at /\ r.born = clock
    BY <1>1, Tokens DEF ReqType
  <1>3. r.key \in Keys /\ r.at <= clock
    BY <1>1, <1>2 DEF Sound, SoundIn
  <1>4. EntrySound(cache[r.key])
    BY <1>3 DEF CacheInv
  <1>5. SoundIn(r, c, calls, cache, clock, once)
    BY <1>1, <1>2, <1>3, <1>4 DEF Sound, SoundIn, Leads, EntrySound
  <1>6. /\ req' = [req EXCEPT ![c] = r] /\ faults' = faults /\ faults <= faults'
        /\ UNCHANGED <<clock, cache, calls, once, stations>>
    BY <1>1 DEF BeginScan
  <1> HIDE DEF r
  <1> QED
    BY <1>1, <1>2, <1>5, <1>6, CallerStep

LEMMA FailScanStep ==
  ASSUME CacheInv, NEW c \in Callers, FailScan(c)
  PROVE  CacheInv'
  <1>1. /\ req[c] \in ReqType /\ Sound(c) /\ req[c].pc \in {"leading", "scanning"}
        /\ clock \in Nat /\ faults \in Nat
    BY TypeParts DEF CacheInv, FailScan
  <1>2. /\ faults' \in Nat /\ faults <= faults'
        /\ UNCHANGED <<clock, cache, calls, once, stations>>
    BY <1>1 DEF FailScan
  <1>3. CASE req[c].key[1] = "day"
    <2> DEFINE r == Computed(req[c], FALSE)
    <2>1. r \in ReqType /\ r.pc = "closing" /\ r.key = req[c].key
      BY <1>1, ComputedTyped, Tokens
    <2>2. SoundIn(r, c, calls, cache, clock, once)
      BY <1>1, <1>3, <2>1 DEF Sound, SoundIn, Leads
    <2>3. req' = [req EXCEPT ![c] = r]
      BY <1>3 DEF FailScan
    <2> HIDE DEF r
    <2> QED
      BY <1>2, <2>1, <2>2, <2>3, CallerStep
  <1>4. CASE req[c].key[1] # "day"
    <2> DEFINE r == Answered(req[c], FALSE)
    <2>1. r \in ReqType /\ SoundIn(r, c, calls, cache, clock, once)
      BY <1>1, AnsweredSound, Tokens
    <2>2. req' = [req EXCEPT ![c] = r]
      BY <1>4 DEF FailScan, Answer
    <2> HIDE DEF r
    <2> QED
      BY <1>2, <2>1, <2>2, CallerStep
  <1> QED
    BY <1>3, <1>4

\* The result of a scan is stored: nobody else scans that day.
LEMMA EndScanStep ==
  ASSUME CacheInv, NEW c \in Callers, NEW whole \in BOOLEAN, EndScan(c, whole)
  PROVE  CacheInv'
  <1> DEFINE k == req[c].key
             e == Entry(whole, req[c].born, req[c].at)
             r == IF k[1] = "day" THEN Computed(req[c], TRUE) ELSE Answered(req[c], TRUE)
  <1>1. /\ req[c] \in ReqType /\ Sound(c) /\ req[c].pc = "scanning"
        /\ clock \in Nat /\ faults \in Nat /\ cache \in [Keys -> {None} \cup Entries]
    BY TypeParts DEF CacheInv, EndScan
  <1>2. /\ k \in Keys /\ req[c].at \in Nat /\ req[c].born \in Nat
        /\ req[c].at <= req[c].born /\ req[c].born <= clock
    BY <1>1 DEF Sound, SoundIn, ReqType
  <1>3. e \in Entries /\ e.expires <= e.born + TTL /\ e.born <= clock
    BY <1>2, Constants DEF Entry, Entries
  <1>4. /\ cache' = [cache EXCEPT ![k] = e] /\ faults' \in Nat /\ faults <= faults'
        /\ UNCHANGED <<clock, calls, once, stations>>
    BY <1>1 DEF EndScan
  <1>5. r \in ReqType
    BY <1>1, ComputedTyped, AnsweredSound, Tokens
  <1>6. SoundIn(r, c, calls, cache', clock, once)
    <2>1. CASE k[1] = "day"
      <3>1. r.pc = "closing" /\ r.key = k
        BY <1>1, <2>1, ComputedTyped, Tokens
      <3> QED
        BY <1>1, <1>2, <2>1, <3>1 DEF Sound, SoundIn, Leads
    <2>2. CASE k[1] # "day"
      BY <1>1, <2>2, AnsweredSound, Tokens
    <2> QED
      BY <2>1, <2>2
  <1>7. req' = [req EXCEPT ![c] = r]
    BY DEF EndScan, Answer
  <1>8. \A x \in Callers \ {c} :
          req[x].pc = "scanning" /\ req[x].key[1] = "day" => cache'[req[x].key] = cache[req[x].key]
    <2> SUFFICES ASSUME NEW x \in Callers \ {c}, req[x].pc = "scanning", req[x].key[1] = "day"
                 PROVE  cache'[req[x].key] = cache[req[x].key]
      OBVIOUS
    <2>1. Sound(x) /\ x # c
      BY DEF CacheInv
    <2>2. req[x].key \in Keys /\ calls[DayOf(req[x].key)] = x
      BY <2>1 DEF Sound, SoundIn, Leads
    <2>3. k[1] = "day" => calls[DayOf(k)] = c
      BY <1>1 DEF Sound, SoundIn, Leads
    <2>4. req[x].key # k
      BY <2>1, <2>2, <2>3
    <2> QED
      BY <1>1, <1>4, <2>2, <2>4
  <1>9. req' \in [Callers -> ReqType] /\ \A x \in Callers : Sound(x)'
    <2> HIDE DEF r, k, e
    <2>1. \A x \in Callers \ {c} :
            /\ Leads(req[x]) => calls'[DayOf(req[x].key)] = calls[DayOf(req[x].key)]
            /\ req[x].pc = "scanning" /\ req[x].key[1] = "day" =>
                 cache'[req[x].key] = cache[req[x].key] \/ cache'[req[x].key] = None
      BY <1>4, <1>8
    <2>2. /\ SoundIn(r, c, calls', cache', clock', once') /\ clock' \in Nat /\ clock <= clock'
          /\ once = "done" => once' = "done"
      BY <1>1, <1>4, <1>6
    <2> QED
      BY <1>5, <1>7, <2>1, <2>2, OneCaller
  <1>10. cache' \in [Keys -> {None} \cup Entries]
    BY <1>1, <1>3, <1>4
  <1>11. TypeOK'
    BY <1>4, <1>9, <1>10, TypeParts DEF CacheInv, TypeOK, ReqType, Entries
  <1>12. \A x \in Keys : EntrySound(cache[x])'
    <2> TAKE x \in Keys
    <2>1. CASE x = k
      BY <1>1, <1>2, <1>3, <1>4, <2>1 DEF EntrySound
    <2>2. CASE x # k
      BY <1>1, <1>2, <1>4, <2>2 DEF EntrySound, CacheInv
    <2> QED
      BY <2>1, <2>2
  <1> QED
    BY <1>1, <1>4, <1>9, <1>11, <1>12 DEF CacheInv

\* A step that changes the registered call of one day, which no other caller
\* leads.
LEMMA CallsStep ==
  ASSUME CacheInv, NEW c \in Callers, NEW r \in ReqType, NEW d \in Days,
         NEW l \in Callers \cup {None},
         req' = [req EXCEPT ![c] = r], calls' = [calls EXCEPT ![d] = l],
         calls[d] = None \/ calls[d] = c,
         SoundIn(r, c, calls', cache, clock, once),
         UNCHANGED <<clock, cache, once, stations, faults>>
  PROVE  CacheInv'
  <1>1. /\ clock \in Nat /\ calls \in [Days -> Callers \cup {None}]
    BY TypeParts DEF CacheInv
  <1>2. \A x \in Callers \ {c} :
          Leads(req[x]) => calls'[DayOf(req[x].key)] = calls[DayOf(req[x].key)]
    <2> SUFFICES ASSUME NEW x \in Callers \ {c}, Leads(req[x])
                 PROVE  calls'[DayOf(req[x].key)] = calls[DayOf(req[x].key)]
      OBVIOUS
    <2>1. req[x].key \in Keys /\ calls[DayOf(req[x].key)] = x
      BY DEF CacheInv, Sound, SoundIn, Leads
    <2>2. DayOf(req[x].key) \in Days /\ DayOf(req[x].key) # d
      BY <2>1, KeyParts, Constants
    <2> QED
      BY <1>1, <2>2
  <1>3. SoundIn(r, c, calls', cache', clock', once') /\ clock' \in Nat /\ clock <= clock'
    BY <1>1
  <1>4. req' \in [Callers -> ReqType] /\ \A x \in Callers : Sound(x)'
    BY <1>2, <1>3, OneCaller
  <1>5. calls' \in [Days -> Callers \cup {None}]
    BY <1>1
  <1>6. TypeOK'
    BY <1>4, <1>5, TypeParts DEF CacheInv, TypeOK, ReqType, Entries
  <1>7. \A x \in Keys : EntrySound(cache[x])'
    BY DEF CacheInv, EntrySound
  <1> QED
    BY <1>4, <1>6, <1>7 DEF CacheInv

LEMMA JoinStep ==
  ASSUME CacheInv, NEW c \in Callers, Join(c)
  PROVE  CacheInv'
  <1> DEFINE d == DayOf(req[c].key)
  <1>1. /\ req \in [Callers -> ReqType] /\ Sound(c) /\ req[c].pc = "asking"
        /\ clock \in Nat /\ faults \in Nat /\ calls \in [Days -> Callers \cup {None}]
    BY TypeParts DEF CacheInv, Join
  <1>2. /\ req[c] \in ReqType /\ req[c].key \in Keys /\ req[c].key[1] = "day" /\ d \in Days
        /\ req[c].at <= clock
    BY <1>1, KeyParts DEF Sound, SoundIn
  <1>3. CASE calls[d] = None
    <2> DEFINE r == [req[c] EXCEPT !.pc = "leading"]
    <2>1. /\ r \in ReqType /\ r.pc = "leading" /\ r.key = req[c].key /\ r.at = req[c].at
      BY <1>2, MovedSound, Tokens
    <2>2. /\ req' = [req EXCEPT ![c] = r] /\ calls' = [calls EXCEPT ![d] = c]
          /\ UNCHANGED <<clock, cache, once, stations, faults>>
      BY <1>3 DEF Join, Move
    <2> HIDE DEF r
    <2>3. SoundIn(r, c, calls', cache, clock, once)
      BY <1>1, <1>2, <2>1, <2>2 DEF SoundIn, Leads
    <2> QED
      BY <1>2, <1>3, <2>1, <2>2, <2>3, CallsStep
  <1>4. CASE calls[d] # None
    <2> DEFINE l == calls[d]
    <2>1. l \in Callers /\ req[l].ok \in BOOLEAN
      BY <1>1, <1>2, <1>4 DEF ReqType
    <2>2. CASE req[l].pc = "closed"
      <3> DEFINE r == Answered(req[c], req[l].ok)
      <3>1. r \in ReqType /\ SoundIn(r, c, calls, cache, clock, once)
        BY <1>2, <2>1, AnsweredSound
      <3>2. /\ req' = [req EXCEPT ![c] = r] /\ faults' = faults /\ faults <= faults'
            /\ UNCHANGED <<clock, cache, calls, once, stations>>
        BY <1>1, <1>4, <2>2 DEF Join, Answer
      <3> HIDE DEF r
      <3> QED
        BY <1>1, <3>1, <3>2, CallerStep
    <2>3. CASE req[l].pc # "closed"
      <3> DEFINE r == [req[c] EXCEPT !.pc = "waiting", !.at = 0]
      <3>1. r \in ReqType /\ r.pc = "waiting" /\ r.key = req[c].key
        BY <1>2, Tokens DEF ReqType
      <3>2. /\ req' = [req EXCEPT ![c] = r] /\ faults' = faults /\ faults <= faults'
            /\ UNCHANGED <<clock, cache, calls, once, stations>>
        BY <1>1, <1>4, <2>3 DEF Join
      <3> HIDE DEF r
      <3>3. SoundIn(r, c, calls, cache, clock, once)
        BY <1>2, <3>1 DEF SoundIn, Leads
      <3> QED
        BY <1>1, <3>1, <3>2, <3>3, CallerStep
    <2> QED
      BY <2>2, <2>3
  <1> QED
    BY <1>3, <1>4

LEMMA ReleaseStep ==
  ASSUME CacheInv, NEW c \in Callers, Release(c)
  PROVE  CacheInv'
  <1> DEFINE d == DayOf(req[c].key)
             r == Answered(req[c], req[c].ok)
  <1>1. /\ req[c] \in ReqType /\ Sound(c) /\ req[c].pc = "closed"
    BY TypeParts DEF CacheInv, Release
  <1>2. req[c].key \in Keys /\ d \in Days /\ calls[d] = c /\ req[c].ok \in BOOLEAN
    BY <1>1, KeyParts DEF Sound, SoundIn, Leads, ReqType
  <1>3. r \in ReqType /\ SoundIn(r, c, calls', cache, clock, once)
    BY <1>1, <1>2, AnsweredSound
  <1>4. /\ req' = [req EXCEPT ![c] = r] /\ calls' = [calls EXCEPT ![d] = None]
        /\ UNCHANGED <<clock, cache, once, stations, faults>>
    BY DEF Release, Answer
  <1> HIDE DEF r, d
  <1> QED
    BY <1>2, <1>3, <1>4, CallsStep

LEMMA CloseStep ==
  ASSUME CacheInv, NEW c \in Callers, Close(c)
  PROVE  CacheInv'
  <1> DEFINE done == [req[c] EXCEPT !.pc = "closed"]
  <1>1. /\ req \in [Callers -> ReqType] /\ req[c] \in ReqType /\ req[c].pc = "closing"
        /\ req[c].ok \in BOOLEAN /\ Sound(c)
    BY TypeParts DEF CacheInv, Close, ReqType
  <1>2. done \in ReqType /\ done.pc = "closed" /\ done.key = req[c].key
    BY <1>1, MovedSound, Tokens
  <1>3. SoundIn(done, c, calls, cache, clock, once)
    BY <1>1, <1>2 DEF Sound, SoundIn, Leads
  <1>4. \A x \in Callers : req'[x] \in ReqType /\ SoundIn(req'[x], x, calls, cache, clock, once)
    <2> TAKE x \in Callers
    <2>1. req[x] \in ReqType /\ SoundIn(req[x], x, calls, cache, clock, once)
      BY <1>1 DEF CacheInv, Sound
    <2>2. CASE x = c
      <3>1. req'[x] = done
        BY <2>2 DEF Close
      <3> HIDE DEF done
      <3> QED
        BY <1>2, <1>3, <2>2, <3>1
    <2>3. CASE x # c /\ req[x].pc = "waiting" /\ req[x].key = req[c].key
      <3>1. req'[x] = Answered(req[x], req[c].ok)
        BY <2>3 DEF Close
      <3> QED
        BY <1>1, <2>1, <3>1, AnsweredSound
    <2>4. CASE x # c /\ ~(req[x].pc = "waiting" /\ req[x].key = req[c].key)
      <3>1. req'[x] = req[x]
        BY <2>4 DEF Close
      <3> QED
        BY <2>1, <3>1
    <2> QED
      BY <2>2, <2>3, <2>4
  <1>5. req' \in [Callers -> ReqType]
    <2>1. req' = [x \in Callers |-> req'[x]]
      BY DEF Close
    <2> QED
      BY <1>4, <2>1
  <1>6. UNCHANGED <<clock, cache, calls, once, stations, faults>>
    BY DEF Close
  <1>7. \A x \in Callers : Sound(x)'
    BY <1>4, <1>6 DEF Sound
  <1>8. TypeOK'
    BY <1>5, <1>6, TypeParts DEF CacheInv, TypeOK, ReqType, Entries
  <1>9. \A x \in Keys : EntrySound(cache[x])'
    BY <1>6 DEF CacheInv, EntrySound
  <1> QED
    BY <1>6, <1>7, <1>8, <1>9 DEF CacheInv

LEMMA InitInv == Init => CacheInv
  <1> SUFFICES ASSUME Init PROVE CacheInv
    OBVIOUS
  <1> DEFINE w == Caller("arrived", <<"day", 0>>, 0, TRUE, 1)
             i == Caller("idle", None, 0, TRUE, 0)
  <1>1. <<"day", 0>> \in Keys
    BY Constants DEF Keys
  <1>2. w \in ReqType /\ w.pc = "arrived" /\ w.key = <<"day", 0>> /\ w.at = 0
    BY <1>1, Tokens DEF Caller, ReqType
  <1>3. i \in ReqType /\ i.pc = "idle"
    BY Tokens DEF Caller, ReqType
  <1>4. \A c \in Callers : req[c] = w \/ req[c] = i
    BY DEF Init
  <1>5. req \in [Callers -> ReqType]
    BY <1>2, <1>3, <1>4 DEF Init
  <1> HIDE DEF w, i
  <1>6. \A c \in Callers : Sound(c)
    <2>1. clock = 0 /\ \A c : SoundIn(i, c, calls, cache, clock, once)
      BY <1>3 DEF Init, SoundIn, Leads
    <2>2. \A c : SoundIn(w, c, calls, cache, clock, once)
      BY <1>1, <1>2, <2>1 DEF SoundIn, Leads
    <2> QED
      BY <1>4, <2>1, <2>2 DEF Sound
  <1>7. TypeOK
    BY <1>5, TypeParts DEF Init
  <1> QED
    BY <1>6, <1>7 DEF CacheInv, Init, EntrySound

LEMMA StutterStep == CacheInv /\ UNCHANGED vars => CacheInv'
  BY DEF CacheInv, vars, TypeOK, Sound, SoundIn, Leads, EntrySound

LEMMA InvStep == CacheInv /\ [Next]_vars => CacheInv'
  <1> SUFFICES ASSUME CacheInv, Next PROVE CacheInv'
    BY StutterStep
  <1>1. CASE Tick
    BY <1>1, TickStep
  <1>2. CASE \E c \in Callers : \/ Disconnect(c) \/ Return(c)
                                \/ \E k \in Keys : Arrive(c, k)
                                \/ \E d \in Days : ArriveSearch(c, d)
    BY <1>2, DisconnectStep, ReturnStep, ArriveStep, ArriveSearchStep
  <1>3. CASE \E c \in Callers : Proceed(c)
    BY <1>3, LookUpStep, JoinStep, BeginScanStep, FailScanStep, EndScanStep, CloseStep,
       ReleaseStep, EnsureStationsStep, LoadStationsStep, SearchStep DEF Proceed
  <1> QED
    BY <1>1, <1>2, <1>3 DEF Next

------------------------------------------------------------------------------
(* The theorems *)

\* The invariant of the caches holds of every run.
THEOREM CacheInvariant == Spec => []CacheInv
  BY InitInv, InvStep, PTL DEF Spec

\* The types of the variables.
THEOREM CacheTypeCorrect == Spec => []TypeOK
  <1>1. CacheInv => TypeOK
    BY DEF CacheInv
  <1> QED
    BY <1>1, CacheInvariant, PTL

\* What a request finds in a cache was scanned at most TTL before it came.
THEOREM CacheHitsFresh == Spec => []HitsAreFresh
  <1>1. CacheInv => HitsAreFresh
    <2> SUFFICES ASSUME CacheInv, NEW c \in Callers, req[c].pc = "arrived",
                        Hit(req[c].key, req[c].at)
                 PROVE  req[c].at - cache[req[c].key].born <= TTL
      BY DEF HitsAreFresh
    <2> DEFINE k == req[c].key
    <2>1. k \in Keys /\ req[c].at \in Nat
      BY TypeParts DEF CacheInv, Sound, SoundIn, ReqType
    <2>2. cache[k] \in Entries /\ EntrySound(cache[k]) /\ cache[k] # None
      BY <2>1, TypeParts DEF CacheInv, Hit
    <2>3. req[c].at <= cache[k].expires
      BY DEF Hit
    <2> QED
      BY <2>1, <2>2, <2>3, Constants DEF EntrySound, Entries
  <1> QED
    BY <1>1, CacheInvariant, PTL

\* While the one load of the station index has not failed, no search runs on
\* less than all of it.
THEOREM CacheIndexWhole == Spec => []SearchSeesIndex
  <1>1. CacheInv => SearchSeesIndex
    BY DEF CacheInv, SearchSeesIndex, Sound, SoundIn
  <1> QED
    BY <1>1, CacheInvariant, PTL

------------------------------------------------------------------------------
(* The promise to the readers of a day *)

Scanning(r, d) == r.pc = "scanning" /\ r.key = <<"day", d>>

\* ScanBegan and MemoBorn of any state of the callers and the cache.
BeganIn(f, d) ==
  LET S == {c \in Callers : Scanning(f[c], d)}
  IN IF S = {} THEN None ELSE f[CHOOSE c \in S : TRUE].born
BornIn(m, d) == IF m[<<"day", d>>] = None THEN None ELSE m[<<"day", d>>].born

LEMMA MappingNow ==
  /\ ScanBegan = [d \in Days |-> BeganIn(req, d)]
  /\ MemoBorn = [d \in Days |-> BornIn(cache, d)]
  BY DEF ScanBegan, Scans, BeganIn, Scanning, MemoBorn, BornIn

LEMMA MappingNext ==
  /\ ScanBegan' = [d \in Days |-> BeganIn(req', d)]
  /\ MemoBorn' = [d \in Days |-> BornIn(cache', d)]
  BY DEF ScanBegan, Scans, BeganIn, Scanning, MemoBorn, BornIn

LEMMA BeganOne ==
  ASSUME NEW f, NEW d, NEW c \in Callers, Scanning(f[c], d),
         \A x \in Callers : Scanning(f[x], d) => x = c
  PROVE  BeganIn(f, d) = f[c].born
  <1> DEFINE S == {x \in Callers : Scanning(f[x], d)}
  <1>1. S = {c}
    OBVIOUS
  <1>2. (CHOOSE x \in S : TRUE) = c
    BY <1>1
  <1> QED
    BY <1>1, <1>2 DEF BeganIn

LEMMA BeganNone ==
  ASSUME NEW f, NEW d, \A x \in Callers : ~Scanning(f[x], d)
  PROVE  BeganIn(f, d) = None
  BY DEF BeganIn

LEMMA BeganSame ==
  ASSUME NEW f, NEW g, NEW d,
         \A x \in Callers : /\ Scanning(f[x], d) <=> Scanning(g[x], d)
                            /\ Scanning(f[x], d) => f[x].born = g[x].born
  PROVE  BeganIn(f, d) = BeganIn(g, d)
  <1> DEFINE S == {x \in Callers : Scanning(f[x], d)}
             T == {x \in Callers : Scanning(g[x], d)}
  <1>1. S = T
    OBVIOUS
  <1>2. CASE S = {}
    BY <1>1, <1>2 DEF BeganIn
  <1>3. CASE S # {}
    <2> DEFINE y == CHOOSE x \in S : TRUE
    <2>1. y \in S /\ y = CHOOSE x \in T : TRUE
      BY <1>1, <1>3
    <2>2. f[y].born = g[y].born
      BY <2>1
    <2> HIDE DEF y
    <2> QED
      BY <1>1, <1>3, <2>1, <2>2 DEF BeganIn
  <1> QED
    BY <1>2, <1>3

\* No two callers scan the same day.
LEMMA OneScanner ==
  ASSUME CacheInv, NEW d \in Days, NEW c \in Callers, NEW x \in Callers,
         Leads(req[c]), DayOf(req[c].key) = d, Scanning(req[x], d)
  PROVE  x = c
  <1>1. calls[d] = c
    BY DEF CacheInv, Sound, SoundIn
  <1>2. Leads(req[x]) /\ DayOf(req[x].key) = d
    BY DEF Scanning, Leads, DayOf
  <1> QED
    BY <1>1, <1>2 DEF CacheInv, Sound, SoundIn

\* Where nobody begins or ends the scan of a day, ScanBegan stays.
LEMMA ScansKept ==
  ASSUME \A d \in Days : \A x \in Callers :
           /\ Scanning(req[x], d) <=> Scanning(req'[x], d)
           /\ Scanning(req[x], d) => req[x].born = req'[x].born
  PROVE  ScanBegan' = ScanBegan
  <1>1. \A d \in Days : BeganIn(req, d) = BeganIn(req', d)
    BY BeganSame
  <1> QED
    BY <1>1, MappingNow, MappingNext

LEMMA MemoKept ==
  ASSUME \A d \in Days : cache'[<<"day", d>>] = cache[<<"day", d>>]
  PROVE  MemoBorn' = MemoBorn
  BY MappingNow, MappingNext DEF BornIn

\* The steps of a caller that neither enters nor leaves a scan of a day.
LEMMA QuietRefines ==
  ASSUME CacheInv, NEW c \in Callers,
         \/ Disconnect(c) \/ Return(c) \/ \E k \in Keys : Arrive(c, k)
         \/ \E d \in Days : ArriveSearch(c, d)
         \/ Join(c) \/ Release(c) \/ EnsureStations(c)
         \/ \E s \in {"none", "cut", "whole"} : LoadStations(c, s)
  PROVE  UNCHANGED <<clock, ScanBegan, MemoBorn>>
  <1>1. req \in [Callers -> ReqType] /\ UNCHANGED <<clock, cache>>
    BY TypeParts DEF CacheInv, Disconnect, Return, Arrive, ArriveSearch, Join, Release,
       EnsureStations, LoadStations
  <1>2. \A x \in Callers : x # c => req'[x] = req[x]
    BY <1>1 DEF Disconnect, Return, Arrive, ArriveSearch, Join, Release,
       EnsureStations, LoadStations, Move, Answer
  <1>3. \/ req'[c].pc # "scanning" /\ req[c].pc # "scanning"
        \/ req'[c].pc = req[c].pc /\ req'[c].key = req[c].key /\ req'[c].born = req[c].born
    <2>0. req[c] \in ReqType
      BY <1>1
    <2>1. CASE Disconnect(c)
      <3>1. req'[c] = [req[c] EXCEPT !.live = FALSE]
        BY <1>1, <2>1 DEF Disconnect
      <3> QED
        BY <2>0, <3>1 DEF ReqType
    <2>2. CASE Return(c)
      BY <1>1, <2>2 DEF Return, Caller
    <2>3. CASE (\E k \in Keys : Arrive(c, k)) \/ \E d \in Days : ArriveSearch(c, d)
      BY <1>1, <2>3 DEF Arrive, ArriveSearch, Caller
    <2>4. CASE Release(c)
      BY <1>1, <2>4 DEF Release, Answer, Answered, Caller
    <2>5. CASE Join(c)
      <3>1. \/ req'[c] = [req[c] EXCEPT !.pc = "leading"]
            \/ req'[c] = [req[c] EXCEPT !.pc = "waiting", !.at = 0]
            \/ \E ok : req'[c] = Answered(req[c], ok)
        BY <1>1, <2>5 DEF Join, Move, Answer
      <3>2. req[c].pc = "asking"
        BY <2>5 DEF Join
      <3>3. CASE \E ok : req'[c] = Answered(req[c], ok)
        BY <3>2, <3>3 DEF Answered, Caller
      <3>4. CASE ~\E ok : req'[c] = Answered(req[c], ok)
        BY <2>0, <3>1, <3>2, <3>4 DEF ReqType
      <3> QED
        BY <3>3, <3>4
    <2>6. CASE EnsureStations(c)
      <3>1. req'[c] = [req[c] EXCEPT !.pc = "loading"] \/ req'[c] = [req[c] EXCEPT !.pc = "ready"]
        BY <1>1, <2>6 DEF EnsureStations, Move
      <3> QED
        BY <2>0, <2>6, <3>1 DEF EnsureStations, ReqType
    <2>7. CASE \E s \in {"none", "cut", "whole"} : LoadStations(c, s)
      <3>1. req'[c] = [req[c] EXCEPT !.pc = "ready"]
        BY <1>1, <2>7 DEF LoadStations, Move
      <3> QED
        BY <2>0, <2>7, <3>1 DEF LoadStations, ReqType
    <2> QED
      BY <2>1, <2>2, <2>3, <2>4, <2>5, <2>6, <2>7
  <1>4. ScanBegan' = ScanBegan
    BY <1>2, <1>3, ScansKept DEF Scanning
  <1> QED
    BY <1>1, <1>4, MemoKept

LEMMA CloseRefines ==
  ASSUME CacheInv, NEW c \in Callers, Close(c)
  PROVE  UNCHANGED <<clock, ScanBegan, MemoBorn>>
  <1>1. req \in [Callers -> ReqType]
    BY TypeParts DEF CacheInv
  <1>2. \A x \in Callers : req'[x] = req[x] \/ (req[x].pc # "scanning" /\ req'[x].pc # "scanning")
    <2> TAKE x \in Callers
    <2>1. req[x] \in ReqType /\ req[c].pc = "closing"
      BY <1>1 DEF Close
    <2> QED
      BY <2>1 DEF Close, Answered, Caller, ReqType
  <1>3. ScanBegan' = ScanBegan
    BY <1>2, ScansKept DEF Scanning
  <1> QED
    BY <1>3, MemoKept DEF Close

\* A lookup drops a day from memory, or leaves it.
LEMMA LookRefines ==
  ASSUME CacheInv, NEW c \in Callers, LookUp(c) \/ Search(c)
  PROVE  [Memo!Next]_Memo!vars
  <1>1. req \in [Callers -> ReqType] /\ cache \in [Keys -> {None} \cup Entries] /\ clock \in Nat
    BY TypeParts DEF CacheInv
  <1>2. ScanBegan' = ScanBegan
    <2>1. PICK r : /\ req' = [req EXCEPT ![c] = r]
                   /\ r.pc # "scanning" /\ req[c].pc # "scanning"
      <3>1. req[c] \in ReqType /\ req[c].pc \in {"arrived", "ready"}
        BY <1>1 DEF LookUp, Search
      <3>2. \/ \E ok : req' = [req EXCEPT ![c] = Answered(req[c], ok)]
            \/ req' = [req EXCEPT ![c] = [req[c] EXCEPT !.pc = "asking"]]
            \/ req' = [req EXCEPT ![c] = [req[c] EXCEPT !.pc = "leading"]]
        BY DEF LookUp, Search, Move, Answer
      <3> QED
        BY <3>1, <3>2 DEF Answered, Caller, ReqType
    <2>2. req'[c] = r /\ \A x \in Callers : x # c => req'[x] = req[x]
      BY <1>1, <2>1
    <2> QED
      BY <2>1, <2>2, ScansKept DEF Scanning
  <1>3. PICK k \in Keys, at \in Nat : cache' = cache \/ cache' = AfterGet(k, at)
    <2>1. req[c].key \in Keys /\ req[c].at \in Nat
      BY <1>1 DEF CacheInv, Sound, SoundIn, ReqType, LookUp, Search
    <2> QED
      BY <1>1, <2>1 DEF LookUp, Search
  <1>4. clock' = clock
    BY DEF LookUp, Search
  <1>5. CASE cache' = cache
    BY <1>2, <1>4, <1>5, MemoKept DEF Memo!vars
  <1>6. CASE cache' = [cache EXCEPT ![k] = None]
    <2>1. CASE k[1] = "day"
      <3> DEFINE d == DayOf(k)
      <3>1. k = <<"day", d>> /\ d \in Days
        BY <2>1, KeyParts
      <3>2. \A x \in Days : cache'[<<"day", x>>] = IF x = d THEN None ELSE cache[<<"day", x>>]
        BY <1>1, <1>6, <3>1 DEF Keys
      <3>3. MemoBorn' = [MemoBorn EXCEPT ![d] = None]
        BY <3>1, <3>2, MappingNow, MappingNext DEF BornIn
      <3>4. Memo!Drop(d)
        BY <1>2, <1>4, <3>3 DEF Memo!Drop
      <3> QED
        BY <3>1, <3>4 DEF Memo!Next
    <2>2. CASE k[1] # "day"
      <3>1. \A x \in Days : cache'[<<"day", x>>] = cache[<<"day", x>>]
        BY <1>1, <1>6, <2>2 DEF Keys
      <3> QED
        BY <1>2, <1>4, <3>1, MemoKept DEF Memo!vars
    <2> QED
      BY <2>1, <2>2
  <1> QED
    BY <1>3, <1>5, <1>6 DEF AfterGet

LEMMA BeginRefines ==
  ASSUME CacheInv, NEW c \in Callers, BeginScan(c)
  PROVE  [Memo!Next]_Memo!vars
  <1> DEFINE d == DayOf(req[c].key)
             r == [req[c] EXCEPT !.pc = "scanning", !.born = clock]
  <1>1. /\ req \in [Callers -> ReqType] /\ req[c].pc = "leading" /\ clock \in Nat
        /\ req[c].key \in Keys
    BY TypeParts DEF CacheInv, BeginScan, Sound, SoundIn
  <1>2. req' = [req EXCEPT ![c] = r] /\ UNCHANGED <<clock, cache>>
    BY DEF BeginScan
  <1>3. r.pc = "scanning" /\ r.born = clock /\ r.key = req[c].key
    BY <1>1 DEF ReqType
  <1> HIDE DEF r
  <1>4. req'[c] = r /\ \A x \in Callers : x # c => req'[x] = req[x]
    BY <1>1, <1>2
  <1>5. MemoBorn' = MemoBorn
    BY <1>2, MemoKept
  <1>6. CASE req[c].key[1] # "day"
    <2>1. \A x \in Days : ~Scanning(req[c], x) /\ ~Scanning(r, x)
      BY <1>3, <1>6 DEF Scanning
    <2> QED
      BY <1>2, <1>4, <1>5, <2>1, ScansKept DEF Memo!vars
  <1>7. CASE req[c].key[1] = "day"
    <2>1. req[c].key = <<"day", d>> /\ d \in Days
      BY <1>1, <1>7, KeyParts
    <2> HIDE DEF d
    <2>2. Leads(req[c]) /\ DayOf(req[c].key) = d
      BY <1>1, <1>7 DEF Leads, d
    <2>3. \A x \in Callers : ~Scanning(req[x], d)
      BY <1>1, <2>1, <2>2, OneScanner DEF Scanning
    <2>4. BeganIn(req, d) = None
      BY <2>3, BeganNone
    <2>5. BeganIn(req', d) = clock
      <3>1. Scanning(req'[c], d) /\ \A x \in Callers : Scanning(req'[x], d) => x = c
        BY <1>3, <1>4, <2>1, <2>3 DEF Scanning
      <3> QED
        BY <1>3, <1>4, <3>1, BeganOne
    <2>6. \A e \in Days : e # d => BeganIn(req', e) = BeganIn(req, e)
      <3> TAKE e \in Days
      <3> HAVE e # d
      <3>1. ~Scanning(req[c], e) /\ ~Scanning(req'[c], e)
        BY <1>3, <1>4, <2>1 DEF Scanning
      <3> QED
        BY <1>4, <3>1, BeganSame
    <2>7. ScanBegan' = [ScanBegan EXCEPT ![d] = clock] /\ ScanBegan[d] = None
      BY <2>1, <2>4, <2>5, <2>6, MappingNow, MappingNext
    <2>8. Memo!Begin(d)
      BY <1>2, <1>5, <2>7 DEF Memo!Begin
    <2> QED
      BY <2>1, <2>8 DEF Memo!Next
  <1> QED
    BY <1>6, <1>7

\* The caller c leaves its scan of a day.
LEMMA ScanLeft ==
  ASSUME CacheInv, NEW c \in Callers, NEW d \in Days, Scanning(req[c], d),
         req'[c].pc # "scanning", \A x \in Callers : x # c => req'[x] = req[x]
  PROVE  /\ ScanBegan[d] = req[c].born
         /\ ScanBegan' = [ScanBegan EXCEPT ![d] = None]
  <1>3. \A x \in Callers : Scanning(req[x], d) => x = c
    BY OneScanner DEF Scanning, Leads, DayOf
  <1>4. BeganIn(req, d) = req[c].born
    BY <1>3, BeganOne
  <1>5. BeganIn(req', d) = None
    BY <1>3, BeganNone DEF Scanning
  <1>6. \A e \in Days : e # d => BeganIn(req', e) = BeganIn(req, e)
    <2> TAKE e \in Days
    <2> HAVE e # d
    <2>1. ~Scanning(req[c], e) /\ ~Scanning(req'[c], e)
      BY DEF Scanning
    <2>2. \A x \in Callers : /\ Scanning(req'[x], e) <=> Scanning(req[x], e)
                             /\ Scanning(req'[x], e) => req'[x].born = req[x].born
      <3> TAKE x \in Callers
      <3>1. CASE x = c
        BY <2>1, <3>1
      <3>2. CASE x # c
        <4>1. req'[x] = req[x]
          BY <3>2
        <4> QED
          BY <4>1
      <3> QED
        BY <3>1, <3>2
    <2> QED
      BY <2>2, BeganSame
  <1> QED
    BY <1>4, <1>5, <1>6, MappingNow, MappingNext

LEMMA FailRefines ==
  ASSUME CacheInv, NEW c \in Callers, FailScan(c)
  PROVE  [Memo!Next]_Memo!vars
  <1> DEFINE d == DayOf(req[c].key)
  <1>1. /\ req \in [Callers -> ReqType] /\ req[c].pc \in {"leading", "scanning"}
        /\ req[c].key \in Keys /\ UNCHANGED <<clock, cache>>
    BY TypeParts DEF CacheInv, FailScan, Sound, SoundIn
  <1>2. req'[c].pc # "scanning" /\ \A x \in Callers : x # c => req'[x] = req[x]
    BY <1>1 DEF FailScan, Answer, Answered, Computed, Caller
  <1>3. MemoBorn' = MemoBorn
    BY <1>1, MemoKept
  <1>5. CASE Scanning(req[c], d)
    <2>1. d \in Days
      BY <1>1, KeyParts
    <2>2. ScanBegan[d] = req[c].born /\ ScanBegan' = [ScanBegan EXCEPT ![d] = None]
      BY <1>2, <1>5, <2>1, ScanLeft
    <2>3. req[c].born # None
      BY <1>1, Constants DEF ReqType
    <2>4. Memo!GiveUp(d)
      BY <1>1, <1>3, <2>2, <2>3 DEF Memo!GiveUp
    <2> QED
      BY <2>1, <2>4 DEF Memo!Next
  <1>6. CASE ~Scanning(req[c], d)
    <2>1. \A x \in Days : ~Scanning(req[c], x) /\ ~Scanning(req'[c], x)
      BY <1>2, <1>6 DEF Scanning, DayOf
    <2> QED
      BY <1>1, <1>2, <1>3, <2>1, ScansKept DEF Memo!vars
  <1> QED
    BY <1>5, <1>6

LEMMA EndRefines ==
  ASSUME CacheInv, NEW c \in Callers, NEW whole \in BOOLEAN, EndScan(c, whole)
  PROVE  [Memo!Next]_Memo!vars
  <1> DEFINE k == req[c].key
             d == DayOf(k)
             e == Entry(whole, req[c].born, req[c].at)
  <1>1. /\ req \in [Callers -> ReqType] /\ req[c].pc = "scanning" /\ clock' = clock
        /\ k \in Keys /\ cache \in [Keys -> {None} \cup Entries]
        /\ cache' = [cache EXCEPT ![k] = e]
    BY TypeParts DEF CacheInv, EndScan, Sound, SoundIn
  <1>2. req'[c].pc # "scanning" /\ \A x \in Callers : x # c => req'[x] = req[x]
    BY <1>1 DEF EndScan, Answer, Answered, Computed, Caller
  <1>3. e.born = req[c].born /\ req[c].born \in Nat /\ req[c].born # None /\ e # None
    <2>1. req[c].born \in Nat /\ req[c].at \in Nat
      BY <1>1 DEF ReqType
    <2>2. e \in Entries
      BY <2>1, Constants DEF Entry, Entries
    <2> QED
      BY <2>1, <2>2, Constants DEF Entry
  <1> HIDE DEF e
  <1>4. CASE k[1] = "day"
    <2>1. k = <<"day", d>> /\ d \in Days
      BY <1>1, <1>4, KeyParts
    <2>2. Scanning(req[c], d)
      BY <1>1, <2>1 DEF Scanning
    <2>3. ScanBegan[d] = req[c].born /\ ScanBegan' = [ScanBegan EXCEPT ![d] = None]
      BY <1>2, <2>1, <2>2, ScanLeft
    <2>4. \A x \in Days : cache'[<<"day", x>>] = IF x = d THEN e ELSE cache[<<"day", x>>]
      BY <1>1, <2>1 DEF Keys
    <2>5. MemoBorn' = [MemoBorn EXCEPT ![d] = req[c].born]
      BY <1>3, <2>1, <2>4, MappingNow, MappingNext DEF BornIn
    <2>6. Memo!Finish(d)
      BY <1>1, <1>3, <2>3, <2>5 DEF Memo!Finish
    <2> QED
      BY <2>1, <2>6 DEF Memo!Next
  <1>5. CASE k[1] # "day"
    <2>1. \A x \in Days : ~Scanning(req[c], x) /\ ~Scanning(req'[c], x)
      BY <1>2, <1>5 DEF Scanning
    <2>3. \A x \in Days : cache'[<<"day", x>>] = cache[<<"day", x>>]
      BY <1>1, <1>5 DEF Keys
    <2> QED
      BY <1>1, <1>2, <2>1, <2>3, ScansKept, MemoKept DEF Memo!vars
  <1> QED
    BY <1>4, <1>5

\* However requests come, leave and fail, the day statistics behave as DayMemo
\* says: one scan of a day at a time, and in memory the result of the last one.
THEOREM CacheImplementsMemo == Spec => ImplementsMemo
  <1>1. Init => Memo!Init
    <2> SUFFICES ASSUME Init PROVE Memo!Init
      OBVIOUS
    <2>1. \A d \in Days : \A c \in Callers : ~Scanning(req[c], d)
      BY DEF Init, Scanning, Caller
    <2>2. \A d \in Days : BeganIn(req, d) = None /\ BornIn(cache, d) = None
      BY <2>1, BeganNone DEF Init, BornIn, Keys
    <2> QED
      BY <2>2, MappingNow DEF Init, Memo!Init
  <1>2. CacheInv /\ [Next]_vars => [Memo!Next]_Memo!vars
    <2> SUFFICES ASSUME CacheInv, [Next]_vars PROVE [Memo!Next]_Memo!vars
      OBVIOUS
    <2>1. CASE UNCHANGED vars
      BY <2>1, ScansKept, MemoKept DEF vars, Memo!vars
    <2>2. CASE Tick
      BY <2>2, ScansKept, MemoKept DEF Tick, Memo!Next, Memo!Tick
    <2>3. CASE \E c \in Callers : \/ Disconnect(c) \/ Return(c)
                                  \/ \E k \in Keys : Arrive(c, k)
                                  \/ \E d \in Days : ArriveSearch(c, d)
      BY <2>3, QuietRefines DEF Memo!vars
    <2>4. ASSUME NEW c \in Callers, Proceed(c) PROVE [Memo!Next]_Memo!vars
      <3>1. CASE \/ Join(c) \/ Release(c) \/ EnsureStations(c)
                 \/ \E s \in {"none", "cut", "whole"} : LoadStations(c, s)
        BY <3>1, QuietRefines DEF Memo!vars
      <3>2. CASE Close(c)
        BY <3>2, CloseRefines DEF Memo!vars
      <3> QED
        BY <2>4, <3>1, <3>2, LookRefines, BeginRefines, FailRefines, EndRefines DEF Proceed
    <2> QED
      BY <2>1, <2>2, <2>3, <2>4 DEF Next
  <1> QED
    BY <1>1, <1>2, CacheInvariant, PTL DEF Spec, ImplementsMemo, Memo!Spec
==============================================================================
