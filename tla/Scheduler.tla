------------------------------ MODULE Scheduler ------------------------------
(***************************************************************************)
(* cmd/scheduler: a one-minute ticker drives a loop that enqueues one       *)
(* board:fetch task per station and cadence cycle.  The loop remembers only *)
(* lastSlot, the minute of the last tick modulo the cadence, and derives    *)
(* from it which slots a late tick has to catch up.  A tick may take longer *)
(* than a minute (slow Redis), the ticker drops what does not fit into its  *)
(* channel, any query or enqueue may fail, and the process may be           *)
(* restarted.  Once a month, in one given minute, the export is enqueued.   *)
(***************************************************************************)
EXTENDS Integers, Sequences, FiniteSets

CONSTANTS
  Stations,
  Offset,         \* [Stations -> Nat]: stations.fetch_offset
  Cadence,        \* CADENCE_MINUTES
  ExportMinutes,  \* the minutes 04:00 UTC on the 4th of some month
  MaxGap,         \* bound: the clock is never further ahead of the last tick
  MaxMinute,      \* bound on the clock
  MaxFailures,    \* bound: failed queries and enqueues
  MaxRestarts     \* bound: restarts of the process

ASSUME SchedulerAssumption ==
  /\ IsFiniteSet(Stations) /\ Offset \in [Stations -> Nat]
  /\ Cadence \in Nat \ {0}
  /\ ExportMinutes \subseteq Nat
  /\ MaxGap \in Nat /\ MaxMinute \in Nat /\ MaxFailures \in Nat /\ MaxRestarts \in Nat

VARIABLES
  minute,    \* wall clock, Unix time / 60
  due,       \* the ticker has yet to fire in this minute
  fired,     \* a tick waits in the ticker's channel (capacity 1)
  pc,        \* the loop: in a "tick", or at the select ("wait")
  first,     \* this is the tick before the loop
  reading,   \* the minute the tick read from the clock
  lastSlot,  \* the loop's memory
  todo,      \* slots of this tick not yet run
  noIris,    \* database: stations the worker has marked no_iris
  enqueued,  \* history: <<station, minute>> of the tasks handed to asynq
  lost,      \* history: <<station, minute>> of the tasks that were not
  exports,   \* history: months (by their minute) whose export is enqueued
  start,     \* history: minute of the last start
  ran,       \* history: the minutes whose slots were run since, in order
  late,      \* history: since the start a tick was late or outlasted its minute
  failures,
  restarts

vars == <<minute, due, fired, pc, first, reading, lastSlot, todo, noIris, enqueued,
          lost, exports, start, ran, late, failures, restarts>>

clock == <<minute, due>>
history == <<enqueued, lost, exports, start, ran, late>>

SlotOf(m) == m % Cadence

\* Mutant: the distance is taken without the wrap into the next cycle.
MissedMutant(cur) == SlotOf(cur) - lastSlot
\* How many slots lie between the last tick and the slot of minute cur.
Missed(cur) == (SlotOf(cur) - lastSlot + Cadence) % Cadence

\* Mutant: the slot of the tick itself is taken before the missed ones.
SlotsMutant(cur) ==
  [i \in 1..Missed(cur) |-> (SlotOf(cur) - (i - 1) + Cadence) % Cadence]
\* Mutant: a late tick runs its own slot only.
SlotsOnlyCurrent(cur) == <<SlotOf(cur)>>
\* Mutant: the missed slots begin with the one lastSlot itself stands for.
SlotsFromLast(cur) ==
  [i \in 1..Missed(cur) |-> (SlotOf(cur) - (Missed(cur) - i) - 1 + Cadence) % Cadence]
\* The slots after lastSlot up to that of cur, in order.
SlotsToRun(cur) ==
  [i \in 1..Missed(cur) |-> (SlotOf(cur) - (Missed(cur) - i) + Cadence) % Cadence]

\* The minute the next slot of this tick stands for.
SlotMinute == reading - (Len(todo) - 1)

DueStations(slot) == {s \in Stations : Offset[s] = slot /\ s \notin noIris}

TypeOK ==
  /\ minute \in Nat /\ reading \in 0..minute /\ start \in 0..minute
  /\ due \in BOOLEAN /\ fired \in BOOLEAN /\ first \in BOOLEAN /\ late \in BOOLEAN
  /\ pc \in {"tick", "wait"}
  /\ lastSlot \in 0..(Cadence - 1)
  /\ todo \in Seq(0..(Cadence - 1)) /\ (pc = "wait" => todo = <<>>)
  /\ noIris \subseteq Stations
  /\ enqueued \subseteq Stations \X (0..minute) /\ lost \subseteq Stations \X (0..minute)
  /\ exports \subseteq ExportMinutes
  /\ ran \in Seq(0..minute)
  /\ failures \in 0..MaxFailures /\ restarts \in 0..MaxRestarts

\* A process started in minute m runs m's slot before it enters the loop.
Started(m) ==
  /\ pc' = "tick" /\ first' = TRUE
  /\ reading' = m /\ lastSlot' = SlotOf(m) /\ todo' = <<SlotOf(m)>>
  /\ fired' = FALSE
  /\ start' = m /\ ran' = <<>> /\ late' = FALSE

Init ==
  /\ minute \in 0..(Cadence - 1)
  /\ due = FALSE /\ fired = FALSE
  /\ pc = "tick" /\ first = TRUE
  /\ reading = minute /\ lastSlot = SlotOf(minute) /\ todo = <<SlotOf(minute)>>
  /\ noIris = {} /\ enqueued = {} /\ lost = {} /\ exports = {}
  /\ start = minute /\ ran = <<>> /\ late = FALSE
  /\ failures = 0 /\ restarts = 0

------------------------------------------------------------------------------
MinutePasses ==
  /\ minute < MaxMinute /\ minute - reading < MaxGap /\ ~due
  /\ minute' = minute + 1
  /\ due' = TRUE
  /\ UNCHANGED <<fired, pc, first, reading, lastSlot, todo, noIris, history,
                 failures, restarts>>

\* The ticker fires once in every minute; a full channel drops the tick.
TickerFires ==
  /\ due
  /\ due' = FALSE /\ fired' = TRUE
  /\ UNCHANGED <<minute, pc, first, reading, lastSlot, todo, noIris, history,
                 failures, restarts>>

\* The worker marks a station no_iris.
StationMarked ==
  /\ \E s \in Stations \ noIris : noIris' = noIris \cup {s}
  /\ UNCHANGED <<clock, fired, pc, first, reading, lastSlot, todo, history,
                 failures, restarts>>

\* The loop takes a tick: nothing to do in a slot already run, otherwise all
\* slots since the last one.
TakeTick ==
  /\ pc = "wait" /\ fired
  /\ fired' = FALSE
  /\ reading' = minute
  /\ IF Missed(minute) = 0
     THEN UNCHANGED <<pc, first, todo, late>>
     ELSE /\ pc' = "tick" /\ first' = FALSE
          /\ todo' = SlotsToRun(minute)
          /\ late' = (late \/ Missed(minute) > 1)
  /\ UNCHANGED <<clock, lastSlot, noIris, enqueued, lost, exports, start, ran,
                 failures, restarts>>

\* runTick: the slot's stations are queried and enqueued one by one; those in
\* `down` fail, all of them when the query does.
RunSlot ==
  /\ pc = "tick" /\ todo # <<>>
  /\ \E down \in SUBSET DueStations(Head(todo)) :
       /\ failures + Cardinality(down) <= MaxFailures
       /\ failures' = failures + Cardinality(down)
       /\ enqueued' = enqueued \cup ((DueStations(Head(todo)) \ down) \X {SlotMinute})
       /\ lost' = lost \cup (down \X {SlotMinute})
  /\ ran' = Append(ran, SlotMinute)
  /\ todo' = Tail(todo)
  /\ UNCHANGED <<clock, fired, pc, first, reading, lastSlot, noIris, exports,
                 start, late, restarts>>

\* Mutant: the minute itself is kept instead of its slot.
NextLastSlotUnreduced == reading
\* lastSlot = cur, the reading the slots were computed from.
NextLastSlot == SlotOf(reading)

\* Mutant: the export is looked for one minute late.
ExportDueMutant == minute - 1 \in ExportMinutes
\* The clock is read anew for the monthly export.
ExportDue == minute \in ExportMinutes

\* The tick is over; after all but the first the export minute is checked.
\* The enqueue is idempotent (TaskID) and may fail.
EndTick ==
  /\ pc = "tick" /\ todo = <<>>
  /\ pc' = "wait" /\ first' = FALSE
  /\ lastSlot' = NextLastSlot
  /\ late' = (late \/ minute # reading)
  /\ IF ~first /\ ExportDue
     THEN \/ exports' = exports \cup {minute} /\ UNCHANGED failures
          \/ failures < MaxFailures /\ failures' = failures + 1 /\ UNCHANGED exports
     ELSE UNCHANGED <<exports, failures>>
  /\ UNCHANGED <<clock, fired, reading, todo, noIris, enqueued, lost, start, ran,
                 restarts>>

Restart ==
  /\ restarts < MaxRestarts /\ restarts' = restarts + 1
  /\ Started(minute)
  /\ due' = FALSE
  /\ UNCHANGED <<minute, noIris, enqueued, lost, exports, failures>>

Loop == TakeTick \/ RunSlot \/ EndTick

Next == MinutePasses \/ TickerFires \/ StationMarked \/ Loop \/ Restart

\* The ticker and the loop keep running; nothing forces a failure, a restart
\* or the marking of a station.
Fairness == WF_vars(TickerFires) /\ WF_vars(Loop)

Spec == Init /\ [][Next]_vars /\ Fairness

------------------------------------------------------------------------------
(* Properties *)

\* The catch-up of main's loop: since the start, the slot of every minute has
\* been run exactly once and in order, none twice and none skipped, up to the
\* one the loop is at -- provided no tick is a whole cadence late.
CatchesUp ==
  /\ \A i \in 1..Len(ran) : ran[i] = start + i - 1
  /\ Len(ran) + Len(todo) = reading - start + 1

\* The same without the proviso, as the comments promise it: lastSlot lets a
\* stalled process catch up "instead of losing coverage permanently", "a real
\* stall catches up everything missed".
StallsCatchUp == pc = "wait" => Len(ran) = reading - start + 1

\* The slot of every minute is eventually run, however late its tick -- while
\* no tick is a whole cadence late (the run's MaxGap is below its Cadence: what
\* becomes of a longer stall is StallsCatchUp's question).
EveryMinuteRuns ==
  \A m \in 0..MaxMinute :
    minute = m ~> (start > m \/ \E i \in 1..Len(ran) : ran[i] = m)

\* A task belongs to a minute of its station's slot: no station is enqueued
\* out of turn or, within one cycle, for two different minutes.
OnlyInTurn == \A e \in enqueued \cup lost : SlotOf(e[2]) = Offset[e[1]]

\* No station misses a turn: in every minute since the start that the loop is
\* past, each station of that minute's slot had its task enqueued, unless that
\* very enqueue failed or the station is marked -- again provided no tick is a
\* whole cadence late.
EveryTurnTaken ==
  \A m \in start..(reading - Len(todo)) :
    DueStations(SlotOf(m)) \X {m} \subseteq enqueued \cup lost

\* The loop, with its memory of one slot, late ticks, dropped ticks and second
\* looks at the clock, is a rota that serves every minute once and in order --
\* provided no tick is a whole cadence late.
Turns == INSTANCE Rota WITH clock <- minute, next <- reading - Len(todo) + 1
ImplementsRota == Turns!Spec

\* While every tick keeps to its minute, the month's export is enqueued (or
\* its enqueue has failed) once its minute is over; a single late tick, or a
\* start within that minute, is enough to miss it.
ExportOnTime ==
  pc = "wait" /\ ~late /\ failures = 0 =>
    \A m \in ExportMinutes : start < m /\ m < reading => m \in exports
==============================================================================
