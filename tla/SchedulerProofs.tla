--------------------------- MODULE SchedulerProofs ---------------------------
(***************************************************************************)
(* Proofs about the tick loop of Scheduler, for every cadence, every set of *)
(* stations and every way of stalling, failing and restarting.              *)
(*                                                                         *)
(* The loop computes with slots, minutes modulo the cadence; the invariant  *)
(* ties every slot it holds to the minute it stands for.                    *)
(***************************************************************************)
EXTENDS Scheduler, FiniteSetTheorems, SequenceTheorems, TLAPS

------------------------------------------------------------------------------
(* Arithmetic of slots *)

\* A product with a positive factor is monotone.
LEMMA Monotone ==
  ASSUME NEW c \in Nat \ {0}, NEW p \in Int, NEW q \in Int, p + 1 <= q
  PROVE  c * p + c <= c * q
  <1>1. PICK d \in Nat : q = p + 1 + d
    BY p + 1 <= q, (q - p - 1) \in Nat
  <1>2. c * q = c * p + c + c * d
    BY <1>1
  <1>3. c * d \in Nat /\ c * p \in Int /\ c * q \in Int
    BY SMT
  <1>. QED
    BY <1>2, <1>3

\* The remainder and the quotient belong together.
LEMMA Division ==
  ASSUME NEW c \in Nat \ {0}, NEW a \in Int
  PROVE  /\ a % c \in 0..(c - 1)
         /\ a \div c \in Int
         /\ a = c * (a \div c) + (a % c)
  BY SMT

\* ... and are the only ones that do.
LEMMA Remainder ==
  ASSUME NEW c \in Nat \ {0}, NEW q \in Int, NEW r \in 0..(c - 1), NEW a \in Int,
         a = c * q + r
  PROVE  a % c = r
  <1>. DEFINE p == a \div c
              s == a % c
  <1>1. p \in Int /\ s \in 0..(c - 1) /\ a = c * p + s
    BY Division
  <1>. HIDE DEF p, s
  <1>2. c * p \in Int /\ c * q \in Int
    BY <1>1
  <1>3. ~(p + 1 <= q) /\ ~(q + 1 <= p)
    BY <1>1, <1>2, Monotone
  <1>4. p = q
    BY <1>1, <1>3
  <1>5. s = r
    BY <1>1, <1>2, <1>4
  <1>. QED
    BY <1>5 DEF s

\* Every minute is some number of whole cycles and its slot, in one way.
LEMMA SlotOfMinute ==
  ASSUME NEW m \in Int
  PROVE  /\ SlotOf(m) \in 0..(Cadence - 1)
         /\ \E q \in Int : m = Cadence * q + SlotOf(m)
  BY Division, SchedulerAssumption DEF SlotOf

LEMMA SlotUnique ==
  ASSUME NEW q \in Int, NEW r \in 0..(Cadence - 1), NEW m \in Int, m = Cadence * q + r
  PROVE  SlotOf(m) = r
  BY Remainder, SchedulerAssumption DEF SlotOf

\* The same, with the cycles as one number.
LEMMA Cycles ==
  ASSUME NEW m \in Int
  PROVE  \E q \in Int, x \in Int : x = Cadence * q /\ m = x + SlotOf(m)
  <1>1. PICK q \in Int : m = Cadence * q + SlotOf(m)
    BY SlotOfMinute
  <1>2. Cadence * q \in Int
    BY SchedulerAssumption
  <1>. QED
    BY <1>1, <1>2

\* Minutes whole cycles apart share their slot.
LEMMA SameSlot ==
  ASSUME NEW p \in Int, NEW m \in Int, NEW n \in Int, m = n + Cadence * p
  PROVE  SlotOf(m) = SlotOf(n)
  <1>1. PICK q \in Int, x \in Int : x = Cadence * q /\ n = x + SlotOf(n)
    BY Cycles
  <1>2. PICK e \in Int : e = p + q
    OBVIOUS
  <1>3. Cadence * e = Cadence * p + Cadence * q
    BY <1>2, SchedulerAssumption
  <1>4. SlotOf(n) \in 0..(Cadence - 1) /\ Cadence \in Nat
    BY SlotOfMinute, SchedulerAssumption
  <1>5. Cadence * p \in Int /\ Cadence * e \in Int
    BY <1>4
  <1>6. m = Cadence * e + SlotOf(n)
    BY <1>1, <1>3, <1>4, <1>5
  <1>. QED
    BY <1>4, <1>6, SlotUnique

\* Going back k minutes goes back k slots around the cycle.
LEMMA SlotShift ==
  ASSUME NEW a \in Int, NEW k \in Int
  PROVE  (SlotOf(a) - k + Cadence) % Cadence = SlotOf(a - k)
  <1>1. PICK p \in Int, x \in Int : x = Cadence * p /\ a = x + SlotOf(a)
    BY Cycles
  <1>2. SlotOf(a) \in Int /\ Cadence \in Nat
    BY SlotOfMinute, SchedulerAssumption
  <1>3. PICK n \in Int : n = SlotOf(a) - k + Cadence
    BY <1>2
  <1>4. PICK b \in Int : b = a - k
    OBVIOUS
  <1>5. PICK e \in Int : e = p - 1
    OBVIOUS
  <1>6. Cadence * e = x - Cadence
    BY <1>1, <1>2, <1>5
  <1>7. b = n + Cadence * e
    <2>1. b = n + (x - Cadence)
      BY <1>1, <1>2, <1>3, <1>4
    <2>. QED
      BY <1>6, <2>1
  <1>8. SlotOf(b) = SlotOf(n)
    BY <1>7, SameSlot
  <1>. QED
    BY <1>3, <1>4, <1>8 DEF SlotOf

\* What a tick computes from lastSlot: the minutes since the last reading,
\* modulo the cadence.
LEMMA MissedMinutes ==
  ASSUME lastSlot = SlotOf(reading), reading \in Nat, NEW m \in Nat, reading <= m
  PROVE  /\ Missed(m) \in 0..(m - reading)
         /\ m - reading < Cadence => Missed(m) = m - reading
  <1>0. reading \in Int /\ Cadence \in Nat \ {0}
    BY SchedulerAssumption
  <1>1. PICK d \in Nat : d = m - reading
    BY reading <= m
  <1>2. PICK p \in Int, x \in Int : x = Cadence * p /\ reading = x + SlotOf(reading)
    BY <1>0, Cycles
  <1>3. PICK q \in Int, y \in Int : y = Cadence * q /\ d = y + SlotOf(d)
    BY Cycles
  <1>4. SlotOf(reading) \in Int
    BY <1>0, SlotOfMinute
  <1>5. SlotOf(d) \in 0..(Cadence - 1)
    BY SlotOfMinute
  <1>6. PICK n \in Int : n = m - SlotOf(reading)
    BY <1>4
  <1>7. n = d + Cadence * p
    BY <1>0, <1>1, <1>2, <1>4, <1>6
  <1>8. SlotOf(n) = SlotOf(d)
    BY <1>7, SameSlot
  <1>9. Missed(m) = SlotOf(n)
    <2>1. m \in Int
      OBVIOUS
    <2>2. (SlotOf(m) - SlotOf(reading) + Cadence) % Cadence = SlotOf(m - SlotOf(reading))
      BY <1>4, <2>1, SlotShift
    <2>. QED
      BY <1>6, <2>2 DEF Missed
  <1>10. y >= 0
    <2>1. ~(q + 1 <= 0)
      <3>. SUFFICES ASSUME q + 1 <= 0 PROVE FALSE
        OBVIOUS
      <3>1. Cadence * q + Cadence <= Cadence * 0
        BY <1>0, Monotone
      <3>2. Cadence * 0 = 0
        BY <1>0
      <3>. QED
        BY <1>0, <1>3, <1>5, <3>1, <3>2
    <2>2. q \in Nat
      BY <2>1
    <2>. QED
      BY <1>0, <1>3, <2>2
  <1>11. d < Cadence => y <= 0
    <2>. SUFFICES ASSUME d < Cadence, ~(y <= 0) PROVE FALSE
      BY <1>3
    <2>1. Cadence * 0 = 0
      BY <1>0
    <2>2. 0 + 1 <= q
      <3>. SUFFICES ASSUME q <= 0 PROVE FALSE
        BY <1>3
      <3>1. q = 0 \/ q + 1 <= 0
        BY <1>3
      <3>2. CASE q = 0
        BY <1>3, <2>1, <3>2
      <3>3. CASE q + 1 <= 0
        <4>1. Cadence * q + Cadence <= Cadence * 0
          BY <1>0, <3>3, Monotone
        <4>. QED
          BY <1>0, <1>3, <2>1, <4>1
      <3>. QED
        BY <3>1, <3>2, <3>3
    <2>3. Cadence * 0 + Cadence <= Cadence * q
      BY <1>0, <2>2, Monotone
    <2>. QED
      BY <1>0, <1>3, <1>5, <2>1, <2>3
  <1>. QED
    BY <1>0, <1>1, <1>3, <1>5, <1>8, <1>9, <1>10, <1>11

------------------------------------------------------------------------------
(* The invariant of the loop *)

\* What waits to be run are the slots of the minutes that end with the tick's
\* reading, and what an idle loop remembers is the slot of its last reading.
SlotsOfMinutes ==
  /\ Len(todo) <= reading + 1
  /\ \A i \in 1..Len(todo) : todo[i] = SlotOf(reading - Len(todo) + i)
  /\ pc = "wait" => lastSlot = SlotOf(reading)

IInv == TypeOK /\ SlotsOfMinutes /\ OnlyInTurn

LEMMA IInvInit == Init => IInv
  <1>. SUFFICES ASSUME Init PROVE IInv
    OBVIOUS
  <1>1. minute \in Nat /\ SlotOf(minute) \in 0..(Cadence - 1)
    BY SchedulerAssumption, SlotOfMinute DEF Init
  <1>2. TypeOK
    <2>1. todo \in Seq(0..(Cadence - 1)) /\ ran \in Seq(0..minute)
      BY <1>1 DEF Init
    <2>2. late \in BOOLEAN /\ due \in BOOLEAN /\ fired \in BOOLEAN /\ first \in BOOLEAN
      BY DEF Init
    <2>3. /\ pc \in {"tick", "wait"} /\ (pc = "wait" => todo = <<>>)
          /\ reading \in 0..minute /\ start \in 0..minute /\ lastSlot \in 0..(Cadence - 1)
      BY <1>1 DEF Init
    <2>4. failures \in 0..MaxFailures /\ restarts \in 0..MaxRestarts
      BY SchedulerAssumption DEF Init
    <2>5. /\ noIris \subseteq Stations /\ exports \subseteq ExportMinutes
          /\ enqueued \subseteq Stations \X (0..minute) /\ lost \subseteq Stations \X (0..minute)
      BY DEF Init
    <2>. QED
      BY <1>1, <2>1, <2>2, <2>3, <2>4, <2>5 DEF TypeOK
  <1>3. SlotsOfMinutes
    BY <1>1 DEF Init, SlotsOfMinutes
  <1>4. OnlyInTurn
    BY DEF Init, OnlyInTurn
  <1>. QED
    BY <1>2, <1>3, <1>4 DEF IInv

\* The clock, the ticker and the workers leave the loop alone.
LEMMA OutsideKeepsIInv ==
  ASSUME IInv, MinutePasses \/ TickerFires \/ StationMarked \/ UNCHANGED vars
  PROVE  IInv'
  <1>1. SlotsOfMinutes' /\ OnlyInTurn'
    BY DEF IInv, SlotsOfMinutes, OnlyInTurn, MinutePasses, TickerFires, StationMarked,
           vars, history, clock, SlotOf
  <1>2. TypeOK'
    <2>1. CASE MinutePasses
      BY <2>1 DEF IInv, TypeOK, MinutePasses, history
    <2>2. CASE TickerFires
      BY <2>2 DEF IInv, TypeOK, TickerFires, history
    <2>3. CASE StationMarked
      BY <2>3 DEF IInv, TypeOK, StationMarked, history, clock
    <2>4. CASE UNCHANGED vars
      BY <2>4 DEF IInv, TypeOK, vars
    <2>. QED
      BY <2>1, <2>2, <2>3, <2>4
  <1>. QED
    BY <1>1, <1>2 DEF IInv

\* A tick takes the slots of the minutes it has missed.
LEMMA TakeTickKeepsIInv ==
  ASSUME IInv, TakeTick
  PROVE  IInv'
  <1>1. /\ reading \in Nat /\ minute \in Nat /\ reading <= minute
        /\ Cadence \in Nat \ {0}
    BY SchedulerAssumption DEF IInv, TypeOK
  <1>2. lastSlot = SlotOf(reading)
    BY DEF IInv, SlotsOfMinutes, TakeTick
  <1>3. Missed(minute) \in 0..(minute - reading)
    BY <1>1, <1>2, MissedMinutes
  <1>4. reading' = minute /\ lastSlot' = lastSlot /\ minute' = minute
    BY DEF TakeTick, clock
  <1>5. CASE Missed(minute) = 0
    <2>1. todo = <<>> /\ todo' = todo /\ pc' = pc /\ pc = "wait"
      BY <1>5 DEF IInv, TypeOK, TakeTick
    <2>2. SlotOf(minute) = SlotOf(reading)
      <3>1. SlotOf(minute) \in 0..(Cadence - 1) /\ SlotOf(reading) \in 0..(Cadence - 1)
        BY <1>1, SlotOfMinute
      <3>2. PICK e \in Int : e = SlotOf(minute) - SlotOf(reading) + Cadence
        BY <1>1, <3>1
      <3>3. e % Cadence = 0
        BY <1>2, <1>5, <3>2 DEF Missed
      <3>4. e = Cadence * (e \div Cadence) /\ e \div Cadence \in Int
        BY <1>1, <3>3, Division
      <3>5. PICK q \in Int : e = Cadence * q
        BY <3>4
      <3>6. 0 + 1 <= q /\ q + 1 <= 2
        <4>1. Cadence * 0 = 0 /\ Cadence * 2 = Cadence + Cadence /\ Cadence * 1 = Cadence
          BY <1>1
        <4>2. ~(q + 1 <= 0 + 1)
          <5>. SUFFICES ASSUME q + 1 <= 1 PROVE FALSE
            OBVIOUS
          <5>1. Cadence * q + Cadence <= Cadence * 1
            BY <1>1, Monotone
          <5>. QED
            BY <1>1, <3>1, <3>2, <3>5, <4>1, <5>1
        <4>3. ~(1 + 1 <= q)
          <5>. SUFFICES ASSUME 1 + 1 <= q PROVE FALSE
            OBVIOUS
          <5>1. Cadence * 1 + Cadence <= Cadence * q
            BY <1>1, Monotone
          <5>. QED
            BY <1>1, <3>1, <3>2, <3>5, <4>1, <5>1
        <4>. QED
          BY <4>2, <4>3
      <3>7. q = 1
        BY <3>6
      <3>. QED
        BY <1>1, <3>1, <3>2, <3>5, <3>7
    <2>3. SlotsOfMinutes'
      BY <1>1, <1>2, <1>4, <2>1, <2>2 DEF SlotsOfMinutes, SlotOf
    <2>4. OnlyInTurn'
      BY DEF IInv, OnlyInTurn, TakeTick, SlotOf
    <2>5. first' = first /\ late' = late
      BY <1>5 DEF TakeTick
    <2>6. TypeOK'
      <3>1. reading' \in 0..minute' /\ start' \in 0..minute' /\ minute' \in Nat
        BY <1>1, <1>4 DEF IInv, TypeOK, TakeTick
      <3>2. todo' \in Seq(0..(Cadence - 1)) /\ todo' = <<>>
        BY <2>1 DEF IInv, TypeOK
      <3>. QED
        BY <1>4, <2>1, <2>5, <3>1, <3>2 DEF IInv, TypeOK, TakeTick, clock
    <2>. QED
      BY <2>3, <2>4, <2>6 DEF IInv
  <1>6. CASE Missed(minute) # 0
    <2>1. /\ pc' = "tick" /\ first' = FALSE /\ todo' = SlotsToRun(minute)
          /\ late' = (late \/ Missed(minute) > 1)
      BY <1>6 DEF TakeTick
    <2>2. PICK M \in 0..(minute - reading) : M = Missed(minute)
      BY <1>3
    <2>3. ASSUME NEW i \in 1..M
          PROVE  /\ (SlotOf(minute) - (M - i) + Cadence) % Cadence = SlotOf(minute - M + i)
                 /\ SlotOf(minute - M + i) \in 0..(Cadence - 1)
      <3>1. M - i \in Int /\ minute - (M - i) = minute - M + i /\ minute - M + i \in Int
        BY <1>1
      <3>2. (SlotOf(minute) - (M - i) + Cadence) % Cadence = SlotOf(minute - (M - i))
        BY <1>1, <3>1, SlotShift
      <3>. QED
        BY <3>1, <3>2, SlotOfMinute
    <2>4. todo' = [i \in 1..M |-> SlotOf(minute - M + i)]
      BY <2>1, <2>2, <2>3 DEF SlotsToRun
    <2>5. todo' \in Seq(0..(Cadence - 1)) /\ Len(todo') = M
      <3>1. todo' \in [1..M -> 0..(Cadence - 1)] /\ M \in Nat
        BY <1>1, <2>3, <2>4
      <3>2. todo' \in Seq(0..(Cadence - 1))
        BY <3>1, SeqDef, Zenon
      <3>3. DOMAIN todo' = 1..M
        BY <3>1
      <3>. QED
        BY <3>1, <3>2, <3>3
    <2>6. SlotsOfMinutes'
      BY <1>1, <1>4, <2>1, <2>4, <2>5 DEF SlotsOfMinutes, SlotOf
    <2>7. TypeOK'
      <3>1. reading' \in 0..minute' /\ start' \in 0..minute' /\ minute' \in Nat
        BY <1>1, <1>4 DEF IInv, TypeOK, TakeTick
      <3>2. late' \in BOOLEAN /\ first' \in BOOLEAN
        BY <2>1
      <3>3. pc' \in {"tick", "wait"} /\ ~(pc' = "wait")
        BY <2>1
      <3>. QED
        BY <1>4, <2>5, <3>1, <3>2, <3>3 DEF IInv, TypeOK, TakeTick, clock
    <2>8. OnlyInTurn'
      BY DEF IInv, OnlyInTurn, TakeTick, SlotOf
    <2>. QED
      BY <2>6, <2>7, <2>8 DEF IInv
  <1>. QED
    BY <1>5, <1>6

\* A slot is run for the minute it stands for, and for stations it is due to.
LEMMA RunSlotKeepsIInv ==
  ASSUME IInv, RunSlot
  PROVE  IInv'
  <1>. DEFINE Slots == 0..(Cadence - 1)
  <1>1. /\ reading \in Nat /\ minute \in Nat /\ reading <= minute
        /\ todo \in Seq(Slots) /\ todo # <<>> /\ ran \in Seq(0..minute)
        /\ pc = "tick"
    BY DEF IInv, TypeOK, RunSlot
  <1>2. /\ Len(todo) \in Nat \ {0} /\ Len(todo) <= reading + 1
        /\ \A i \in 1..Len(todo) : todo[i] = SlotOf(reading - Len(todo) + i)
    <2>1. Len(todo) \in Nat \ {0}
      BY <1>1, EmptySeq
    <2>. QED
      BY <2>1 DEF IInv, SlotsOfMinutes
  <1>3. /\ Tail(todo) \in Seq(Slots) /\ Len(Tail(todo)) = Len(todo) - 1
        /\ \A i \in 1..Len(Tail(todo)) : Tail(todo)[i] = todo[i + 1]
    BY <1>1, HeadTailProperties
  <1>4. todo' = Tail(todo) /\ reading' = reading /\ minute' = minute /\ pc' = pc
    BY DEF RunSlot, clock
  <1>5. SlotMinute \in 0..minute
    BY <1>1, <1>2 DEF SlotMinute
  <1>6. Head(todo) = SlotOf(SlotMinute)
    BY <1>1, <1>2 DEF SlotMinute
  <1>7. SlotsOfMinutes'
    <2>1. Len(todo') <= reading' + 1
      BY <1>1, <1>2, <1>3, <1>4
    <2>2. ASSUME NEW i \in 1..Len(todo')
          PROVE  todo'[i] = SlotOf(reading' - Len(todo') + i)
      <3>1. i + 1 \in 1..Len(todo) /\ todo'[i] = todo[i + 1]
        BY <1>2, <1>3, <1>4
      <3>2. reading - Len(todo) + (i + 1) = reading' - Len(todo') + i
        BY <1>1, <1>2, <1>3, <1>4
      <3>. QED
        BY <1>2, <3>1, <3>2
    <2>. QED
      BY <1>1, <1>4, <2>1, <2>2 DEF SlotsOfMinutes, SlotOf
  <1>8. PICK down \in SUBSET DueStations(Head(todo)) :
          /\ failures + Cardinality(down) <= MaxFailures
          /\ failures' = failures + Cardinality(down)
          /\ enqueued' = enqueued \cup ((DueStations(Head(todo)) \ down) \X {SlotMinute})
          /\ lost' = lost \cup (down \X {SlotMinute})
    BY DEF RunSlot
  <1>9. Cardinality(down) \in Nat
    <2>1. down \subseteq Stations
      BY DEF DueStations
    <2>. QED
      BY <2>1, SchedulerAssumption, FS_Subset, FS_CardinalityType
  <1>10. OnlyInTurn'
    <2>1. \A st \in DueStations(Head(todo)) : Offset[st] = SlotOf(SlotMinute)
      BY <1>6 DEF DueStations
    <2>. QED
      BY <1>8, <2>1 DEF IInv, OnlyInTurn, SlotOf
  <1>11. TypeOK'
    <2>1. ran' \in Seq(0..minute)
      BY <1>1, <1>5, AppendProperties DEF RunSlot
    <2>2. failures' \in 0..MaxFailures
      BY <1>8, <1>9, SchedulerAssumption DEF IInv, TypeOK
    <2>3. enqueued' \subseteq Stations \X (0..minute) /\ lost' \subseteq Stations \X (0..minute)
      <3>1. DueStations(Head(todo)) \subseteq Stations
        BY DEF DueStations
      <3>. QED
        BY <1>5, <1>8, <3>1 DEF IInv, TypeOK
    <2>. QED
      BY <1>1, <1>3, <1>4, <2>1, <2>2, <2>3 DEF IInv, TypeOK, RunSlot, clock
  <1>. QED
    BY <1>7, <1>10, <1>11 DEF IInv

\* The end of a tick remembers the slot of its reading.
LEMMA EndTickKeepsIInv ==
  ASSUME IInv, EndTick
  PROVE  IInv'
  <1>1. /\ reading \in Nat /\ todo = <<>> /\ todo' = todo /\ reading' = reading
        /\ minute' = minute /\ minute \in Nat /\ pc' = "wait" /\ lastSlot' = SlotOf(reading)
    BY DEF IInv, TypeOK, EndTick, NextLastSlot, clock
  <1>2. lastSlot' \in 0..(Cadence - 1)
    BY <1>1, SlotOfMinute
  <1>3. SlotsOfMinutes'
    BY <1>1 DEF SlotsOfMinutes, SlotOf
  <1>4. OnlyInTurn'
    BY DEF IInv, OnlyInTurn, EndTick, SlotOf
  <1>5. exports' \subseteq ExportMinutes /\ failures' \in 0..MaxFailures
    <2>1. \/ exports' = exports /\ failures' = failures
          \/ exports' = exports \cup {minute} /\ minute \in ExportMinutes /\ failures' = failures
          \/ exports' = exports /\ failures < MaxFailures /\ failures' = failures + 1
      BY DEF EndTick, ExportDue
    <2>2. exports \subseteq ExportMinutes /\ failures \in 0..MaxFailures /\ MaxFailures \in Nat
      BY SchedulerAssumption DEF IInv, TypeOK
    <2>. QED
      BY <2>1, <2>2
  <1>6. late' \in BOOLEAN /\ first' \in BOOLEAN
    BY DEF EndTick
  <1>7. TypeOK'
    BY <1>1, <1>2, <1>5, <1>6 DEF IInv, TypeOK, EndTick, clock
  <1>. QED
    BY <1>3, <1>4, <1>7 DEF IInv

\* A new process starts with the slot of its own minute.
LEMMA RestartKeepsIInv ==
  ASSUME IInv, Restart
  PROVE  IInv'
  <1>1. /\ minute \in Nat /\ minute' = minute /\ reading' = minute /\ start' = minute
        /\ todo' = <<SlotOf(minute)>> /\ lastSlot' = SlotOf(minute) /\ ran' = <<>>
        /\ pc' = "tick" /\ first' = TRUE /\ late' = FALSE /\ fired' = FALSE /\ due' = FALSE
    BY DEF IInv, TypeOK, Restart, Started
  <1>2. SlotOf(minute) \in 0..(Cadence - 1)
    BY <1>1, SlotOfMinute
  <1>3. SlotsOfMinutes'
    BY <1>1, <1>2 DEF SlotsOfMinutes, SlotOf
  <1>4. OnlyInTurn'
    BY DEF IInv, OnlyInTurn, Restart, SlotOf
  <1>5. restarts' \in 0..MaxRestarts
    BY SchedulerAssumption DEF IInv, TypeOK, Restart
  <1>6. TypeOK'
    <2>1. todo' \in Seq(0..(Cadence - 1)) /\ ran' \in Seq(0..minute')
      BY <1>1, <1>2
    <2>2. due' \in BOOLEAN /\ fired' \in BOOLEAN /\ first' \in BOOLEAN /\ late' \in BOOLEAN
      BY <1>1
    <2>3. pc' \in {"tick", "wait"} /\ ~(pc' = "wait")
      BY <1>1
    <2>. QED
      BY <1>1, <1>2, <1>5, <2>1, <2>2, <2>3 DEF IInv, TypeOK, Restart
  <1>. QED
    BY <1>3, <1>4, <1>6 DEF IInv

\* The inductive invariant holds in every reachable state.
THEOREM SchedulerInvariant == Spec => []IInv
  <1>1. IInv /\ [Next]_vars => IInv'
    BY OutsideKeepsIInv, TakeTickKeepsIInv, RunSlotKeepsIInv, EndTickKeepsIInv,
       RestartKeepsIInv DEF Next, Loop
  <1>. QED
    BY <1>1, IInvInit, PTL DEF Spec

\* Slots stay within the cycle, histories within the past, counters within
\* their bounds: for every cadence and every number of stations.
THEOREM SchedulerTypeCorrect == Spec => []TypeOK
  <1>1. IInv => TypeOK
    BY DEF IInv
  <1>. QED
    BY <1>1, SchedulerInvariant, PTL

\* However late a tick is, and whatever fails or restarts, a task is enqueued
\* for a minute of its station's slot only.
THEOREM SchedulerKeepsTurns == Spec => []OnlyInTurn
  <1>1. IInv => OnlyInTurn
    BY DEF IInv
  <1>. QED
    BY <1>1, SchedulerInvariant, PTL

------------------------------------------------------------------------------
(* The catch-up, while no tick is a whole cadence late *)

NoStall == MaxGap < Cadence

CInv == IInv /\ minute - reading <= MaxGap /\ CatchesUp

LEMMA CInvInit == NoStall /\ Init => CInv
  <1>. SUFFICES ASSUME NoStall, Init PROVE CInv
    OBVIOUS
  <1>1. IInv
    BY IInvInit
  <1>2. minute \in Nat /\ MaxGap \in Nat
    BY SchedulerAssumption DEF Init
  <1>. QED
    BY <1>1, <1>2 DEF CInv, CatchesUp, Init

LEMMA CInvStep == NoStall /\ CInv /\ [Next]_vars => CInv'
  <1>. SUFFICES ASSUME NoStall, CInv, [Next]_vars PROVE CInv'
    OBVIOUS
  <1>1. IInv /\ IInv'
    BY OutsideKeepsIInv, TakeTickKeepsIInv, RunSlotKeepsIInv, EndTickKeepsIInv,
       RestartKeepsIInv DEF CInv, Next, Loop
  <1>2. /\ reading \in Nat /\ minute \in Nat /\ start \in Nat /\ reading <= minute
        /\ ran \in Seq(0..minute) /\ Len(ran) \in Nat /\ MaxGap \in Nat
        /\ todo \in Seq(0..(Cadence - 1)) /\ Len(todo) \in Nat
    <2>1. /\ reading \in Nat /\ minute \in Nat /\ start \in Nat /\ reading <= minute
          /\ ran \in Seq(0..minute) /\ MaxGap \in Nat /\ todo \in Seq(0..(Cadence - 1))
      BY <1>1, SchedulerAssumption DEF IInv, TypeOK
    <2>. QED
      BY <2>1, LenProperties
  <1>3. /\ minute - reading <= MaxGap
        /\ \A i \in 1..Len(ran) : ran[i] = start + i - 1
        /\ Len(ran) + Len(todo) = reading - start + 1
    BY DEF CInv, CatchesUp
  <1>4. CASE MinutePasses \/ TickerFires \/ StationMarked \/ UNCHANGED vars
    <2>1. /\ reading' = reading /\ start' = start /\ ran' = ran /\ todo' = todo
          /\ minute' \in Nat /\ minute' - reading <= MaxGap
      BY <1>2, <1>3, <1>4 DEF MinutePasses, TickerFires, StationMarked, vars, history, clock
    <2>. QED
      BY <1>1, <1>3, <2>1 DEF CInv, CatchesUp
  <1>5. CASE TakeTick
    <2>1. todo = <<>> /\ lastSlot = SlotOf(reading)
      BY <1>1, <1>5 DEF IInv, TypeOK, SlotsOfMinutes, TakeTick
    <2>2. Missed(minute) = minute - reading
      <3>1. minute - reading < Cadence
        BY <1>2, <1>3, SchedulerAssumption DEF NoStall
      <3>. QED
        BY <1>2, <2>1, <3>1, MissedMinutes
    <2>3. reading' = minute /\ minute' = minute /\ start' = start /\ ran' = ran
      BY <1>5 DEF TakeTick, clock
    <2>4. Len(todo') = minute - reading
      <3>1. CASE Missed(minute) = 0
        BY <1>2, <1>5, <2>1, <2>2, <3>1 DEF TakeTick
      <3>2. CASE Missed(minute) # 0
        <4>1. todo' = SlotsToRun(minute)
          BY <1>5, <3>2 DEF TakeTick
        <4>2. PICK M \in Nat : M = Missed(minute)
          BY <1>2, <2>2
        <4>3. DOMAIN todo' = 1..M
          BY <4>1, <4>2 DEF SlotsToRun
        <4>4. todo' \in Seq(0..(Cadence - 1))
          BY <1>1, SchedulerAssumption DEF IInv, TypeOK
        <4>5. Len(todo') = M
          BY <4>2, <4>3, <4>4
        <4>. QED
          BY <2>2, <4>2, <4>5
      <3>. QED
        BY <3>1, <3>2
    <2>5. Len(ran) = reading - start + 1
      BY <1>2, <1>3, <2>1
    <2>. QED
      BY <1>1, <1>2, <1>3, <2>3, <2>4, <2>5 DEF CInv, CatchesUp
  <1>6. CASE RunSlot
    <2>1. /\ todo' = Tail(todo) /\ todo # <<>> /\ ran' = Append(ran, SlotMinute)
          /\ reading' = reading /\ minute' = minute /\ start' = start
      BY <1>6 DEF RunSlot, clock
    <2>2. Len(todo') = Len(todo) - 1
      BY <1>2, <2>1, HeadTailProperties
    <2>3. SlotMinute = start + Len(ran)
      BY <1>2, <1>3 DEF SlotMinute
    <2>4. /\ Len(ran') = Len(ran) + 1 /\ ran'[Len(ran) + 1] = SlotMinute
          /\ \A i \in 1..Len(ran) : ran'[i] = ran[i]
      <3>1. ran \in Seq(Int) /\ SlotMinute \in Int
        <4>1. 0..minute \subseteq Int
          BY <1>2
        <4>. QED
          BY <1>2, <2>3, <4>1, SeqMonotonic
      <3>. QED
        BY <2>1, <3>1, AppendProperties
    <2>5. ASSUME NEW i \in 1..Len(ran')
          PROVE  ran'[i] = start' + i - 1
      <3>1. CASE i = Len(ran) + 1
        BY <1>2, <2>1, <2>3, <2>4, <3>1
      <3>2. CASE i # Len(ran) + 1
        <4>1. i \in 1..Len(ran)
          BY <1>2, <2>4, <3>2
        <4>. QED
          BY <1>3, <2>1, <2>4, <4>1
      <3>. QED
        BY <3>1, <3>2
    <2>. QED
      BY <1>1, <1>2, <1>3, <2>1, <2>2, <2>4, <2>5 DEF CInv, CatchesUp
  <1>7. CASE EndTick
    <2>1. /\ reading' = reading /\ start' = start /\ ran' = ran /\ todo' = todo
          /\ minute' = minute
      BY <1>7 DEF EndTick, clock
    <2>. QED
      BY <1>1, <1>3, <2>1 DEF CInv, CatchesUp
  <1>8. CASE Restart
    <2>1. /\ minute' = minute /\ reading' = minute /\ start' = minute
          /\ Len(todo') = 1 /\ ran' = <<>>
      BY <1>8 DEF Restart, Started
    <2>. QED
      BY <1>1, <1>2, <2>1 DEF CInv, CatchesUp
  <1>. QED
    BY <1>4, <1>5, <1>6, <1>7, <1>8 DEF Next, Loop

\* While no tick is a whole cadence late, the slot of every minute since the
\* start is run exactly once and in order, up to the one the loop is at.
THEOREM SchedulerCatchesUp == NoStall => (Spec => []CatchesUp)
  <1>. SUFFICES ASSUME NoStall PROVE Spec => []CatchesUp
    OBVIOUS
  <1>1. Init => CInv
    BY CInvInit
  <1>2. CInv /\ [Next]_vars => CInv'
    BY CInvStep
  <1>3. CInv => CatchesUp
    BY DEF CInv
  <1>. QED
    BY <1>1, <1>2, <1>3, PTL DEF Spec

------------------------------------------------------------------------------
(* The loop keeps the rota *)

\* The minute a station's next turn may come in, as the loop has it.
NextMinute == reading - Len(todo) + 1

\* A tick that is taken moves on to later minutes without passing any over.
LEMMA TakeTickWaits ==
  ASSUME NoStall, CInv, TakeTick
  PROVE  NextMinute' = NextMinute
  <1>1. CInv'
    BY CInvStep DEF Next, Loop
  <1>2. /\ reading \in Int /\ reading' \in Int /\ start \in Int
        /\ Len(ran) \in Int /\ Len(todo) \in Int /\ Len(todo') \in Int
    BY <1>1, LenProperties DEF CInv, IInv, TypeOK
  <1>3. ran' = ran /\ start' = start
    BY DEF TakeTick
  <1>4. /\ Len(ran) + Len(todo) = reading - start + 1
        /\ Len(ran) + Len(todo') = reading' - start + 1
    BY <1>1, <1>3 DEF CInv, CatchesUp
  <1>5. PICK r \in Int, l \in Int : r = reading' /\ l = Len(todo')
    BY <1>2
  <1>6. r - l + 1 = reading - Len(todo) + 1
    BY <1>2, <1>4, <1>5
  <1>. QED
    BY <1>5, <1>6 DEF NextMinute

\* The slot a tick runs next is that of the next minute of the rota, which has
\* begun.
LEMMA SlotIsNext ==
  ASSUME IInv, RunSlot
  PROVE  /\ SlotMinute = NextMinute /\ NextMinute' = NextMinute + 1
         /\ NextMinute \in Int /\ NextMinute <= minute
         /\ Head(todo) = SlotOf(NextMinute)
  <1>1. /\ todo # <<>> /\ todo \in Seq(0..(Cadence - 1)) /\ reading \in Int
        /\ minute \in Int /\ reading <= minute
        /\ reading' = reading /\ todo' = Tail(todo)
    BY DEF IInv, TypeOK, RunSlot
  <1>2. Len(todo) \in Nat \ {0} /\ Head(todo) = todo[1] /\ Len(todo') = Len(todo) - 1
    BY <1>1, LenProperties, EmptySeq, HeadTailProperties
  <1>3. todo[1] = SlotOf(reading - Len(todo) + 1)
    BY <1>2 DEF IInv, SlotsOfMinutes
  <1>. QED
    BY <1>1, <1>2, <1>3 DEF SlotMinute, NextMinute

\* Running a slot gives each of its stations its task or loses it.
LEMMA RunSlotServes ==
  ASSUME IInv, RunSlot
  PROVE  \E down \in SUBSET DueStations(SlotOf(NextMinute)) :
           /\ enqueued' = enqueued \cup
                 ((DueStations(SlotOf(NextMinute)) \ down) \X {NextMinute})
           /\ lost' = lost \cup (down \X {NextMinute})
  BY SlotIsNext DEF RunSlot

TInv == CInv /\ EveryTurnTaken

LEMMA TInvStep == NoStall /\ TInv /\ [Next]_vars => TInv'
  <1>. SUFFICES ASSUME NoStall, TInv, [Next]_vars PROVE TInv'
    OBVIOUS
  <1>1. CInv' /\ CInv
    BY CInvStep DEF TInv
  <1>2. /\ reading \in Int /\ minute \in Int /\ start \in Int /\ Len(todo) \in Int
        /\ reading' \in Int /\ Len(todo') \in Int
    BY <1>1, LenProperties DEF CInv, IInv, TypeOK
  <1>3. CASE \/ MinutePasses \/ TickerFires \/ StationMarked \/ EndTick \/ TakeTick
             \/ UNCHANGED vars
    <2>1. /\ start' = start /\ enqueued' = enqueued /\ lost' = lost
          /\ noIris \subseteq noIris'
      BY <1>3 DEF MinutePasses, TickerFires, StationMarked, EndTick, TakeTick, vars,
                  history
    <2>2. reading' - Len(todo') = reading - Len(todo)
      <3>1. CASE TakeTick
        BY <1>1, <1>2, <3>1, TakeTickWaits DEF NextMinute
      <3>2. CASE ~TakeTick
        BY <1>3, <3>2 DEF MinutePasses, TickerFires, StationMarked, EndTick, vars
      <3>. QED
        BY <3>1, <3>2
    <2>3. \A o : DueStations(o)' \subseteq DueStations(o)
      BY <2>1 DEF DueStations
    <2>. QED
      BY <1>1, <2>1, <2>2, <2>3 DEF TInv, EveryTurnTaken, SlotOf
  <1>4. CASE RunSlot
    <2>1. start' = start /\ noIris' = noIris /\ IInv
      BY <1>1, <1>4 DEF RunSlot, CInv
    <2>2. NextMinute' = NextMinute + 1
      BY <1>4, <2>1, SlotIsNext
    <2>3. PICK down \in SUBSET DueStations(SlotOf(NextMinute)) :
            /\ enqueued' = enqueued \cup
                  ((DueStations(SlotOf(NextMinute)) \ down) \X {NextMinute})
            /\ lost' = lost \cup (down \X {NextMinute})
      BY <1>4, <2>1, RunSlotServes
    <2>4. ASSUME NEW m \in start'..(reading' - Len(todo'))
          PROVE  DueStations(SlotOf(m))' \X {m} \subseteq enqueued' \cup lost'
      <3>1. DueStations(SlotOf(m))' = DueStations(SlotOf(m))
        BY <2>1 DEF DueStations, SlotOf
      <3>2. CASE m = NextMinute
        BY <2>3, <3>1, <3>2
      <3>3. CASE m # NextMinute
        <4>1. m \in start..(reading - Len(todo))
          BY <1>2, <2>1, <2>2, <3>3 DEF NextMinute
        <4>2. DueStations(SlotOf(m)) \X {m} \subseteq enqueued \cup lost
          BY <4>1 DEF TInv, EveryTurnTaken
        <4>. QED
          BY <2>3, <3>1, <4>2
      <3>. QED
        BY <3>2, <3>3
    <2>. QED
      BY <1>1, <2>4 DEF TInv, EveryTurnTaken
  <1>5. CASE Restart
    <2>1. start' = minute /\ reading' = minute /\ Len(todo') = 1
      BY <1>5 DEF Restart, Started
    <2>2. start'..(reading' - Len(todo')) = {}
      BY <1>2, <2>1
    <2>. QED
      BY <1>1, <2>2 DEF TInv, EveryTurnTaken
  <1>. QED
    BY <1>3, <1>4, <1>5 DEF Next, Loop

LEMMA TInvInit == NoStall /\ Init => TInv
  <1>. SUFFICES ASSUME NoStall, Init PROVE TInv
    OBVIOUS
  <1>1. start \in Int /\ reading = start /\ Len(todo) = 1
    BY SchedulerAssumption DEF Init
  <1>2. start..(reading - Len(todo)) = {}
    BY <1>1
  <1>. QED
    BY <1>2, CInvInit DEF TInv, EveryTurnTaken

\* While no tick is a whole cadence late, no station misses a turn but by a
\* failed enqueue of its own.
THEOREM SchedulerTakesEveryTurn == NoStall => (Spec => []EveryTurnTaken)
  <1>. SUFFICES ASSUME NoStall PROVE Spec => []EveryTurnTaken
    OBVIOUS
  <1>1. Init => TInv
    BY TInvInit
  <1>2. TInv /\ [Next]_vars => TInv'
    BY TInvStep
  <1>3. TInv => EveryTurnTaken
    BY DEF TInv
  <1>. QED
    BY <1>1, <1>2, <1>3, PTL DEF Spec

\* While no tick is a whole cadence late, the loop is a rota of minutes: its
\* modular memory, its late and dropped ticks and its catching up cannot be
\* told from serving one minute after the other.
THEOREM SchedulerImplementsRota == NoStall => (Spec => ImplementsRota)
  <1>. SUFFICES ASSUME NoStall PROVE Spec => ImplementsRota
    OBVIOUS
  <1>1. Init => CInv /\ Turns!Init
    <2>. SUFFICES ASSUME Init PROVE CInv /\ Turns!Init
      OBVIOUS
    <2>1. minute \in Int /\ reading = minute /\ Len(todo) = 1
      BY SchedulerAssumption DEF Init
    <2>2. reading - Len(todo) + 1 = minute
      BY <2>1
    <2>. QED
      BY <2>2, CInvInit DEF Init, Turns!Init
  <1>2. CInv /\ [Next]_vars => CInv' /\ [Turns!Next]_Turns!vars
    <2>. SUFFICES ASSUME CInv, [Next]_vars PROVE CInv' /\ [Turns!Next]_Turns!vars
      OBVIOUS
    <2>1. CInv'
      BY CInvStep
    <2>2. CASE UNCHANGED vars \/ TickerFires \/ EndTick
      BY <2>1, <2>2 DEF vars, TickerFires, EndTick, clock, history, Turns!vars
    <2>3. CASE MinutePasses
      BY <2>1, <2>3 DEF MinutePasses, history, Turns!Next, Turns!Pass
    <2>4. CASE StationMarked
      BY <2>1, <2>4 DEF StationMarked, clock, history, Turns!Next, Turns!Withdraw
    <2>5. CASE TakeTick
      <3>1. reading' - Len(todo') + 1 = reading - Len(todo) + 1
        BY <2>5, TakeTickWaits DEF NextMinute
      <3>. QED
        BY <2>1, <2>5, <3>1 DEF TakeTick, clock, Turns!vars
    <2>6. CASE RunSlot
      <3>1. IInv
        BY DEF CInv
      <3>2. NextMinute' = NextMinute + 1 /\ NextMinute <= minute
        BY <2>6, <3>1, SlotIsNext
      <3>3. Turns!Turn(NextMinute) = DueStations(SlotOf(NextMinute))
        BY DEF Turns!Turn, DueStations, SlotOf
      <3>4. \E down \in SUBSET Turns!Turn(NextMinute) :
              /\ enqueued' = enqueued \cup ((Turns!Turn(NextMinute) \ down) \X {NextMinute})
              /\ lost' = lost \cup (down \X {NextMinute})
        BY <2>6, <3>1, <3>3, RunSlotServes
      <3>5. minute' = minute /\ noIris' = noIris
        BY <2>6 DEF RunSlot, clock
      <3>6. Turns!Serve
        BY <3>2, <3>4, <3>5 DEF NextMinute, Turns!Serve
      <3>. QED
        BY <2>1, <3>6 DEF Turns!Next
    <2>7. CASE Restart
      <3>1. /\ reading' = minute /\ Len(todo') = 1 /\ minute' = minute
            /\ noIris' = noIris /\ enqueued' = enqueued /\ lost' = lost
        BY <2>7 DEF Restart, Started
      <3>2. minute \in Int
        BY DEF CInv, IInv, TypeOK
      <3>3. reading' - Len(todo') + 1 = minute
        BY <3>1, <3>2
      <3>4. Turns!StartOver
        BY <3>1, <3>3 DEF Turns!StartOver
      <3>. QED
        BY <2>1, <3>4 DEF Turns!Next
    <2>. QED
      BY <2>2, <2>3, <2>4, <2>5, <2>6, <2>7 DEF Next, Loop
  <1>. QED
    BY <1>1, <1>2, PTL DEF Spec, ImplementsRota, Turns!Spec

------------------------------------------------------------------------------
(* The monthly export, while every tick keeps to its minute *)

\* Only the tick before the loop is a first one, and it reads the start.
FirstAtStart == pc = "tick" /\ first => reading = start

\* What ExportOnTime says of an idle loop holds during a tick as well, and an
\* idle loop has also settled the minute it read last.
Settled(m) == (m < reading) \/ (pc = "wait" /\ m = reading)
ExportsSettled ==
  ~late /\ failures = 0 =>
    \A m \in ExportMinutes : start < m /\ Settled(m) => m \in exports

EInv == CInv /\ FirstAtStart /\ ExportsSettled

LEMMA EInvInit == NoStall /\ Init => EInv
  <1>. SUFFICES ASSUME NoStall, Init PROVE EInv
    OBVIOUS
  <1>1. CInv
    BY CInvInit
  <1>2. FirstAtStart /\ ExportsSettled
    <2>1. reading = start /\ pc = "tick" /\ start \in Nat
      BY SchedulerAssumption DEF Init
    <2>. QED
      BY <2>1, SchedulerAssumption DEF FirstAtStart, ExportsSettled, Settled
  <1>. QED
    BY <1>1, <1>2 DEF EInv

\* A tick that is not late reads the minute after the last reading, or reads
\* the same minute again.
LEMMA TakeTickSettles ==
  ASSUME NoStall, EInv, TakeTick
  PROVE  FirstAtStart' /\ ExportsSettled'
  <1>1. /\ reading \in Nat /\ minute \in Nat /\ start \in Nat /\ reading <= minute
        /\ minute - reading <= MaxGap /\ MaxGap \in Nat /\ Cadence \in Nat
        /\ late \in BOOLEAN /\ ExportMinutes \subseteq Nat
    BY SchedulerAssumption DEF EInv, CInv, IInv, TypeOK
  <1>2. Missed(minute) = minute - reading
    <2>1. lastSlot = SlotOf(reading)
      BY DEF EInv, CInv, IInv, SlotsOfMinutes, TakeTick
    <2>2. minute - reading < Cadence
      BY <1>1 DEF NoStall
    <2>. QED
      BY <1>1, <2>1, <2>2, MissedMinutes
  <1>3. /\ pc = "wait" /\ reading' = minute /\ start' = start /\ exports' = exports
        /\ failures' = failures
    BY DEF TakeTick
  <1>4. CASE Missed(minute) = 0
    <2>1. reading' = reading /\ pc' = pc /\ late' = late
      BY <1>1, <1>2, <1>3, <1>4 DEF TakeTick
    <2>. QED
      BY <1>3, <2>1 DEF EInv, FirstAtStart, ExportsSettled, Settled
  <1>5. CASE Missed(minute) # 0
    <2>1. pc' = "tick" /\ first' = FALSE /\ late' = (late \/ Missed(minute) > 1)
      BY <1>5 DEF TakeTick
    <2>2. FirstAtStart'
      BY <2>1 DEF FirstAtStart
    <2>3. ASSUME ~late', failures' = 0, NEW m \in ExportMinutes, start' < m, Settled(m)'
          PROVE  m \in exports'
      <3>1. ~late /\ ~(Missed(minute) > 1)
        BY <2>1, <2>3
      <3>2. m < minute /\ m \in Nat
        BY <1>1, <1>3, <2>1, <2>3 DEF Settled
      <3>3. minute = reading + 1
        BY <1>1, <1>2, <1>5, <3>1
      <3>4. m < reading \/ m = reading
        BY <1>1, <3>2, <3>3
      <3>. QED
        BY <1>3, <2>3, <3>1, <3>4 DEF EInv, ExportsSettled, Settled
    <2>. QED
      BY <2>2, <2>3 DEF ExportsSettled
  <1>. QED
    BY <1>4, <1>5

\* A tick that ends in the minute it read has looked for that minute's export.
LEMMA EndTickSettles ==
  ASSUME EInv, EndTick
  PROVE  FirstAtStart' /\ ExportsSettled'
  <1>1. /\ reading \in Nat /\ start \in Nat /\ late \in BOOLEAN
        /\ failures \in Nat /\ ExportMinutes \subseteq Nat
    BY SchedulerAssumption DEF EInv, CInv, IInv, TypeOK
  <1>2. /\ pc = "tick" /\ pc' = "wait" /\ reading' = reading /\ start' = start
        /\ late' = (late \/ minute # reading)
    BY DEF EndTick
  <1>3. FirstAtStart'
    BY <1>2 DEF FirstAtStart
  <1>4. exports \subseteq exports' /\ (failures' = 0 => failures = 0)
    <2>1. \/ exports' = exports /\ failures' = failures
          \/ exports' = exports \cup {minute} /\ failures' = failures
          \/ exports' = exports /\ failures' = failures + 1
      BY DEF EndTick
    <2>. QED
      BY <1>1, <2>1
  <1>5. ASSUME ~late', failures' = 0, NEW m \in ExportMinutes, start' < m, Settled(m)'
        PROVE  m \in exports'
    <2>1. ~late /\ minute = reading /\ failures = 0
      BY <1>2, <1>4, <1>5
    <2>2. CASE m < reading
      BY <1>2, <1>4, <1>5, <2>1, <2>2 DEF EInv, ExportsSettled, Settled
    <2>3. CASE m = reading
      <3>1. ~first
        BY <1>1, <1>2, <1>5, <2>3 DEF EInv, FirstAtStart
      <3>2. ExportDue
        BY <2>1, <2>3 DEF ExportDue
      <3>3. \/ exports' = exports \cup {minute}
            \/ failures' = failures + 1
        BY <3>1, <3>2 DEF EndTick
      <3>. QED
        BY <1>5, <2>1, <2>3, <3>3
    <2>. QED
      BY <1>2, <1>5, <2>2, <2>3 DEF Settled
  <1>. QED
    BY <1>3, <1>5 DEF ExportsSettled

LEMMA EInvStep == NoStall /\ EInv /\ [Next]_vars => EInv'
  <1>. SUFFICES ASSUME NoStall, EInv, [Next]_vars PROVE EInv'
    OBVIOUS
  <1>1. CInv'
    BY CInvStep DEF EInv
  <1>2. CASE MinutePasses \/ TickerFires \/ StationMarked \/ UNCHANGED vars
    <2>1. UNCHANGED <<pc, first, reading, start, late, failures, exports>>
      BY <1>2 DEF MinutePasses, TickerFires, StationMarked, vars, history, clock
    <2>. QED
      BY <1>1, <2>1 DEF EInv, FirstAtStart, ExportsSettled, Settled
  <1>3. CASE TakeTick
    BY <1>1, <1>3, TakeTickSettles DEF EInv
  <1>4. CASE RunSlot
    <2>1. UNCHANGED <<pc, first, reading, start, late, exports>> /\ pc = "tick"
      BY <1>4 DEF RunSlot
    <2>2. failures' = 0 => failures = 0
      <3>1. PICK down \in SUBSET DueStations(Head(todo)) :
              failures' = failures + Cardinality(down)
        BY <1>4 DEF RunSlot
      <3>2. Cardinality(down) \in Nat
        <4>1. down \subseteq Stations
          BY DEF DueStations
        <4>. QED
          BY <4>1, SchedulerAssumption, FS_Subset, FS_CardinalityType
      <3>3. failures \in Nat
        BY SchedulerAssumption DEF EInv, CInv, IInv, TypeOK
      <3>. QED
        BY <3>1, <3>2, <3>3
    <2>. QED
      BY <1>1, <2>1, <2>2 DEF EInv, FirstAtStart, ExportsSettled, Settled
  <1>5. CASE EndTick
    BY <1>1, <1>5, EndTickSettles DEF EInv
  <1>6. CASE Restart
    <2>1. minute \in Nat /\ ExportMinutes \subseteq Nat
      BY SchedulerAssumption DEF EInv, CInv, IInv, TypeOK
    <2>2. reading' = start' /\ start' = minute /\ pc' = "tick"
      BY <1>6 DEF Restart, Started
    <2>. QED
      BY <1>1, <2>1, <2>2 DEF EInv, FirstAtStart, ExportsSettled, Settled
  <1>. QED
    BY <1>2, <1>3, <1>4, <1>5, <1>6 DEF Next, Loop

\* While no tick outlasts its minute or has to catch up, and no enqueue fails,
\* the month's export is triggered in its minute, whatever the cadence.
THEOREM SchedulerExportsOnTime == NoStall => (Spec => []ExportOnTime)
  <1>. SUFFICES ASSUME NoStall PROVE Spec => []ExportOnTime
    OBVIOUS
  <1>1. Init => EInv
    BY EInvInit
  <1>2. EInv /\ [Next]_vars => EInv'
    BY EInvStep
  <1>3. EInv => ExportOnTime
    BY DEF EInv, ExportsSettled, Settled, ExportOnTime
  <1>. QED
    BY <1>1, <1>2, <1>3, PTL DEF Spec
==============================================================================
