-------------------------- MODULE RateLimiterProofs --------------------------
(***************************************************************************)
(* Proofs about the rate limiter, for every set of clients, every           *)
(* configured rate and every length of the minute.  The limiter is shown to *)
(* be a TokenBucket; how many requests a stretch of time can see is then a  *)
(* fact about the bucket, with no caller, timer or refill in it.            *)
(***************************************************************************)
EXTENDS RateLimiter, TLAPS

------------------------------------------------------------------------------
(* Arithmetic *)

\* Multiplication by the rate distributes over a split of the time.
LEMMA Distributes ==
  ASSUME NEW r \in Int, NEW a \in Int, NEW b \in Int
  PROVE  r * (a + b) = r * a + r * b
  OBVIOUS

\* A product of naturals is a natural.
LEMMA NatProduct ==
  ASSUME NEW r \in Nat, NEW a \in Nat
  PROVE  r * a \in Nat
  OBVIOUS

\* The refill stays within the bucket and adds no more than flowed in.
LEMMA RefillBounds ==
  ASSUME LimiterAssumption, TypeOK
  PROVE  /\ Refilled \in 0..Cap
         /\ Refilled <= level + rpm * (now - lastFill)
         /\ Cap \in Nat
  <1>1. rpm \in Nat /\ now - lastFill \in Nat /\ Minute \in Nat
    BY DEF LimiterAssumption, TypeOK
  <1>2. rpm * (now - lastFill) \in Nat /\ Cap \in Nat
    BY <1>1, NatProduct DEF Cap
  <1>3. level \in Nat /\ level <= Cap
    BY <1>2 DEF TypeOK
  <1>. DEFINE flow == rpm * (now - lastFill)
  <1>4. flow \in Nat
    BY <1>2
  <1>. HIDE DEF flow
  <1>5. Refilled = Full(level + flow)
    BY DEF Refilled, flow
  <1>6. QED
    BY <1>2, <1>3, <1>4, <1>5 DEF Full, flow

------------------------------------------------------------------------------
(* Type correctness *)

\* The critical section leaves a bucket between empty and full.
LEMMA SectionTyped ==
  ASSUME LimiterAssumption, TypeOK, TakeToken \/ KeepRefill \/ PassNil,
         UNCHANGED <<rpm, now>>
  PROVE  level' \in 0..Cap' /\ lastFill' \in 0..now' /\ sent' \in Seq(0..now')
  <1>1. Refilled \in 0..Cap /\ Minute \in Nat /\ Cap' = Cap
    BY RefillBounds DEF LimiterAssumption, Cap
  <1>2. level' \in 0..Cap
    <2>1. Cap \in Nat
      BY RefillBounds
    <2>2. PICK b \in 0..Cap : b = Refilled
      BY <1>1
    <2>3. CASE TakeToken
      BY <1>1, <2>1, <2>2, <2>3 DEF TakeToken, HasToken
    <2>4. CASE KeepRefill
      BY <2>2, <2>4 DEF KeepRefill
    <2>5. CASE PassNil
      BY <2>5 DEF TypeOK, PassNil
    <2>. QED
      BY <2>3, <2>4, <2>5
  <1>3. lastFill' \in 0..now
    BY DEF TypeOK, TakeToken, KeepRefill, PassNil
  <1>4. sent' = sent \/ sent' = Append(sent, now)
    BY DEF TakeToken, KeepRefill, PassNil
  <1>5. sent' \in Seq(0..now)
    <2>1. sent \in Seq(0..now) /\ now \in 0..now
      BY DEF TypeOK
    <2>2. Append(sent, now) \in Seq(0..now)
      BY <2>1
    <2>. QED
      BY <1>4, <2>1, <2>2
  <1>. QED
    BY <1>1, <1>2, <1>3, <1>5

LEMMA TypeStep ==
  ASSUME LimiterAssumption, TypeOK, [Next]_vars
  PROVE  TypeOK'
  <1>1. CASE Tick
    BY <1>1 DEF TypeOK, Tick, Cap
  <1>2. ASSUME NEW c \in Clients, Call(c) \/ TimerFires(c) \/ WaitCancelled(c)
        PROVE  TypeOK'
    BY <1>2 DEF TypeOK, Call, TimerFires, WaitCancelled, Cap
  <1>3. ASSUME NEW c \in Clients, WaitReturns(c)
        PROVE  TypeOK'
    BY <1>3, SectionTyped DEF TypeOK, WaitReturns
  <1>4. ASSUME NEW c \in Clients, WaitSleeps(c)
        PROVE  TypeOK'
    <2>1. TokenAt(Refilled) \in Int
      <3>1. Refilled \in Int /\ rpm \in Nat /\ rpm > 0 /\ Minute \in Int /\ now \in Int
        BY <1>4, RefillBounds DEF TypeOK, LimiterAssumption, WaitSleeps, KeepRefill
      <3>. QED
        BY <3>1 DEF TokenAt
    <2>. QED
      BY <1>4, <2>1, SectionTyped DEF TypeOK, WaitSleeps
  <1>5. ASSUME NEW c \in Clients, TryTake(c)
        PROVE  TypeOK'
    BY <1>5, SectionTyped DEF TypeOK, TryTake
  <1>6. CASE UNCHANGED vars
    BY <1>6 DEF TypeOK, vars, Cap
  <1>. QED
    BY <1>1, <1>2, <1>3, <1>4, <1>5, <1>6 DEF Next

LEMMA TypeInit ==
  ASSUME LimiterAssumption, Init
  PROVE  TypeOK
  <1>1. rpm \in Nat /\ Cap \in Nat
    BY NatProduct DEF LimiterAssumption, Init, Cap
  <1>. QED
    BY <1>1 DEF LimiterAssumption, Init, TypeOK

\* The bucket never holds more than a minute's budget nor a negative amount,
\* and no request is recorded in the future.
THEOREM LimiterTypeCorrect == Spec => []TypeOK
  <1>1. Init => TypeOK
    BY LimiterAssumption, TypeInit
  <1>2. TypeOK /\ [Next]_vars => TypeOK'
    BY LimiterAssumption, TypeStep
  <1>. QED
    BY <1>1, <1>2, PTL DEF Spec

------------------------------------------------------------------------------
(* The lazy refill is a bucket that fills with the clock *)

\* In terms of a tick: what a refill one tick later would find is one drip
\* more than what it would find now.
LEMMA DripIsRefill ==
  ASSUME LimiterAssumption, TypeOK, Tick
  PROVE  Refilled' = IF Refilled + rpm > Cap THEN Cap ELSE Refilled + rpm
  <1>. DEFINE since == now - lastFill
              flow == rpm * since
  <1>1. rpm \in Nat /\ since \in Nat /\ Cap \in Nat /\ level \in Nat
    BY RefillBounds DEF LimiterAssumption, TypeOK
  <1>2. now' - lastFill' = since + 1
    BY DEF TypeOK, Tick
  <1>3. rpm * (since + 1) = flow + rpm /\ flow \in Nat
    <2>1. rpm * (since + 1) = rpm * since + rpm * 1
      BY <1>1, Distributes
    <2>. QED
      BY <1>1, <2>1, NatProduct
  <1>4. Refilled' = IF level + (flow + rpm) > Cap THEN Cap ELSE level + (flow + rpm)
    BY <1>2, <1>3 DEF Refilled, Full, Cap, Tick
  <1>5. Refilled = IF level + flow > Cap THEN Cap ELSE level + flow
    BY DEF Refilled, Full
  <1>. HIDE DEF flow, since
  <1>. QED
    BY <1>1, <1>3, <1>4, <1>5

\* Nothing flows in where no time has passed.
LEMMA NothingFlows ==
  ASSUME NEW x \in Int, NEW r \in Nat, NEW t \in Int
  PROVE  x + r * (t - t) = x
  <1>1. r * (t - t) = 0
    OBVIOUS
  <1>. QED
    BY <1>1

\* A critical section leaves nothing to refill at its own moment.
LEMMA NothingSince ==
  ASSUME LimiterAssumption, TypeOK, lastFill' = now, UNCHANGED <<rpm, now>>,
         level' \in 0..Cap
  PROVE  Refilled' = level'
  <1>1. rpm \in Nat /\ now \in Int /\ Cap \in Int
    BY RefillBounds DEF LimiterAssumption, TypeOK
  <1>2. PICK x \in Int : x = level' /\ x <= Cap
    BY <1>1
  <1>3. x + rpm * (now - now) = x
    BY <1>1, NothingFlows
  <1>4. Refilled' = Full(x + rpm * (now - now))
    BY <1>2 DEF Refilled, Full, Cap
  <1>5. Full(x) = x
    BY <1>1, <1>2 DEF Full
  <1>. QED
    BY <1>2, <1>3, <1>4, <1>5

\* Taking a token, or passing without a limiter, is a grant of the bucket.
LEMMA TakeIsGrant ==
  ASSUME LimiterAssumption, TypeOK, TakeToken \/ PassNil, UNCHANGED <<rpm, now>>
  PROVE  Bucket!Grant
  <1>1. CASE TakeToken
    <2>1. Refilled \in 0..Cap /\ Minute \in Nat
      BY RefillBounds DEF LimiterAssumption
    <2>2. level' = Refilled - Minute /\ level' \in 0..Cap /\ Refilled >= Minute
      BY <1>1, <2>1, RefillBounds DEF TakeToken, HasToken
    <2>3. Refilled' = Refilled - Minute
      BY <1>1, <2>2, NothingSince DEF TakeToken
    <2>. QED
      BY <1>1, <2>2, <2>3 DEF TakeToken, Bucket!Grant
  <1>2. CASE PassNil
    <2>1. Refilled' = Refilled
      BY <1>2 DEF PassNil, Refilled, Full, Cap
    <2>. QED
      BY <1>2, <2>1 DEF PassNil, Bucket!Grant
  <1>. QED
    BY <1>1, <1>2

\* Finding too little changes nothing: the refill moves into the bucket.
LEMMA KeepIsStutter ==
  ASSUME LimiterAssumption, TypeOK, KeepRefill, UNCHANGED <<rpm, now>>
  PROVE  UNCHANGED Bucket!vars
  <1>1. level' = Refilled /\ Refilled \in 0..Cap
    BY RefillBounds DEF KeepRefill
  <1>2. Refilled' = Refilled
    BY <1>1, NothingSince DEF KeepRefill
  <1>. QED
    BY <1>2 DEF KeepRefill, Bucket!vars

\* The limiter, whoever calls, waits, cancels and overtakes, is a bucket into
\* which the configured rate drips with the clock.
THEOREM LimiterImplementsBucket == Spec => ImplementsBucket
  <1>1. Init => Bucket!Init
    <2>. SUFFICES ASSUME Init PROVE Bucket!Init
      OBVIOUS
    <2>1. TypeOK
      BY LimiterAssumption, TypeInit
    <2>2. rpm * (now - lastFill) = 0 /\ Cap \in Nat
      BY <2>1, LimiterAssumption, RefillBounds DEF Init, TypeOK, LimiterAssumption
    <2>3. Refilled = Cap
      BY <2>2 DEF Init, Refilled, Full
    <2>. QED
      BY <2>3 DEF Init, Cap, Bucket!Init, Bucket!Brim
  <1>2. TypeOK /\ [Next]_vars => [Bucket!Next]_Bucket!vars
    <2>. SUFFICES ASSUME TypeOK, [Next]_vars PROVE [Bucket!Next]_Bucket!vars
      OBVIOUS
    <2>1. LimiterAssumption /\ TypeOK
      BY LimiterAssumption
    <2>2. CASE Tick
      <3>1. Bucket!Drip
        BY <2>1, <2>2, DripIsRefill DEF Tick, Cap, Bucket!Drip, Bucket!Brim
      <3>. QED
        BY <3>1 DEF Bucket!Next
    <2>3. CASE UNCHANGED <<rpm, now, level, lastFill, sent>>
      BY <2>3 DEF Bucket!vars, Refilled, Full, Cap
    <2>4. ASSUME NEW c \in Clients, WaitReturns(c) \/ WaitSleeps(c) \/ TryTake(c)
          PROVE  [Bucket!Next]_Bucket!vars
      <3>1. UNCHANGED <<rpm, now>> /\ (TakeToken \/ PassNil \/ KeepRefill)
        BY <2>4 DEF WaitReturns, WaitSleeps, TryTake
      <3>. QED
        BY <2>1, <3>1, TakeIsGrant, KeepIsStutter DEF Bucket!Next
    <2>. QED
      BY <2>2, <2>3, <2>4 DEF Next, vars, Call, TimerFires, WaitCancelled
  <1>. QED
    BY <1>1, <1>2, LimiterTypeCorrect, PTL DEF Spec, ImplementsBucket, Bucket!Spec

------------------------------------------------------------------------------
(* What a bucket lets through *)

\* WindowBound speaks of pairs of past requests and says nothing of what the
\* bucket may still hand out: what is in it plus all that was taken since a
\* request never exceeds one full bucket plus what dripped in since.
Owed ==
  rpm > 0 =>
    \A i \in 1..Len(sent) :
      Refilled + Minute * (Len(sent) - i + 1) <= Cap + rpm * (now - sent[i])

BucketInv ==
  /\ rpm \in RPMs /\ now \in Nat /\ Refilled \in 0..Cap /\ sent \in Seq(0..now)
  /\ Owed /\ WindowBound

LEMMA BucketFull == LimiterAssumption /\ Bucket!Init => BucketInv
  <1>. SUFFICES ASSUME LimiterAssumption, Bucket!Init PROVE BucketInv
    OBVIOUS
  <1>1. rpm \in Nat /\ Cap \in Nat /\ Refilled = Cap
    BY NatProduct DEF LimiterAssumption, Bucket!Init, Bucket!Brim, Cap
  <1>. QED
    BY <1>1 DEF Bucket!Init, BucketInv, Owed, WindowBound

\* What drips in is what time brings.
LEMMA DripKeeps ==
  ASSUME LimiterAssumption, BucketInv, Bucket!Drip
  PROVE  BucketInv'
  <1>1. PICK L \in Nat : L = Len(sent)
    BY DEF BucketInv
  <1>2. /\ now \in Nat /\ rpm \in Nat /\ Minute \in Nat /\ Cap \in Nat
        /\ now' = now + 1 /\ rpm' = rpm /\ sent' = sent /\ Cap' = Cap
    BY NatProduct DEF LimiterAssumption, BucketInv, Bucket!Drip, Cap
  <1>3. PICK b \in 0..Cap : b = Refilled
    BY DEF BucketInv
  <1>4. PICK c \in 0..Cap : c = Refilled' /\ c <= b + rpm
    BY <1>2, <1>3 DEF Bucket!Drip, Bucket!Brim, Cap
  <1>5. ASSUME NEW i \in 1..L, rpm > 0
        PROVE  c + Minute * (L - i + 1) <= Cap + rpm * ((now + 1) - sent[i])
    <2>. DEFINE taken == Minute * (L - i + 1)
                old == now - sent[i]
    <2>1. sent[i] \in 0..now
      BY <1>1 DEF BucketInv
    <2>2. old \in Int /\ taken \in Int /\ (now + 1) - sent[i] = old + 1
      BY <1>2, <2>1
    <2>3. rpm * (old + 1) = rpm * old + rpm * 1
      BY <1>2, <2>2, Distributes
    <2>4. rpm * old \in Int /\ rpm * 1 = rpm
      BY <1>2, <2>2
    <2>5. b + taken <= Cap + rpm * old
      BY <1>1, <1>3, <1>5 DEF BucketInv, Owed
    <2>. HIDE DEF old, taken
    <2>6. c + taken <= Cap + rpm * ((now + 1) - sent[i])
      BY <1>2, <1>3, <1>4, <2>2, <2>3, <2>4, <2>5
    <2>. QED
      BY <2>6 DEF taken
  <1>6. Owed'
    BY <1>1, <1>2, <1>4, <1>5 DEF Owed
  <1>7. WindowBound'
    BY <1>2 DEF BucketInv, WindowBound
  <1>. QED
    BY <1>2, <1>4, <1>6, <1>7 DEF BucketInv

\* A request leaves one token less; the new one finds the bucket at most full.
LEMMA GrantKeeps ==
  ASSUME LimiterAssumption, BucketInv, Bucket!Grant
  PROVE  BucketInv'
  <1>1. PICK L \in Nat : L = Len(sent)
    BY DEF BucketInv
  <1>2. /\ now \in Nat /\ rpm \in Nat /\ Minute \in Nat /\ Cap \in Nat
        /\ now' = now /\ rpm' = rpm /\ Cap' = Cap /\ sent' = Append(sent, now)
    BY NatProduct DEF LimiterAssumption, BucketInv, Bucket!Grant, Cap
  <1>3. PICK b \in 0..Cap : b = Refilled
    BY DEF BucketInv
  <1>4. PICK c \in 0..Cap : c = Refilled' /\ (rpm > 0 => c = b - Minute)
    BY <1>2, <1>3 DEF Bucket!Grant
  <1>5. Len(sent') = L + 1 /\ sent'[L + 1] = now
    BY <1>1, <1>2 DEF BucketInv
  <1>6. \A i \in 1..L : sent'[i] = sent[i] /\ sent[i] \in 0..now
    BY <1>1, <1>2 DEF BucketInv
  <1>7. ASSUME NEW i \in 1..(L + 1), rpm > 0
        PROVE  c + Minute * ((L + 1) - i + 1) <= Cap + rpm * (now - sent'[i])
    <2>1. CASE i = L + 1
      <3>1. (L + 1) - i + 1 = 1 /\ now - sent'[i] = 0
        BY <2>1, <1>2, <1>5
      <3>2. Minute * 1 = Minute /\ rpm * 0 = 0
        BY <1>2
      <3>3. c + Minute <= Cap
        BY <1>2, <1>3, <1>4, <1>7
      <3>4. c + Minute * 1 <= Cap + rpm * 0
        <4>1. Cap + 0 = Cap
          BY <1>2
        <4>. QED
          BY <3>2, <3>3, <4>1
      <3>. QED
        BY <3>1, <3>4
    <2>2. CASE i \in 1..L
      <3>. DEFINE n == L - i + 1
                  since == rpm * (now - sent[i])
      <3>1. n \in Int /\ since \in Int /\ (L + 1) - i + 1 = n + 1
        BY <2>2, <1>2, <1>6
      <3>2. Minute * (n + 1) = Minute * n + Minute * 1
        BY <1>2, <3>1, Distributes
      <3>3. Minute * n \in Int /\ Minute * 1 = Minute
        BY <1>2, <3>1
      <3>4. b + Minute * n <= Cap + since
        BY <2>2, <1>1, <1>3, <1>7 DEF BucketInv, Owed
      <3>5. rpm * (now - sent'[i]) = since
        BY <2>2, <1>6
      <3>. HIDE DEF n, since
      <3>6. c = b - Minute
        BY <1>4, <1>7
      <3>7. c + Minute * (n + 1) <= Cap + since
        BY <1>2, <1>3, <3>1, <3>2, <3>3, <3>4, <3>6
      <3>. QED
        BY <3>1, <3>5, <3>7
    <2>. QED
      BY <2>1, <2>2
  <1>8. Owed'
    BY <1>2, <1>4, <1>5, <1>7 DEF Owed
  <1>9. ASSUME NEW i \in 1..(L + 1), NEW j \in 1..(L + 1), i < j, rpm > 0
        PROVE  Minute * (j - i + 1) <= Cap + rpm * (sent'[j] - sent'[i])
    <2>1. CASE j = L + 1
      <3>1. i \in 1..L
        BY <1>1, <1>9, <2>1
      <3>2. sent'[i] = sent[i] /\ sent[i] \in 0..now /\ sent'[j] = now
        BY <1>5, <1>6, <2>1, <3>1
      <3>. DEFINE taken == Minute * (j - i + 1)
                  came == rpm * (now - sent[i])
      <3>3. taken \in Int /\ came \in Int
        <4>1. j - i + 1 \in Int /\ now - sent[i] \in Int
          BY <1>1, <1>2, <3>2
        <4>. QED
          BY <1>2, <4>1
      <3>4. c + taken <= Cap + came
        BY <1>7, <1>9, <2>1, <3>2
      <3>. HIDE DEF taken, came
      <3>5. taken <= Cap + came
        <4>1. c \in Nat /\ Cap \in Nat
          BY <1>2
        <4>. QED
          BY <3>3, <3>4, <4>1
      <3>. QED
        BY <3>2, <3>5 DEF taken, came
    <2>2. CASE j \in 1..L
      <3>1. i \in 1..L
        BY <1>9, <2>2
      <3>2. Minute * (j - i + 1) <= Cap + rpm * (sent[j] - sent[i])
        BY <1>1, <1>9, <2>2, <3>1 DEF BucketInv, WindowBound
      <3>. QED
        BY <1>6, <2>2, <3>1, <3>2
    <2>. QED
      BY <2>1, <2>2
  <1>10. WindowBound'
    BY <1>2, <1>5, <1>9 DEF WindowBound
  <1>. QED
    BY <1>2, <1>4, <1>8, <1>10 DEF BucketInv

\* Whatever is a bucket of this kind keeps every window: over any stretch of
\* time it lets through at most one full bucket more than what dripped in.
THEOREM BucketBoundsEveryWindow == Bucket!Spec => []WindowBound
  <1>1. Bucket!Init => BucketInv
    BY LimiterAssumption, BucketFull
  <1>2. BucketInv /\ [Bucket!Next]_Bucket!vars => BucketInv'
    <2>. SUFFICES ASSUME BucketInv, [Bucket!Next]_Bucket!vars PROVE BucketInv'
      OBVIOUS
    <2>1. CASE UNCHANGED Bucket!vars
      BY <2>1 DEF Bucket!vars, BucketInv, Owed, WindowBound, Cap
    <2>. QED
      BY <2>1, LimiterAssumption, DripKeeps, GrantKeeps DEF Bucket!Next
  <1>3. BucketInv => WindowBound
    BY DEF BucketInv
  <1>. QED
    BY <1>1, <1>2, <1>3, PTL DEF Bucket!Spec

\* In every stretch of time at most one minute's budget more than the
\* configured rate leaves the process, whatever the callers do.
THEOREM LimiterBoundsEveryWindow == Spec => []WindowBound
  BY LimiterImplementsBucket, BucketBoundsEveryWindow DEF ImplementsBucket
------------------------------------------------------------------------------
(* No Wait sleeps past a token *)

\* The refill of a tick is what the bucket held plus what flowed in since; a
\* sleeper's timer was set for what is missing to a token, and every refill and
\* every token taken since leaves it no less missing by then.
Sleepers ==
  \A c \in Clients :
    pc[c] = "sleep" => rpm > 0 /\ level + rpm * (wake[c] - lastFill) <= Minute

\* Whole ticks cut off bring no more than what is missing.
LEMMA CutOff ==
  ASSUME NEW r \in Nat \ {0}, NEW m \in Nat
  PROVE  m \div r \in Int /\ r * (m \div r) <= m
  OBVIOUS

\* A moment later the same is missing: time that passes splits.
LEMMA Splits ==
  ASSUME NEW r \in Int, NEW l \in Int, NEW n \in Int, NEW w \in Int
  PROVE  r * (w - l) = r * (n - l) + r * (w - n)
  <1>1. w - l = (n - l) + (w - n) /\ n - l \in Int /\ w - n \in Int
    OBVIOUS
  <1>. QED
    BY <1>1, Distributes

\* What is missing still covers what is yet to flow in.
LEMMA StillMissing ==
  ASSUME NEW l \in Int, NEW b \in Int, NEW held \in Int, NEW flow \in Int,
         NEW rest \in Int, NEW all \in Int, NEW m \in Int,
         l <= b, b <= held + flow, all = flow + rest, held + all <= m
  PROVE  l + rest <= m
  OBVIOUS

\* A critical section brings no sleeper's token nearer than its timer.
LEMMA SectionKeepsTimers ==
  ASSUME LimiterAssumption, TypeOK, TakeToken \/ KeepRefill, NEW w \in Int,
         UNCHANGED rpm,
         level + rpm * (w - lastFill) <= Minute
  PROVE  level' + rpm * (w - lastFill') <= Minute
  <1>. DEFINE flow == rpm * (now - lastFill)
              rest == rpm * (w - now)
              all == rpm * (w - lastFill)
  <1>1. /\ rpm \in Nat /\ now \in Int /\ lastFill \in Int /\ level \in Int
        /\ Minute \in Nat /\ now - lastFill \in Int /\ w - now \in Int
    BY RefillBounds DEF LimiterAssumption, TypeOK
  <1>2. flow \in Int /\ rest \in Int
    BY <1>1
  <1>3. all = flow + rest /\ level + all <= Minute
    BY <1>1, Splits
  <1>4. PICK b \in Int : b = Refilled /\ b <= level + flow
    BY RefillBounds
  <1>5. PICK l \in Int : l = level' /\ l <= b
    <2>1. CASE TakeToken
      BY <1>1, <1>4, <2>1 DEF TakeToken
    <2>2. CASE KeepRefill
      BY <1>4, <2>2 DEF KeepRefill
    <2>. QED
      BY <2>1, <2>2
  <1>6. lastFill' = now
    BY DEF TakeToken, KeepRefill
  <1>. HIDE DEF flow, rest, all
  <1>7. l + rest <= Minute
    <2>1. all \in Int
      BY <1>2, <1>3
    <2>2. l <= b
      BY <1>5
    <2>3. b <= level + flow
      BY <1>4
    <2>4. level \in Int /\ Minute \in Int
      BY <1>1
    <2>. QED
      BY <1>2, <1>3, <2>1, <2>2, <2>3, <2>4, StillMissing
  <1>. QED
    BY <1>5, <1>6, <1>7 DEF rest

LEMMA SleepersStep ==
  ASSUME LimiterAssumption, TypeOK, Sleepers, [Next]_vars
  PROVE  Sleepers'
  <1>1. CASE UNCHANGED <<rpm, level, lastFill, pc, wake>>
    BY <1>1 DEF Sleepers
  <1>2. ASSUME NEW c \in Clients, Call(c) \/ TimerFires(c) \/ WaitCancelled(c)
        PROVE  Sleepers'
    <2>1. UNCHANGED <<rpm, level, lastFill, wake>>
      BY <1>2 DEF Call, TimerFires, WaitCancelled
    <2>2. \A d \in Clients : pc'[d] = "sleep" => pc[d] = "sleep"
      BY <1>2 DEF TypeOK, Call, TimerFires, WaitCancelled
    <2>. QED
      BY <2>1, <2>2 DEF Sleepers
  <1>3. ASSUME NEW c \in Clients, WaitReturns(c) \/ TryTake(c)
        PROVE  Sleepers'
    <2>. SUFFICES ASSUME NEW d \in Clients, pc'[d] = "sleep"
                  PROVE  rpm' > 0 /\ level' + rpm' * (wake'[d] - lastFill') <= Minute
      BY DEF Sleepers
    <2>1. /\ UNCHANGED <<rpm, wake>> /\ wake[d] \in Int
          /\ TakeToken \/ KeepRefill \/ PassNil
      BY <1>3 DEF TypeOK, WaitReturns, TryTake
    <2>2. pc[d] = "sleep"
      BY <1>3 DEF TypeOK, WaitReturns, TryTake
    <2>3. rpm > 0 /\ level + rpm * (wake[d] - lastFill) <= Minute
      BY <2>2 DEF Sleepers
    <2>4. level' + rpm * (wake[d] - lastFill') <= Minute
      <3>1. TakeToken \/ KeepRefill
        BY <2>1, <2>3 DEF PassNil
      <3>. QED
        BY <2>1, <2>3, <3>1, SectionKeepsTimers
    <2>. QED
      BY <2>1, <2>3, <2>4
  <1>4. ASSUME NEW c \in Clients, WaitSleeps(c)
        PROVE  Sleepers'
    <2>. SUFFICES ASSUME NEW d \in Clients, pc'[d] = "sleep"
                  PROVE  rpm' > 0 /\ level' + rpm' * (wake'[d] - lastFill') <= Minute
      BY DEF Sleepers
    <2>1. KeepRefill /\ UNCHANGED <<rpm, now>> /\ rpm > 0
      BY <1>4 DEF WaitSleeps, KeepRefill
    <2>2. CASE d = c
      <3>1. /\ Refilled \in Nat /\ Refilled < Minute /\ rpm \in Nat \ {0}
            /\ Minute \in Nat /\ now \in Int
        BY <2>1, RefillBounds DEF LimiterAssumption, TypeOK, KeepRefill, HasToken
      <3>. DEFINE left == (Minute - Refilled) \div rpm
      <3>2. Minute - Refilled \in Nat
        BY <3>1
      <3>3. left \in Int /\ rpm * left <= Minute - Refilled
        BY <3>1, <3>2, CutOff
      <3>4. wake'[d] = now + left /\ lastFill' = now /\ level' = Refilled
        BY <1>4, <2>1, <2>2 DEF TypeOK, WaitSleeps, KeepRefill, TokenAt
      <3>. HIDE DEF left
      <3>5. wake'[d] - lastFill' = left
        BY <3>1, <3>3, <3>4
      <3>6. Refilled + rpm * left <= Minute
        BY <3>1, <3>3
      <3>. QED
        BY <2>1, <3>4, <3>5, <3>6
    <2>3. CASE d # c
      <3>1. pc[d] = "sleep" /\ wake'[d] = wake[d] /\ wake[d] \in Int
        BY <1>4, <2>3 DEF TypeOK, WaitSleeps
      <3>2. level + rpm * (wake[d] - lastFill) <= Minute
        BY <3>1 DEF Sleepers
      <3>3. level' + rpm * (wake[d] - lastFill') <= Minute
        BY <2>1, <3>1, <3>2, SectionKeepsTimers
      <3>. QED
        BY <2>1, <3>1, <3>3
    <2>. QED
      BY <2>2, <2>3
  <1>. QED
    BY <1>1, <1>2, <1>3, <1>4 DEF Next, vars, Tick

\* While its timer runs, a sleeper's token has not flowed in.
LEMMA TimersNotLate ==
  ASSUME LimiterAssumption, TypeOK, Sleepers
  PROVE  NoSleepPastToken
  <1>. SUFFICES ASSUME NEW c \in Clients, pc[c] = "sleep", now < wake[c]
                PROVE  ~HasToken
    BY DEF NoSleepPastToken
  <1>1. /\ rpm \in Nat /\ rpm > 0 /\ Minute \in Nat
        /\ now \in Int /\ lastFill \in Int /\ wake[c] \in Int /\ level \in Int
    BY RefillBounds DEF LimiterAssumption, TypeOK, Sleepers
  <1>. DEFINE flow == rpm * (now - lastFill)
              rest == rpm * (wake[c] - now)
  <1>2. flow + rest = rpm * (wake[c] - lastFill)
    BY <1>1, Splits
  <1>3. flow \in Int /\ rest \in Int /\ rest > 0
    <2>1. \A a, b \in Nat \ {0} : a * b > 0
      OBVIOUS
    <2>2. wake[c] - now \in Nat \ {0} /\ now - lastFill \in Int
      BY <1>1
    <2>. QED
      BY <1>1, <2>1, <2>2
  <1>4. level + rpm * (wake[c] - lastFill) <= Minute
    BY DEF Sleepers
  <1>5. PICK b \in Int : b = Refilled /\ b <= level + flow
    BY RefillBounds
  <1>. HIDE DEF flow, rest
  <1>6. b < Minute
    BY <1>1, <1>2, <1>3, <1>4, <1>5
  <1>. QED
    BY <1>1, <1>5, <1>6 DEF HasToken

\* A caller sleeps only while there is no token for it, whatever the others do.
THEOREM LimiterNoSleepPastToken == Spec => []NoSleepPastToken
  <1>1. Init => TypeOK /\ Sleepers
    BY LimiterAssumption, TypeInit DEF Init, Sleepers
  <1>2. TypeOK /\ Sleepers /\ [Next]_vars => (TypeOK /\ Sleepers)'
    BY LimiterAssumption, TypeStep, SleepersStep
  <1>3. TypeOK /\ Sleepers => NoSleepPastToken
    BY LimiterAssumption, TimersNotLate
  <1>. QED
    BY <1>1, <1>2, <1>3, PTL DEF Spec
==============================================================================
