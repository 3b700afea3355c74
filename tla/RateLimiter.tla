----------------------------- MODULE RateLimiter -----------------------------
(***************************************************************************)
(* The token bucket of ratelimit/ratelimit.go that gates every request to  *)
(* IRIS and StaDa.  Several goroutines call Wait and TryTake; each pass of  *)
(* Wait's loop is one critical section (l.mu), after which the caller       *)
(* either returns with a token or sleeps on a timer and tries again.        *)
(*                                                                         *)
(* Time is a counter of ticks, Minute ticks to the minute.  The float64     *)
(* token count is kept exactly: one token is Minute units, and rpm units    *)
(* flow in per tick (the code's elapsed * rate).                            *)
(***************************************************************************)
EXTENDS Integers, Sequences

CONSTANTS
  Clients,   \* goroutines that call the limiter
  RPMs,      \* values the environment variable may hold; 0: unset or invalid
  Minute,    \* ticks to the minute
  MaxTime,   \* bound on the clock
  MaxFree    \* bound on the requests of a behaviour without a limiter

ASSUME LimiterAssumption ==
  /\ RPMs \subseteq Nat
  /\ Minute \in Nat \ {0}
  /\ MaxTime \in Nat /\ MaxFree \in Nat

VARIABLES
  rpm,       \* the configured rate, fixed at start; 0: a nil *Limiter
  now,       \* the clock
  level,     \* l.tokens, in units
  lastFill,  \* l.lastFill
  pc,        \* where each client is in its call
  wake,      \* when each sleeping client's timer fires
  sent       \* history: when each token was handed out, in order

vars == <<rpm, now, level, lastFill, pc, wake, sent>>

Cap == rpm * Minute                    \* l.max: one minute of budget

\* Mutant: the refill is never clamped to the bucket's capacity.
FullMutant(x) == x
Full(x) == IF x > Cap THEN Cap ELSE x
Refilled == Full(level + rpm * (now - lastFill))
HasToken == Refilled >= Minute

\* Mutant: the caller sleeps for a whole token, whatever part of one is there.
TokenAtMutant(have) == now + Minute \div rpm

\* When the timer of a client that finds `have` units fires: after the time to
\* the next token, which time.Duration cuts off to whole ticks.
TokenAt(have) == now + (Minute - have) \div rpm

TypeOK ==
  /\ rpm \in RPMs
  /\ now \in Nat
  /\ level \in 0..Cap
  /\ lastFill \in 0..now
  /\ pc \in [Clients -> {"idle", "lock", "sleep"}]
  /\ wake \in [Clients -> Int]
  /\ sent \in Seq(0..now)

Init ==
  /\ rpm \in RPMs
  /\ now = 0
  /\ level = Cap                       \* the bucket starts full
  /\ lastFill = 0
  /\ pc = [c \in Clients |-> "idle"]
  /\ wake = [c \in Clients |-> 0]
  /\ sent = <<>>

------------------------------------------------------------------------------
\* Mutant: the token is taken and l.lastFill is left where it was.
TakeTokenMutant ==
  /\ rpm > 0 /\ HasToken
  /\ level' = Refilled - Minute
  /\ sent' = Append(sent, now)
  /\ UNCHANGED lastFill

\* The critical section shared by Wait and TryTake: refill, then take.
TakeToken ==
  /\ rpm > 0 /\ HasToken
  /\ level' = Refilled - Minute
  /\ lastFill' = now
  /\ sent' = Append(sent, now)

\* Mutant: the refill is kept and l.lastFill is left where it was.
KeepRefillTwice ==
  /\ rpm > 0 /\ ~HasToken
  /\ level' = Refilled
  /\ UNCHANGED <<lastFill, sent>>

\* The same section when less than one token is there: the refill is kept.
KeepRefill ==
  /\ rpm > 0 /\ ~HasToken
  /\ level' = Refilled
  /\ lastFill' = now
  /\ UNCHANGED sent

\* A nil limiter lets the caller through at once.
PassNil ==
  /\ rpm = 0 /\ Len(sent) < MaxFree
  /\ sent' = Append(sent, now)
  /\ UNCHANGED <<level, lastFill>>

Call(c) ==
  /\ pc[c] = "idle"
  /\ pc' = [pc EXCEPT ![c] = "lock"]
  /\ UNCHANGED <<rpm, now, level, lastFill, wake, sent>>

WaitReturns(c) ==
  /\ pc[c] = "lock"
  /\ TakeToken \/ PassNil
  /\ pc' = [pc EXCEPT ![c] = "idle"]
  /\ UNCHANGED <<rpm, now, wake>>

WaitSleeps(c) ==
  /\ pc[c] = "lock"
  /\ KeepRefill
  /\ wake' = [wake EXCEPT ![c] = TokenAt(Refilled)]
  /\ pc' = [pc EXCEPT ![c] = "sleep"]
  /\ UNCHANGED <<rpm, now>>

TimerFires(c) ==
  /\ pc[c] = "sleep" /\ now >= wake[c]
  /\ pc' = [pc EXCEPT ![c] = "lock"]
  /\ UNCHANGED <<rpm, now, level, lastFill, wake, sent>>

\* ctx.Done wins the select: the task's deadline, or the worker stopping.
WaitCancelled(c) ==
  /\ pc[c] = "sleep"
  /\ pc' = [pc EXCEPT ![c] = "idle"]
  /\ UNCHANGED <<rpm, now, level, lastFill, wake, sent>>

TryTake(c) ==
  /\ pc[c] = "idle"
  /\ TakeToken \/ KeepRefill \/ PassNil
  /\ UNCHANGED <<rpm, now, pc, wake>>

Tick ==
  /\ now < MaxTime
  /\ now' = now + 1
  /\ UNCHANGED <<rpm, level, lastFill, pc, wake, sent>>

Next ==
  \/ Tick
  \/ \E c \in Clients :
       \/ Call(c) \/ WaitReturns(c) \/ WaitSleeps(c)
       \/ TimerFires(c) \/ WaitCancelled(c) \/ TryTake(c)

Spec == Init /\ [][Next]_vars

------------------------------------------------------------------------------
\* What "no request can leave the process faster than the configured rate"
\* (the package comment) comes to with New's "burst = 1 minute of budget":
\* over any stretch of time, at most rpm requests more than the rate yields in
\* it, whatever the concurrency of the callers.
WindowBound ==
  rpm > 0 =>
    \A i, j \in 1..Len(sent) :
      i < j => Minute * (j - i + 1) <= Cap + rpm * (sent[j] - sent[i])

\* Filling up lazily, by whoever comes next and from the time of the last
\* refill, is the same as a bucket that fills with the clock: no interleaving
\* of waits, cancelled waits and TryTakes gains or loses a part of a token,
\* and none is let through without taking one.
Bucket == INSTANCE TokenBucket WITH rate <- rpm, bucket <- Refilled, clock <- now
ImplementsBucket == Bucket!Spec

\* No Wait sleeps past a token: while a sleeper's timer still runs, less than
\* one token has flowed in, whoever else took tokens or kept a refill since it
\* fell asleep.  So nothing but the caller that takes its token first keeps a
\* sleeper waiting (there is no queue, and it may be overtaken again and again).
NoSleepPastToken ==
  \A c \in Clients : pc[c] = "sleep" /\ now < wake[c] => ~HasToken
==============================================================================
