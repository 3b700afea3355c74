----------------------------- MODULE TokenBucket -----------------------------
(***************************************************************************)
(* What the limiter's callers are promised: one bucket, full at the start,  *)
(* into which the configured rate drips with every tick of the clock until  *)
(* it is full, and from which every request takes one token at once.  It    *)
(* knows no callers, no timers and no moment of a last refill.              *)
(***************************************************************************)
EXTENDS Integers, Sequences

CONSTANTS
  RPMs,    \* the rates it may be set to; 0: no limit
  Minute   \* ticks to the minute, and units to a token

VARIABLES
  rate,    \* units that drip per tick
  bucket,  \* units in the bucket
  clock,
  sent     \* when each request was let through

vars == <<rate, bucket, clock, sent>>

Brim == rate * Minute

Init == rate \in RPMs /\ bucket = Brim /\ clock = 0 /\ sent = <<>>

Drip ==
  /\ clock' = clock + 1
  /\ bucket' = IF bucket + rate > Brim THEN Brim ELSE bucket + rate
  /\ UNCHANGED <<rate, sent>>

Grant ==
  /\ \/ rate = 0 /\ UNCHANGED bucket
     \/ rate > 0 /\ bucket >= Minute /\ bucket' = bucket - Minute
  /\ sent' = Append(sent, clock)
  /\ UNCHANGED <<rate, clock>>

Next == Drip \/ Grant

Spec == Init /\ [][Next]_vars
==============================================================================
