-------------------------------- MODULE DayMemo --------------------------------
(***************************************************************************)
(* What the API's day statistics promise: at most one scan of a day runs at *)
(* a time, the day that is served from memory is the result of such a scan, *)
(* and it is replaced only by the result of a later one.                    *)
(***************************************************************************)
EXTENDS Naturals

CONSTANTS Days, None

VARIABLES
  clock,  \* time
  scan,   \* when the running scan of a day began, or None
  memo    \* when the scan of the day in memory began, or None

vars == <<clock, scan, memo>>

Init == clock = 0 /\ scan = [d \in Days |-> None] /\ memo = [d \in Days |-> None]

Tick == clock' = clock + 1 /\ UNCHANGED <<scan, memo>>

Begin(d) == scan[d] = None /\ scan' = [scan EXCEPT ![d] = clock] /\ UNCHANGED <<clock, memo>>

Finish(d) ==
  /\ scan[d] # None
  /\ memo' = [memo EXCEPT ![d] = scan[d]] /\ scan' = [scan EXCEPT ![d] = None]
  /\ UNCHANGED clock

GiveUp(d) == scan[d] # None /\ scan' = [scan EXCEPT ![d] = None] /\ UNCHANGED <<clock, memo>>

Drop(d) == memo' = [memo EXCEPT ![d] = None] /\ UNCHANGED <<clock, scan>>

Next == Tick \/ \E d \in Days : Begin(d) \/ Finish(d) \/ GiveUp(d) \/ Drop(d)

Spec == Init /\ [][Next]_vars
================================================================================
