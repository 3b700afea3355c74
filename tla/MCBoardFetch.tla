----------------------------- MODULE MCBoardFetch -----------------------------
(***************************************************************************)
(* A small instance of BoardFetch: one train's arrival and departure at the *)
(* station, both in the plan of the second hour, so that they can be seen   *)
(* before their plan hour.  For the departure IRIS communicates a delay,    *)
(* with or without its schedule; for the arrival a platform change without  *)
(* any time, which only the plan makes an event of.                         *)
(***************************************************************************)
EXTENDS BoardFetch, TLC

CONSTANTS arr, dep

MCSchedule == [k \in {arr, dep} |-> 0]
MCPlanHour == [k \in {arr, dep} |-> 2]

Untimed == [ct |-> None, chg |-> TRUE, pt |-> FALSE]
Delayed == [ct |-> 5, chg |-> FALSE, pt |-> FALSE]
Scheduled == [ct |-> 5, chg |-> FALSE, pt |-> TRUE]
MCChanges == [k \in {arr, dep} |-> IF k = arr THEN {Untimed} ELSE {Delayed, Scheduled}]

TaskSymmetry == Permutations(Tasks)
==============================================================================
