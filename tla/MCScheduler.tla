----------------------------- MODULE MCScheduler -----------------------------
(***************************************************************************)
(* A small instance of Scheduler: a cadence of three minutes, stations in   *)
(* two of the three slots, and an export minute in the second cycle.        *)
(***************************************************************************)
EXTENDS Scheduler

CONSTANTS s0, s2

MCOffset == [s \in {s0, s2} |-> IF s = s0 THEN 0 ELSE 2]
==============================================================================
