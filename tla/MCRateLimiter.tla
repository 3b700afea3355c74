---------------------------- MODULE MCRateLimiter ----------------------------
(***************************************************************************)
(* A small instance of RateLimiter, run as it stands: two goroutines, a      *)
(* minute of three ticks, and a limiter that is off or grants one or two a   *)
(* minute.                                                                   *)
(***************************************************************************)
EXTENDS RateLimiter
==============================================================================
