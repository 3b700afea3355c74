------------------------------ MODULE MCDayCache ------------------------------
(* Two clients and the warm-up around one midnight. *)
EXTENDS DayCache

OneDay == {0}
================================================================================
