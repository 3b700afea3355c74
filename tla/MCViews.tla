-------------------------------- MODULE MCViews --------------------------------
EXTENDS ViewStats, TLC

\* A departure shortly after midnight, an intermediate stop after the end of a
\* day cut to ten minutes, so that both its ends fall into a trip.
MCEvents == {<<"departure", 1>>, <<"arrival", 2>>, <<"departure", 2>>}
Minute == <<1, 12>>
MCSchedule == [k \in Keys |-> IF k[1] = "departure" THEN Minute[k[3]] ELSE Minute[k[3]] - 1]
\* Before the day, in it, after it.
MCScrapes == {-6, 3, 6, 12}
MCAts == {-6, 6, 14}
MCRouteLength == [r \in Sources |-> CASE r = "" -> 0 [] r = "chg" -> 1 [] OTHER -> 2]

Report(delay, cancelled, sched, cat, platform, route) ==
  [delay |-> delay, cancelled |-> cancelled, sched |-> sched, cat |-> cat,
   platform |-> platform, route |-> route]
\* In the plan hour: nothing communicated, late, a little late on another platform,
\* cancelled with a shorter route.  Outside of it: early with a label --
\* at the first stop before midnight --, cancelled without.
MCReports ==
  {Report(None, FALSE, TRUE, TRUE, "plan", "plan"), Report(7, FALSE, TRUE, TRUE, "plan", "plan"),
   Report(3, FALSE, TRUE, TRUE, "chg", "plan"), Report(None, TRUE, TRUE, TRUE, "plan", "chg"),
   Report(-2, FALSE, FALSE, TRUE, "chg", ""), Report(9, TRUE, FALSE, FALSE, "", "")}
MCPlanKeys == {k \in Keys : k[3] = 1}

MCLineOf == [t \in Trips |-> "S 6"]

Symmetry == Permutations(Trips)
================================================================================
