------------------------------- MODULE ViewStats -------------------------------
(***************************************************************************)
(* The figures cmd/api computes from the trips of a day: percentiles,       *)
(* punctuality, the hours of the day and the leaderboard of lines.          *)
(*                                                                         *)
(* A list of delays is a function from trips: its order plays no part.      *)
(***************************************************************************)
EXTENDS Views, Functions

CONSTANTS
  LineOf,     \* [Trips -> line key]
  LeaderMin   \* trips a line needs for the leaderboard (3)

ASSUME StatsAssumption == DOMAIN LineOf = Trips /\ LeaderMin \in Nat \ {0}

\* The entry at index i, from zero, of the sorted values.
Ranked(f, i) == CHOOSE v \in {f[t] : t \in DOMAIN f} :
  /\ Cardinality({t \in DOMAIN f : f[t] < v}) <= i
  /\ Cardinality({t \in DOMAIN f : f[t] <= v}) > i

\* Mutant: the largest of the first p per cent.
PercentileMutant(f, p) ==
  LET n == Cardinality(DOMAIN f)
      i == (p * n) \div 100
  IN IF n = 0 THEN 0 ELSE Ranked(f, IF i = 0 THEN 0 ELSE i - 1)
Percentile(f, p) ==
  LET n == Cardinality(DOMAIN f)
      i == (p * n) \div 100
  IN IF n = 0 THEN 0 ELSE Ranked(f, IF i < n THEN i ELSE n - 1)

\* maxInt starts from zero.
MaxInt(f) == CHOOSE m \in {0} \cup {f[t] : t \in DOMAIN f} : m >= 0 /\ \A t \in DOMAIN f : f[t] <= m

PuncOf(f) ==
  IF DOMAIN f = {} THEN 0
  ELSE (100 * Cardinality({t \in DOMAIN f : f[t] <= 5})) \div Cardinality(DOMAIN f)

\* Go's remainder has the sign of the dividend.
GoRem(a, b) == IF a < 0 THEN -((-a) % b) ELSE a % b

\* Mutant: the remainder is taken as it is (and Go's quotient rounds to zero).
HourOfMutant(dep) ==
  LET m == GoRem(dep, 1440) IN IF m < 0 THEN -((-m) \div 60) ELSE m \div 60
HourOf(dep) == GoRem(GoRem(dep, 1440) + 1440, 1440) \div 60

------------------------------------------------------------------------------
(* A day: facts is a function from the counted trips to their DayTrip *)

Ran(facts) == {t \in DOMAIN facts : ~facts[t].cancelled}
Delays(facts, T) == [t \in T |-> facts[t].delay]
Hours(facts) ==
  [h \in {HourOf(facts[t].dep) : t \in Ran(facts)} |->
     Cardinality({t \in Ran(facts) : HourOf(facts[t].dep) = h})]
Kpis(facts) ==
  [runs |-> Cardinality(DOMAIN facts), cx |-> Cardinality(DOMAIN facts \ Ran(facts)),
   punc |-> PuncOf(Delays(facts, Ran(facts)))]

Summary(n, cx, fin) ==
  [n |-> n, cx |-> cx, p50 |-> Percentile(fin, 50), p90 |-> Percentile(fin, 90),
   max |-> MaxInt(fin), punc |-> PuncOf(fin)]

\* A line's row, of the trips that ran and the number of those that did not.
LeaderRow(facts, l) ==
  LET all == {t \in DOMAIN facts : LineOf[t] = l}
  IN Summary(Cardinality(all), Cardinality(all \ Ran(facts)), Delays(facts, all \cap Ran(facts)))

\* The lines of which a trip ran, if the day has trips enough of them.
Leaders(facts) ==
  {l \in {LineOf[t] : t \in Ran(facts)} : LeaderRow(facts, l).n >= LeaderMin}

\* buildLine's figures, of the picked stops of every trip of the line.
LineStats(P, l) ==
  LET all == {t \in DOMAIN P : LineOf[t] = l /\ DOMAIN P[t] # {}}
      cx == {t \in all : LineCancelled(P[t])}
  IN Summary(Cardinality(all), Cardinality(cx), [t \in all \ cx |-> LineDelay(P[t])])

------------------------------------------------------------------------------
(* Properties *)

\* What the queries may pick for every trip, and the day's list of it.
DayPicks == {P \in [Trips -> UNION {Picks(t) : t \in Trips}] : \A t \in Trips : P[t] \in Picks(t)}
Facts(P) == [t \in {t \in Trips : Departures(P[t]) # {}} |-> DayTrip(P[t])]

\* The figures of a list of delays fit each other: percentiles and maximum in
\* their order, and at least 90 per cent are punctual if the 90th percentile
\* is, at most 90 if it is not.
Fits(row) ==
  /\ row.p50 <= row.p90 /\ row.p90 <= row.max
  /\ row.n > row.cx => IF row.p90 <= 5 THEN row.punc >= 90 ELSE row.punc <= 90

\* Of every line on the leaderboard and on its own page the figures fit, a
\* line on the leaderboard has a run that was not cancelled, and the leaderboard
\* counts no trip the page does not -- each of its own query's picks.
StatsAgree == \A P, Q \in DayPicks : \A l \in {LineOf[t] : t \in Trips} :
  LET row == LeaderRow(Facts(P), l)
      page == LineStats(Q, l)
  IN /\ Fits(page) /\ row.n <= page.n
     /\ l \in Leaders(Facts(P)) => Fits(row) /\ row.n > row.cx

\* The hours are those of the clock, also of a departure before the day's
\* midnight, and the trips of the day are in its hours, or cancelled.
HoursAddUp == \A P \in DayPicks :
  LET facts == Facts(P)
      hours == Hours(facts)
      kpis == Kpis(facts)
  IN /\ DOMAIN hours \subseteq 0..23
     /\ \A t \in Ran(facts) : (facts[t].dep % 1440) \div 60 \in DOMAIN hours
     /\ FoldFunction(+, 0, hours) + kpis.cx = kpis.runs
================================================================================
