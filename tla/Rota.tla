--------------------------------- MODULE Rota ---------------------------------
(***************************************************************************)
(* What the stations are promised by the scheduler: a rota of minutes.      *)
(* Every minute is served once, in order and never early; to serve it means *)
(* that each station whose turn it is gets its task for that minute, or has *)
(* lost it.  A restarted scheduler goes on with the minute it starts in.    *)
(* It knows no ticks, no catching up and no cycle but a station's turn.     *)
(***************************************************************************)
EXTENDS Integers

CONSTANTS
  Stations,
  Offset,    \* [Stations -> Nat]: the slot of a station
  Cadence    \* minutes of a cycle

VARIABLES
  clock,     \* the minute
  next,      \* the next minute to be served
  noIris,    \* the stations taken off the rota
  enqueued,  \* <<station, minute>> of the tasks handed out
  lost       \* <<station, minute>> of those that were not

vars == <<clock, next, noIris, enqueued, lost>>

Turn(m) == {s \in Stations : Offset[s] = m % Cadence /\ s \notin noIris}

Init ==
  /\ clock \in 0..(Cadence - 1) /\ next = clock
  /\ noIris = {} /\ enqueued = {} /\ lost = {}

Pass == clock' = clock + 1 /\ UNCHANGED <<next, noIris, enqueued, lost>>

Withdraw ==
  /\ \E s \in Stations \ noIris : noIris' = noIris \cup {s}
  /\ UNCHANGED <<clock, next, enqueued, lost>>

Serve ==
  /\ next <= clock
  /\ \E down \in SUBSET Turn(next) :
       /\ enqueued' = enqueued \cup ((Turn(next) \ down) \X {next})
       /\ lost' = lost \cup (down \X {next})
  /\ next' = next + 1
  /\ UNCHANGED <<clock, noIris>>

StartOver == next' = clock /\ UNCHANGED <<clock, noIris, enqueued, lost>>

Next == Pass \/ Withdraw \/ Serve \/ StartOver

Spec == Init /\ [][Next]_vars
================================================================================
