--------------------------- MODULE StationRegistry ---------------------------
(***************************************************************************)
(* The station universe: cmd/stationimport, which upserts what StaDa lists  *)
(* into the stations table and resolves pending names, beside the workers   *)
(* that discover names on the boards and mark stations no_iris.             *)
(*                                                                         *)
(* The upsert of a whole list is one transaction that the UNIQUE slug       *)
(* aborts; the two statements that resolve pending names are not in one, so *)
(* workers (and failures) come in between.                                  *)
(***************************************************************************)
EXTENDS Integers, Sequences

CONSTANTS
  Evas,       \* EVA numbers
  Names,      \* station names
  Fetched,    \* stations whose tasks run: they record names, and are marked no_iris
  Slugs,      \* slugs, the EVA numbers among them
  BaseSlug,   \* [Names -> slug or ""]: shared.Slugify
  Suffixed,   \* [<<slug, eva>> -> slug]: the slug with "-" and the EVA appended
  Hash,       \* [Slugs -> Nat]: shared.FetchOffsetHash
  Universes,  \* lists StaDa may return: sequences of [eva, name], EVAs distinct
  Cadences,   \* values CADENCE_MINUTES is given over time
  None

\* What the stations table holds of a station.
Rows == [name : Names, slug : Slugs, offset : Nat, from : Evas \cup {None}, noIris : BOOLEAN]

ASSUME RegistryAssumption ==
  /\ Fetched \subseteq Evas /\ Evas \subseteq Slugs
  /\ \A n \in Names : BaseSlug[n] # "" => BaseSlug[n] \in Slugs
  /\ \A n \in Names, e \in Evas :
       Suffixed[IF BaseSlug[n] = "" THEN e ELSE BaseSlug[n], e] \in Slugs
  /\ Hash \in [Slugs -> Nat]
  /\ Cadences \subseteq Nat \ {0}
  /\ None \notin Evas /\ None \notin Rows /\ None \notin Universes
  /\ \A u \in Universes :
       /\ u \in Seq([eva : Evas, name : Names])
       /\ \A i, j \in 1..Len(u) : u[i].eva = u[j].eva => i = j

VARIABLES
  universe,   \* StaDa: the list it would return now
  cadence,    \* the environment both stationimport and scheduler run with
  stations,   \* database: [Evas -> row or None]
  pending,    \* database: [Names -> seen_from, or None when not pending]
  pc,         \* stationimport: not running, or at its next statement
  imported,   \* history: the list last imported, or None
  raced       \* history: names recorded between the two resolve statements

vars == <<universe, cadence, stations, pending, pc, imported, raced>>

Listed(u) == {u[i].eva : i \in 1..Len(u)}
Known(n) == \E e \in Evas : stations[e] # None /\ stations[e].name = n

\* The slug of row r after a list whose slugs are seen: a name without one goes
\* by its EVA, and a slug that was seen gets the EVA appended -- which is not
\* looked up again.
SlugAfter(r, seen) ==
  LET base == IF BaseSlug[r.name] = "" THEN r.eva ELSE BaseSlug[r.name]
  IN IF base \in seen THEN Suffixed[base, r.eva] ELSE base

\* seenSlugs once the first i rows of the list are upserted.
SeenSlugs(u) ==
  LET seen[i \in 0..Len(u)] ==
        IF i = 0 THEN {} ELSE seen[i - 1] \cup {SlugAfter(u[i], seen[i - 1])}
  IN seen

\* Mutant: a slug counts as seen when any row of the table has it.
SlugInMutant(u, i) ==
  SlugAfter(u[i], {stations[e].slug : e \in {x \in Evas : stations[x] # None}})
SlugIn(u, i) == SlugAfter(u[i], SeenSlugs(u)[i - 1])

\* The UNIQUE slug: at row i another station holds the slug, be it one this
\* transaction has not reached yet or does not list, or an earlier row's.
Clash(u) ==
  \E i \in 1..Len(u) :
    \/ \E e \in Evas \ {u[j].eva : j \in 1..i} : stations[e] # None /\ stations[e].slug = SlugIn(u, i)
    \/ \E j \in 1..(i - 1) : SlugIn(u, j) = SlugIn(u, i)

Slot(slug) == Hash[slug] % cadence

\* ON CONFLICT (eva) DO UPDATE sets name and slug; the slot of a row, its
\* provenance and its no_iris mark stay as they are.
Upserted(u) ==
  [e \in Evas |->
    IF e \notin Listed(u) THEN stations[e]
    ELSE LET i == CHOOSE i \in 1..Len(u) : u[i].eva = e
         IN IF stations[e] # None
            THEN [stations[e] EXCEPT !.name = u[i].name, !.slug = SlugIn(u, i)]
            ELSE [name |-> u[i].name, slug |-> SlugIn(u, i), offset |-> Slot(SlugIn(u, i)),
                  from |-> None, noIris |-> FALSE]]

TypeOK ==
  /\ universe \in Universes /\ cadence \in Cadences
  /\ stations \in [Evas -> Rows \cup {None}]
  /\ pending \in [Names -> Evas \cup {None}]
  /\ pc \in {"idle", "copy", "delete"}
  /\ imported \in Universes \cup {None} /\ raced \subseteq Names

Init ==
  /\ universe \in Universes /\ cadence \in Cadences
  /\ stations = [e \in Evas |-> None]
  /\ pending = [n \in Names |-> None]
  /\ pc = "idle"
  /\ imported = None /\ raced = {}

------------------------------------------------------------------------------
StadaChanges ==
  /\ universe' \in Universes
  /\ UNCHANGED <<cadence, stations, pending, pc, imported, raced>>

\* The operator gives scheduler and stationimport another cadence.
CadenceChanges ==
  /\ \E c \in Cadences \ {cadence} : cadence' = c
  /\ UNCHANGED <<universe, stations, pending, pc, imported, raced>>

\* A full import; it goes on to resolve pending names.
Import ==
  /\ pc = "idle" /\ ~Clash(universe)
  /\ stations' = Upserted(universe)
  /\ imported' = universe
  /\ pc' = "copy"
  /\ UNCHANGED <<universe, cadence, pending, raced>>

\* One clash rolls the whole list back and ends the program before it
\* resolves anything.
ImportAborts ==
  /\ pc = "idle" /\ Clash(universe)
  /\ UNCHANGED vars

ResolveOnly ==
  /\ pc = "idle" /\ pc' = "copy"
  /\ UNCHANGED <<universe, cadence, stations, pending, imported, raced>>

\* Mutant: provenance is copied where there is some already.
CopyProvenanceMutant ==
  /\ pc = "copy" /\ pc' = "delete"
  /\ stations' = [e \in Evas |->
       IF stations[e] # None /\ stations[e].from # None
       THEN [stations[e] EXCEPT !.from = pending[stations[e].name]]
       ELSE stations[e]]
  /\ raced' = {}
  /\ UNCHANGED <<universe, cadence, pending, imported>>
CopyProvenance ==
  /\ pc = "copy" /\ pc' = "delete"
  /\ stations' = [e \in Evas |->
       IF stations[e] # None /\ stations[e].from = None
       THEN [stations[e] EXCEPT !.from = pending[stations[e].name]]
       ELSE stations[e]]
  /\ raced' = {}
  /\ UNCHANGED <<universe, cadence, pending, imported>>

DeleteResolved ==
  /\ pc = "delete" /\ pc' = "idle"
  /\ pending' = [n \in Names |-> IF Known(n) THEN None ELSE pending[n]]
  /\ raced' = {}
  /\ UNCHANGED <<universe, cadence, stations, imported>>

\* Either statement fails or the process is stopped: what is done stays done.
ResolveFails ==
  /\ pc # "idle" /\ pc' = "idle"
  /\ raced' = {}
  /\ UNCHANGED <<universe, cadence, stations, pending, imported>>

------------------------------------------------------------------------------
\* Mutant: the two columns of the insert are swapped.
RecordNameMutant(n, e) ==
  /\ pending' = [pending EXCEPT ![n] = n]
  /\ raced' = IF pc = "delete" THEN raced \cup {n} ELSE raced
  /\ UNCHANGED <<universe, cadence, stations, pc, imported>>
\* A worker records a name: one that a board task once found to be neither a
\* station nor pending, whatever has become of it, or any that a
\* station:resolve task brings.
RecordName(n, e) ==
  /\ pending' = [pending EXCEPT ![n] = IF @ = None THEN e ELSE @]
  /\ raced' = IF pc = "delete" THEN raced \cup {n} ELSE raced
  /\ UNCHANGED <<universe, cadence, stations, pc, imported>>

MarkNoIris(e) ==
  /\ stations[e] # None
  /\ stations' = [stations EXCEPT ![e].noIris = TRUE]
  /\ UNCHANGED <<universe, cadence, pending, pc, imported, raced>>

Next ==
  \/ StadaChanges \/ CadenceChanges
  \/ Import \/ ImportAborts \/ ResolveOnly \/ CopyProvenance \/ DeleteResolved \/ ResolveFails
  \/ \E e \in Fetched : MarkNoIris(e)
  \/ \E n \in Names, e \in Fetched : RecordName(n, e)

Spec == Init /\ [][Next]_vars

------------------------------------------------------------------------------
(* Properties *)

\* An import can be run again: with the list it last took, it goes through and
\* leaves every name, slug (the URL of the station's page) and slot as it is --
\* the slots also when the cadence is another one by then.
ImportIdempotent ==
  imported # None => ~Clash(imported) /\ Upserted(imported) = stations

\* "Make each slug unique by appending the EVA on collision": no list of
\* distinct EVAs is turned down for its slugs.
ImportNeverClashes == pc = "idle" => ~Clash(universe)

\* A pending name leaves the table only into the provenance of its stations,
\* unless it was recorded after the provenance was copied.
ProvenanceKept ==
  [][\A n \in Names : pending[n] # None /\ pending'[n] = None /\ n \notin raced =>
       \A e \in Evas : stations[e] # None /\ stations[e].name = n => stations[e].from # None]_vars
==============================================================================
