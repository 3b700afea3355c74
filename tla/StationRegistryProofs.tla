------------------------- MODULE StationRegistryProofs -------------------------
(***************************************************************************)
(* Theorems about the station registry, for any number of stations, names,  *)
(* lists and cadences, whatever slugs the names get: an import can be run   *)
(* again, and no provenance is lost.                                        *)
(***************************************************************************)
EXTENDS StationRegistry, TLAPS

------------------------------------------------------------------------------
(* The invariant *)

Tables == [Evas -> Rows \cup {None}]

\* In table T some row of the list meets a slug another station holds.
ClashIn(T, u) ==
  \E i \in 1..Len(u) :
    \/ \E e \in Evas \ {u[j].eva : j \in 1..i} : T[e] # None /\ T[e].slug = SlugIn(u, i)
    \/ \E j \in 1..(i - 1) : SlugIn(u, j) = SlugIn(u, i)

\* Table T has every station of the list under the list's name and slug, and
\* would take the list again.
AppliedIn(T, u) ==
  /\ \A i \in 1..Len(u) : /\ T[u[i].eva] # None
                          /\ T[u[i].eva].name = u[i].name /\ T[u[i].eva].slug = SlugIn(u, i)
  /\ ~ClashIn(T, u)

\* Before the provenance of names is deleted, it has been copied.
Copied ==
  pc = "delete" => \A n \in Names : pending[n] # None /\ n \notin raced =>
    \A e \in Evas : stations[e] # None /\ stations[e].name = n => stations[e].from # None

RegistryInv ==
  /\ TypeOK
  /\ imported # None => AppliedIn(stations, imported)
  /\ Copied

------------------------------------------------------------------------------
(* Lists and slugs *)

LEMMA ListTyped ==
  ASSUME NEW u \in Universes
  PROVE  /\ Len(u) \in Nat
         /\ \A i \in 1..Len(u) : u[i].eva \in Evas /\ u[i].name \in Names /\ SlugIn(u, i) \in Slugs
         /\ \A i, j \in 1..Len(u) : u[i].eva = u[j].eva => i = j
  <1>1. u \in Seq([eva : Evas, name : Names])
    BY RegistryAssumption
  <1>2. Len(u) \in Nat /\ \A i \in 1..Len(u) : u[i] \in [eva : Evas, name : Names]
    <2> DEFINE S == [eva : Evas, name : Names]
    <2>1. u \in Seq(S)
      BY <1>1
    <2> HIDE DEF S
    <2>2. Len(u) \in Nat /\ \A i \in 1..Len(u) : u[i] \in S
      BY <2>1
    <2>3. QED
      BY <2>2 DEF S
  <1>3. \A i \in 1..Len(u) : u[i].eva \in Evas /\ u[i].name \in Names
    BY <1>2
  <1>4. ASSUME NEW i \in 1..Len(u)
        PROVE  SlugIn(u, i) \in Slugs
    <2>. DEFINE seen == SeenSlugs(u)[i - 1]
    <2>1. /\ (IF BaseSlug[u[i].name] = "" THEN u[i].eva ELSE BaseSlug[u[i].name]) \in Slugs
          /\ Suffixed[IF BaseSlug[u[i].name] = "" THEN u[i].eva ELSE BaseSlug[u[i].name],
                      u[i].eva] \in Slugs
      BY <1>3, RegistryAssumption
    <2>. HIDE DEF seen
    <2>2. SlugAfter(u[i], seen) \in Slugs
      BY <2>1 DEF SlugAfter
    <2>. QED
      BY <2>2 DEF SlugIn, seen
  <1>5. QED
    BY <1>2, <1>3, <1>4, RegistryAssumption

LEMMA SlotTyped ==
  ASSUME NEW s \in Slugs, cadence \in Cadences
  PROVE  Slot(s) \in Nat
  <1>1. Hash[s] \in Nat /\ cadence \in Nat \ {0}
    BY RegistryAssumption
  <1>2. QED
    BY <1>1 DEF Slot

\* The rows an import writes, one by one.
LEMMA UpsertedRow ==
  ASSUME RegistryInv, NEW u \in Universes, NEW i \in 1..Len(u)
  PROVE  /\ u[i].eva \in Evas /\ Upserted(u)[u[i].eva] \in Rows
         /\ Upserted(u)[u[i].eva].name = u[i].name
         /\ Upserted(u)[u[i].eva].slug = SlugIn(u, i)
  <1> DEFINE e == u[i].eva
             old == stations[e]
             new == [name |-> u[i].name, slug |-> SlugIn(u, i), offset |-> Slot(SlugIn(u, i)),
                     from |-> None, noIris |-> FALSE]
  <1>1. e \in Evas /\ u[i].name \in Names /\ SlugIn(u, i) \in Slugs /\ e \in Listed(u)
    BY ListTyped DEF Listed
  <1>2. (CHOOSE j \in 1..Len(u) : u[j].eva = e) = i
    BY ListTyped
  <1>3. Upserted(u)[e] =
          IF old # None THEN [old EXCEPT !.name = u[i].name, !.slug = SlugIn(u, i)] ELSE new
    BY <1>1, <1>2 DEF Upserted
  <1>4. Slot(SlugIn(u, i)) \in Nat
    BY <1>1, SlotTyped DEF RegistryInv, TypeOK
  <1>5. old # None => old \in Rows
    BY <1>1 DEF RegistryInv, TypeOK
  <1>6. CASE old # None
    <2>1. Upserted(u)[e] = [old EXCEPT !.name = u[i].name, !.slug = SlugIn(u, i)]
      BY <1>3, <1>6
    <2> DEFINE n == u[i].name
               s == SlugIn(u, i)
    <2>2. old \in Rows /\ n \in Names /\ s \in Slugs
      BY <1>1, <1>5, <1>6
    <2>3. Upserted(u)[e] = [old EXCEPT !.name = n, !.slug = s]
      BY <2>1
    <2> HIDE DEF old, e, n, s
    <2>4. [old EXCEPT !.name = n, !.slug = s] \in Rows
      BY <2>2 DEF Rows
    <2>5. [old EXCEPT !.name = n, !.slug = s].name = n
      BY <2>2 DEF Rows
    <2>6. [old EXCEPT !.name = n, !.slug = s].slug = s
      BY <2>2 DEF Rows
    <2>7. [old EXCEPT !.name = n, !.slug = s].offset = old.offset
      BY <2>2 DEF Rows
    <2>8. Upserted(u)[e] \in Rows /\ Upserted(u)[e].name = n
          /\ Upserted(u)[e].slug = s /\ Upserted(u)[e].offset = old.offset
      BY <2>4, <2>5, <2>6, <2>7, <2>3
    <2>9. QED
      BY <1>1, <1>6, <2>8 DEF old, e, n, s
  <1>7. CASE old = None
    <2>1. new \in Rows /\ new.name = u[i].name /\ new.slug = SlugIn(u, i)
          /\ new.offset = Slot(SlugIn(u, i))
      <3> HIDE DEF e, old
      <3> QED BY <1>1, <1>4 DEF Rows
    <2>2. QED
      BY <1>1, <1>3, <1>7, <2>1
  <1>8. QED
    BY <1>6, <1>7

LEMMA UpsertedTyped ==
  ASSUME RegistryInv, NEW u \in Universes
  PROVE  /\ Upserted(u) \in Tables
         /\ \A e \in Evas : e \notin Listed(u) => Upserted(u)[e] = stations[e]
  <1>1. \A e \in Evas : e \notin Listed(u) => Upserted(u)[e] = stations[e]
    BY DEF Upserted
  <1>2. \A e \in Evas : e \in Listed(u) => Upserted(u)[e] \in Rows
    BY UpsertedRow DEF Listed
  <1>3. \A e \in Evas : stations[e] \in Rows \cup {None}
    BY DEF RegistryInv, TypeOK
  <1>4. Upserted(u) = [e \in Evas |-> Upserted(u)[e]]
    BY DEF Upserted
  <1>5. \A e \in Evas : Upserted(u)[e] \in Rows \cup {None}
    BY <1>1, <1>2, <1>3
  <1>6. QED
    BY <1>1, <1>4, <1>5 DEF Tables

------------------------------------------------------------------------------
(* The steps *)

\* Table N has the rows of table T, each with its name, slug and slot.
SameRows(T, N) ==
  \A e \in Evas : /\ N[e] = None <=> T[e] = None
                  /\ N[e] # None => /\ N[e].name = T[e].name /\ N[e].slug = T[e].slug
                                    /\ N[e].offset = T[e].offset

\* Such rows keep an applied list applied.
LEMMA AppliedKept ==
  ASSUME NEW T, NEW N, NEW u \in Universes, AppliedIn(T, u), SameRows(T, N)
  PROVE  AppliedIn(N, u)
  <1>1. \A i \in 1..Len(u) : u[i].eva \in Evas
    BY ListTyped
  <1>2. \A i \in 1..Len(u) : /\ N[u[i].eva] # None
                             /\ N[u[i].eva].name = u[i].name /\ N[u[i].eva].slug = SlugIn(u, i)
    BY <1>1 DEF AppliedIn, SameRows
  <1>3. ~ClashIn(N, u)
    BY DEF AppliedIn, ClashIn, SameRows
  <1>4. QED
    BY <1>2, <1>3 DEF AppliedIn

\* What a step claims of the tables alone.
LEMMA TablesStep ==
  ASSUME RegistryInv, TypeOK', SameRows(stations, stations'),
         imported' = imported \/ imported' = None,
         Copied'
  PROVE  RegistryInv'
  <1>1. imported' # None => AppliedIn(stations', imported')
    <2> SUFFICES ASSUME imported' # None PROVE AppliedIn(stations', imported')
      OBVIOUS
    <2>1. imported' = imported /\ imported \in Universes /\ AppliedIn(stations, imported)
      BY DEF RegistryInv, TypeOK
    <2>2. \A u \in Universes : AppliedIn(stations, u) => AppliedIn(stations', u)
      BY AppliedKept
    <2>3. QED
      BY <2>1, <2>2
  <1>2. QED
    BY <1>1 DEF RegistryInv

LEMMA SameTable ==
  ASSUME RegistryInv, stations' = stations
  PROVE  stations' \in Tables /\ SameRows(stations, stations')
  BY DEF RegistryInv, TypeOK, Tables, SameRows

\* What the types say of a table.
LEMMA TableTyped ==
  ASSUME NEW T \in Tables, NEW e \in Evas, T[e] # None
  PROVE  /\ T[e] \in Rows /\ T[e].name \in Names /\ T[e].slug \in Slugs
         /\ T[e].offset \in Nat /\ T[e].noIris \in BOOLEAN /\ T[e].from \in Evas \cup {None}
  <1>1. T[e] \in Rows
    BY DEF Tables
  <1>2. QED
    BY <1>1 DEF Rows

LEMMA ImportStep ==
  ASSUME RegistryInv, Import
  PROVE  RegistryInv'
  <1> DEFINE u == universe
             N == Upserted(u)
  <1>1. u \in Universes /\ stations' = N /\ imported' = u /\ pc' = "copy"
        /\ ~ClashIn(stations, u)
    BY DEF RegistryInv, TypeOK, Import, Clash, ClashIn
  <1>2. UNCHANGED <<universe, cadence, pending, raced>>
    BY DEF Import
  <1>3. N \in Tables /\ \A e \in Evas : e \notin Listed(u) => N[e] = stations[e]
    BY <1>1, UpsertedTyped
  <1>4. \A i \in 1..Len(u) :
          /\ u[i].eva \in Evas /\ N[u[i].eva] \in Rows
          /\ N[u[i].eva].name = u[i].name /\ N[u[i].eva].slug = SlugIn(u, i)
    BY <1>1, UpsertedRow
  <1>5. TypeOK'
    BY <1>1, <1>2, <1>3 DEF RegistryInv, TypeOK, Tables
  <1>6. AppliedIn(stations', imported')
    <2>1. \A i \in 1..Len(u) : /\ N[u[i].eva] # None
                               /\ N[u[i].eva].name = u[i].name /\ N[u[i].eva].slug = SlugIn(u, i)
      BY <1>4, RegistryAssumption
    <2>2. ASSUME NEW i \in 1..Len(u), NEW e \in Evas \ {u[j].eva : j \in 1..i},
                 N[e] # None, N[e].slug = SlugIn(u, i)
          PROVE  FALSE
      <3>1. CASE e \in Listed(u)
        <4>1. PICK j \in 1..Len(u) : u[j].eva = e
          BY <3>1 DEF Listed
        <4>2. i \in 1..(j - 1)
          <5>1. i \in Int /\ j \in Int /\ i >= 1 /\ j >= 1
            BY <1>1, ListTyped
          <5>2. ~(j \in 1..i)
            BY <4>1
          <5>3. QED
            BY <5>1, <5>2
        <4>3. SlugIn(u, i) # SlugIn(u, j)
          BY <1>1, <4>2 DEF ClashIn
        <4>4. QED
          BY <1>4, <2>2, <4>1, <4>3
      <3>2. CASE e \notin Listed(u)
        <4>1. N[e] = stations[e]
          BY <1>3, <3>2
        <4>2. QED
          BY <1>1, <2>2, <4>1 DEF ClashIn
      <3>3. QED
        BY <3>1, <3>2
    <2>3. ~ClashIn(N, u)
      BY <1>1, <2>2 DEF ClashIn
    <2>4. QED
      BY <1>1, <2>1, <2>3 DEF AppliedIn
  <1>8. Copied'
    BY <1>1 DEF Copied
  <1>9. QED
    BY <1>5, <1>6, <1>8 DEF RegistryInv

LEMMA CopyStep ==
  ASSUME RegistryInv, CopyProvenance
  PROVE  RegistryInv'
  <1> DEFINE From(e) == IF stations[e].from = None THEN pending[stations[e].name] ELSE stations[e].from
  <1>1. ASSUME NEW e \in Evas
        PROVE  /\ stations'[e] = None <=> stations[e] = None
               /\ stations[e] # None =>
                    /\ stations'[e] \in Rows /\ stations'[e].name = stations[e].name
                    /\ stations'[e].slug = stations[e].slug /\ stations'[e].offset = stations[e].offset
                    /\ stations'[e].from = From(e)
    <2> DEFINE r == stations[e]
    <2>1. stations'[e] = IF r # None /\ r.from = None
                         THEN [r EXCEPT !.from = pending[r.name]] ELSE r
      BY DEF CopyProvenance
    <2>2. r # None => r \in Rows /\ r.name \in Names /\ r.from \in Evas \cup {None}
      BY DEF RegistryInv, TypeOK, Rows
    <2>3. r # None => pending[r.name] \in Evas \cup {None}
      BY <2>2 DEF RegistryInv, TypeOK
    <2>4. ASSUME r # None, r.from = None
          PROVE  [r EXCEPT !.from = pending[r.name]] \in Rows
      <3> HIDE DEF r
      <3> QED BY <2>2, <2>3, <2>4 DEF Rows
    <2>5. ASSUME r # None, r.from = None
          PROVE  LET q == [r EXCEPT !.from = pending[r.name]]
                 IN q.name = r.name /\ q.slug = r.slug /\ q.offset = r.offset /\ q.from = pending[r.name]
      <3> HIDE DEF r
      <3> QED BY <2>2, <2>5 DEF Rows
    <2>6. None \notin Rows
      BY RegistryAssumption
    <2> HIDE DEF r
    <2>7. CASE r # None /\ r.from = None
      BY <2>1, <2>4, <2>5, <2>6, <2>7 DEF r
    <2>8. CASE ~(r # None /\ r.from = None)
      BY <2>1, <2>2, <2>8 DEF r
    <2>9. QED
      BY <2>7, <2>8
  <1>2. /\ pc' = "delete" /\ raced' = {} /\ DOMAIN stations' = Evas
        /\ stations' = [e \in Evas |-> stations'[e]]
        /\ UNCHANGED <<universe, cadence, pending, imported>>
    BY DEF CopyProvenance
  <1>3. stations' \in Tables
    BY <1>1, <1>2 DEF Tables
  <1>4. TypeOK'
    BY <1>2, <1>3 DEF RegistryInv, TypeOK, Tables
  <1>5. SameRows(stations, stations')
    BY <1>1 DEF SameRows
  <1>6. Copied'
    <2> SUFFICES ASSUME NEW n \in Names, pending[n] # None, NEW e \in Evas,
                        stations'[e] # None, stations'[e].name = n
                 PROVE  stations'[e].from # None
      BY <1>2 DEF Copied
    <2>1. stations[e] # None /\ stations[e].name = n /\ stations'[e].from = From(e)
      BY <1>1
    <2>2. QED
      BY <2>1
  <1>7. QED
    BY <1>2, <1>4, <1>5, <1>6, TablesStep

\* Statements that leave the table alone, and pending names as they were
\* unless the provenance is not copied yet or the name is noted as raced.
LEMMA TableAlone ==
  ASSUME RegistryInv, TypeOK', stations' = stations, imported' = imported \/ imported' = None,
         pc' = "delete" => pc = "delete",
         pc' = "delete" => raced \subseteq raced',
         pc = "delete" => \A n \in Names : pending'[n] = pending[n] \/ n \in raced' \/ pending'[n] = None
  PROVE  RegistryInv'
  <1>1. SameRows(stations, stations')
    BY SameTable
  <1>2. Copied'
    BY DEF RegistryInv, Copied
  <1>3. QED
    BY <1>1, <1>2, TablesStep

LEMMA DeleteStep ==
  ASSUME RegistryInv, DeleteResolved
  PROVE  RegistryInv'
  <1>1. TypeOK'
    BY DEF RegistryInv, TypeOK, DeleteResolved
  <1>2. QED
    BY <1>1, TableAlone DEF DeleteResolved

LEMMA ImporterRestStep ==
  ASSUME RegistryInv, StadaChanges \/ CadenceChanges \/ ResolveOnly \/ ResolveFails
  PROVE  RegistryInv'
  <1>1. TypeOK'
    BY DEF RegistryInv, TypeOK, StadaChanges, CadenceChanges, ResolveOnly, ResolveFails
  <1>2. QED
    BY <1>1, TableAlone DEF StadaChanges, CadenceChanges, ResolveOnly, ResolveFails

LEMMA NameStep ==
  ASSUME RegistryInv, NEW n \in Names, NEW e \in Fetched, RecordName(n, e)
  PROVE  RegistryInv'
  <1>1. TypeOK'
    <2>1. e \in Evas
      BY RegistryAssumption
    <2>. QED
      BY <2>1 DEF RegistryInv, TypeOK, RecordName
  <1>2. \A m \in Names : pending'[m] = pending[m] \/ (m = n /\ (pc = "delete" => m \in raced'))
    BY DEF RegistryInv, TypeOK, RecordName
  <1>3. raced \subseteq raced'
    BY DEF RecordName
  <1>. QED
    BY <1>1, <1>2, <1>3, TableAlone DEF RecordName

LEMMA MarkStep ==
  ASSUME RegistryInv, NEW e \in Fetched, MarkNoIris(e)
  PROVE  RegistryInv'
  <1> DEFINE r == stations[e]
             new == [r EXCEPT !.noIris = TRUE]
  <1>0. e \in Evas
    BY RegistryAssumption
  <1>1. r \in Rows /\ r # None
    BY <1>0 DEF RegistryInv, TypeOK, MarkNoIris
  <1>2. new \in Rows /\ new.name = r.name /\ new.slug = r.slug /\ new.offset = r.offset
        /\ new.from = r.from
    <2> HIDE DEF r
    <2> QED BY <1>1 DEF Rows
  <1>3. new # None
    BY <1>2, RegistryAssumption
  <1>4. stations' = [stations EXCEPT ![e] = new]
    BY DEF MarkNoIris
  <1> HIDE DEF new
  <1>5. stations' \in Tables
    BY <1>2, <1>4 DEF RegistryInv, TypeOK, Tables
  <1>6. TypeOK'
    BY <1>5 DEF RegistryInv, TypeOK, Tables, MarkNoIris
  <1>7. \A x \in Evas : /\ stations'[x] = None <=> stations[x] = None
                        /\ stations'[x] # None =>
                             /\ stations'[x].name = stations[x].name
                             /\ stations'[x].slug = stations[x].slug
                             /\ stations'[x].offset = stations[x].offset
                             /\ stations'[x].from = stations[x].from
    BY <1>0, <1>1, <1>2, <1>3, <1>4 DEF RegistryInv, TypeOK
  <1>8. SameRows(stations, stations')
    BY <1>7 DEF SameRows
  <1>9. Copied'
    BY <1>7 DEF RegistryInv, Copied, MarkNoIris
  <1>10. QED
    BY <1>6, <1>8, <1>9, TablesStep DEF MarkNoIris

LEMMA InvStep == RegistryInv /\ [Next]_vars => RegistryInv'
  <1> SUFFICES ASSUME RegistryInv, [Next]_vars PROVE RegistryInv'
    OBVIOUS
  <1>1. CASE UNCHANGED vars
    BY <1>1 DEF vars, RegistryInv, TypeOK, AppliedIn, ClashIn, Copied
  <1>2. CASE ImportAborts
    BY <1>2 DEF ImportAborts, vars, RegistryInv, TypeOK, AppliedIn, ClashIn, Copied
  <1>3. QED
    BY <1>1, <1>2, ImportStep, CopyStep, DeleteStep, ImporterRestStep, NameStep, MarkStep DEF Next

LEMMA InvInit == Init => RegistryInv
  BY DEF Init, RegistryInv, TypeOK, Copied

------------------------------------------------------------------------------
(* Theorems *)

\* The strengthened invariant of the registry.
THEOREM RegistryInvariant == Spec => []RegistryInv
  BY InvInit, InvStep, PTL DEF Spec

\* The tables stay well-typed through imports, workers' discoveries and marks.
THEOREM RegistryTypeCorrect == Spec => []TypeOK
  <1>1. RegistryInv => TypeOK
    BY DEF RegistryInv
  <1>2. QED
    BY <1>1, RegistryInvariant, PTL

LEMMA AppliedAgain ==
  ASSUME RegistryInv, imported # None
  PROVE  ~Clash(imported) /\ Upserted(imported) = stations
  <1>1. imported \in Universes /\ AppliedIn(stations, imported)
    BY DEF RegistryInv, TypeOK
  <1>2. ~Clash(imported)
    BY <1>1 DEF AppliedIn, ClashIn, Clash
  <1>3. ASSUME NEW u \in Universes, AppliedIn(stations, u), NEW e \in Evas
        PROVE  Upserted(u)[e] = stations[e]
    <2>1. CASE e \in Listed(u)
      <3>1. PICK i \in 1..Len(u) : u[i].eva = e
        BY <2>1 DEF Listed
      <3>2. (CHOOSE j \in 1..Len(u) : u[j].eva = e) = i
        BY <3>1, ListTyped
      <3>3. stations[e] # None /\ stations[e].name = u[i].name /\ stations[e].slug = SlugIn(u, i)
        BY <1>3, <3>1 DEF AppliedIn
      <3>4. Upserted(u)[e] = [stations[e] EXCEPT !.name = u[i].name, !.slug = SlugIn(u, i)]
        BY <2>1, <3>2, <3>3 DEF Upserted
      <3>5. stations[e] \in Rows
        BY <3>3 DEF RegistryInv, TypeOK
      <3>6. \A r \in Rows : [r EXCEPT !.name = r.name, !.slug = r.slug] = r
        BY DEF Rows
      <3>7. QED
        BY <3>3, <3>4, <3>5, <3>6
    <2>2. CASE e \notin Listed(u)
      BY <2>2 DEF Upserted
    <2>3. QED
      BY <2>1, <2>2
  <1>4. \A u \in Universes : Upserted(u) = [e \in Evas |-> Upserted(u)[e]]
    BY DEF Upserted
  <1>5. stations = [e \in Evas |-> stations[e]]
    BY DEF RegistryInv, TypeOK
  <1>6. QED
    BY <1>1, <1>2, <1>3, <1>4, <1>5

\* An import can be run again with the list it last took: it goes through and
\* changes nothing.
THEOREM RegistryImportIdempotent == Spec => []ImportIdempotent
  <1>1. RegistryInv => ImportIdempotent
    BY AppliedAgain DEF ImportIdempotent
  <1>2. QED
    BY <1>1, RegistryInvariant, PTL

\* A pending name leaves its table only into the provenance of its stations,
\* unless it was recorded after the provenance was copied.
THEOREM RegistryProvenanceKept == Spec => ProvenanceKept
  <1>1. ASSUME RegistryInv, [Next]_vars, NEW n \in Names,
               pending[n] # None, pending'[n] = None, n \notin raced
        PROVE  \A e \in Evas : stations[e] # None /\ stations[e].name = n => stations[e].from # None
    <2>1. CASE DeleteResolved
      BY <1>1, <2>1 DEF DeleteResolved, RegistryInv, Copied
    <2>2. CASE \E m \in Names, e \in Fetched : RecordName(m, e)
      BY <1>1, <2>2 DEF RecordName, RegistryInv, TypeOK
    <2>3. CASE UNCHANGED pending
      BY <1>1, <2>3
    <2>4. QED
      BY <1>1, <2>1, <2>2, <2>3
      DEF Next, vars, StadaChanges, CadenceChanges, Import, ImportAborts, ResolveOnly,
          CopyProvenance, ResolveFails, MarkNoIris
  <1>2. RegistryInv /\ [Next]_vars =>
          [\A n \in Names : pending[n] # None /\ pending'[n] = None /\ n \notin raced =>
             \A e \in Evas : stations[e] # None /\ stations[e].name = n => stations[e].from # None]_vars
    BY <1>1
  <1>3. QED
    BY <1>2, RegistryInvariant, PTL DEF Spec, ProvenanceKept
================================================================================
