----------------------------- MODULE ExportProofs -----------------------------
(***************************************************************************)
(* Proofs about the monthly export, for any number of months, notes,        *)
(* attempts, faults, re-exports and changes of the database.                *)
(***************************************************************************)
EXTENDS ExportPipeline, FiniteSetTheorems, TLAPS

\* Files whose manifest has the checksum of the rows beside it, or none, and a
\* coverage that was queried no earlier than they.
Whole(c) == c.manifest.rows \in {c.rows, None} /\ c.rows <= c.manifest.coverage

ChunkType == [rows : Versions, manifest : Manifests]
Hubs ==
  [chunk : [Months -> ChunkType \cup {None}], stations : Versions \cup {None},
   index : SUBSET Months]

\* What TypeOK says of everything but the tasks, the chunks and the hub.
Surroundings ==
  /\ db \in Versions
  /\ note \in [Notes -> {"unfiled", "filed", "removed"}]
  /\ triggered \subseteq Months /\ index \subseteq Months
  /\ failures \in 0..MaxFailures /\ reexports \in 0..MaxReexports
  /\ overlap \in BOOLEAN /\ lost \in BOOLEAN /\ crashed \in BOOLEAN

\* Where the export j of month m stands, and what it then may rely on: the
\* files d of its directory it has written in this attempt, the body of its
\* commit, and, when no answer was ever lost, the chunk c it has published.
StageIs(m, j, d, c, version, sure) ==
  /\ j.pc # "archived" => j.tries < MaxTries
  /\ j.pc \in {"rows", "stations", "manifest", "cards", "upload"} => d \in Files
  /\ j.pc \in {"stations", "manifest", "cards", "upload"} => d.rows \in 0..version
  /\ j.pc \in {"manifest", "cards", "upload"} => d.stations \in Versions
  /\ j.pc \in {"cards", "upload"} =>
       d.manifest \in Manifests /\ Whole(d) /\ d.manifest.notes = j.notes
  /\ j.pc = "commit" =>
       /\ j.body \in Requests /\ Whole(j.body)
       /\ j.body.month = m /\ j.body.manifest.notes = j.notes
  /\ j.pc = "consume" /\ sure => c # None /\ j.notes \subseteq c.manifest.notes

Stage(m) == StageIs(m, job[m], disk[m], hub.chunk[m], db, ~lost)

\* What is still under way is of one piece too, and there only after an answer
\* was lost.
StrayWhole == \A r \in stray : lost /\ Whole(r)

ExportInv ==
  /\ TypeOK
  /\ \A m \in Months : Stage(m)
  /\ StrayWhole
  /\ ChunkWhole

------------------------------------------------------------------------------
(* Helpers *)

\* TypeOK by its parts.
LEMMA TypeParts ==
  TypeOK <=> /\ Surroundings
             /\ job \in [Months -> Jobs]
             /\ disk \in [Months -> Files \cup {None}]
             /\ hub \in Hubs
             /\ stray \subseteq Requests
  BY DEF TypeOK, Surroundings, Hubs, ChunkType

\* A chunk is not mistaken for a missing one.
LEMMA ChunkPresent ==
  None \notin ChunkType
  <1>1. Versions \subseteq Nat
    BY ExportAssumption DEF ExportAssumption, Versions
  <1>2. Manifests \subseteq [rows : Nat \cup {None}, stations : Nat \cup {None},
                              coverage : Nat, notes : SUBSET Notes]
    BY <1>1 DEF Manifests
  <1>3. QED
    BY <1>1, <1>2, ExportAssumption DEF ExportAssumption, ChunkType

\* An attempt that failed waits for the next one, or there is none left.
LEMMA RetriedTyped ==
  ASSUME NEW j \in Jobs, j.tries < MaxTries
  PROVE  /\ Retried(j) \in Jobs
         /\ Retried(j).pc \in {"queued", "archived"}
         /\ Retried(j).pc # "archived" => Retried(j).tries < MaxTries
  <1>1. j.tries \in Nat /\ j.tries + 1 \in 0..MaxTries
    BY ExportAssumption DEF Jobs, ExportAssumption
  <1>2. 0 \in 0..MaxTries /\ 0 \in 0..MaxPosts /\ {} \in SUBSET Notes
    BY ExportAssumption DEF ExportAssumption
  <1>3. \A t \in 0..MaxTries : Idle("queued", t) \in Jobs /\ Idle("archived", t) \in Jobs
    BY <1>2 DEF Jobs, Idle
  <1>4. QED
    BY <1>1, <1>3 DEF Retried, Queued, Idle

\* Of a job on its way to the archive or the queue nothing is claimed but its tries.
LEMMA IdleStage ==
  ASSUME NEW m, NEW j, NEW d, NEW c, NEW v, NEW s,
         j.pc \in {"absent", "queued", "archived", "ack"},
         j.pc # "archived" => j.tries < MaxTries
  PROVE  StageIs(m, j, d, c, v, s)
  BY DEF StageIs

\* A commit of one piece leaves every published chunk of one piece, and
\* touches no other month's.
LEMMA AppliedTyped ==
  ASSUME hub \in Hubs, ChunkWhole, NEW r \in Requests, Whole(r)
  PROVE  /\ Applied(r) \in Hubs
         /\ Applied(r).chunk[r.month] = [rows |-> r.rows, manifest |-> r.manifest]
         /\ Applied(r).chunk[r.month] # None
         /\ \A k \in Months : k # r.month => Applied(r).chunk[k] = hub.chunk[k]
         /\ \A k \in Months : Applied(r).chunk[k] # None => Whole(Applied(r).chunk[k])
  <1>. DEFINE c == [rows |-> r.rows, manifest |-> r.manifest]
  <1>1. c \in ChunkType /\ c # None /\ Whole(c) /\ r.month \in Months
    BY ChunkPresent DEF Requests, ChunkType, Whole
  <1>2. hub.chunk \in [Months -> ChunkType \cup {None}]
    BY DEF Hubs
  <1>3. Applied(r).chunk = [hub.chunk EXCEPT ![r.month] = c]
    BY DEF Applied
  <1>4. Applied(r).stations \in Versions \cup {None} /\ Applied(r).index \in SUBSET Months
    BY DEF Applied, Requests, Hubs
  <1>5. Applied(r) \in Hubs
    <2>1. [hub.chunk EXCEPT ![r.month] = c] \in [Months -> ChunkType \cup {None}]
      BY <1>1, <1>2
    <2>2. QED
      BY <2>1, <1>4 DEF Applied, Hubs
  <1>6. \A k \in Months : hub.chunk[k] # None => Whole(hub.chunk[k])
    BY DEF ChunkWhole, Published, Whole
  <1>7. QED
    BY <1>1, <1>2, <1>3, <1>5, <1>6

\* A step of month m's task, or of what concerns it alone, leaves the other
\* months where they were.
LEMMA OthersStay ==
  ASSUME NEW m \in Months, \A k \in Months : Stage(k),
         db' = db, lost => lost', lost \in BOOLEAN, lost' \in BOOLEAN,
         \A k \in Months \ {m} : job'[k] = job[k] /\ disk'[k] = disk[k],
         \A k \in Months \ {m} : hub'.chunk[k] = hub.chunk[k],
         Stage(m)'
  PROVE  \A k \in Months : Stage(k)'
  <1>1. ASSUME NEW k \in Months \ {m}
        PROVE  Stage(k)'
    BY <1>1 DEF Stage, StageIs
  <1>2. QED
    BY <1>1

\* Nothing but month m's task, its directory and what surrounds it moved, and
\* month m's stage still holds.
Moved(m) ==
  /\ Surroundings'
  /\ job' \in [Months -> Jobs] /\ disk' \in [Months -> Files \cup {None}]
  /\ \A k \in Months \ {m} : job'[k] = job[k] /\ disk'[k] = disk[k]
  /\ db' = db /\ lost' = lost
  /\ Stage(m)'

\* A step that neither posts nor applies a commit.
LEMMA LocalStep ==
  ASSUME ExportInv, NEW m \in Months, Moved(m), hub' = hub, stray' = stray
  PROVE  ExportInv'
  <1>1. TypeOK'
    BY TypeParts DEF ExportInv, Moved, Hubs, Surroundings, TypeOK, ChunkType
  <1>2. \A k \in Months : Stage(k)'
    BY OthersStay DEF ExportInv, Moved, TypeOK
  <1>3. StrayWhole' /\ ChunkWhole'
    BY DEF ExportInv, Moved, StrayWhole, ChunkWhole, Published
  <1>4. QED
    BY <1>1, <1>2, <1>3 DEF ExportInv

\* What the failure budget and the bounds keep.
LEMMA SurroundingsOf ==
  ASSUME ExportInv
  PROVE  /\ Surroundings
         /\ job \in [Months -> Jobs] /\ disk \in [Months -> Files \cup {None}]
         /\ hub \in Hubs /\ stray \subseteq Requests
         /\ failures < MaxFailures => failures + 1 \in 0..MaxFailures
         /\ reexports < MaxReexports => reexports + 1 \in 0..MaxReexports
  BY TypeParts, ExportAssumption DEF ExportInv, Surroundings, ExportAssumption

------------------------------------------------------------------------------
(* Around the export *)

LEMMA InitInv ==
  Init => ExportInv
  <1>. SUFFICES ASSUME Init PROVE ExportInv
    OBVIOUS
  <1>1. 0 \in Versions /\ 0 \in 0..MaxFailures /\ 0 \in 0..MaxReexports
    BY ExportAssumption DEF ExportAssumption, Versions
  <1>2. Absent \in Jobs /\ Absent.pc = "absent" /\ Absent.tries < MaxTries
    <2>1. 0 \in 0..MaxTries /\ 0 \in 0..MaxPosts /\ {} \in SUBSET Notes /\ 0 < MaxTries
      BY ExportAssumption DEF ExportAssumption
    <2>2. QED
      BY <2>1 DEF Absent, Idle, Jobs
  <1>3. hub \in Hubs
    BY DEF Init, Hubs
  <1>4. TypeOK
    BY <1>1, <1>2, <1>3, TypeParts DEF Init, Surroundings
  <1>5. \A m \in Months : Stage(m)
    BY <1>2, IdleStage DEF Init, Stage
  <1>6. StrayWhole /\ ChunkWhole
    BY DEF Init, StrayWhole, ChunkWhole, Published
  <1>7. QED
    BY <1>4, <1>5, <1>6 DEF ExportInv

LEMMA DbChangesInv ==
  ASSUME ExportInv, DbChanges
  PROVE  ExportInv'
  <1>1. db \in Nat /\ db' = db + 1 /\ db' \in Versions
    BY SurroundingsOf, ExportAssumption DEF Surroundings, DbChanges, Versions, ExportAssumption
  <1>2. TypeOK'
    BY <1>1, SurroundingsOf, TypeParts DEF DbChanges, TypeOK, dirs, history, Surroundings
  <1>3. \A m \in Months : Stage(m)'
    BY <1>1 DEF ExportInv, Stage, StageIs, DbChanges, dirs, history
  <1>4. StrayWhole' /\ ChunkWhole'
    BY DEF ExportInv, DbChanges, StrayWhole, ChunkWhole, Published, history
  <1>5. QED
    BY <1>2, <1>3, <1>4 DEF ExportInv

\* Steps that leave tasks, chunks and hub alone.
LEMMA NoteFiledInv ==
  ASSUME ExportInv, NEW n \in Notes, NoteFiled(n)
  PROVE  ExportInv'
  <1>1. TypeOK'
    BY SurroundingsOf, TypeParts DEF NoteFiled, TypeOK, dirs, history, Surroundings
  <1>2. \A m \in Months : Stage(m)'
    BY DEF ExportInv, Stage, StageIs, NoteFiled, dirs, history
  <1>3. StrayWhole' /\ ChunkWhole'
    BY DEF ExportInv, NoteFiled, StrayWhole, ChunkWhole, Published, history
  <1>4. QED
    BY <1>1, <1>2, <1>3 DEF ExportInv

\* A task that waits, is archived or forgotten satisfies its stage.
LEMMA IdleTyped ==
  ASSUME NEW pc \in {"absent", "queued"}
  PROVE  Idle(pc, 0) \in Jobs /\ Idle(pc, 0).pc = pc /\ Idle(pc, 0).tries < MaxTries
  <1>1. 0 \in 0..MaxTries /\ 0 \in 0..MaxPosts /\ {} \in SUBSET Notes /\ 0 < MaxTries
    BY ExportAssumption DEF ExportAssumption
  <1>2. QED
    BY <1>1 DEF Idle, Jobs

\* Month m's task alone goes to the queue, the archive or out of asynq.
LEMMA ParkedStep ==
  ASSUME ExportInv, NEW m \in Months, NEW j \in Jobs,
         j.pc \in {"absent", "queued", "archived", "ack"},
         j.pc # "archived" => j.tries < MaxTries,
         job' = [job EXCEPT ![m] = j],
         UNCHANGED <<db, dirs, hub, stray, lost>>, Surroundings'
  PROVE  ExportInv'
  <1>1. job' \in [Months -> Jobs] /\ job'[m] = j
    BY SurroundingsOf
  <1>2. Stage(m)'
    BY <1>1, IdleStage DEF Stage
  <1>3. Moved(m)
    BY <1>1, <1>2, SurroundingsOf DEF Moved, dirs
  <1>4. QED
    BY <1>3, LocalStep

LEMMA TriggerInv ==
  ASSUME ExportInv, NEW m \in Months, Trigger(m)
  PROVE  ExportInv'
  <1>1. Surroundings'
    BY SurroundingsOf DEF Trigger, Fails, Surroundings, dirs, history
  <1>2. CASE job' = [job EXCEPT ![m] = Queued(0)]
    BY <1>1, <1>2, IdleTyped, ParkedStep DEF Trigger, Queued, dirs, history
  <1>3. CASE job' = job
    <2>1. job' = [job EXCEPT ![m] = job[m]] /\ Stage(m)'
      BY <1>3, SurroundingsOf DEF ExportInv, Trigger, Stage, dirs, history
    <2>2. Moved(m)
      BY <1>1, <1>3, <2>1, SurroundingsOf DEF Moved, Trigger, dirs, history
    <2>3. QED
      BY <2>2, LocalStep DEF Trigger
  <1>4. QED
    BY <1>2, <1>3 DEF Trigger

LEMMA ReexportInv ==
  ASSUME ExportInv, NEW m \in Months, Reexport(m)
  PROVE  ExportInv'
  <1>1. Surroundings'
    BY SurroundingsOf DEF Reexport, Surroundings, dirs, history
  <1>2. QED
    BY <1>1, IdleTyped, ParkedStep DEF Reexport, Queued, dirs, history

LEMMA AckInv ==
  ASSUME ExportInv, NEW m \in Months, Ack(m)
  PROVE  ExportInv'
  <1>1. Surroundings'
    BY SurroundingsOf DEF Ack, Surroundings, dirs, history
  <1>2. QED
    BY <1>1, IdleTyped, ParkedStep DEF Ack, Absent, dirs, history

\* The task at work has a try left, so that its retry is well-formed.
LEMMA RetriedNext ==
  ASSUME ExportInv, NEW m \in Months, job[m].pc # "archived"
  PROVE  /\ Retried(job[m]) \in Jobs
         /\ Retried(job[m]).pc \in {"absent", "queued", "archived", "ack"}
         /\ Retried(job[m]).pc # "archived" => Retried(job[m]).tries < MaxTries
  <1>1. job[m] \in Jobs /\ job[m].tries < MaxTries
    BY SurroundingsOf DEF ExportInv, Stage, StageIs
  <1>2. QED
    BY <1>1, RetriedTyped

LEMMA AttemptFailsInv ==
  ASSUME ExportInv, NEW m \in Months, AttemptFails(m)
  PROVE  ExportInv'
  <1>1. Surroundings'
    BY SurroundingsOf DEF AttemptFails, Fails, Surroundings, dirs, history
  <1>2. job[m].pc # "archived"
    BY DEF AttemptFails
  <1>3. QED
    BY <1>1, <1>2, RetriedNext, ParkedStep DEF AttemptFails, dirs, history

------------------------------------------------------------------------------
(* ExportMonth *)

\* What the steps below start from.
LEMMA AtWork ==
  ASSUME ExportInv, NEW m \in Months
  PROVE  /\ job[m] \in Jobs /\ disk[m] \in Files \cup {None}
         /\ db \in Versions /\ db \in 0..db /\ db \in Nat
         /\ StageIs(m, job[m], disk[m], hub.chunk[m], db, ~lost)
  BY SurroundingsOf, ExportAssumption
  DEF ExportInv, Stage, Surroundings, Versions, ExportAssumption

LEMMA BeginInv ==
  ASSUME ExportInv, NEW m \in Months, Begin(m)
  PROVE  ExportInv'
  <1>1. Surroundings'
    BY SurroundingsOf DEF Begin, Surroundings
  <1>2. job' \in [Months -> Jobs] /\ job'[m] = [job[m] EXCEPT !.pc = "rows"]
    BY SurroundingsOf, AtWork DEF Begin, BeginAt, Jobs
  <1>3. disk' \in [Months -> Files \cup {None}] /\ disk'[m] \in Files
    <2>1. [rows |-> None, stations |-> None, manifest |-> None] \in Files
      BY DEF Files
    <2>2. QED
      BY <2>1, SurroundingsOf DEF Begin
  <1>4. Stage(m)'
    BY <1>2, <1>3, AtWork DEF Begin, Stage, StageIs, Jobs
  <1>5. Moved(m)
    BY <1>1, <1>2, <1>3, <1>4, SurroundingsOf DEF Begin, Moved
  <1>6. QED
    BY <1>5, LocalStep DEF Begin

LEMMA ExportRowsInv ==
  ASSUME ExportInv, NEW m \in Months, ExportRows(m)
  PROVE  ExportInv'
  <1>1. Surroundings'
    BY SurroundingsOf DEF ExportRows, Surroundings, history
  <1>2. job' \in [Months -> Jobs] /\ job'[m] = [job[m] EXCEPT !.pc = "stations"]
    BY SurroundingsOf, AtWork DEF ExportRows, Jobs
  <1>3. disk[m] \in Files
    BY AtWork DEF ExportRows, StageIs
  <1>4. /\ disk' \in [Months -> Files \cup {None}]
        /\ disk'[m] \in Files /\ disk'[m].rows = db
    BY <1>3, SurroundingsOf, AtWork DEF ExportRows, Files
  <1>5. Stage(m)'
    BY <1>2, <1>4, AtWork DEF ExportRows, Stage, StageIs, Jobs, history
  <1>6. Moved(m)
    BY <1>1, <1>2, <1>4, <1>5, SurroundingsOf DEF ExportRows, Moved, history
  <1>7. QED
    BY <1>6, LocalStep DEF ExportRows

LEMMA ExportStationsInv ==
  ASSUME ExportInv, NEW m \in Months, ExportStations(m)
  PROVE  ExportInv'
  <1>1. Surroundings'
    BY SurroundingsOf DEF ExportStations, Surroundings, history
  <1>2. job' \in [Months -> Jobs] /\ job'[m] = [job[m] EXCEPT !.pc = "manifest"]
    BY SurroundingsOf, AtWork DEF ExportStations, Jobs
  <1>3. disk[m] \in Files /\ disk[m].rows \in 0..db
    BY AtWork DEF ExportStations, StageIs
  <1>4. /\ disk' \in [Months -> Files \cup {None}]
        /\ disk'[m] \in Files /\ disk'[m].rows = disk[m].rows /\ disk'[m].stations = db
    BY <1>3, SurroundingsOf, AtWork DEF ExportStations, Files
  <1>5. Stage(m)'
    BY <1>2, <1>3, <1>4, AtWork DEF ExportStations, Stage, StageIs, Jobs, history
  <1>6. Moved(m)
    BY <1>1, <1>2, <1>4, <1>5, SurroundingsOf DEF ExportStations, Moved, history
  <1>7. QED
    BY <1>6, LocalStep DEF ExportStations

LEMMA WriteManifestInv ==
  ASSUME ExportInv, NEW m \in Months, WriteManifest(m)
  PROVE  ExportInv'
  <1>1. Surroundings'
    BY SurroundingsOf DEF WriteManifest, Fails, Surroundings, history
  <1>2. PICK rows \in {disk[m].rows, None}, stations \in {disk[m].stations, None},
             noted \in SUBSET Filed :
          /\ disk' = [disk EXCEPT ![m].manifest = ManifestOf(m, rows, stations, noted)]
          /\ job' = [job EXCEPT ![m].pc = "cards", ![m].notes = noted]
    BY DEF WriteManifest
  <1>3. /\ job' \in [Months -> Jobs] /\ noted \in SUBSET Notes
        /\ job'[m] = [job[m] EXCEPT !.pc = "cards", !.notes = noted]
    <2>1. noted \in SUBSET Notes
      BY DEF Filed
    <2>2. job \in [Months -> Jobs] /\ job[m] \in Jobs
      BY SurroundingsOf
    <2>3. job'[m] = [job[m] EXCEPT !.pc = "cards", !.notes = noted]
      BY <1>2, <2>2
    <2>4. [job[m] EXCEPT !.pc = "cards", !.notes = noted] \in Jobs
      BY <2>1, <2>2 DEF Jobs
    <2>. QED
      BY <1>2, <2>1, <2>2, <2>3, <2>4
  <1>4. disk[m] \in Files /\ disk[m].rows \in 0..db /\ disk[m].stations \in Versions
    BY AtWork DEF WriteManifest, StageIs
  <1>5. disk[m].rows \in Versions /\ disk[m].rows <= db
    BY <1>4, AtWork, ExportAssumption DEF Versions, ExportAssumption
  <1>6. ManifestOf(m, rows, stations, noted) \in Manifests
    BY <1>3, <1>4, <1>5, AtWork DEF ManifestOf, Manifests
  <1>7. /\ disk' \in [Months -> Files \cup {None}]
        /\ disk'[m] \in Files /\ disk'[m].rows = disk[m].rows
        /\ disk'[m].stations = disk[m].stations
        /\ disk'[m].manifest = ManifestOf(m, rows, stations, noted)
    BY <1>2, <1>4, <1>6, SurroundingsOf DEF Files
  <1>8. Whole(disk'[m]) /\ disk'[m].manifest.notes = noted
    BY <1>5, <1>7 DEF Whole, ManifestOf
  <1>9. Stage(m)'
    <2>1. db' = db /\ job'[m].pc = "cards" /\ job'[m].notes = noted /\ job'[m].tries < MaxTries
      BY <1>3, AtWork DEF WriteManifest, StageIs, Jobs, history
    <2>2. QED
      BY <2>1, <1>4, <1>6, <1>7, <1>8 DEF Stage, StageIs
  <1>10. Moved(m)
    BY <1>1, <1>2, <1>3, <1>7, <1>9, SurroundingsOf DEF WriteManifest, Moved, history
  <1>11. QED
    BY <1>10, LocalStep DEF WriteManifest

LEMMA WriteCardsInv ==
  ASSUME ExportInv, NEW m \in Months, WriteCards(m)
  PROVE  ExportInv'
  <1>1. Surroundings'
    BY SurroundingsOf DEF WriteCards, Indexed, Chunks, Fails, Surroundings, history
  <1>2. job' \in [Months -> Jobs] /\ job'[m] = [job[m] EXCEPT !.pc = "upload"]
    BY SurroundingsOf, AtWork DEF WriteCards, Jobs
  <1>3. Stage(m)'
    BY <1>2, AtWork DEF WriteCards, Stage, StageIs, Jobs, history
  <1>4. Moved(m)
    BY <1>1, <1>2, <1>3, SurroundingsOf DEF WriteCards, Moved, history
  <1>5. QED
    BY <1>4, LocalStep DEF WriteCards

------------------------------------------------------------------------------
(* UploadToHuggingFace *)

LEMMA UploadInv ==
  ASSUME ExportInv, NEW m \in Months, Upload(m)
  PROVE  ExportInv'
  <1>1. Surroundings'
    BY SurroundingsOf DEF Upload, Surroundings, dirs, history
  <1>2. /\ disk[m].rows \in 0..db /\ disk[m].stations \in Versions
        /\ disk[m].manifest \in Manifests /\ Whole(disk[m])
        /\ disk[m].manifest.notes = job[m].notes
    BY AtWork DEF Upload, StageIs
  <1>3. disk[m].rows \in Versions /\ index \in SUBSET Months
    BY <1>2, AtWork, SurroundingsOf, ExportAssumption
    DEF Versions, Surroundings, ExportAssumption
  <1>4. /\ Body(m) \in Requests /\ Whole(Body(m))
        /\ Body(m).month = m /\ Body(m).manifest.notes = job[m].notes
    BY <1>2, <1>3 DEF Body, Requests, Whole
  <1>5. /\ job' \in [Months -> Jobs]
        /\ job'[m] = [job[m] EXCEPT !.pc = "commit", !.body = Body(m)]
    <2>1. job'[m] = [job[m] EXCEPT !.pc = "commit", !.body = Body(m)]
      BY SurroundingsOf DEF Upload
    <2>2. [job[m] EXCEPT !.pc = "commit", !.body = Body(m)] \in Jobs
      BY <1>4, AtWork DEF Jobs
    <2>3. \A k \in Months \ {m} : job'[k] = job[k]
      BY SurroundingsOf DEF Upload
    <2>4. job' = [k \in Months |-> job'[k]]
      BY SurroundingsOf DEF Upload
    <2>5. QED
      BY <2>1, <2>2, <2>3, <2>4, SurroundingsOf
  <1>6. Stage(m)'
    <2>1. /\ job'[m].pc = "commit" /\ job'[m].body = Body(m)
          /\ job'[m].notes = job[m].notes /\ job'[m].tries < MaxTries
      BY <1>5, AtWork DEF Upload, StageIs, Jobs
    <2>2. QED
      BY <2>1, <1>4 DEF Stage, StageIs
  <1>7. Moved(m)
    BY <1>1, <1>5, <1>6, SurroundingsOf DEF Upload, Moved, dirs, history
  <1>8. QED
    BY <1>7, LocalStep DEF Upload

\* The body a task is about to commit is well-formed, of one piece and its own.
LEMMA BodyAtCommit ==
  ASSUME ExportInv, NEW m \in Months, job[m].pc = "commit"
  PROVE  /\ job[m].body \in Requests /\ Whole(job[m].body)
         /\ job[m].body.month = m /\ job[m].body.manifest.notes = job[m].notes
  BY AtWork DEF StageIs

\* A request that is applied, whatever becomes of month m's task.
LEMMA AppliedStep ==
  ASSUME ExportInv, NEW m \in Months, NEW r \in Requests, Whole(r), r.month = m,
         hub' = Applied(r), Surroundings',
         job' \in [Months -> Jobs], disk' = disk, db' = db, lost' = lost,
         stray' \subseteq stray,
         \A k \in Months \ {m} : job'[k] = job[k],
         Stage(m)'
  PROVE  ExportInv'
  <1>1. /\ hub' \in Hubs
        /\ \A k \in Months \ {m} : hub'.chunk[k] = hub.chunk[k]
        /\ \A k \in Months : hub'.chunk[k] # None => Whole(hub'.chunk[k])
    BY SurroundingsOf, AppliedTyped DEF ExportInv
  <1>2. disk \in [Months -> Files \cup {None}] /\ stray' \subseteq Requests
    BY SurroundingsOf
  <1>3. TypeOK'
    BY <1>1, <1>2, TypeParts DEF TypeOK, Surroundings, Hubs, ChunkType
  <1>4. lost \in BOOLEAN /\ lost' \in BOOLEAN
    BY SurroundingsOf DEF Surroundings
  <1>5. \A k \in Months : Stage(k)'
    BY <1>1, <1>4, OthersStay DEF ExportInv
  <1>6. StrayWhole' /\ ChunkWhole'
    BY <1>1 DEF ExportInv, StrayWhole, ChunkWhole, Published, Whole
  <1>7. QED
    BY <1>3, <1>5, <1>6 DEF ExportInv

LEMMA CommitInv ==
  ASSUME ExportInv, NEW m \in Months, Commit(m)
  PROVE  ExportInv'
  <1>1. Surroundings'
    BY SurroundingsOf DEF Commit, Surroundings, dirs, history
  <1>2. /\ job[m].body \in Requests /\ Whole(job[m].body)
        /\ job[m].body.month = m /\ job[m].body.manifest.notes = job[m].notes
    BY BodyAtCommit DEF Commit
  <1>3. AfterCommit(m) \in {"ack", "consume"} /\ 0 \in 0..MaxPosts
    BY ExportAssumption DEF AfterCommit, ExportAssumption
  <1>4. /\ job' \in [Months -> Jobs]
        /\ job'[m] = [job[m] EXCEPT !.pc = AfterCommit(m), !.body = None, !.posts = 0]
    <2>1. job'[m] = [job[m] EXCEPT !.pc = AfterCommit(m), !.body = None, !.posts = 0]
      BY SurroundingsOf DEF Commit
    <2>2. [job[m] EXCEPT !.pc = AfterCommit(m), !.body = None, !.posts = 0] \in Jobs
      BY <1>3, AtWork DEF Jobs
    <2>3. \A k \in Months \ {m} : job'[k] = job[k]
      BY SurroundingsOf DEF Commit
    <2>4. job' = [k \in Months |-> job'[k]]
      BY SurroundingsOf DEF Commit
    <2>5. QED
      BY <2>1, <2>2, <2>3, <2>4, SurroundingsOf
  <1>5. /\ job'[m].pc \in {"ack", "consume"} /\ job'[m].notes = job[m].notes
        /\ job'[m].tries < MaxTries
    BY <1>3, <1>4, AtWork DEF Commit, StageIs, Jobs
  <1>6. /\ hub'.chunk[m] # None
        /\ hub'.chunk[m].manifest = job[m].body.manifest
    <2>1. hub \in Hubs /\ ChunkWhole /\ hub' = Applied(job[m].body)
      BY SurroundingsOf DEF ExportInv, Commit
    <2>2. /\ hub'.chunk[m] # None
          /\ hub'.chunk[m]
               = [rows |-> job[m].body.rows, manifest |-> job[m].body.manifest]
      BY <1>2, <2>1, AppliedTyped
    <2>3. QED
      BY <2>2
  <1>7. Stage(m)'
    BY <1>2, <1>5, <1>6 DEF Stage, StageIs
  <1>8. QED
    BY <1>1, <1>2, <1>4, <1>7, SurroundingsOf, AppliedStep DEF Commit, dirs, history

LEMMA CommitRefusedInv ==
  ASSUME ExportInv, NEW m \in Months, CommitRefused(m)
  PROVE  ExportInv'
  <1>1. Surroundings'
    BY SurroundingsOf DEF CommitRefused, Fails, Surroundings, dirs, history
  <1>2. /\ job[m].body \in Requests /\ Whole(job[m].body)
        /\ job[m].body.month = m /\ job[m].body.manifest.notes = job[m].notes
    BY BodyAtCommit DEF CommitRefused
  <1>3. PICK j \in Jobs :
          /\ job' = [job EXCEPT ![m] = j]
          /\ j.pc # "archived" => j.tries < MaxTries
          /\ \/ j.pc \in {"absent", "queued", "archived", "ack"}
             \/ j.pc = "commit" /\ j.body = job[m].body /\ j.notes = job[m].notes
    <2>1. CASE job[m].posts + 1 < MaxPosts
      <3>1. job[m].posts + 1 \in 0..MaxPosts
        BY <2>1, AtWork, ExportAssumption DEF Jobs, ExportAssumption
      <3>2. [job[m] EXCEPT !.posts = job[m].posts + 1] \in Jobs
        BY <3>1, AtWork DEF Jobs
      <3>3. job' = [job EXCEPT ![m] = [job[m] EXCEPT !.posts = job[m].posts + 1]]
        BY <2>1 DEF CommitRefused, Refused
      <3>4. job[m].pc = "commit" /\ job[m].tries < MaxTries
        BY AtWork DEF CommitRefused, StageIs
      <3>5. QED
        BY <3>2, <3>3, <3>4, AtWork DEF Jobs
    <2>2. CASE ~(job[m].posts + 1 < MaxPosts)
      <3>1. job' = [job EXCEPT ![m] = Retried(job[m])]
        BY <2>2 DEF CommitRefused, Refused
      <3>2. QED
        BY <3>1, RetriedNext DEF CommitRefused
    <2>3. QED
      BY <2>1, <2>2
  <1>4. /\ job' \in [Months -> Jobs] /\ job'[m] = j
        /\ \A k \in Months \ {m} : job'[k] = job[k]
    BY <1>3, SurroundingsOf
  <1>5. Stage(m)'
    BY <1>2, <1>3, <1>4, IdleStage DEF Stage, StageIs
  <1>6. CASE hub' = hub
    <2>1. Moved(m)
      BY <1>1, <1>4, <1>5, SurroundingsOf DEF Moved, CommitRefused, dirs, history
    <2>2. QED
      BY <1>6, <2>1, LocalStep DEF CommitRefused
  <1>7. CASE hub' = Applied(job[m].body)
    BY <1>1, <1>2, <1>4, <1>5, <1>7, SurroundingsOf, AppliedStep
    DEF CommitRefused, dirs, history
  <1>8. QED
    BY <1>6, <1>7 DEF CommitRefused

LEMMA CommitUnansweredInv ==
  ASSUME ExportInv, NEW m \in Months, CommitUnanswered(m)
  PROVE  ExportInv'
  <1>1. Surroundings'
    BY SurroundingsOf DEF CommitUnanswered, Fails, Surroundings, dirs
  <1>2. job[m].body \in Requests /\ Whole(job[m].body)
    BY BodyAtCommit DEF CommitUnanswered
  <1>3. /\ job' \in [Months -> Jobs] /\ job'[m] = Retried(job[m])
        /\ \A k \in Months \ {m} : job'[k] = job[k]
    BY SurroundingsOf, RetriedNext DEF CommitUnanswered
  <1>4. Stage(m)'
    BY <1>3, RetriedNext, IdleStage DEF CommitUnanswered, Stage
  <1>5. stray' \subseteq Requests /\ disk' = disk /\ hub' = hub /\ lost' = TRUE /\ db' = db
    BY <1>2, SurroundingsOf DEF CommitUnanswered, dirs
  <1>6. TypeOK'
    BY <1>1, <1>3, <1>5, SurroundingsOf, TypeParts
    DEF TypeOK, Surroundings, Hubs, ChunkType
  <1>7. lost \in BOOLEAN /\ lost' \in BOOLEAN
    BY <1>5, SurroundingsOf DEF Surroundings
  <1>8. \A k \in Months : Stage(k)'
    BY <1>3, <1>4, <1>5, <1>7, OthersStay DEF ExportInv
  <1>9. StrayWhole' /\ ChunkWhole'
    BY <1>2, <1>5 DEF ExportInv, CommitUnanswered, StrayWhole, ChunkWhole, Published
  <1>10. QED
    BY <1>6, <1>8, <1>9 DEF ExportInv

LEMMA HubAppliesInv ==
  ASSUME ExportInv, NEW r \in stray, HubApplies(r)
  PROVE  ExportInv'
  <1>1. Surroundings'
    BY SurroundingsOf DEF HubApplies, Surroundings, dirs, history
  <1>2. r \in Requests /\ Whole(r) /\ lost /\ r.month \in Months
    BY SurroundingsOf DEF ExportInv, StrayWhole, Requests
  <1>3. Stage(r.month)'
    BY <1>2 DEF ExportInv, HubApplies, Stage, StageIs, dirs, history
  <1>4. job' = job /\ disk' = disk /\ db' = db /\ lost' = lost /\ stray' \subseteq stray
    BY DEF HubApplies, dirs, history
  <1>5. QED
    BY <1>1, <1>2, <1>3, <1>4, SurroundingsOf, AppliedStep DEF HubApplies

------------------------------------------------------------------------------
(* ConsumeDowntimeNotes *)

LEMMA ConsumeInv ==
  ASSUME ExportInv, NEW m \in Months, NEW n \in Notes, Consume(m, n)
  PROVE  ExportInv'
  <1>1. Surroundings'
    BY SurroundingsOf DEF Consume, Fails, Surroundings, dirs, history
  <1>. DEFINE pc == IF job[m].notes \subseteq {n} THEN "ack" ELSE "consume"
              j == [job[m] EXCEPT !.notes = job[m].notes \ {n}, !.pc = pc]
  <1>2. j \in Jobs
    BY AtWork DEF Jobs
  <1>3. job' \in [Months -> Jobs] /\ job'[m] = j /\ \A k \in Months \ {m} : job'[k] = job[k]
    <2>1. job'[m] = j /\ \A k \in Months \ {m} : job'[k] = job[k]
      BY SurroundingsOf DEF Consume
    <2>2. job' = [k \in Months |-> job'[k]]
      BY SurroundingsOf DEF Consume
    <2>3. QED
      BY <1>2, <2>1, <2>2, SurroundingsOf
  <1>4. /\ j.pc \in {"ack", "consume"} /\ j.notes \subseteq job[m].notes
        /\ j.tries < MaxTries
    BY AtWork DEF Consume, StageIs, Jobs
  <1>5. ~lost => hub.chunk[m] # None /\ job[m].notes \subseteq hub.chunk[m].manifest.notes
    BY AtWork DEF Consume, StageIs
  <1>6. disk' = disk /\ hub' = hub /\ db' = db /\ lost' = lost /\ stray' = stray
    BY DEF Consume, dirs, history
  <1>7. Stage(m)'
    <2>. HIDE DEF j
    <2>. QED BY <1>3, <1>4, <1>5, <1>6 DEF Stage, StageIs
  <1>8. Moved(m)
    BY <1>1, <1>3, <1>6, <1>7, SurroundingsOf DEF Moved
  <1>9. QED
    BY <1>6, <1>8, LocalStep

\* The task with one note less to remove.
LEMMA ConsumeTask ==
  ASSUME ExportInv, NEW m \in Months, NEW n \in Notes, Consume(m, n)
  PROVE  /\ job'[m].notes = job[m].notes \ {n}
         /\ job'[m].pc = IF job[m].notes \subseteq {n} THEN "ack" ELSE "consume"
  <1>. DEFINE pc == IF job[m].notes \subseteq {n} THEN "ack" ELSE "consume"
              j == [job[m] EXCEPT !.notes = job[m].notes \ {n}, !.pc = pc]
  <1>1. job'[m] = j
    BY SurroundingsOf DEF Consume
  <1>2. j.notes = job[m].notes \ {n} /\ j.pc = pc
    BY AtWork DEF Jobs
  <1>. QED
    BY <1>1, <1>2

\* A note removed in such a step is one its own month's chunk shows.
LEMMA ConsumeShown ==
  ASSUME ExportInv, NEW m \in Months, NEW n \in Notes, Consume(m, n)
  PROVE  \A k \in Notes :
           note[k] = "filed" /\ note'[k] = "removed" /\ ~lost => Showing(k) # {}
  <1>1. ASSUME NEW k \in Notes, note[k] = "filed", note'[k] = "removed", ~lost
        PROVE  m \in Showing(k)
    <2>1. k = n /\ n \in job[m].notes
      BY <1>1, SurroundingsOf DEF Consume, ToConsume, Surroundings
    <2>2. hub.chunk[m] # None /\ job[m].notes \subseteq hub.chunk[m].manifest.notes
      BY <1>1, AtWork DEF Consume, StageIs
    <2>3. QED
      BY <2>1, <2>2 DEF Showing, Published
  <1>2. QED
    BY <1>1

------------------------------------------------------------------------------
(* The worker dies *)

LEMMA CrashInv ==
  ASSUME ExportInv, Crash
  PROVE  ExportInv'
  <1>1. PICK sent \in SUBSET {m \in Months : job[m].pc = "commit"} :
          /\ stray' = stray \cup {job[m].body : m \in sent}
          /\ lost' = (lost \/ sent # {})
    BY DEF Crash
  <1>2. Surroundings'
    BY <1>1, SurroundingsOf DEF Crash, Fails, Surroundings, dirs
  <1>3. \A m \in sent : job[m].body \in Requests /\ Whole(job[m].body)
    BY BodyAtCommit
  <1>4. stray' \subseteq Requests /\ StrayWhole'
    BY <1>1, <1>3, SurroundingsOf DEF ExportInv, StrayWhole
  <1>5. ASSUME NEW m \in Months
        PROVE  job'[m] \in Jobs /\ Stage(m)'
    <2>1. CASE Active(m)
      <3>1. job'[m] = Retried(job[m])
        BY <2>1 DEF Crash
      <3>2. job[m].pc # "archived"
        BY <2>1 DEF Active
      <3>3. QED
        BY <3>1, <3>2, RetriedNext, IdleStage DEF Stage
    <2>2. CASE ~Active(m)
      <3>1. job'[m] = job[m] /\ job[m].pc \in {"absent", "queued", "archived", "ack"}
        BY <2>2 DEF Crash, Active
      <3>2. job[m].pc # "archived" => job[m].tries < MaxTries
        BY AtWork DEF StageIs
      <3>3. QED
        BY <3>1, <3>2, AtWork, IdleStage DEF Stage
    <2>3. QED
      BY <2>1, <2>2
  <1>6. job' \in [Months -> Jobs]
    BY <1>5 DEF Crash
  <1>7. disk' = disk /\ hub' = hub
    BY DEF Crash, dirs
  <1>8. TypeOK'
    BY <1>2, <1>4, <1>6, <1>7, SurroundingsOf, TypeParts
    DEF TypeOK, Surroundings, Hubs, ChunkType
  <1>9. ChunkWhole'
    BY <1>7 DEF ExportInv, ChunkWhole, Published
  <1>10. QED
    BY <1>4, <1>5, <1>8, <1>9 DEF ExportInv

------------------------------------------------------------------------------
(* The invariant and what follows from it *)

LEMMA StepInv ==
  ASSUME ExportInv, [Next]_vars
  PROVE  ExportInv'
  <1>1. CASE UNCHANGED vars
    <2>1. TypeOK'
      BY <1>1, SurroundingsOf, TypeParts
      DEF vars, dirs, history, TypeOK, Surroundings, Hubs, ChunkType
    <2>2. (\A m \in Months : Stage(m)') /\ StrayWhole' /\ ChunkWhole'
      BY <1>1
      DEF vars, dirs, history, ExportInv, Stage, StageIs, StrayWhole, ChunkWhole, Published
    <2>3. QED
      BY <2>1, <2>2 DEF ExportInv
  <1>2. CASE DbChanges \/ Crash \/ (\E n \in Notes : NoteFiled(n))
             \/ (\E r \in stray : HubApplies(r))
    BY <1>2, DbChangesInv, CrashInv, NoteFiledInv, HubAppliesInv
  <1>3. ASSUME NEW m \in Months, Trigger(m) \/ Reexport(m) \/ Work(m)
        PROVE  ExportInv'
    BY <1>3, TriggerInv, ReexportInv, BeginInv, ExportRowsInv, ExportStationsInv,
       WriteManifestInv, WriteCardsInv, UploadInv, CommitInv, ConsumeInv, AckInv DEF Work
  <1>4. ASSUME NEW m \in Months, Fault(m)
        PROVE  ExportInv'
    BY <1>4, AttemptFailsInv, CommitRefusedInv, CommitUnansweredInv DEF Fault
  <1>5. QED
    BY <1>1, <1>2, <1>3, <1>4 DEF Next

\* The strengthened invariant: each attempt's files, body and published chunk
\* are what its stage says, requests under way are of one piece.
THEOREM ExportInvariant ==
  Spec => []ExportInv
  <1>1. ExportInv /\ [Next]_vars => ExportInv'
    BY StepInv
  <1>2. QED
    BY InitInv, <1>1, PTL DEF Spec

\* No month is exported with files or a manifest that are not there, and no
\* task is tried more often than asynq allows (export.go 96-174, MaxRetry).
THEOREM ExportTypeCorrect ==
  Spec => []TypeOK
  <1>1. ExportInv => TypeOK
    BY DEF ExportInv
  <1>2. QED
    BY <1>1, ExportInvariant, PTL

------------------------------------------------------------------------------
(* One export at a time *)

\* As long as no two exports were at work together, one at most is.
Sole == ~overlap => \A i, k \in Months : Active(i) /\ Active(k) => i = k

\* A worker comes to a task by beginning it, and to no two at once while
\* overlap stays false.
LEMMA ActiveSteps ==
  ASSUME ExportInv, [Next]_vars, ~overlap'
  PROVE  /\ ~overlap
         /\ \/ \A k \in Months : Active(k)' => Active(k)
            \/ \E m \in Months : \A k \in Months : Active(k)' => k = m
  <1>. job \in [Months -> Jobs] /\ overlap \in BOOLEAN
    BY SurroundingsOf DEF Surroundings
  <1>1. CASE DbChanges \/ (\E n \in Notes : NoteFiled(n)) \/ (\E r \in stray : HubApplies(r))
             \/ UNCHANGED vars
    BY <1>1 DEF DbChanges, NoteFiled, HubApplies, vars, history, Active
  <1>2. CASE Crash
    <2>1. \A k \in Months : Active(k)' => Active(k)
      BY <1>2 DEF Crash, Active
    <2>. QED
      BY <1>2, <2>1 DEF Crash
  <1>3. ASSUME NEW m \in Months, Trigger(m) \/ Reexport(m) \/ Ack(m) \/ AttemptFails(m)
                 \/ CommitUnanswered(m)
        PROVE  ~overlap /\ \A k \in Months : Active(k)' => Active(k)
    <2>1. Queued(0).pc = "queued" /\ Absent.pc = "absent"
      BY DEF Queued, Absent, Idle
    <2>2. Retried(job[m]).pc \in {"queued", "archived"}
      BY DEF Retried, Queued, Idle
    <2>3. ~overlap
      BY <1>3 DEF Trigger, Reexport, Ack, AttemptFails, CommitUnanswered, history
    <2>4. \A k \in Months : job'[k] = job[k] \/ job'[k].pc \in {"absent", "queued", "archived"}
      BY <1>3, <2>1, <2>2 DEF Trigger, Reexport, Ack, AttemptFails, CommitUnanswered
    <2>. QED
      BY <2>3, <2>4 DEF Active
  <1>4. ASSUME NEW m \in Months, Begin(m)
        PROVE  ~overlap /\ \A k \in Months : Active(k)' => k = m
    <2>1. ~overlap /\ \A k \in Months : ~Active(k)
      BY <1>4 DEF Begin
    <2>2. \A k \in Months : k # m => job'[k] = job[k]
      BY <1>4 DEF Begin
    <2>. QED
      BY <2>1, <2>2 DEF Active
  <1>5. ASSUME NEW m \in Months,
               ExportRows(m) \/ ExportStations(m) \/ WriteManifest(m) \/ WriteCards(m)
                 \/ Upload(m) \/ Commit(m) \/ CommitRefused(m)
                 \/ (\E n \in Notes : Consume(m, n))
        PROVE  ~overlap /\ \A k \in Months : Active(k)' => Active(k)
    <2>1. ~overlap
      BY <1>5 DEF ExportRows, ExportStations, WriteManifest, WriteCards, Upload, Commit,
                  CommitRefused, Consume, history
    <2>2. Active(m) /\ \A k \in Months : k # m => job'[k] = job[k]
      BY <1>5 DEF ExportRows, ExportStations, WriteManifest, WriteCards, Upload, Commit,
                  CommitRefused, Consume, Active
    <2>. QED
      BY <2>1, <2>2 DEF Active
  <1>. QED
    BY <1>1, <1>2, <1>3, <1>4, <1>5 DEF Next, Work, Fault

LEMMA SoleStep ==
  ASSUME ExportInv, Sole, [Next]_vars
  PROVE  Sole'
  BY ActiveSteps DEF Sole

------------------------------------------------------------------------------
(* The registry at the root *)

\* A station registry as new as the published one, read by now.
Recent(v) == v <= db /\ (hub.stations # None => hub.stations <= v)

\* While exports come one at a time and every answer arrives, what is on its
\* way to the hub is no older than what is there.
Forward ==
  ~lost /\ ~overlap =>
    /\ hub.stations # None => hub.stations <= db
    /\ \A k \in Months :
         /\ job[k].pc \in {"manifest", "cards", "upload"} => Recent(disk[k].stations)
         /\ job[k].pc = "commit" => Recent(job[k].body.stations)

\* A step that brings no task closer to its commit, and nothing to the hub.
LEMMA ForwardKept ==
  ASSUME Forward, db' = db, hub' = hub, lost \in BOOLEAN, overlap \in BOOLEAN,
         lost => lost', overlap => overlap',
         \A k \in Months :
           /\ job'[k].pc \in {"manifest", "cards", "upload"} =>
                /\ job[k].pc \in {"manifest", "cards", "upload"}
                /\ disk'[k].stations = disk[k].stations
           /\ job'[k].pc = "commit" => job[k].pc = "commit" /\ job'[k].body = job[k].body
  PROVE  Forward'
  BY DEF Forward, Recent

\* A commit is applied: nobody else has anything on the way.
LEMMA ForwardApplied ==
  ASSUME ExportInv, Sole, Forward, NEW m \in Months, job[m].pc = "commit",
         hub' = Applied(job[m].body), db' = db, lost' = lost, overlap' = overlap,
         \A k \in Months \ {m} : job'[k] = job[k],
         job'[m].pc \notin {"manifest", "cards", "upload"},
         job'[m].pc = "commit" => job'[m].body = job[m].body
  PROVE  Forward'
  <1>. SUFFICES ASSUME ~lost, ~overlap PROVE Forward'
    BY DEF Forward
  <1>1. job[m].body.stations \in Versions /\ Versions \subseteq Nat
    BY BodyAtCommit, ExportAssumption DEF Requests, Versions, ExportAssumption
  <1>2. hub'.stations = job[m].body.stations /\ job[m].body.stations <= db
    BY DEF Applied, Forward, Recent
  <1>3. \A k \in Months \ {m} : ~Active(k)
    BY DEF Sole, Active
  <1>4. \A k \in Months \ {m} : job'[k].pc \notin {"manifest", "cards", "upload", "commit"}
    BY <1>3 DEF Active
  <1>5. hub'.stations \in Nat /\ hub'.stations <= db'
    BY <1>1, <1>2
  <1>6. job'[m].pc = "commit" => job'[m].body.stations = hub'.stations
    BY <1>2
  <1>7. ASSUME NEW k \in Months
        PROVE  /\ job'[k].pc \notin {"manifest", "cards", "upload"}
               /\ job'[k].pc = "commit" => k = m
    BY <1>4
  <1>. QED
    BY <1>5, <1>6, <1>7 DEF Forward, Recent

LEMMA ForwardStep ==
  ASSUME ExportInv, Sole, Forward, [Next]_vars
  PROVE  Forward'
  <1>. /\ job \in [Months -> Jobs] /\ disk \in [Months -> Files \cup {None}]
       /\ lost \in BOOLEAN /\ overlap \in BOOLEAN /\ db \in Nat
    BY SurroundingsOf, ExportAssumption DEF Surroundings, Versions, ExportAssumption
  <1>0. hub.stations # None => hub.stations \in Nat
    BY SurroundingsOf, ExportAssumption DEF Hubs, Versions, ExportAssumption
  <1>1. CASE (\E n \in Notes : NoteFiled(n)) \/ UNCHANGED vars
    BY <1>1, ForwardKept DEF NoteFiled, vars, dirs, history
  <1>2. CASE DbChanges
    <2>1. /\ db' = db + 1 /\ hub' = hub /\ job' = job /\ disk' = disk
          /\ lost' = lost /\ overlap' = overlap
      BY <1>2 DEF DbChanges, dirs, history
    <2>2. ASSUME NEW k \in Months, job[k].pc \in {"manifest", "cards", "upload"}
          PROVE  disk[k].stations \in Nat
      BY <2>2, AtWork, ExportAssumption DEF StageIs, Versions, ExportAssumption
    <2>3. ASSUME NEW k \in Months, job[k].pc = "commit"
          PROVE  job[k].body.stations \in Nat
      BY <2>3, BodyAtCommit, ExportAssumption DEF Requests, Versions, ExportAssumption
    <2>. QED
      BY <1>0, <2>1, <2>2, <2>3 DEF Forward, Recent
  <1>3. CASE Crash
    <2>1. Queued(0).pc = "queued" /\ \A k \in Months : Retried(job[k]).pc \in {"queued", "archived"}
      BY DEF Retried, Queued, Idle
    <2>2. \A k \in Months : job'[k] = job[k] \/ job'[k].pc \in {"queued", "archived"}
      BY <1>3, <2>1 DEF Crash
    <2>3. db' = db /\ hub' = hub /\ disk' = disk /\ overlap' = overlap /\ (lost => lost')
      BY <1>3 DEF Crash, dirs
    <2>. QED
      BY <2>2, <2>3, ForwardKept
  <1>4. CASE \E r \in stray : HubApplies(r)
    BY <1>4 DEF HubApplies, history, ExportInv, StrayWhole, Forward
  <1>5. ASSUME NEW m \in Months, Trigger(m) \/ Reexport(m) \/ Ack(m) \/ AttemptFails(m)
                 \/ CommitUnanswered(m)
        PROVE  Forward'
    <2>1. /\ Queued(0).pc = "queued" /\ Absent.pc = "absent"
          /\ Retried(job[m]).pc \in {"queued", "archived"}
      BY DEF Retried, Queued, Absent, Idle
    <2>2. \A k \in Months : job'[k] = job[k] \/ job'[k].pc \in {"absent", "queued", "archived"}
      BY <1>5, <2>1 DEF Trigger, Reexport, Ack, AttemptFails, CommitUnanswered
    <2>3. db' = db /\ hub' = hub /\ disk' = disk /\ overlap' = overlap /\ (lost => lost')
      BY <1>5 DEF Trigger, Reexport, Ack, AttemptFails, CommitUnanswered, dirs, history
    <2>. QED
      BY <2>2, <2>3, ForwardKept
  <1>6. ASSUME NEW m \in Months, Begin(m) \/ ExportRows(m) \/ (\E n \in Notes : Consume(m, n))
        PROVE  Forward'
    <2>1. \A k \in Months : k # m => job'[k] = job[k] /\ disk'[k] = disk[k]
      BY <1>6 DEF Begin, ExportRows, Consume, dirs
    <2>2. job'[m].pc \in {"rows", "stations", "ack", "consume"}
      <3>1. CASE Begin(m)
        BY <3>1, AtWork DEF Begin, BeginAt, Jobs
      <3>2. CASE ExportRows(m)
        BY <3>2, AtWork DEF ExportRows, Jobs
      <3>. QED
        BY <1>6, <3>1, <3>2, ConsumeTask
    <2>3. db' = db /\ hub' = hub /\ lost' = lost /\ (overlap => overlap')
      BY <1>6 DEF Begin, ExportRows, Consume, history
    <2>. QED
      BY <2>1, <2>2, <2>3, ForwardKept
  <1>7. ASSUME NEW m \in Months, WriteManifest(m) \/ WriteCards(m)
        PROVE  Forward'
    <2>1. \A k \in Months : k # m => job'[k] = job[k] /\ disk'[k] = disk[k]
      BY <1>7 DEF WriteManifest, WriteCards
    <2>2. job[m].pc \in {"manifest", "cards"} /\ job'[m].pc \in {"cards", "upload"}
      BY <1>7, AtWork DEF WriteManifest, WriteCards, Jobs
    <2>3. disk'[m].stations = disk[m].stations
      <3>1. disk[m] \in Files
        BY <2>2, AtWork DEF StageIs
      <3>. QED
        BY <1>7, <3>1 DEF WriteManifest, WriteCards, Files
    <2>4. db' = db /\ hub' = hub /\ lost' = lost /\ overlap' = overlap
      BY <1>7 DEF WriteManifest, WriteCards, history
    <2>. QED
      BY <2>1, <2>2, <2>3, <2>4, ForwardKept
  <1>8. ASSUME NEW m \in Months, ExportStations(m)
        PROVE  Forward'
    <2>1. \A k \in Months : k # m => job'[k] = job[k] /\ disk'[k] = disk[k]
      BY <1>8 DEF ExportStations
    <2>2. disk'[m].stations = db /\ job'[m].pc = "manifest"
      <3>1. disk[m] \in Files
        BY <1>8, AtWork DEF ExportStations, StageIs
      <3>. QED
        BY <1>8, <3>1 DEF ExportStations, Files
    <2>3. db' = db /\ hub' = hub /\ lost' = lost /\ overlap' = overlap
      BY <1>8 DEF ExportStations, history
    <2>. QED
      BY <2>1, <2>2, <2>3 DEF Forward, Recent
  <1>9. ASSUME NEW m \in Months, Upload(m)
        PROVE  Forward'
    <2>1. \A k \in Months : k # m => job'[k] = job[k]
      BY <1>9 DEF Upload
    <2>2. job'[m].pc = "commit" /\ job'[m].body.stations = disk[m].stations
      BY <1>9 DEF Upload, Body, Jobs
    <2>3. /\ db' = db /\ hub' = hub /\ disk' = disk /\ lost' = lost /\ overlap' = overlap
          /\ job[m].pc = "upload"
      BY <1>9 DEF Upload, dirs, history
    <2>. QED
      BY <2>1, <2>2, <2>3 DEF Forward, Recent
  <1>10. ASSUME NEW m \in Months, Commit(m)
         PROVE  Forward'
    <2>1. \A k \in Months \ {m} : job'[k] = job[k]
      BY <1>10 DEF Commit
    <2>2. job'[m].pc \in {"ack", "consume"}
      BY <1>10, AtWork DEF Commit, AfterCommit, Jobs
    <2>3. /\ hub' = Applied(job[m].body) /\ db' = db /\ lost' = lost /\ overlap' = overlap
          /\ job[m].pc = "commit"
      BY <1>10 DEF Commit, history
    <2>. QED
      BY <2>1, <2>2, <2>3, ForwardApplied
  <1>11. ASSUME NEW m \in Months, CommitRefused(m)
         PROVE  Forward'
    <2>1. \A k \in Months \ {m} : job'[k] = job[k]
      BY <1>11 DEF CommitRefused
    <2>2. \/ job'[m].pc \in {"queued", "archived"}
          \/ job'[m].pc = "commit" /\ job'[m].body = job[m].body
      <3>1. job'[m] = Refused(job[m]) /\ job[m] \in Jobs /\ job[m].pc = "commit"
        BY <1>11 DEF CommitRefused
      <3>2. Retried(job[m]).pc \in {"queued", "archived"}
        BY DEF Retried, Queued, Idle
      <3>. QED
        BY <3>1, <3>2 DEF Refused, Jobs
    <2>3. /\ db' = db /\ lost' = lost /\ overlap' = overlap /\ disk' = disk
          /\ job[m].pc = "commit"
          /\ hub' = hub \/ hub' = Applied(job[m].body)
      BY <1>11 DEF CommitRefused, dirs, history
    <2>4. CASE hub' = hub
      BY <2>1, <2>2, <2>3, <2>4, ForwardKept
    <2>5. CASE hub' = Applied(job[m].body)
      BY <2>1, <2>2, <2>3, <2>5, ForwardApplied
    <2>. QED
      BY <2>3, <2>4, <2>5
  <1>. QED
    BY <1>1, <1>2, <1>3, <1>4, <1>5, <1>6, <1>7, <1>8, <1>9, <1>10, <1>11
    DEF Next, Work, Fault

\* What a step does to the registry at the root.
LEMMA StepNeverOlder ==
  ASSUME ExportInv, Forward, [Next]_vars
  PROVE  hub.stations # None /\ ~lost /\ ~overlap => hub'.stations >= hub.stations
  <1>. SUFFICES ASSUME hub.stations # None, ~lost, ~overlap
                PROVE  hub'.stations >= hub.stations
    OBVIOUS
  <1>1. hub.stations \in Nat
    BY SurroundingsOf, ExportAssumption DEF Hubs, Versions, ExportAssumption
  <1>2. CASE hub' = hub
    BY <1>1, <1>2
  <1>3. ASSUME NEW m \in Months, job[m].pc = "commit", hub' = Applied(job[m].body)
        PROVE  hub'.stations >= hub.stations
    <2>1. hub'.stations = job[m].body.stations /\ job[m].body.stations \in Nat
      BY <1>3, BodyAtCommit, ExportAssumption
      DEF Applied, Requests, Versions, ExportAssumption
    <2>. QED
      BY <1>1, <1>3, <2>1 DEF Forward, Recent
  <1>4. \/ hub' = hub
        \/ \E m \in Months : job[m].pc = "commit" /\ hub' = Applied(job[m].body)
    <2>1. CASE UNCHANGED vars
      BY <2>1 DEF vars
    <2>2. CASE \E r \in stray : HubApplies(r)
      BY <2>2 DEF ExportInv, StrayWhole
    <2>3. CASE \E m \in Months : Commit(m) \/ CommitRefused(m)
      BY <2>3 DEF Commit, CommitRefused
    <2>4. CASE hub' = hub
      BY <2>4
    <2>. QED
      BY <2>1, <2>2, <2>3, <2>4
      DEF Next, Work, Fault, DbChanges, Crash, NoteFiled, Trigger, Reexport, Begin, ExportRows,
          ExportStations, WriteManifest, WriteCards, Upload, Consume, Ack, AttemptFails,
          CommitUnanswered
  <1>. QED
    BY <1>2, <1>3, <1>4

\* The registry at the root is never replaced by an older one while months are
\* exported one after the other and every answer arrives (export.go 115-120, 808-829).
THEOREM ExportStationsNeverOlder ==
  Spec => StationsNeverOlder
  <1>1. Init => Sole /\ Forward
    BY DEF Init, Sole, Forward, Active, Absent, Idle
  <1>2. ExportInv /\ ExportInv' /\ Sole /\ Forward /\ [Next]_vars => Sole' /\ Forward'
    BY SoleStep, ForwardStep
  <1>3. ExportInv /\ Forward /\ [Next]_vars =>
          [hub.stations # None /\ ~lost /\ ~overlap => hub'.stations >= hub.stations]_vars
    BY StepNeverOlder
  <1>4. QED
    BY <1>1, <1>2, <1>3, ExportInvariant, PTL DEF Spec, StationsNeverOlder

------------------------------------------------------------------------------
(* The index of the published months *)

\* A task between its first file and the answer to its commit.
Producing == {"rows", "stations", "manifest", "cards", "upload", "commit"}

\* While nothing has failed and exports come one at a time, the directories are
\* those of the published months and of the month at work, and so is the index
\* it takes along.
Listed ==
  failures = 0 /\ ~overlap =>
    /\ ~lost
    /\ hub.index = Published
    /\ \A k \in Months :
         /\ disk[k] # None <=> k \in Published \/ job[k].pc \in Producing
         /\ job[k].pc = "upload" => index = Published \cup {k}
         /\ job[k].pc = "commit" => job[k].body.index = Published \cup {k}

\* A directory is not mistaken for a missing one.
LEMMA DirectoryPresent ==
  None \notin Files
  <1>1. Versions \subseteq Nat
    BY ExportAssumption DEF ExportAssumption, Versions
  <1>2. Manifests \subseteq [rows : Nat \cup {None}, stations : Nat \cup {None},
                              coverage : Nat, notes : SUBSET Notes]
    BY <1>1 DEF Manifests
  <1>. QED
    BY <1>1, <1>2, ExportAssumption DEF ExportAssumption, Files

\* A step in which something fails is over with it.
LEMMA FailsCounts ==
  ASSUME ExportInv, Fails
  PROVE  failures' # 0
  BY SurroundingsOf DEF Surroundings, Fails

\* A step that starts or ends no production.
LEMMA ListedKept ==
  ASSUME Listed, hub' = hub, failures' = failures, lost' = lost, overlap' = overlap,
         index' = index,
         \A k \in Months :
           /\ disk'[k] # None <=> disk[k] # None
           /\ job'[k].pc \in Producing <=> job[k].pc \in Producing
           /\ job'[k].pc = "upload" => job[k].pc = "upload"
           /\ job'[k].pc = "commit" => job[k].pc = "commit" /\ job'[k].body = job[k].body
  PROVE  Listed'
  <1>1. Published' = Published
    BY DEF Published
  <1>. QED
    BY <1>1 DEF Listed

LEMMA ListedStep ==
  ASSUME ExportInv, ExportInv', Sole, Listed, [Next]_vars
  PROVE  Listed'
  <1>. SUFFICES ASSUME failures' = 0, ~overlap' PROVE Listed'
    BY DEF Listed
  <1>. /\ job \in [Months -> Jobs] /\ disk \in [Months -> Files \cup {None}]
       /\ job' \in [Months -> Jobs] /\ disk' \in [Months -> Files \cup {None}]
       /\ overlap \in BOOLEAN
    BY SurroundingsOf DEF ExportInv, TypeOK, Surroundings
  <1>0. \A m \in Months : ~Fault(m)
    BY FailsCounts DEF Fault, AttemptFails, CommitRefused, CommitUnanswered
  <1>1. CASE DbChanges \/ (\E n \in Notes : NoteFiled(n)) \/ UNCHANGED vars
    BY <1>1, ListedKept DEF DbChanges, NoteFiled, vars, dirs, history
  <1>2. CASE Crash
    BY <1>2, FailsCounts DEF Crash
  <1>3. CASE \E r \in stray : HubApplies(r)
    BY <1>3 DEF HubApplies, history, ExportInv, StrayWhole, Listed
  <1>4. ASSUME NEW m \in Months, Trigger(m) \/ Reexport(m) \/ Ack(m)
        PROVE  Listed'
    <2>1. Queued(0).pc = "queued" /\ Absent.pc = "absent"
      BY DEF Queued, Absent, Idle
    <2>2. \A k \in Months :
            \/ job'[k] = job[k]
            \/ job'[k].pc \in {"absent", "queued"} /\ job[k].pc \notin Producing
      BY <1>4, <2>1 DEF Trigger, Reexport, Ack, Active, Producing
    <2>3. /\ hub' = hub /\ lost' = lost /\ overlap' = overlap
          /\ index' = index /\ disk' = disk /\ failures' = failures
      BY <1>4, FailsCounts DEF Trigger, Reexport, Ack, dirs, history
    <2>. QED
      BY <2>2, <2>3, ListedKept DEF Producing
  <1>5. ASSUME NEW m \in Months, NEW n \in Notes, Consume(m, n)
        PROVE  Listed'
    <2>1. job[m].pc = "consume" /\ job'[m].pc \in {"ack", "consume"}
      BY <1>5, ConsumeTask DEF Consume
    <2>2. \A k \in Months : k # m => job'[k] = job[k]
      BY <1>5 DEF Consume
    <2>3. /\ hub' = hub /\ lost' = lost /\ overlap' = overlap
          /\ index' = index /\ disk' = disk /\ failures' = failures
      BY <1>5, FailsCounts DEF Consume, dirs, history
    <2>. QED
      BY <2>1, <2>2, <2>3, ListedKept DEF Producing
  <1>6. ASSUME NEW m \in Months, Begin(m)
        PROVE  Listed'
    <2>1. hub' = hub /\ lost' = lost /\ index' = index /\ failures' = failures
          /\ ~overlap /\ \A k \in Months : ~Active(k)
      BY <1>6 DEF Begin
    <2>2. job'[m].pc = "rows" /\ \A k \in Months : k # m => job'[k] = job[k] /\ disk'[k] = disk[k]
      BY <1>6 DEF Begin, BeginAt
    <2>3. disk'[m] # None
      <3>1. disk'[m] \in Files
        BY <2>2 DEF ExportInv, Stage, StageIs
      <3>. QED
        BY <3>1, DirectoryPresent
    <2>4. Published' = Published
      BY <2>1 DEF Published
    <2>. QED
      BY <2>1, <2>2, <2>3, <2>4 DEF Listed, Producing, Active
  <1>7. ASSUME NEW m \in Months, ExportRows(m) \/ ExportStations(m) \/ WriteManifest(m)
        PROVE  Listed'
    <2>1. /\ job[m].pc \in {"rows", "stations", "manifest"}
          /\ job'[m].pc \in {"stations", "manifest", "cards"}
      BY <1>7, AtWork DEF ExportRows, ExportStations, WriteManifest, Jobs
    <2>2. /\ hub' = hub /\ lost' = lost /\ overlap' = overlap /\ index' = index
          /\ failures' = failures
          /\ \A k \in Months : k # m => job'[k] = job[k] /\ disk'[k] = disk[k]
      BY <1>7, FailsCounts DEF ExportRows, ExportStations, WriteManifest, history
    <2>3. disk[m] # None /\ disk'[m] # None
      <3>1. disk[m] \in Files /\ disk'[m] \in Files
        BY <2>1 DEF ExportInv, Stage, StageIs
      <3>. QED
        BY <3>1, DirectoryPresent
    <2>. QED
      BY <2>1, <2>2, <2>3, ListedKept DEF Producing
  <1>8. ASSUME NEW m \in Months, WriteCards(m)
        PROVE  Listed'
    <2>1. /\ hub' = hub /\ lost' = lost /\ overlap' = overlap /\ failures' = failures
          /\ disk' = disk /\ index' = Chunks
          /\ job[m].pc = "cards" /\ job'[m].pc = "upload"
          /\ \A k \in Months : k # m => job'[k] = job[k]
      BY <1>8, FailsCounts DEF WriteCards, Indexed, history
    <2>2. \A k \in Months \ {m} : ~Active(k)
      BY <2>1 DEF Sole, Active
    <2>3. Chunks = Published \cup {m}
      <3>1. \A k \in Months : disk[k] # None <=> k \in Published \/ k = m
        BY <2>1, <2>2 DEF Listed, Producing, Active
      <3>2. Published \subseteq Months
        BY DEF Published
      <3>. QED
        BY <3>1, <3>2 DEF Chunks
    <2>4. Published' = Published
      BY <2>1 DEF Published
    <2>5. \A k \in Months \ {m} : job'[k].pc \notin Producing
      BY <2>1, <2>2 DEF Active, Producing
    <2>. QED
      BY <2>1, <2>3, <2>4, <2>5 DEF Listed, Producing
  <1>9. ASSUME NEW m \in Months, Upload(m)
        PROVE  Listed'
    <2>1. /\ hub' = hub /\ lost' = lost /\ overlap' = overlap /\ failures' = failures
          /\ disk' = disk /\ index' = index /\ job[m].pc = "upload"
          /\ \A k \in Months : k # m => job'[k] = job[k]
      BY <1>9 DEF Upload, dirs, history
    <2>2. job'[m].pc = "commit" /\ job'[m].body.index = index
      BY <1>9 DEF Upload, Body, Jobs
    <2>3. Published' = Published
      BY <2>1 DEF Published
    <2>. QED
      BY <2>1, <2>2, <2>3 DEF Listed, Producing
  <1>10. ASSUME NEW m \in Months, Commit(m)
         PROVE  Listed'
    <2>1. /\ hub' = Applied(job[m].body) /\ lost' = lost /\ overlap' = overlap
          /\ failures' = failures /\ disk' = disk /\ index' = index
          /\ job[m].pc = "commit" /\ \A k \in Months : k # m => job'[k] = job[k]
      BY <1>10 DEF Commit, dirs, history
    <2>2. job'[m].pc \in {"ack", "consume"}
      BY <1>10, AtWork DEF Commit, AfterCommit, Jobs
    <2>3. /\ job[m].body \in Requests /\ Whole(job[m].body) /\ job[m].body.month = m
          /\ job[m].body.index = Published \cup {m}
      BY <2>1, BodyAtCommit DEF Listed
    <2>4. hub'.index = Published \cup {m}
      BY <2>1, <2>3 DEF Applied
    <2>5. Published' = Published \cup {m}
      <3>1. hub'.chunk[m] # None /\ \A k \in Months : k # m => hub'.chunk[k] = hub.chunk[k]
        BY <2>1, <2>3, SurroundingsOf, AppliedTyped DEF ExportInv
      <3>. QED
        BY <3>1 DEF Published
    <2>6. \A k \in Months \ {m} : job'[k].pc \notin Producing
      BY <2>1 DEF Sole, Active, Producing
    <2>7. \A k \in Months : disk[k] # None <=> k \in Published \cup {m}
      BY <2>1, <2>6 DEF Listed, Producing
    <2>. QED
      BY <2>1, <2>2, <2>4, <2>5, <2>6, <2>7 DEF Listed, Producing
  <1>. QED
    BY <1>0, <1>1, <1>2, <1>3, <1>4, <1>5, <1>6, <1>7, <1>8, <1>9, <1>10 DEF Next, Work

\* The index on the repository's card lists exactly the published months, as
\* long as nothing failed and no two months were exported at once (export.go
\* 179-237, 808-925).
THEOREM ExportIndexExact ==
  Spec => []IndexExact
  <1>1. Init => Sole /\ Listed
    BY DEF Init, Sole, Listed, Active, Absent, Idle, Published, Producing
  <1>2. ExportInv /\ ExportInv' /\ Sole /\ Listed /\ [Next]_vars => Sole' /\ Listed'
    BY SoleStep, ListedStep
  <1>3. Listed => IndexExact
    BY DEF Listed, IndexExact
  <1>4. QED
    BY <1>1, <1>2, <1>3, ExportInvariant, PTL DEF Spec

------------------------------------------------------------------------------
(* Every note in one chunk *)

\* The export of month j has read its notes and is about to publish them.
Carrying == {"cards", "upload", "commit"}

\* While nothing has failed, exports come one at a time and none is repeated:
\* a month is exported at most once; what it carries are filed notes that no
\* chunk shows; a filed note that is shown is about to be removed.
Once ==
  failures = 0 /\ ~overlap /\ reexports = 0 =>
    /\ \A k \in Months :
         /\ job[k].pc # "absent" \/ k \in Published => k \in triggered
         /\ k \in Published => job[k].pc \in {"absent", "consume", "ack"}
         /\ job[k].pc \in Carrying =>
              \A n \in job[k].notes : note[n] = "filed" /\ Showing(n) = {}
    /\ \A n \in Notes :
         /\ \A i, k \in Showing(n) : i = k
         /\ note[n] = "unfiled" => Showing(n) = {}
         /\ note[n] = "removed" => Showing(n) # {}
         /\ \A k \in Showing(n) :
              note[n] = "filed" => job[k].pc = "consume" /\ n \in job[k].notes

\* A step that neither publishes nor reads, files or removes notes.
LEMMA OnceKept ==
  ASSUME Once, hub' = hub, note' = note, failures' = failures, overlap => overlap',
         overlap \in BOOLEAN, reexports' = reexports, triggered \subseteq triggered',
         \A k \in Months :
           /\ job'[k].pc # "absent" => job[k].pc # "absent" \/ k \in triggered'
           /\ k \in Published /\ job[k].pc \in {"absent", "consume", "ack"} =>
                job'[k].pc \in {"absent", "consume", "ack"}
           /\ job'[k].pc \in Carrying => job[k].pc \in Carrying /\ job'[k].notes = job[k].notes
           /\ job[k].pc = "consume" => job'[k].pc = "consume" /\ job'[k].notes = job[k].notes
  PROVE  Once'
  <1>1. Published' = Published /\ \A n \in Notes : Showing(n)' = Showing(n)
    BY DEF Published, Showing
  <1>. QED
    BY <1>1 DEF Once, Showing, Published

\* The chunk that is published shows what its export carried, and the others
\* what they showed before.
LEMMA CommitShows ==
  ASSUME ExportInv, NEW m \in Months, Commit(m)
  PROVE  /\ Published' = Published \cup {m}
         /\ \A n \in Notes, k \in Months :
              k \in Showing(n)' <=> IF k = m THEN n \in job[m].notes ELSE k \in Showing(n)
  <1>1. /\ job[m].body \in Requests /\ Whole(job[m].body) /\ job[m].body.month = m
        /\ job[m].body.manifest.notes = job[m].notes /\ hub' = Applied(job[m].body)
    BY BodyAtCommit DEF Commit
  <1>2. /\ hub'.chunk[m] # None
        /\ hub'.chunk[m] = [rows |-> job[m].body.rows, manifest |-> job[m].body.manifest]
        /\ \A k \in Months : k # m => hub'.chunk[k] = hub.chunk[k]
    BY <1>1, SurroundingsOf, AppliedTyped DEF ExportInv
  <1>3. hub'.chunk[m].manifest.notes = job[m].notes
    BY <1>1, <1>2
  <1>. QED
    BY <1>2, <1>3 DEF Published, Showing

LEMMA OnceStep ==
  ASSUME ExportInv, Sole, Listed, Once, [Next]_vars
  PROVE  Once'
  <1>. SUFFICES ASSUME failures' = 0, ~overlap', reexports' = 0 PROVE Once'
    BY DEF Once
  <1>. /\ job \in [Months -> Jobs] /\ note \in [Notes -> {"unfiled", "filed", "removed"}]
       /\ overlap \in BOOLEAN /\ reexports \in Nat
    BY SurroundingsOf DEF Surroundings
  <1>0. \A m \in Months : ~Fault(m)
    BY FailsCounts DEF Fault, AttemptFails, CommitRefused, CommitUnanswered
  <1>1. CASE DbChanges \/ UNCHANGED vars
    BY <1>1, OnceKept DEF DbChanges, vars, dirs, history
  <1>2. CASE Crash
    BY <1>2, FailsCounts DEF Crash
  <1>3. CASE \E r \in stray : HubApplies(r)
    BY <1>3 DEF HubApplies, history, ExportInv, StrayWhole, Listed
  <1>4. ASSUME NEW n \in Notes, NoteFiled(n)
        PROVE  Once'
    <2>1. /\ hub' = hub /\ job' = job /\ failures' = failures /\ overlap' = overlap
          /\ reexports' = reexports /\ triggered' = triggered
          /\ note[n] = "unfiled" /\ note'[n] = "filed"
          /\ \A k \in Notes : k # n => note'[k] = note[k]
      BY <1>4 DEF NoteFiled, dirs, history
    <2>2. Published' = Published /\ \A k \in Notes : Showing(k)' = Showing(k)
      BY <2>1 DEF Published, Showing
    <2>3. Showing(n) = {}
      BY <2>1 DEF Once
    <2>4. ASSUME NEW k \in Months, job'[k].pc \in Carrying, NEW l \in job'[k].notes
          PROVE  note'[l] = "filed" /\ Showing(l)' = {}
      <3>1. l \in Notes
        BY <2>1, <2>4, AtWork DEF Jobs
      <3>. QED
        BY <2>1, <2>2, <2>4, <3>1 DEF Once
    <2>. QED
      BY <2>1, <2>2, <2>3, <2>4 DEF Once, Carrying
  <1>5. ASSUME NEW m \in Months, Trigger(m)
        PROVE  Once'
    <2>1. /\ hub' = hub /\ note' = note /\ failures' = failures /\ overlap' = overlap
          /\ reexports' = reexports /\ triggered' = triggered \cup {m} /\ m \notin triggered
      BY <1>5, FailsCounts DEF Trigger, dirs, history
    <2>2. job[m].pc = "absent" /\ m \notin Published
      BY <2>1 DEF Once
    <2>3. /\ \A k \in Months : k # m => job'[k] = job[k]
          /\ job'[m].pc \in {"absent", "queued"}
      BY <1>5, <2>2 DEF Trigger, Queued, Idle
    <2>. QED
      BY <2>1, <2>2, <2>3, OnceKept DEF Carrying
  <1>6. ASSUME NEW m \in Months, Reexport(m)
        PROVE  Once'
    BY <1>6 DEF Reexport
  <1>7. ASSUME NEW m \in Months, Begin(m) \/ ExportRows(m) \/ ExportStations(m)
        PROVE  Once'
    <2>1. /\ hub' = hub /\ note' = note /\ failures' = failures /\ (overlap => overlap')
          /\ reexports' = reexports /\ triggered' = triggered
          /\ \A k \in Months : k # m => job'[k] = job[k]
      BY <1>7 DEF Begin, ExportRows, ExportStations, history
    <2>2. job[m].pc \in {"queued", "rows", "stations"}
      BY <1>7 DEF Begin, ExportRows, ExportStations
    <2>3. job'[m].pc \in {"rows", "stations", "manifest"}
      <3>1. CASE Begin(m)
        BY <3>1, AtWork DEF Begin, BeginAt, Jobs
      <3>2. CASE ExportRows(m)
        BY <3>2, AtWork DEF ExportRows, Jobs
      <3>3. CASE ExportStations(m)
        BY <3>3, AtWork DEF ExportStations, Jobs
      <3>. QED
        BY <1>7, <3>1, <3>2, <3>3
    <2>. QED
      BY <2>1, <2>2, <2>3, OnceKept DEF Carrying
  <1>8. ASSUME NEW m \in Months, WriteManifest(m)
        PROVE  Once'
    <2>1. /\ hub' = hub /\ note' = note /\ failures' = failures /\ overlap' = overlap
          /\ reexports' = reexports /\ triggered' = triggered
          /\ \A k \in Months : k # m => job'[k] = job[k]
          /\ job[m].pc = "manifest"
      BY <1>8, FailsCounts DEF WriteManifest, history
    <2>2. job'[m].pc = "cards" /\ job'[m].notes \subseteq Filed
      BY <1>8, AtWork DEF WriteManifest, Jobs
    <2>3. \A n \in Filed : n \in Notes /\ note[n] = "filed"
      BY DEF Filed
    <2>4. ASSUME NEW n \in Filed
          PROVE  Showing(n) = {}
      <3>. SUFFICES ASSUME NEW k \in Showing(n) PROVE FALSE
        OBVIOUS
      <3>1. k \in Months /\ job[k].pc = "consume"
        BY <2>1, <2>3 DEF Once, Showing, Published
      <3>. QED
        BY <2>1, <3>1 DEF Sole, Active
    <2>5. Published' = Published /\ \A n : Showing(n)' = Showing(n)
      BY <2>1 DEF Published, Showing
    <2>6. m \notin Published /\ m \in triggered
      BY <2>1 DEF Once
    <2>7. ASSUME NEW k \in Months
          PROVE  /\ job'[k].pc # "absent" \/ k \in Published' => k \in triggered'
                 /\ k \in Published' => job'[k].pc \in {"absent", "consume", "ack"}
      BY <2>1, <2>2, <2>5, <2>6 DEF Once
    <2>8. ASSUME NEW k \in Months, job'[k].pc \in Carrying, NEW n \in job'[k].notes
          PROVE  note'[n] = "filed" /\ Showing(n)' = {}
      <3>1. CASE k = m
        BY <2>1, <2>2, <2>3, <2>4, <2>5, <2>8, <3>1
      <3>2. CASE k # m
        BY <2>1, <2>5, <2>8, <3>2 DEF Once
      <3>. QED
        BY <3>1, <3>2
    <2>9. ASSUME NEW n \in Notes
          PROVE  /\ \A i, k \in Showing(n) : i = k
                 /\ note'[n] = "unfiled" => Showing(n) = {}
                 /\ note'[n] = "removed" => Showing(n) # {}
      BY <2>1 DEF Once
    <2>10. ASSUME NEW n \in Notes, NEW k \in Showing(n), note'[n] = "filed"
           PROVE  job'[k].pc = "consume" /\ n \in job'[k].notes
      <3>1. job[k].pc = "consume" /\ n \in job[k].notes /\ k \in Months
        BY <2>1, <2>10 DEF Once, Showing, Published
      <3>. QED
        BY <2>1, <3>1
    <2>. QED
      BY <2>5, <2>7, <2>8, <2>9, <2>10 DEF Once
  <1>9. ASSUME NEW m \in Months, WriteCards(m) \/ Upload(m)
        PROVE  Once'
    <2>1. /\ hub' = hub /\ note' = note /\ failures' = failures /\ overlap' = overlap
          /\ reexports' = reexports /\ triggered' = triggered
          /\ \A k \in Months : k # m => job'[k] = job[k]
      BY <1>9, FailsCounts DEF WriteCards, Upload, dirs, history
    <2>2. job[m].pc \in {"cards", "upload"}
      BY <1>9 DEF WriteCards, Upload
    <2>3. job'[m].pc \in {"upload", "commit"} /\ job'[m].notes = job[m].notes
      BY <1>9, AtWork DEF WriteCards, Upload, Jobs
    <2>. QED
      BY <2>1, <2>2, <2>3, OnceKept DEF Carrying
  <1>10. ASSUME NEW m \in Months, Commit(m)
         PROVE  Once'
    <2>1. /\ note' = note /\ failures' = failures /\ overlap' = overlap
          /\ reexports' = reexports /\ triggered' = triggered
          /\ \A k \in Months : k # m => job'[k] = job[k]
          /\ job[m].pc = "commit"
      BY <1>10 DEF Commit, dirs, history
    <2>2. /\ job'[m].pc = IF job[m].notes = {} THEN "ack" ELSE "consume"
          /\ job'[m].notes = job[m].notes
      BY <1>10, AtWork DEF Commit, AfterCommit, Jobs
    <2>3. /\ Published' = Published \cup {m}
          /\ \A n \in Notes, k \in Months :
               k \in Showing(n)' <=> IF k = m THEN n \in job[m].notes ELSE k \in Showing(n)
      BY <1>10, CommitShows
    <2>4. \A n : Showing(n) \subseteq Months /\ Showing(n)' \subseteq Months
      BY DEF Showing, Published
    <2>5. m \notin Published /\ m \in triggered
      BY <2>1 DEF Once
    <2>6. job[m].notes \subseteq Notes
          /\ \A n \in job[m].notes : note[n] = "filed" /\ Showing(n) = {}
      BY <2>1, AtWork DEF Once, Carrying, Jobs
    <2>7. \A k \in Months \ {m} : job[k].pc \notin Carrying
      BY <2>1 DEF Sole, Active, Carrying
    <2>8. ASSUME NEW k \in Months
          PROVE  /\ job'[k].pc # "absent" \/ k \in Published' => k \in triggered'
                 /\ k \in Published' => job'[k].pc \in {"absent", "consume", "ack"}
                 /\ job'[k].pc \notin Carrying
      BY <2>1, <2>2, <2>3, <2>5, <2>7 DEF Once, Carrying
    <2>9. ASSUME NEW n \in Notes
          PROVE  /\ \A i, k \in Showing(n)' : i = k
                 /\ note'[n] = "unfiled" => Showing(n)' = {}
                 /\ note'[n] = "removed" => Showing(n)' # {}
                 /\ \A k \in Showing(n)' :
                      note'[n] = "filed" => job'[k].pc = "consume" /\ n \in job'[k].notes
      <3>0. m \notin Showing(n)
        BY <2>5 DEF Showing
      <3>1. CASE n \in job[m].notes
        <4>1. Showing(n)' = {m}
          BY <2>3, <2>4, <2>6, <3>1
        <4>. QED
          BY <2>1, <2>2, <2>6, <3>1, <4>1
      <3>2. CASE n \notin job[m].notes
        <4>1. Showing(n)' = Showing(n)
          BY <2>3, <2>4, <3>0, <3>2
        <4>2. \A k \in Showing(n) : k \in Months /\ k # m
          BY <2>4, <3>0
        <4>. QED
          BY <2>1, <4>1, <4>2 DEF Once
      <3>. QED
        BY <3>1, <3>2
    <2>. QED
      BY <2>8, <2>9 DEF Once
  <1>11. ASSUME NEW m \in Months, NEW n \in Notes, Consume(m, n)
         PROVE  Once'
    <2>1. /\ hub' = hub /\ failures' = failures /\ overlap' = overlap
          /\ reexports' = reexports /\ triggered' = triggered
          /\ \A k \in Months : k # m => job'[k] = job[k]
          /\ job[m].pc = "consume" /\ n \in job[m].notes
      BY <1>11, FailsCounts DEF Consume, ToConsume, dirs, history
    <2>2. /\ job'[m].notes = job[m].notes \ {n}
          /\ job'[m].pc = IF job[m].notes \subseteq {n} THEN "ack" ELSE "consume"
      BY <1>11, ConsumeTask
    <2>3. \/ note[n] = "filed" /\ note'[n] = "removed"
          \/ note[n] # "filed" /\ note'[n] = note[n]
      BY <1>11, FailsCounts DEF Consume, Missing
    <2>4. \A k \in Notes : k # n => note'[k] = note[k]
      BY <1>11 DEF Consume
    <2>5. m \in Showing(n)
      <3>1. ~lost
        BY <2>1 DEF Listed
      <3>2. hub.chunk[m] # None /\ job[m].notes \subseteq hub.chunk[m].manifest.notes
        BY <2>1, <3>1, AtWork DEF StageIs
      <3>. QED
        BY <2>1, <3>2 DEF Showing, Published
    <2>6. Published' = Published /\ \A k : Showing(k)' = Showing(k)
      BY <2>1 DEF Published, Showing
    <2>7. \A k \in Months \ {m} : job[k].pc \notin Carrying
      BY <2>1 DEF Sole, Active, Carrying
    <2>8. ASSUME NEW k \in Months
          PROVE  /\ job'[k].pc # "absent" \/ k \in Published' => k \in triggered'
                 /\ k \in Published' => job'[k].pc \in {"absent", "consume", "ack"}
                 /\ job'[k].pc \notin Carrying
      BY <2>1, <2>2, <2>6, <2>7 DEF Once, Carrying
    <2>9. ASSUME NEW l \in Notes
          PROVE  /\ \A i, k \in Showing(l) : i = k
                 /\ note'[l] = "unfiled" => Showing(l) = {}
                 /\ note'[l] = "removed" => Showing(l) # {}
      BY <2>1, <2>3, <2>4, <2>5 DEF Once
    <2>10. ASSUME NEW l \in Notes, NEW k \in Showing(l), note'[l] = "filed"
           PROVE  job'[k].pc = "consume" /\ l \in job'[k].notes
      <3>1. l # n
        BY <2>3, <2>10
      <3>2. job[k].pc = "consume" /\ l \in job[k].notes
        BY <2>1, <2>4, <2>10, <3>1 DEF Once
      <3>3. k \in Months
        BY DEF Showing, Published
      <3>4. CASE k = m
        BY <2>2, <3>1, <3>2, <3>4
      <3>. QED
        BY <2>1, <3>2, <3>3, <3>4
    <2>. QED
      BY <2>6, <2>8, <2>9, <2>10 DEF Once
  <1>12. ASSUME NEW m \in Months, Ack(m)
         PROVE  Once'
    <2>1. /\ hub' = hub /\ note' = note /\ failures' = failures /\ overlap' = overlap
          /\ reexports' = reexports /\ triggered' = triggered
          /\ \A k \in Months : k # m => job'[k] = job[k]
          /\ job[m].pc = "ack" /\ job'[m].pc = "absent"
      BY <1>12 DEF Ack, Absent, Idle, dirs, history
    <2>. QED
      BY <2>1, OnceKept DEF Carrying
  <1>. QED
    BY <1>0, <1>1, <1>2, <1>3, <1>4, <1>5, <1>6, <1>7, <1>8, <1>9, <1>10, <1>11, <1>12
    DEF Next, Work

\* At most one of a set whose members are all the same.
LEMMA AtMostOne ==
  ASSUME NEW S, \A i, k \in S : i = k
  PROVE  Cardinality(S) <= 1
  <1>1. CASE S = {}
    BY <1>1, FS_EmptySet
  <1>2. CASE S # {}
    <2>1. PICK x : S = {x}
      BY <1>2
    <2>. QED
      BY <2>1, FS_Singleton
  <1>. QED
    BY <1>1, <1>2

\* Each note appears in exactly one published chunk, when nothing failed, no
\* two months were exported at once and none twice (export.go 497-510, the
\* promise of its comments).
THEOREM ExportNotesOnce ==
  Spec => []NotesOnceUndisturbed
  <1>1. Init => Sole /\ Listed /\ Once
    <2>. SUFFICES ASSUME Init PROVE Sole /\ Listed /\ Once
      OBVIOUS
    <2>1. Published = {} /\ \A n : Showing(n) = {}
      BY DEF Init, Published, Showing
    <2>2. \A m \in Months : job[m].pc = "absent"
      BY DEF Init, Absent, Idle
    <2>. QED
      BY <2>1, <2>2 DEF Init, Sole, Listed, Once, Active, Producing, Carrying
  <1>2. ExportInv /\ ExportInv' /\ Sole /\ Listed /\ Once /\ [Next]_vars =>
          Sole' /\ Listed' /\ Once'
    BY SoleStep, ListedStep, OnceStep
  <1>3. Once => NotesOnceUndisturbed
    BY AtMostOne DEF Once, NotesOnceUndisturbed
  <1>4. QED
    BY <1>1, <1>2, <1>3, ExportInvariant, PTL DEF Spec

------------------------------------------------------------------------------
(* Consumed notes stay *)

\* While no worker died, every answer came and nothing is exported anew, a
\* month's task is done once; and a removed note is shown by the chunk of a
\* month whose task has published it and will not publish again.
Done == {"consume", "ack", "absent"}
ShownForGood(n) ==
  {m \in triggered : job[m].pc \in Done /\ hub.chunk[m] # None /\ n \in hub.chunk[m].manifest.notes}
Consumed ==
  ~crashed /\ ~lost /\ reexports = 0 =>
    /\ \A m \in Months : job[m].pc # "absent" => m \in triggered
    /\ \A n \in Notes : note[n] = "removed" => ShownForGood(n) # {}

\* A step that removes no note, leaves done tasks done and the chunks of all
\* others than a task at work as they are.
LEMMA ConsumedStays ==
  ASSUME Consumed, triggered \subseteq Months, crashed' = crashed, lost' = lost, reexports' = reexports,
         triggered \subseteq triggered',
         \A n \in Notes : note'[n] = "removed" => note[n] = "removed",
         \A k \in Months :
           /\ job'[k].pc # "absent" => job[k].pc # "absent" \/ k \in triggered'
           /\ k \in triggered /\ job[k].pc \in Done =>
                job'[k].pc \in Done /\ hub'.chunk[k] = hub.chunk[k]
  PROVE  Consumed'
  <1>. SUFFICES ASSUME ~crashed, ~lost, reexports = 0 PROVE Consumed'
    BY DEF Consumed
  <1>1. \A n \in Notes : ShownForGood(n) \subseteq ShownForGood(n)'
    BY DEF ShownForGood
  <1>2. \A n \in Notes : note'[n] = "removed" => ShownForGood(n)' # {}
    BY <1>1 DEF Consumed
  <1>3. \A m \in Months : job'[m].pc # "absent" => m \in triggered'
    BY DEF Consumed
  <1>. QED
    BY <1>2, <1>3 DEF Consumed

LEMMA ConsumedStep ==
  ASSUME ExportInv, Consumed, [Next]_vars
  PROVE  Consumed'
  <1>. SUFFICES ASSUME ~crashed', ~lost', reexports' = 0 PROVE Consumed'
    BY DEF Consumed
  <1>. /\ job \in [Months -> Jobs] /\ note \in [Notes -> {"unfiled", "filed", "removed"}]
       /\ triggered \subseteq Months /\ reexports \in Nat /\ lost \in BOOLEAN
    BY SurroundingsOf DEF Surroundings
  <1>1. CASE DbChanges \/ UNCHANGED vars \/ \E n \in Notes : NoteFiled(n)
    BY <1>1, ConsumedStays DEF DbChanges, NoteFiled, vars, dirs, history
  <1>2. CASE Crash
    BY <1>2 DEF Crash
  <1>3. CASE \E r \in stray : HubApplies(r)
    BY <1>3 DEF HubApplies, history, ExportInv, StrayWhole
  <1>4. ASSUME NEW m \in Months, Trigger(m)
        PROVE  Consumed'
    <2>1. /\ hub' = hub /\ note' = note /\ crashed' = crashed /\ lost' = lost
          /\ reexports' = reexports /\ triggered' = triggered \cup {m} /\ m \notin triggered
          /\ \A k \in Months : k # m => job'[k] = job[k]
      BY <1>4 DEF Trigger, dirs, history
    <2>. QED
      BY <2>1, ConsumedStays
  <1>5. ASSUME NEW m \in Months, Reexport(m)
        PROVE  Consumed'
    BY <1>5 DEF Reexport
  <1>6. ASSUME NEW m \in Months,
               \/ Begin(m) \/ ExportRows(m) \/ ExportStations(m) \/ WriteManifest(m)
               \/ WriteCards(m) \/ Upload(m) \/ AttemptFails(m)
        PROVE  Consumed'
    <2>1. /\ hub' = hub /\ note' = note /\ crashed' = crashed /\ lost' = lost
          /\ reexports' = reexports /\ triggered' = triggered
          /\ \A k \in Months : k # m => job'[k] = job[k]
          /\ job[m].pc \in {"queued", "rows", "stations", "manifest", "cards", "upload"}
      BY <1>6 DEF Begin, ExportRows, ExportStations, WriteManifest, WriteCards, Upload,
                  AttemptFails, dirs, history
    <2>. QED
      BY <2>1, ConsumedStays DEF Done
  <1>7. ASSUME NEW m \in Months, Commit(m) \/ CommitRefused(m)
        PROVE  Consumed'
    <2>1. /\ note' = note /\ crashed' = crashed /\ lost' = lost
          /\ reexports' = reexports /\ triggered' = triggered
          /\ \A k \in Months : k # m => job'[k] = job[k]
          /\ job[m].pc = "commit" /\ hub' \in {hub, Applied(job[m].body)}
      BY <1>7 DEF Commit, CommitRefused, dirs, history
    <2>2. \A k \in Months : k # m => hub'.chunk[k] = hub.chunk[k]
      <3>1. /\ job[m].body \in Requests /\ Whole(job[m].body) /\ job[m].body.month = m
        BY <2>1, BodyAtCommit
      <3>2. hub \in Hubs /\ ChunkWhole
        BY SurroundingsOf DEF ExportInv
      <3>3. \A k \in Months : k # m => Applied(job[m].body).chunk[k] = hub.chunk[k]
        BY <3>1, <3>2, AppliedTyped
      <3>. QED
        BY <2>1, <3>3
    <2>. QED
      BY <2>1, <2>2, ConsumedStays DEF Done
  <1>8. ASSUME NEW m \in Months, CommitUnanswered(m)
        PROVE  Consumed'
    BY <1>8 DEF CommitUnanswered
  <1>9. ASSUME NEW m \in Months, NEW n \in Notes, Consume(m, n)
        PROVE  Consumed'
    <2>1. /\ hub' = hub /\ crashed' = crashed /\ lost' = lost
          /\ reexports' = reexports /\ triggered' = triggered
          /\ \A k \in Months : k # m => job'[k] = job[k]
          /\ job[m].pc = "consume" /\ n \in job[m].notes
          /\ \A k \in Notes : k # n => note'[k] = note[k]
      BY <1>9 DEF Consume, ToConsume, dirs, history
    <2>2. job'[m].pc \in Done
      BY <1>9, ConsumeTask DEF Done
    <2>3. \A k \in Notes : ShownForGood(k) \subseteq ShownForGood(k)'
      BY <2>1, <2>2 DEF ShownForGood
    <2>4. m \in ShownForGood(n)
      <3>1. hub.chunk[m] # None /\ job[m].notes \subseteq hub.chunk[m].manifest.notes
        BY <2>1, AtWork DEF StageIs
      <3>2. m \in triggered
        BY <2>1 DEF Consumed
      <3>. QED
        BY <2>1, <3>1, <3>2 DEF ShownForGood, Done
    <2>5. \A k \in Notes : note'[k] = "removed" => ShownForGood(k)' # {}
      BY <2>1, <2>3, <2>4 DEF Consumed
    <2>6. \A k \in Months : job'[k].pc # "absent" => k \in triggered'
      BY <2>1 DEF Consumed
    <2>. QED
      BY <2>5, <2>6 DEF Consumed
  <1>10. ASSUME NEW m \in Months, Ack(m)
         PROVE  Consumed'
    <2>1. /\ hub' = hub /\ note' = note /\ crashed' = crashed /\ lost' = lost
          /\ reexports' = reexports /\ triggered' = triggered
          /\ \A k \in Months : k # m => job'[k] = job[k]
          /\ job[m].pc = "ack" /\ job'[m].pc = "absent"
      BY <1>10 DEF Ack, Absent, Idle, dirs, history
    <2>. QED
      BY <2>1, ConsumedStays DEF Done
  <1>. QED
    BY <1>1, <1>2, <1>3, <1>4, <1>5, <1>6, <1>7, <1>8, <1>9, <1>10 DEF Next, Work, Fault

\* A note ConsumeDowntimeNotes has deleted stays in the dataset through
\* overlapping exports, failed steps, retries and refused commits, unless a
\* worker died, an answer was lost or a month is exported anew.
THEOREM ExportConsumedStays ==
  Spec => []ConsumedStaysShown
  <1>1. Init => Consumed
    BY DEF Init, Consumed, Absent, Idle
  <1>2. ExportInv /\ Consumed /\ [Next]_vars => Consumed'
    BY ConsumedStep
  <1>3. ExportInv /\ Consumed => ConsumedStaysShown
    <2>1. ExportInv => triggered \subseteq Months
      BY SurroundingsOf DEF Surroundings
    <2>. QED
      BY <2>1 DEF Consumed, ShownForGood, ConsumedStaysShown, Showing, Published
  <1>4. QED
    BY <1>1, <1>2, <1>3, ExportInvariant, PTL DEF Spec

------------------------------------------------------------------------------
(* The repository as its readers see it *)

\* What a chunk, or the files or the body it is made of, must have to be put
\* into the dataset: one attempt's rows, registry, coverage and notes.
Dated(c, version, notes) ==
  /\ c.manifest.rows \in {c.rows, None} /\ c.manifest.stations \in {c.stations, None}
  /\ c.rows <= c.stations /\ c.stations <= c.manifest.coverage
  /\ c.manifest.coverage <= version /\ c.manifest.notes \subseteq notes

DatedIs(j, d, version, notes) ==
  /\ j.pc = "manifest" => d.rows <= d.stations /\ d.stations <= version
  /\ j.pc \in {"cards", "upload"} => Dated(d, version, notes)
  /\ j.pc = "commit" => Dated(j.body, version, notes)

\* The order of the reads holds at every stage, and of all that is under way.
Ordered ==
  /\ \A m \in Months : DatedIs(job[m], disk[m], db, Data!EverFiled)
  /\ \A r \in stray : Dated(r, db, Data!EverFiled)

\* The database and the notes only move on.
LEMMA TimePasses ==
  ASSUME ExportInv, [Next]_vars
  PROVE  /\ db \in Nat /\ (db' = db \/ db' = db + 1)
         /\ Data!EverFiled \subseteq Data!EverFiled'
  <1>1. db \in Nat /\ note \in [Notes -> {"unfiled", "filed", "removed"}]
    BY SurroundingsOf, ExportAssumption DEF Surroundings, Versions, ExportAssumption
  <1>2. db' = db \/ db' = db + 1
    BY DEF Next, Work, Fault, vars, DbChanges, Crash, NoteFiled, HubApplies, Trigger, Reexport,
           Begin, ExportRows, ExportStations, WriteManifest, WriteCards, Upload, Commit, Consume,
           Ack, AttemptFails, CommitRefused, CommitUnanswered
  <1>3. \/ note' = note
        \/ \E n \in Notes : NoteFiled(n)
        \/ \E m \in Months, n \in Notes : Consume(m, n)
    BY DEF Next, Work, Fault, vars, DbChanges, Crash, HubApplies, Trigger, Reexport, Begin,
           ExportRows, ExportStations, WriteManifest, WriteCards, Upload, Commit, Ack,
           AttemptFails, CommitRefused, CommitUnanswered
  <1>4. \A n \in Notes : note[n] # "unfiled" => note'[n] # "unfiled"
    BY <1>1, <1>3 DEF NoteFiled, Consume
  <1>. QED
    BY <1>1, <1>2, <1>4 DEF Data!EverFiled

\* What was in order stays so.
LEMMA DatedStays ==
  ASSUME NEW c, NEW v \in Nat, NEW w, NEW N, NEW M, Dated(c, v, N),
         c.manifest.coverage \in Nat, w = v \/ w = v + 1, N \subseteq M
  PROVE  Dated(c, w, M)
  BY DEF Dated

\* Month k's task is no closer to its commit than before, with the same files.
Kept(k) ==
  /\ job'[k].pc = "manifest" => job[k].pc = "manifest" /\ disk'[k] = disk[k]
  /\ job'[k].pc \in {"cards", "upload"} =>
       job[k].pc \in {"cards", "upload"} /\ disk'[k] = disk[k]
  /\ job'[k].pc = "commit" => job[k].pc = "commit" /\ job'[k].body = job[k].body

\* The bodies that are about to be committed.
Sent == {job[m].body : m \in {k \in Months : job[k].pc = "commit"}}

LEMMA OrderedKept ==
  ASSUME ExportInv, Ordered, [Next]_vars, stray' \subseteq stray \cup Sent,
         \A k \in Months :
           Kept(k) \/ DatedIs(job'[k], disk'[k], db', Data!EverFiled')
  PROVE  Ordered'
  <1>. DEFINE N == Data!EverFiled
              M == Data!EverFiled'
  <1>1. db \in Nat /\ (db' = db \/ db' = db + 1) /\ N \subseteq M
    BY TimePasses
  <1>2. Versions \subseteq Nat
    BY ExportAssumption DEF Versions, ExportAssumption
  <1>3. \A r \in Requests : r.manifest.coverage \in Nat
    BY <1>2 DEF Requests, Manifests
  <1>4. ASSUME NEW k \in Months, job[k].pc = "commit"
        PROVE  Dated(job[k].body, db', M)
    <2>1. Dated(job[k].body, db, N) /\ job[k].body \in Requests
      BY <1>4, BodyAtCommit DEF Ordered, DatedIs
    <2>2. job[k].body.manifest.coverage \in Nat
      BY <1>3, <2>1
    <2>. HIDE DEF N, M
    <2>. QED
      BY <1>1, <2>1, <2>2, DatedStays
  <1>5. ASSUME NEW r \in stray'
        PROVE  Dated(r, db', M)
    <2>1. CASE r \in stray
      <3>1. Dated(r, db, N) /\ r.manifest.coverage \in Nat
        BY <1>3, <2>1, SurroundingsOf DEF Ordered
      <3>. HIDE DEF N, M
      <3>. QED
        BY <1>1, <3>1, DatedStays
    <2>2. CASE r \in Sent
      BY <1>4, <2>2 DEF Sent
    <2>. QED
      BY <2>1, <2>2
  <1>6. ASSUME NEW k \in Months, Kept(k)
        PROVE  DatedIs(job'[k], disk'[k], db', M)
    <2>1. CASE job'[k].pc = "manifest"
      <3>1. /\ disk'[k] = disk[k] /\ disk[k].rows <= disk[k].stations
            /\ disk[k].stations <= db /\ disk[k].stations \in Nat
        <4>1. job[k].pc = "manifest"
          BY <1>6, <2>1 DEF Kept
        <4>2. disk[k].stations \in Nat
          BY <1>2, <4>1, AtWork DEF StageIs
        <4>. QED
          BY <1>6, <2>1, <4>1, <4>2 DEF Kept, Ordered, DatedIs
      <3>2. disk[k].stations <= db'
        BY <1>1, <3>1
      <3>. QED
        BY <2>1, <3>1, <3>2 DEF DatedIs
    <2>2. CASE job'[k].pc \in {"cards", "upload"}
      <3>1. disk'[k] = disk[k] /\ job[k].pc \in {"cards", "upload"}
        BY <1>6, <2>2 DEF Kept
      <3>2. Dated(disk[k], db, N)
        BY <3>1 DEF Ordered, DatedIs
      <3>3. disk[k].manifest.coverage \in Nat
        BY <1>2, <3>1, AtWork DEF StageIs, Manifests
      <3>4. Dated(disk[k], db', M)
        <4>. HIDE DEF N, M
        <4>. QED
          BY <1>1, <3>2, <3>3, DatedStays
      <3>. QED
        BY <2>2, <3>1, <3>4 DEF DatedIs
    <2>3. CASE job'[k].pc = "commit"
      BY <1>4, <1>6, <2>3 DEF DatedIs, Kept
    <2>. QED
      BY <2>1, <2>2, <2>3 DEF DatedIs
  <1>. QED
    BY <1>5, <1>6 DEF Ordered

LEMMA OrderedStep ==
  ASSUME ExportInv, Ordered, [Next]_vars
  PROVE  Ordered'
  <1>. DEFINE M == Data!EverFiled'
  <1>. /\ job \in [Months -> Jobs] /\ disk \in [Months -> Files \cup {None}] /\ db \in Nat
    BY SurroundingsOf, ExportAssumption DEF Surroundings, Versions, ExportAssumption
  <1>1. CASE \/ DbChanges \/ (\E n \in Notes : NoteFiled(n)) \/ UNCHANGED vars
             \/ (\E r \in stray : HubApplies(r))
    <2>1. job' = job /\ disk' = disk /\ stray' \subseteq stray
      BY <1>1 DEF DbChanges, NoteFiled, HubApplies, vars, dirs
    <2>. QED
      BY <2>1, OrderedKept DEF Kept
  <1>2. CASE Crash
    <2>1. \A k \in Months : Retried(job[k]).pc \in {"queued", "archived"}
      BY DEF Retried, Queued, Idle
    <2>2. \A k \in Months : job'[k] = job[k] \/ job'[k].pc \in {"queued", "archived"}
      BY <1>2, <2>1 DEF Crash
    <2>3. disk' = disk /\ stray' \subseteq stray \cup Sent
      BY <1>2 DEF Crash, dirs, Sent
    <2>. QED
      BY <2>2, <2>3, OrderedKept DEF Kept
  <1>3. ASSUME NEW m \in Months, Trigger(m) \/ Reexport(m) \/ Ack(m) \/ AttemptFails(m)
                 \/ CommitUnanswered(m)
        PROVE  Ordered'
    <2>1. /\ Queued(0).pc = "queued" /\ Absent.pc = "absent"
          /\ Retried(job[m]).pc \in {"queued", "archived"}
      BY DEF Retried, Queued, Absent, Idle
    <2>2. \A k \in Months : job'[k] = job[k] \/ job'[k].pc \in {"absent", "queued", "archived"}
      BY <1>3, <2>1 DEF Trigger, Reexport, Ack, AttemptFails, CommitUnanswered
    <2>3. disk' = disk /\ stray' \subseteq stray \cup Sent
      BY <1>3 DEF Trigger, Reexport, Ack, AttemptFails, CommitUnanswered, dirs, Sent
    <2>. QED
      BY <2>2, <2>3, OrderedKept DEF Kept
  <1>4. ASSUME NEW m \in Months, Begin(m) \/ ExportRows(m) \/ (\E n \in Notes : Consume(m, n))
        PROVE  Ordered'
    <2>1. \A k \in Months : k # m => job'[k] = job[k] /\ disk'[k] = disk[k]
      BY <1>4 DEF Begin, ExportRows, Consume, dirs
    <2>2. job'[m].pc \in {"rows", "stations", "ack", "consume"}
      <3>1. CASE Begin(m)
        BY <3>1, AtWork DEF Begin, BeginAt, Jobs
      <3>2. CASE ExportRows(m)
        BY <3>2, AtWork DEF ExportRows, Jobs
      <3>. QED
        BY <1>4, <3>1, <3>2, ConsumeTask
    <2>3. stray' = stray
      BY <1>4 DEF Begin, ExportRows, Consume
    <2>. QED
      BY <2>1, <2>2, <2>3, OrderedKept DEF Kept
  <1>5. ASSUME NEW m \in Months, ExportStations(m)
        PROVE  Ordered'
    <2>1. \A k \in Months : k # m => job'[k] = job[k] /\ disk'[k] = disk[k]
      BY <1>5 DEF ExportStations
    <2>2. disk[m] \in Files /\ disk[m].rows \in 0..db
      BY <1>5, AtWork DEF ExportStations, StageIs
    <2>3. /\ disk'[m].stations = db /\ disk'[m].rows = disk[m].rows
          /\ job'[m].pc = "manifest" /\ db' = db /\ stray' = stray
      BY <1>5, <2>2 DEF ExportStations, Files
    <2>4. DatedIs(job'[m], disk'[m], db', M)
      BY <2>2, <2>3 DEF DatedIs
    <2>. QED
      BY <2>1, <2>3, <2>4, OrderedKept DEF Kept
  <1>6. ASSUME NEW m \in Months, WriteManifest(m)
        PROVE  Ordered'
    <2>1. \A k \in Months : k # m => job'[k] = job[k] /\ disk'[k] = disk[k]
      BY <1>6 DEF WriteManifest
    <2>2. disk[m] \in Files /\ disk[m].rows <= disk[m].stations /\ disk[m].stations <= db
      BY <1>6, AtWork DEF WriteManifest, StageIs, Ordered, DatedIs
    <2>3. PICK rows \in {disk[m].rows, None}, stations \in {disk[m].stations, None},
               noted \in SUBSET Filed :
            disk' = [disk EXCEPT ![m].manifest = ManifestOf(m, rows, stations, noted)]
      BY <1>6 DEF WriteManifest
    <2>4. /\ disk'[m].stations = disk[m].stations /\ disk'[m].rows = disk[m].rows
          /\ disk'[m].manifest = ManifestOf(m, rows, stations, noted)
      BY <2>2, <2>3 DEF Files
    <2>5. job'[m].pc = "cards" /\ db' = db /\ stray' = stray /\ note' = note
      BY <1>6 DEF WriteManifest
    <2>6. noted \subseteq M
      BY <2>5 DEF Filed, Data!EverFiled
    <2>7. Dated(disk'[m], db', M)
      BY <2>2, <2>4, <2>5, <2>6 DEF Dated, ManifestOf
    <2>8. DatedIs(job'[m], disk'[m], db', M)
      BY <2>5, <2>7 DEF DatedIs
    <2>. QED
      BY <2>1, <2>5, <2>8, OrderedKept DEF Kept
  <1>7. ASSUME NEW m \in Months, WriteCards(m)
        PROVE  Ordered'
    <2>1. /\ disk' = disk /\ stray' = stray /\ \A k \in Months : k # m => job'[k] = job[k]
          /\ job[m].pc = "cards" /\ job'[m].pc = "upload"
      BY <1>7 DEF WriteCards, Jobs
    <2>. QED
      BY <2>1, OrderedKept DEF Kept
  <1>8. ASSUME NEW m \in Months, Upload(m)
        PROVE  Ordered'
    <2>1. /\ disk' = disk /\ stray' = stray /\ db' = db /\ note' = note
          /\ \A k \in Months : k # m => job'[k] = job[k]
          /\ job'[m].pc = "commit" /\ job'[m].body = Body(m)
      BY <1>8 DEF Upload, Jobs, dirs
    <2>2. Dated(disk[m], db, Data!EverFiled)
      BY <1>8 DEF Upload, Ordered, DatedIs
    <2>3. M = Data!EverFiled
      BY <2>1 DEF Data!EverFiled
    <2>4. DatedIs(job'[m], disk'[m], db', M)
      BY <2>1, <2>2, <2>3 DEF DatedIs, Dated, Body
    <2>. QED
      BY <2>1, <2>4, OrderedKept DEF Kept
  <1>9. ASSUME NEW m \in Months, Commit(m) \/ CommitRefused(m)
        PROVE  Ordered'
    <2>1. /\ disk' = disk /\ stray' = stray /\ job[m].pc = "commit"
          /\ \A k \in Months : k # m => job'[k] = job[k]
      BY <1>9 DEF Commit, CommitRefused, dirs
    <2>2. \/ job'[m].pc \in {"queued", "archived", "ack", "consume"}
          \/ job'[m].pc = "commit" /\ job'[m].body = job[m].body
      <3>1. CASE Commit(m)
        BY <3>1 DEF Commit, AfterCommit, Jobs
      <3>2. CASE CommitRefused(m)
        <4>1. job'[m] = Refused(job[m]) /\ job[m] \in Jobs
          BY <3>2 DEF CommitRefused
        <4>2. Retried(job[m]).pc \in {"queued", "archived"}
          BY DEF Retried, Queued, Idle
        <4>. QED
          BY <2>1, <4>1, <4>2 DEF Refused, Jobs
      <3>. QED
        BY <1>9, <3>1, <3>2
    <2>. QED
      BY <2>1, <2>2, OrderedKept DEF Kept
  <1>. QED
    BY <1>1, <1>2, <1>3, <1>4, <1>5, <1>6, <1>7, <1>8, <1>9 DEF Next, Work, Fault

\* A request that is applied puts one attempt's chunk into the dataset.
LEMMA AppliedIsPublish ==
  ASSUME ExportInv, NEW r \in Requests, Dated(r, db, Data!EverFiled),
         hub' = Applied(r), UNCHANGED <<db, note, lost>>
  PROVE  Data!Publish(r.month)
  <1>1. /\ r.rows \in Nat /\ r.stations \in Nat /\ r.manifest.coverage \in Nat
        /\ r.manifest \in Manifests /\ db \in Nat
    BY SurroundingsOf, ExportAssumption
    DEF Requests, Manifests, Surroundings, Versions, ExportAssumption
  <1>2. /\ r.rows \in 0..db /\ r.stations \in 0..db /\ r.manifest.coverage \in 0..db
        /\ r.manifest.rows \in {r.rows, None} /\ r.manifest.stations \in {r.stations, None}
        /\ r.manifest.notes \in SUBSET Data!EverFiled
        /\ r.rows <= r.stations /\ r.stations <= r.manifest.coverage
    BY <1>1 DEF Dated
  <1>3. r.manifest = [rows |-> r.manifest.rows, stations |-> r.manifest.stations,
                      coverage |-> r.manifest.coverage, notes |-> r.manifest.notes]
    BY <1>1 DEF Manifests
  <1>4. /\ hub'.stations = r.stations
        /\ hub'.chunk = [hub.chunk EXCEPT ![r.month] = [rows |-> r.rows, manifest |-> r.manifest]]
    BY DEF Applied
  <1>. DEFINE M == [rows |-> r.manifest.rows, stations |-> r.manifest.stations,
                    coverage |-> r.manifest.coverage, notes |-> r.manifest.notes]
  <1>5. hub'.chunk = [hub.chunk EXCEPT ![r.month] = [rows |-> r.rows, manifest |-> M]]
    BY <1>3, <1>4
  <1>6. \E sum \in {r.rows, None}, listed \in {r.stations, None} :
          hub'.chunk = [hub.chunk EXCEPT ![r.month] =
            [rows |-> r.rows, manifest |-> [rows |-> sum, stations |-> listed,
               coverage |-> r.manifest.coverage, notes |-> r.manifest.notes]]]
    BY <1>2, <1>5
  <1>. HIDE DEF M
  <1>. DEFINE Put(read, registry, covered, N) ==
         /\ read <= registry /\ registry <= covered
         /\ hub'.stations = registry
         /\ \E sum \in {read, None}, listed \in {registry, None} :
              hub'.chunk = [hub.chunk EXCEPT ![r.month] =
                [rows |-> read, manifest |-> [rows |-> sum, stations |-> listed,
                                              coverage |-> covered, notes |-> N]]]
  <1>7. Put(r.rows, r.stations, r.manifest.coverage, r.manifest.notes)
    BY <1>2, <1>4, <1>6
  <1>8. (\E read, registry, covered \in 0..db : \E N \in SUBSET Data!EverFiled :
           Put(read, registry, covered, N)) => Data!Publish(r.month)
    BY DEF Data!Publish
  <1>. HIDE DEF Put
  <1>. QED
    BY <1>2, <1>7, <1>8

\* Every step of the pipeline is one of the dataset, or none.
LEMMA StepRefines ==
  ASSUME ExportInv, Ordered, [Next]_vars
  PROVE  [Data!Next]_Data!vars
  <1>. /\ note \in [Notes -> {"unfiled", "filed", "removed"}] /\ lost \in BOOLEAN
       /\ stray \subseteq Requests
    BY SurroundingsOf DEF Surroundings
  <1>1. CASE DbChanges
    BY <1>1 DEF DbChanges, history, Data!Next, Data!Change
  <1>2. ASSUME NEW n \in Notes, NoteFiled(n)
        PROVE  Data!Next
    BY <1>2 DEF NoteFiled, history, Data!Next, Data!File
  <1>3. ASSUME NEW m \in Months, NEW n \in Notes, Consume(m, n)
        PROVE  [Data!Next]_Data!vars
    <2>1. db' = db /\ hub' = hub /\ lost' = lost
      BY <1>3 DEF Consume, history
    <2>2. CASE note' = note
      BY <2>1, <2>2 DEF Data!vars
    <2>3. CASE note' # note
      <3>1. note[n] = "filed" /\ note' = [note EXCEPT ![n] = "removed"]
        BY <1>3, <2>3 DEF Consume
      <3>2. ~lost => Showing(n) # {}
        BY <1>3, <3>1, ConsumeShown
      <3>3. ~lost => n \in Data!Shown
        BY <3>2 DEF Showing, Published, Data!Shown
      <3>. QED
        BY <2>1, <3>1, <3>3 DEF Data!Next, Data!Remove
    <2>. QED
      BY <2>2, <2>3
  <1>4. ASSUME NEW m \in Months, Commit(m) \/ CommitRefused(m)
        PROVE  [Data!Next]_Data!vars
    <2>1. /\ job[m].pc = "commit" /\ UNCHANGED <<db, note, lost>>
          /\ hub' = hub \/ hub' = Applied(job[m].body)
      BY <1>4 DEF Commit, CommitRefused, history
    <2>2. /\ job[m].body \in Requests /\ job[m].body.month = m
          /\ Dated(job[m].body, db, Data!EverFiled)
      BY <2>1, BodyAtCommit DEF Ordered, DatedIs
    <2>3. CASE hub' = hub
      BY <2>1, <2>3 DEF Data!vars
    <2>4. CASE hub' = Applied(job[m].body)
      BY <2>1, <2>2, <2>4, AppliedIsPublish DEF Data!Next
    <2>. QED
      BY <2>1, <2>3, <2>4
  <1>5. ASSUME NEW r \in stray, HubApplies(r)
        PROVE  [Data!Next]_Data!vars
    <2>1. r \in Requests /\ r.month \in Months
      BY DEF Requests
    <2>2. Data!Publish(r.month)
      BY <1>5, <2>1, AppliedIsPublish DEF Ordered, HubApplies, history
    <2>. QED
      BY <2>1, <2>2 DEF Data!Next
  <1>6. CASE Crash \/ \E m \in Months : CommitUnanswered(m)
    <2>1. /\ db' = db /\ note' = note /\ hub' = hub
          /\ lost' = lost \/ lost' = TRUE
      BY <1>6 DEF Crash, CommitUnanswered
    <2>2. CASE lost' = lost
      BY <2>1, <2>2 DEF Data!vars
    <2>3. CASE lost' = TRUE
      BY <2>1, <2>3 DEF Data!Next, Data!LoseAnswer
    <2>. QED
      BY <2>1, <2>2, <2>3
  <1>7. CASE UNCHANGED <<db, note, hub, lost>>
    BY <1>7 DEF Data!vars
  <1>. QED
    BY <1>1, <1>2, <1>3, <1>4, <1>5, <1>6, <1>7
    DEF Next, Work, Fault, vars, history, Trigger, Reexport, Begin, ExportRows, ExportStations,
        WriteManifest, WriteCards, Upload, Ack, AttemptFails

\* The pipeline with its files, retries, crashes, refused and late commits is a
\* dataset of whole chunks, each of one attempt, whose notes go only once they
\* are shown (export.go 96-174, 497-511, 780-930).
THEOREM ExportImplementsDataset == Spec => ImplementsDataset
  <1>1. Init => Ordered /\ Data!Init
    BY DEF Init, Ordered, DatedIs, Absent, Idle, Data!Init
  <1>2. ExportInv /\ Ordered /\ [Next]_vars => Ordered' /\ [Data!Next]_Data!vars
    BY OrderedStep, StepRefines
  <1>. QED
    BY <1>1, <1>2, ExportInvariant, PTL DEF Spec, ImplementsDataset, Data!Spec

------------------------------------------------------------------------------
(* What any such dataset keeps *)

\* The registry beside the chunks is that of some published chunk: read after
\* its rows and before its coverage.
StationsOfAChunk ==
  hub.stations # None =>
    \E m \in Months :
      /\ hub.chunk[m] # None
      /\ hub.chunk[m].rows <= hub.stations
      /\ hub.stations <= hub.chunk[m].manifest.coverage

DatasetInv ==
  /\ db \in Nat /\ DOMAIN hub.chunk = Months /\ DOMAIN note = Notes
  /\ \A n \in Notes : note[n] \in {"unfiled", "filed", "removed"}
  /\ Data!Shown \subseteq Data!EverFiled
  /\ ChunkWhole /\ StationsOfAChunk

\* A chunk is put in the place of its month and of no other.
LEMMA PublishKeeps ==
  ASSUME DatasetInv, NEW m \in Months, Data!Publish(m)
  PROVE  DatasetInv'
  <1>0. PICK read \in 0..db, registry \in 0..db, covered \in 0..db, N \in SUBSET Data!EverFiled :
          /\ read <= registry /\ registry <= covered
          /\ hub'.stations = registry
          /\ \E sum \in {read, None}, listed \in {registry, None} :
               hub'.chunk = [hub.chunk EXCEPT ![m] =
                 [rows |-> read, manifest |-> [rows |-> sum, stations |-> listed,
                                               coverage |-> covered, notes |-> N]]]
    BY DEF Data!Publish
  <1>1. PICK sum \in {read, None}, listed \in {registry, None} :
          hub'.chunk = [hub.chunk EXCEPT ![m] =
            [rows |-> read, manifest |-> [rows |-> sum, stations |-> listed,
                                          coverage |-> covered, notes |-> N]]]
    BY <1>0
  <1>2. db' = db /\ note' = note /\ DOMAIN hub'.chunk = Months /\ Data!EverFiled' = Data!EverFiled
    BY <1>1 DEF DatasetInv, Data!Publish, Data!EverFiled
  <1>3. /\ hub'.chunk[m].rows = read
        /\ hub'.chunk[m].manifest = [rows |-> sum, stations |-> listed,
                                     coverage |-> covered, notes |-> N]
        /\ \A k \in Months \ {m} : hub'.chunk[k] = hub.chunk[k]
    BY <1>1 DEF DatasetInv
  <1>4. read <= covered
    BY <1>0
  <1>5. ChunkWhole'
    BY <1>1, <1>3, <1>4 DEF DatasetInv, ChunkWhole, Published
  <1>6. Data!Shown' \subseteq Data!EverFiled'
    BY <1>2, <1>3 DEF DatasetInv, Data!Shown
  <1>7. hub'.chunk[m] # None
    <2>1. read \in Nat /\ covered \in Nat /\ N \in SUBSET Notes
      BY DEF DatasetInv, Data!EverFiled
    <2>2. sum \in Nat \cup {None} /\ listed \in Nat \cup {None}
      BY DEF DatasetInv
    <2>. DEFINE c == [rows |-> read, manifest |-> [rows |-> sum, stations |-> listed,
                                                  coverage |-> covered, notes |-> N]]
    <2>3. hub'.chunk[m] = c
      BY <1>1 DEF DatasetInv
    <2>4. c \in [rows : Nat, manifest : [rows : Nat \cup {None}, stations : Nat \cup {None},
                                         coverage : Nat, notes : SUBSET Notes]]
      BY <2>1, <2>2
    <2>. HIDE DEF c
    <2>. QED
      BY <2>3, <2>4, ExportAssumption DEF ExportAssumption
  <1>8. StationsOfAChunk'
    BY <1>0, <1>3, <1>7 DEF StationsOfAChunk
  <1>. QED
    BY <1>2, <1>5, <1>6, <1>8 DEF DatasetInv

LEMMA DatasetStep ==
  ASSUME DatasetInv, [Data!Next]_Data!vars
  PROVE  DatasetInv'
  <1>1. CASE UNCHANGED <<hub.chunk, hub.stations, note>>
    <2>1. db' \in Nat
      BY DEF DatasetInv, Data!Next, Data!vars, Data!Change, Data!LoseAnswer, Data!File,
             Data!Remove, Data!Publish
    <2>. QED
      BY <1>1, <2>1 DEF DatasetInv, Data!Shown, Data!EverFiled, ChunkWhole, Published, StationsOfAChunk
  <1>2. ASSUME NEW n \in Notes, Data!File(n) \/ Data!Remove(n)
        PROVE  DatasetInv'
    <2>1. UNCHANGED <<db, hub.chunk, hub.stations>>
      BY <1>2 DEF Data!File, Data!Remove
    <2>2. /\ DOMAIN note' = Notes
          /\ \A k \in Notes : note'[k] \in {"unfiled", "filed", "removed"}
          /\ \A k \in Notes : note[k] # "unfiled" => note'[k] # "unfiled"
      BY <1>2 DEF DatasetInv, Data!File, Data!Remove
    <2>3. Data!Shown' = Data!Shown /\ Data!EverFiled \subseteq Data!EverFiled'
      BY <2>1, <2>2 DEF Data!Shown, Data!EverFiled
    <2>. QED
      BY <2>1, <2>2, <2>3 DEF DatasetInv, ChunkWhole, Published, StationsOfAChunk
  <1>. QED
    BY <1>1, <1>2, PublishKeeps
    DEF Data!Next, Data!vars, Data!Change, Data!LoseAnswer

LEMMA DatasetInvariant == Data!Spec => []DatasetInv
  <1>1. Data!Init => DatasetInv
    BY DEF Data!Init, DatasetInv, Data!Shown, Data!EverFiled, ChunkWhole, Published,
           StationsOfAChunk
  <1>2. DatasetInv /\ [Data!Next]_Data!vars => DatasetInv'
    BY DatasetStep
  <1>. QED
    BY <1>1, <1>2, PTL DEF Data!Spec

\* Whatever keeps Dataset keeps its chunks whole (a manifest's checksum is that of
\* its own rows, or empty), shows only notes that were filed, and has the registry
\* of one of its chunks beside them.
THEOREM DatasetIsWhole ==
  Data!Spec => [](ChunkWhole /\ StationsOfAChunk /\ Data!Shown \subseteq Data!EverFiled)
  <1>1. DatasetInv => ChunkWhole /\ StationsOfAChunk /\ Data!Shown \subseteq Data!EverFiled
    BY DEF DatasetInv
  <1>. QED
    BY <1>1, DatasetInvariant, PTL

\* ... and loses no note that no chunk shows, while every answer came.
THEOREM DatasetRemovesOnlyShown == Data!Spec => RemovedOnlyWhenShown
  <1>1. DatasetInv /\ [Data!Next]_Data!vars =>
          [\A n \in Notes :
             note[n] = "filed" /\ note'[n] = "removed" /\ ~lost => Showing(n) # {}]_vars
    <2>. SUFFICES ASSUME DatasetInv, [Data!Next]_Data!vars, NEW n \in Notes,
                         note[n] = "filed", note'[n] = "removed", ~lost
                  PROVE  Showing(n) # {}
      OBVIOUS
    <2>1. CASE note' = note
      BY <2>1
    <2>2. ASSUME NEW k \in Notes, Data!File(k)
          PROVE  Showing(n) # {}
      BY <2>2 DEF DatasetInv, Data!File
    <2>3. ASSUME NEW k \in Notes, Data!Remove(k)
          PROVE  Showing(n) # {}
      <3>1. n = k
        BY <2>3 DEF DatasetInv, Data!Remove
      <3>2. k \in Data!Shown
        BY <2>3 DEF Data!Remove
      <3>. QED
        BY <3>1, <3>2 DEF Data!Shown, Showing, Published
    <2>. QED
      BY <2>1, <2>2, <2>3 DEF Data!Next, Data!vars, Data!Change, Data!LoseAnswer, Data!Publish
  <1>. QED
    BY <1>1, DatasetInvariant, PTL DEF Data!Spec, RemovedOnlyWhenShown

\* No published chunk's manifest has the checksum of other rows than its own (an
\* empty one where export.go 135 discarded the error of reading them back), its
\* coverage is no older than they, and the registry beside the chunks is one that
\* was read between the rows and the coverage of a published chunk, whatever
\* failed reads, retries, late commits and re-exports did (export.go 96-174,
\* 808-925).
THEOREM ExportChunksWhole == Spec => [](ChunkWhole /\ StationsOfAChunk)
  <1>1. ChunkWhole /\ StationsOfAChunk /\ Data!Shown \subseteq Data!EverFiled
          => ChunkWhole /\ StationsOfAChunk
    OBVIOUS
  <1>. QED
    BY <1>1, ExportImplementsDataset, DatasetIsWhole, PTL DEF ImplementsDataset

\* A downtime note is deleted only when a published chunk shows it, as long as
\* no answer to a commit was lost (export.go 497-510, main.go 219-221).
THEOREM ExportRemovesOnlyShown == Spec => RemovedOnlyWhenShown
  BY ExportImplementsDataset, DatasetRemovesOnlyShown DEF ImplementsDataset
==============================================================================
