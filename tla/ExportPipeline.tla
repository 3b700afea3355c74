---------------------------- MODULE ExportPipeline ----------------------------
(***************************************************************************)
(* export:month, from the enqueue to the published chunk: the task under    *)
(* its TaskID, its retries and crashes, the chunk's files in the exports    *)
(* directory, the upload to the dataset repository ("the hub") and the      *)
(* consumption of downtime notes.                                           *)
(*                                                                         *)
(* What is read from the database is abstracted to the version of the       *)
(* database it was read at, and a checksum to the version of the file, or   *)
(* to None, the empty one of a file that could not be read back.  The       *)
(* database goes on changing while an export runs; several months may be    *)
(* exported at once; a commit may be applied although its answer is lost,   *)
(* even after the attempt that sent it is over.                             *)
(***************************************************************************)
EXTENDS Integers, FiniteSets

CONSTANTS
  Months,       \* 1..n, the operating months
  Notes,        \* downtime notes an operator may file
  None,
  MaxPosts,     \* commit requests of one attempt
  MaxTries,     \* attempts of a task (asynq MaxRetry, plus one)
  MaxVersion,   \* bound: changes of the database
  MaxFailures,  \* bound: failed steps and worker crashes
  MaxReexports  \* bound: uses of `seeder --export`

ASSUME ExportAssumption ==
  /\ Months \subseteq Nat /\ IsFiniteSet(Months)
  /\ None \notin Nat
  /\ None \notin [rows : Nat, manifest : [rows : Nat \cup {None}, stations : Nat \cup {None},
                                          coverage : Nat, notes : SUBSET Notes]]
  /\ None \notin [rows : Nat \cup {None}, stations : Nat \cup {None}, manifest : {None} \cup
                   [rows : Nat \cup {None}, stations : Nat \cup {None},
                    coverage : Nat, notes : SUBSET Notes]]
  /\ MaxPosts \in Nat \ {0} /\ MaxTries \in Nat \ {0}
  /\ MaxVersion \in Nat /\ MaxFailures \in Nat /\ MaxReexports \in Nat

VARIABLES
  db,         \* database: version of its rows and of its station registry
  note,       \* downtimes directory: where each note is
  triggered,  \* scheduler: months whose export minute has come
  job,        \* asynq and worker: the task of each month
  disk,       \* exports directory: each month's chunk, or None
  index,      \* exports directory: the months README.md lists
  hub,        \* the dataset repository
  stray,      \* commit requests nobody waits for any more
  failures,
  reexports,
  overlap,    \* history: two exports were once at work together
  lost,       \* history: the answer to a commit was once lost
  crashed     \* history: the worker once died

vars == <<db, note, triggered, job, disk, index, hub, stray, failures, reexports,
          overlap, lost, crashed>>

dirs == <<disk, index>>
history == <<overlap, lost, crashed>>

------------------------------------------------------------------------------
Filed == {n \in Notes : note[n] = "filed"}
Chunks == {m \in Months : disk[m] # None}
Published == {m \in Months : hub.chunk[m] # None}
Showing(n) == {m \in Published : n \in hub.chunk[m].manifest.notes}

\* A task nobody is at.
Idle(pc, tries) == [pc |-> pc, tries |-> tries, posts |-> 0, notes |-> {}, body |-> None]
Absent == Idle("absent", 0)
Queued(tries) == Idle("queued", tries)

\* The worker is at the task.
Active(m) == job[m].pc \notin {"absent", "queued", "archived"}

\* Mutant: the error is logged and the task done.
RetriedDoneMutant(j) == Absent
\* An error returned to asynq, or a dead worker found by its recoverer.
Retried(j) ==
  IF j.tries + 1 < MaxTries THEN Queued(j.tries + 1)
  ELSE Idle("archived", j.tries + 1)

\* The body of a commit: the parquet files by their checksums, the texts as
\* they are on disk.
Body(m) ==
  [month |-> m, rows |-> disk[m].rows, stations |-> disk[m].stations,
   manifest |-> disk[m].manifest, index |-> index]

\* A commit is applied as a whole; it overwrites the month's files and the
\* files at the root.  A missing README.md is left out of it.
Applied(r) ==
  [chunk |-> [hub.chunk EXCEPT ![r.month] = [rows |-> r.rows, manifest |-> r.manifest]],
   stations |-> r.stations,
   index |-> IF r.index = {} THEN hub.index ELSE r.index]

Fails == failures < MaxFailures /\ failures' = failures + 1

\* Mutant: a chunk whose directory is already there is only uploaded again.
BeginAtDirMutant(m) == IF disk[m] # None THEN "upload" ELSE "rows"
\* Every attempt starts over.
BeginAt(m) == "rows"

Versions == 0..MaxVersion
Manifests ==
  [rows : Versions \cup {None}, stations : Versions \cup {None}, coverage : Versions,
   notes : SUBSET Notes]
Files ==
  [rows : Versions \cup {None}, stations : Versions \cup {None}, manifest : Manifests \cup {None}]
Requests ==
  [month : Months, rows : Versions, stations : Versions, manifest : Manifests,
   index : SUBSET Months]
Jobs ==
  [pc : {"absent", "queued", "rows", "stations", "manifest", "cards", "upload", "commit",
         "consume", "ack", "archived"},
   tries : 0..MaxTries, posts : 0..MaxPosts, notes : SUBSET Notes, body : Requests \cup {None}]

TypeOK ==
  /\ db \in Versions
  /\ note \in [Notes -> {"unfiled", "filed", "removed"}]
  /\ triggered \subseteq Months
  /\ job \in [Months -> Jobs]
  /\ disk \in [Months -> Files \cup {None}]
  /\ index \subseteq Months
  /\ hub \in [chunk : [Months -> [rows : Versions, manifest : Manifests] \cup {None}],
              stations : Versions \cup {None}, index : SUBSET Months]
  /\ stray \subseteq Requests
  /\ failures \in 0..MaxFailures /\ reexports \in 0..MaxReexports
  /\ overlap \in BOOLEAN /\ lost \in BOOLEAN /\ crashed \in BOOLEAN

Init ==
  /\ db = 0
  /\ note = [n \in Notes |-> "unfiled"]
  /\ triggered = {}
  /\ job = [m \in Months |-> Absent]
  /\ disk = [m \in Months |-> None] /\ index = {}
  /\ hub = [chunk |-> [m \in Months |-> None], stations |-> None, index |-> {}]
  /\ stray = {}
  /\ failures = 0 /\ reexports = 0
  /\ overlap = FALSE /\ lost = FALSE /\ crashed = FALSE

------------------------------------------------------------------------------
(* Around the export *)

\* Workers insert and backfill, stationimport renews the registry.
DbChanges ==
  /\ db < MaxVersion /\ db' = db + 1
  /\ UNCHANGED <<note, triggered, job, dirs, hub, stray, failures, reexports, history>>

NoteFiled(n) ==
  /\ note[n] = "unfiled"
  /\ note' = [note EXCEPT ![n] = "filed"]
  /\ UNCHANGED <<db, triggered, job, dirs, hub, stray, failures, reexports, history>>

\* Mutant: a restarted scheduler comes to an export minute once more.
TriggerMutant(m) ==
  /\ \A k \in Months : k < m => k \in triggered
  /\ triggered' = triggered \cup {m}
  /\ \/ /\ job' = IF job[m].pc = "absent" THEN [job EXCEPT ![m] = Queued(0)] ELSE job
        /\ UNCHANGED failures
     \/ Fails /\ UNCHANGED job
  /\ UNCHANGED <<db, note, dirs, hub, stray, reexports, history>>
\* The scheduler's enqueue of a month: while a task of its TaskID exists,
\* archived ones included, asynq turns it down; an enqueue that fails is only
\* a warning.
Trigger(m) ==
  /\ m \notin triggered /\ \A k \in Months : k < m => k \in triggered
  /\ triggered' = triggered \cup {m}
  /\ \/ /\ job' = IF job[m].pc = "absent" THEN [job EXCEPT ![m] = Queued(0)] ELSE job
        /\ UNCHANGED failures
     \/ Fails /\ UNCHANGED job
  /\ UNCHANGED <<db, note, dirs, hub, stray, reexports, history>>

\* `seeder --export`: an archived or waiting task is deleted and enqueued
\* anew; an active one cannot be deleted, and the enqueue is turned down.
Reexport(m) ==
  /\ reexports < MaxReexports /\ ~Active(m)
  /\ reexports' = reexports + 1
  /\ job' = [job EXCEPT ![m] = Queued(0)]
  /\ UNCHANGED <<db, note, triggered, dirs, hub, stray, failures, history>>

\* The worker process dies; a commit it had under way may still be applied.
Crash ==
  /\ Fails
  /\ \E sent \in SUBSET {m \in Months : job[m].pc = "commit"} :
       /\ stray' = stray \cup {job[m].body : m \in sent}
       /\ lost' = (lost \/ sent # {})
  /\ job' = [m \in Months |-> IF Active(m) THEN Retried(job[m]) ELSE job[m]]
  /\ crashed' = TRUE
  /\ UNCHANGED <<db, note, triggered, dirs, hub, reexports, overlap>>

\* The hub gets to a request whose sender has long given up.
HubApplies(r) ==
  /\ r \in stray
  /\ hub' = Applied(r) /\ stray' = stray \ {r}
  /\ UNCHANGED <<db, note, triggered, job, dirs, failures, reexports, history>>

------------------------------------------------------------------------------
(* ExportMonth *)

Begin(m) ==
  /\ job[m].pc = "queued"
  /\ job' = [job EXCEPT ![m].pc = BeginAt(m)]
  /\ disk' = IF disk[m] # None THEN disk
             ELSE [disk EXCEPT ![m] = [rows |-> None, stations |-> None, manifest |-> None]]
  /\ overlap' = (overlap \/ \E k \in Months : Active(k))
  /\ UNCHANGED <<db, note, triggered, index, hub, stray, failures, reexports, lost, crashed>>

\* A file is written beside its place and renamed into it.
ExportRows(m) ==
  /\ job[m].pc = "rows"
  /\ disk' = [disk EXCEPT ![m].rows = db]
  /\ job' = [job EXCEPT ![m].pc = "stations"]
  /\ UNCHANGED <<db, note, triggered, index, hub, stray, failures, reexports, history>>

\* Mutant: a station file that is already there is not written again.
ExportStationsMutant(m) ==
  /\ job[m].pc = "stations"
  /\ disk' = IF disk[m].stations # None THEN disk ELSE [disk EXCEPT ![m].stations = db]
  /\ job' = [job EXCEPT ![m].pc = "manifest"]
  /\ UNCHANGED <<db, note, triggered, index, hub, stray, failures, reexports, history>>
ExportStations(m) ==
  /\ job[m].pc = "stations"
  /\ disk' = [disk EXCEPT ![m].stations = db]
  /\ job' = [job EXCEPT ![m].pc = "manifest"]
  /\ UNCHANGED <<db, note, triggered, index, hub, stray, failures, reexports, history>>

\* Mutant: a manifest that is already there is kept.
ManifestOfMutant(m, rows, stations, noted) ==
  IF disk[m].manifest # None THEN disk[m].manifest
  ELSE [rows |-> rows, stations |-> stations, coverage |-> db, notes |-> noted]
\* The checksums that were computed, the coverage just queried, the notes read.
ManifestOf(m, rows, stations, noted) ==
  [rows |-> rows, stations |-> stations, coverage |-> db, notes |-> noted]

\* The error of a checksum is discarded, and leaves it empty; a note that
\* cannot be read is left out, and to the next export.
WriteManifest(m) ==
  /\ job[m].pc = "manifest"
  /\ \E rows \in {disk[m].rows, None}, stations \in {disk[m].stations, None},
        noted \in SUBSET Filed :
       /\ \/ None \notin {rows, stations} /\ noted = Filed /\ UNCHANGED failures
          \/ (None \in {rows, stations} \/ noted # Filed) /\ Fails
       /\ disk' = [disk EXCEPT ![m].manifest = ManifestOf(m, rows, stations, noted)]
       /\ job' = [job EXCEPT ![m].pc = "cards", ![m].notes = noted]
  /\ UNCHANGED <<db, note, triggered, index, hub, stray, reexports, history>>

\* Mutant: the month being exported is left for the next index.
IndexedMutant(m) == Chunks \ {m}
\* WriteOverviewCard lists the directories of the exports directory.
Indexed(m) == Chunks

\* The cards; that they cannot be written is only a warning.
WriteCards(m) ==
  /\ job[m].pc = "cards"
  /\ \/ index' = Indexed(m) /\ UNCHANGED failures
     \/ Fails /\ UNCHANGED index
  /\ job' = [job EXCEPT ![m].pc = "upload"]
  /\ UNCHANGED <<db, note, triggered, disk, hub, stray, reexports, history>>

\* A query, a file that cannot be written or the context fails: nothing of
\* this step is kept.
AttemptFails(m) ==
  /\ job[m].pc \in {"rows", "stations", "manifest", "upload"}
  /\ Fails
  /\ job' = [job EXCEPT ![m] = Retried(job[m])]
  /\ UNCHANGED <<db, note, triggered, dirs, hub, stray, reexports, history>>

------------------------------------------------------------------------------
(* UploadToHuggingFace *)

\* The files are listed with their checksums, put to the object store, those
\* it already has excepted, and the body of the commit is built; no other task
\* writes this month's files meanwhile.
Upload(m) ==
  /\ job[m].pc = "upload"
  /\ job' = [job EXCEPT ![m].pc = "commit", ![m].body = Body(m)]
  /\ UNCHANGED <<db, note, triggered, dirs, hub, stray, failures, reexports, history>>

\* Mutant: the notes are forgotten.
AfterCommitMutant(m) == "ack"
AfterCommit(m) == IF job[m].notes = {} THEN "ack" ELSE "consume"

\* The answer has come: on with the notes.
Commit(m) ==
  /\ job[m].pc = "commit"
  /\ hub' = Applied(job[m].body)
  /\ job' = [job EXCEPT ![m].pc = AfterCommit(m), ![m].body = None, ![m].posts = 0]
  /\ UNCHANGED <<db, note, triggered, dirs, stray, failures, reexports, history>>

Refused(j) ==
  IF j.posts + 1 < MaxPosts THEN [j EXCEPT !.posts = j.posts + 1] ELSE Retried(j)

\* A status that is no success, whether or not the commit was applied: the
\* same body is posted again, up to MaxPosts times.
CommitRefused(m) ==
  /\ job[m].pc = "commit"
  /\ Fails
  /\ hub' \in {hub, Applied(job[m].body)}
  /\ job' = [job EXCEPT ![m] = Refused(job[m])]
  /\ UNCHANGED <<db, note, triggered, dirs, stray, reexports, history>>

\* No answer at all: the attempt fails, and the request is still under way.
CommitUnanswered(m) ==
  /\ job[m].pc = "commit"
  /\ Fails
  /\ stray' = stray \cup {job[m].body} /\ lost' = TRUE
  /\ job' = [job EXCEPT ![m] = Retried(job[m])]
  /\ UNCHANGED <<db, note, triggered, dirs, hub, reexports, overlap, crashed>>

------------------------------------------------------------------------------
(* ConsumeDowntimeNotes *)

\* The files the manifest was made from.
ToConsume(m) == job[m].notes

\* The file is gone: os.Remove's error is only a warning.
Missing(n) == note[n] # "filed"

\* Note by note; a failed removal leaves the note to the next export.
Consume(m, n) ==
  /\ job[m].pc = "consume" /\ n \in ToConsume(m)
  /\ \/ note[n] = "filed" /\ note' = [note EXCEPT ![n] = "removed"] /\ UNCHANGED failures
     \/ Missing(n) /\ UNCHANGED <<note, failures>>
     \/ note[n] = "filed" /\ Fails /\ UNCHANGED note
  /\ job' = [job EXCEPT ![m].notes = @ \ {n},
                        ![m].pc = IF job[m].notes \subseteq {n} THEN "ack" ELSE "consume"]
  /\ UNCHANGED <<db, triggered, dirs, hub, stray, reexports, history>>

\* asynq learns that the task is done, and forgets it with its TaskID.
Ack(m) ==
  /\ job[m].pc = "ack"
  /\ job' = [job EXCEPT ![m] = Absent]
  /\ UNCHANGED <<db, note, triggered, dirs, hub, stray, failures, reexports, history>>

------------------------------------------------------------------------------
Work(m) ==
  \/ Begin(m) \/ ExportRows(m) \/ ExportStations(m) \/ WriteManifest(m) \/ WriteCards(m)
  \/ Upload(m) \/ Commit(m) \/ (\E n \in Notes : Consume(m, n)) \/ Ack(m)

Fault(m) == AttemptFails(m) \/ CommitRefused(m) \/ CommitUnanswered(m)

Next ==
  \/ DbChanges \/ Crash
  \/ \E n \in Notes : NoteFiled(n)
  \/ \E r \in stray : HubApplies(r)
  \/ \E m \in Months : Trigger(m) \/ Reexport(m) \/ Work(m) \/ Fault(m)

\* The worker takes up tasks and goes on with them; nothing makes anyone file
\* a note, the hub apply a stray request, or anything fail.
Fairness == \A m \in Months : WF_vars(Work(m))

Spec == Init /\ [][Next]_vars /\ Fairness

------------------------------------------------------------------------------
(* Properties *)

\* A published chunk is of one piece: its manifest has the checksum of its own
\* rows or, when they could not be read back, none, never that of others; and
\* its coverage was queried no earlier than they were, so that every day the
\* rows show is covered -- through retries, refused, repeated and late commits,
\* and re-exports.
ChunkWhole ==
  \A m \in Published :
    LET c == hub.chunk[m]
    IN c.manifest.rows \in {c.rows, None} /\ c.rows <= c.manifest.coverage

\* The task with its files, retries, crashes, refused and late commits is, for
\* who reads the dataset, a repository into which whole chunks are put: every
\* one with rows, registry, coverage and notes of a single attempt.  It does not
\* promise that a month's later chunk still shows a note an earlier one showed,
\* nor that the newest attempt's chunk is the one that stays.
Data == INSTANCE Dataset WITH
  chunk <- hub.chunk, stations <- hub.stations, trusted <- ~lost
ImplementsDataset == Data!Spec

\* A downtime note is removed only when a published chunk shows it, unless
\* the answer to a commit was lost: a late one brings back an older manifest.
RemovedOnlyWhenShown ==
  [][\A n \in Notes : note[n] = "filed" /\ note'[n] = "removed" /\ ~lost => Showing(n) # {}]_vars

\* "each note appears in exactly one published chunk": never in two, and in
\* one once it is removed -- when nothing failed, no two months were exported
\* at once and none a second time.
NotesOnceUndisturbed ==
  failures = 0 /\ ~overlap /\ reexports = 0 =>
    \A n \in Notes :
      Cardinality(Showing(n)) <= 1 /\ (note[n] = "removed" => Showing(n) # {})

\* A removed note stays in the dataset: through exports of several months at
\* once, failed steps, retries and refused commits a published chunk shows it
\* from its removal on.  Where the code does lose it is outside: a month is
\* exported anew, over the chunk that shows the note, after a crash between
\* the commit and the task's end and by `seeder --export`, and a commit nobody
\* waits for any more may bring back an older chunk.
ConsumedStaysShown ==
  ~crashed /\ ~lost /\ reexports = 0 =>
    \A n \in Notes : note[n] = "removed" => Showing(n) # {}

\* stations.parquet at the root ("immer aktuell") never goes back to an older
\* registry, unless months are exported at once or a late commit comes in.
StationsNeverOlder ==
  [][hub.stations # None /\ ~lost /\ ~overlap => hub'.stations >= hub.stations]_vars

\* The index on the repository's card lists the published months, all of
\* them and no other, when nothing failed and no two months were exported at
\* once: the directory of a failed export is listed although it never came.
IndexExact == failures = 0 /\ ~overlap => hub.index = Published

\* An export that was enqueued is never dropped silently: its month comes to
\* be published, or its task to lie in the archive, where `seeder --export`
\* finds it.
PublishedOrArchived ==
  \A m \in Months : job[m].pc = "queued" ~> m \in Published \/ job[m].pc = "archived"
==============================================================================
