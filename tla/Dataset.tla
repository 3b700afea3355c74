------------------------------- MODULE Dataset -------------------------------
(***************************************************************************)
(* What readers of the published dataset are promised.  A month's chunk     *)
(* comes, and is replaced, as a whole: its rows, its station registry and   *)
(* its coverage were read in this order, its manifest has the checksums of  *)
(* its own files, or empty ones where a file could not be read back, and    *)
(* the registry beside the chunks is the one it was made with.              *)
(* Its manifest shows notes an operator has filed, and a note goes only     *)
(* when a chunk shows it.  It knows no tasks, files, requests or retries.   *)
(***************************************************************************)
EXTENDS Integers

CONSTANTS Months, Notes, None

VARIABLES
  db,        \* version of the database
  note,      \* where each downtime note is
  chunk,     \* each month's published rows and manifest, or None
  stations,  \* the published station registry, or None
  trusted    \* every answer of the repository has come so far

vars == <<db, note, chunk, stations, trusted>>

EverFiled == {n \in Notes : note[n] # "unfiled"}
Shown == {n \in Notes : \E m \in Months : chunk[m] # None /\ n \in chunk[m].manifest.notes}

Init ==
  /\ db = 0 /\ note = [n \in Notes |-> "unfiled"]
  /\ chunk = [m \in Months |-> None] /\ stations = None
  /\ trusted = TRUE

Change == db' = db + 1 /\ UNCHANGED <<note, chunk, stations, trusted>>

File(n) ==
  /\ note[n] = "unfiled" /\ note' = [note EXCEPT ![n] = "filed"]
  /\ UNCHANGED <<db, chunk, stations, trusted>>

Publish(m) ==
  /\ \E read, registry, covered \in 0..db : \E N \in SUBSET EverFiled :
       /\ read <= registry /\ registry <= covered
       /\ stations' = registry
       /\ \E sum \in {read, None}, listed \in {registry, None} :
            chunk' = [chunk EXCEPT ![m] =
              [rows |-> read, manifest |-> [rows |-> sum, stations |-> listed,
                                            coverage |-> covered, notes |-> N]]]
  /\ UNCHANGED <<db, note, trusted>>

Remove(n) ==
  /\ note[n] = "filed" /\ (trusted => n \in Shown)
  /\ note' = [note EXCEPT ![n] = "removed"]
  /\ UNCHANGED <<db, chunk, stations, trusted>>

LoseAnswer == trusted' = FALSE /\ UNCHANGED <<db, note, chunk, stations>>

Next ==
  \/ Change \/ LoseAnswer
  \/ \E n \in Notes : File(n) \/ Remove(n)
  \/ \E m \in Months : Publish(m)

Spec == Init /\ [][Next]_vars
==============================================================================
