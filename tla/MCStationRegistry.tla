-------------------------- MODULE MCStationRegistry --------------------------
(***************************************************************************)
(* A small instance of StationRegistry: three EVAs and the names that       *)
(* matter for slugs -- one shared by several EVAs, one whose slug is what   *)
(* another gets with an EVA appended, one without a slug -- in lists in     *)
(* either order, with a station that is gone, a renamed one, and, in one    *)
(* list, slugs that meet within it.                                         *)
(***************************************************************************)
EXTENDS StationRegistry

MCEvas == {"1", "2", "3"}
MCBaseSlug == [n \in Names |->
  CASE n = "Hbf" -> "hbf" [] n = "Ost" -> "ost" [] n = "Hbf 2" -> "hbf-2" [] OTHER -> ""]

Bases == {"hbf", "ost", "hbf-2"} \cup MCEvas
MCSuffixed == [p \in Bases \X MCEvas |-> p[1] \o "-" \o p[2]]
MCSlugs == Bases \cup {MCSuffixed[p] : p \in DOMAIN MCSuffixed}
MCHash == [s \in MCSlugs |->
  CASE s = "hbf" -> 4 [] s = "ost" -> 3 [] OTHER -> 5]

Row(e, n) == [eva |-> e, name |-> n]
MCLists ==
  {<<Row("1", "Hbf"), Row("2", "Hbf")>>, <<Row("2", "Hbf"), Row("1", "Hbf")>>,
   <<Row("1", "Ost"), Row("2", "Hbf")>>, <<Row("2", "Hbf")>>,
   <<Row("2", "Ost"), Row("3", "--")>>}
MCUniverses == MCLists \cup {<<Row("1", "Hbf 2"), Row("3", "Hbf"), Row("2", "Hbf")>>}
==============================================================================
