--------------------------- MODULE MCExportPipeline ---------------------------
(***************************************************************************)
(* Small instances of ExportPipeline, run as it stands.  MCExportPipeline   *)
(* interleaves the exports of two months over one change of the database,   *)
(* one fault and one re-export; MCExportPipelineTask takes one month with   *)
(* two notes through three faults, more than its task has attempts.         *)
(***************************************************************************)
EXTENDS ExportPipeline
==============================================================================
