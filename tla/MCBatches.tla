----------------------------- MODULE MCBatches -----------------------------
(* One job's knowledge branch - two batches and their merge - and the      *)
(* assembly of the draft, with a lease that may lapse under a live task.   *)
EXTENDS JobExecutor

CONSTANTS j1, batch1, batch2, merge, assemble, w1, w2

MCKind == [s \in Stages |-> CASE s \in {batch1, batch2} -> "manual_extract"
                              [] s = merge              -> "manual_merge"
                              [] s = assemble           -> "assemble_draft"]
MCJobOf == [s \in Stages |-> j1]
=============================================================================
