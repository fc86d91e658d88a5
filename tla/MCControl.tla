------------------------------ MODULE MCControl ------------------------------
(* An administrator beside the executor; each configuration chooses the    *)
(* stages of the one job.                                                  *)
EXTENDS JobControl

CONSTANTS j1, submit, batch1, batch2, merge, validate, assemble, w1, w2, a1, a2

MCKind == [s \in Stages |-> CASE s = submit             -> "tripo_submit"
                              [] s \in {batch1, batch2} -> "manual_extract"
                              [] s = merge              -> "manual_merge"
                              [] s = validate           -> "model_validate"
                              [] s = assemble           -> "assemble_draft"]
MCJobOf == [s \in Stages |-> j1]
=============================================================================
