------------------------------ MODULE MCAsync ------------------------------
(* One job's model branch - upload, paid submission, polling, download -   *)
(* on a server that crashes.                                               *)
EXTENDS JobExecutor

CONSTANTS j1, upload, submit, poll, download, w1, w2

MCKind == [s \in Stages |-> CASE s = upload   -> "tripo_upload"
                              [] s = submit   -> "tripo_submit"
                              [] s = poll     -> "tripo_poll"
                              [] s = download -> "model_download"]
MCJobOf == [s \in Stages |-> j1]
=============================================================================
