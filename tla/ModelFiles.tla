----------------------------- MODULE ModelFiles ----------------------------
(***************************************************************************)
(* What the model branch does around the paid request: the photos go up    *)
(* one by one, the bought task is queried, its file comes down over a link *)
(* that expires, is kept under its content, and becomes a revision.  The   *)
(* request itself, its receipt and its money are JobExecutor's.            *)
(***************************************************************************)
EXTENDS Naturals, FiniteSets

CONSTANTS Views,         \* confirmed views, one photo each
          MaxLinks,      \* signed links the provider issues (a bound)
          MaxRedirects   \* DownloadPolicy.max_redirects

ASSUME ModelFilesAssumption == MaxLinks \in Nat /\ MaxRedirects \in Nat

VARIABLES task,      \* at the provider: its state, links issued and expired
          photos,    \* photos in the blob store
          tokens,    \* upload facts of tripo_upload
          cachedLink,\* EphemeralLinks: a link number, 0 none
          stageOf,   \* stage -> status
          lastError, \* why the download was given up
          result,    \* model_download has a result asset
          late,      \* a download task that lost its lease will record its result
          file,      \* the file of the model's content
          row,       \* blob and asset rows of the model
          revision,  \* the model revision of (item, content)
          worker     \* the task that runs a stage, and its next step

modelFilesVars == <<task, photos, tokens, cachedLink, stageOf, lastError, result,
                    late, file, row, revision, worker>>

Chain == <<"tripo_upload", "tripo_submit", "tripo_poll", "model_download", "model_validate">>
ChainStages == {Chain[n] : n \in DOMAIN Chain}

Resting == [step |-> "none", stage |-> "none", link |-> 0, hops |-> 0, refreshed |-> FALSE]

ModelFilesInit ==
    /\ task = [status |-> "none", issued |-> 0, expired |-> 0, content |-> "none"]
    /\ photos = Views /\ tokens = {} /\ cachedLink = 0
    /\ stageOf = [s \in ChainStages |-> "queued"]
    /\ lastError = "none" /\ result = FALSE /\ late = FALSE
    /\ file = "absent" /\ row = FALSE /\ revision = "none"
    /\ worker = Resting

At(stage, step) == worker.stage = stage /\ worker.step = step

Go(step) == worker' = [worker EXCEPT !.step = step]

Finish(status) ==
    /\ stageOf' = [stageOf EXCEPT ![worker.stage] = status]
    /\ worker' = Resting

\* Retryable: queued again, or failed when the safe retries are used up.
TryAgain == Finish("queued") \/ Finish("failed")

StartStage(n) ==
    /\ worker = Resting
    /\ stageOf[Chain[n]] = "queued"
    /\ \A k \in 1 .. n - 1 : stageOf[Chain[k]] = "succeeded"
    /\ stageOf' = [stageOf EXCEPT ![Chain[n]] = "running"]
    /\ worker' = [Resting EXCEPT !.stage = Chain[n], !.step = "start"]
    /\ UNCHANGED <<task, photos, tokens, cachedLink, lastError, result, late, file,
                   row, revision>>

-----------------------------------------------------------------------------
(* TripoUploadHandler, and what the submission takes from it               *)

\* Uploads cost nothing: all but a refusal is tried again.
Upload(v) ==
    /\ At("tripo_upload", "start") /\ v \notin tokens
    /\ IF v \notin photos THEN Finish("needs_input") /\ UNCHANGED tokens
       ELSE \/ tokens' = tokens \cup {v} /\ UNCHANGED <<stageOf, worker>>
            \/ (TryAgain \/ Finish("failed")) /\ UNCHANGED tokens
    /\ UNCHANGED <<task, photos, cachedLink, lastError, result, late, file, row, revision>>

UploadDone ==
    /\ At("tripo_upload", "start") /\ tokens = Views
    /\ Finish("succeeded")
    /\ UNCHANGED <<task, photos, tokens, cachedLink, lastError, result, late, file,
                   row, revision>>

\* The paid request, with the tokens of all views, is accepted.
Submit ==
    /\ At("tripo_submit", "start")
    /\ IF Views \subseteq tokens
       THEN /\ task.status = "none"
            /\ task' = [task EXCEPT !.status = "running"]
            /\ Finish("succeeded")
       ELSE Finish("needs_input") /\ UNCHANGED task
    /\ UNCHANGED <<photos, tokens, cachedLink, lastError, result, late, file, row, revision>>

-----------------------------------------------------------------------------
(* Querying the task                                                       *)

\* GET /tasks/{id}: a link that is signed anew, the state without a link,
\* or no usable answer.
Answers ==
    IF task.status = "success" /\ task.issued < MaxLinks
    THEN {"link", "waiting", "error"}
    ELSE IF task.status \in {"success", "running"} THEN {"waiting", "error"}
    ELSE {"gone", "error"}

\* EphemeralLinks::remember
NewLink ==
    /\ task' = [task EXCEPT !.issued = @ + 1]
    /\ cachedLink' = task.issued + 1

KeepLink == UNCHANGED <<task, cachedLink>>

Poll ==
    /\ At("tripo_poll", "start")
    /\ \E answer \in Answers :
         \/ answer = "link" /\ NewLink /\ Finish("succeeded")
         \/ answer = "waiting" /\ KeepLink /\ Finish("queued")
         \/ answer = "error" /\ KeepLink /\ TryAgain
         \/ answer = "gone" /\ KeepLink /\ Finish("failed")
    /\ UNCHANGED <<photos, tokens, lastError, result, late, file, row, revision>>

\* Asking for a link and following it with fresh hops.
AskForLink(refreshed) ==
    \E answer \in Answers :
       \/ /\ answer = "link" /\ NewLink
          /\ worker' = [worker EXCEPT !.step = "get", !.link = task.issued + 1,
                                      !.hops = 0, !.refreshed = refreshed]
          /\ UNCHANGED <<stageOf, lastError>>
       \/ /\ answer \in {"waiting", "error"} /\ KeepLink /\ TryAgain
          /\ lastError' = "retryable"
       \/ answer = "gone" /\ KeepLink /\ Finish("failed") /\ lastError' = "gone"

-----------------------------------------------------------------------------
(* TripoModelDownloadHandler, ModelDownloader                              *)

\* reuse_local_copy, acquire_link
BeginDownload ==
    /\ At("model_download", "start")
    /\ IF result /\ row /\ file \in {"whole", "truncated"}
       THEN Finish("succeeded") /\ UNCHANGED <<task, cachedLink, lastError>>
       ELSE IF cachedLink # 0
       THEN /\ worker' = [worker EXCEPT !.step = "get", !.link = cachedLink]
            /\ UNCHANGED <<task, cachedLink, stageOf, lastError>>
       ELSE AskForLink(FALSE)
    /\ UNCHANGED <<photos, tokens, result, late, file, row, revision>>

LinkExpired == worker.link <= task.expired \/ task.status = "gone"

\* download_with_gate: one hop of the download.
Get ==
    /\ At("model_download", "get")
    /\ UNCHANGED <<task, cachedLink>>
    /\ IF LinkExpired
       THEN \/ ~worker.refreshed /\ Go("refresh") /\ UNCHANGED <<stageOf, lastError>>
            \/ worker.refreshed /\ TryAgain /\ lastError' = "retryable"
       ELSE \/ Go("stream") /\ UNCHANGED <<stageOf, lastError>>
            \/ /\ worker.hops < MaxRedirects
               /\ worker' = [worker EXCEPT !.hops = @ + 1]
               /\ UNCHANGED <<stageOf, lastError>>
            \/ worker.hops = MaxRedirects /\ Finish("failed") /\ lastError' = "redirects"
            \/ Finish("needs_input") /\ lastError' = "host_not_allowed"
            \/ TryAgain /\ lastError' = "retryable"
    /\ UNCHANGED <<photos, tokens, result, late, file, row, revision>>

\* refresh_link_and_download: the task is asked again, once in a run.
AskAgain ==
    /\ At("model_download", "refresh")
    /\ AskForLink(TRUE)
    /\ UNCHANGED <<photos, tokens, result, late, file, row, revision>>

\* What promotes of a response: a body that broke off is not kept.
Kept(body) == IF body = "whole" THEN "whole" ELSE file

\* stream_to_blob
Stream ==
    /\ At("model_download", "stream")
    /\ \E body \in {"whole", "cut", "none"} :
         /\ file' = Kept(body)
         /\ \/ Kept(body) = body /\ Go("commit") /\ UNCHANGED <<stageOf, lastError>>
            \/ /\ body = "cut" /\ Kept(body) # body
               /\ TryAgain /\ lastError' = "retryable"
            \/ body = "none" /\ Finish("needs_input") /\ lastError' = "size_or_space"
    /\ UNCHANGED <<task, photos, tokens, cachedLink, result, late, row, revision>>

\* commit_asset
Commit ==
    /\ At("model_download", "commit")
    /\ row' = TRUE /\ Go("record")
    /\ UNCHANGED <<task, photos, tokens, cachedLink, stageOf, lastError, result, late,
                   file, revision>>

\* The executor stores the result, then advances the stage.
RecordResult ==
    /\ At("model_download", "record")
    /\ result' = TRUE /\ Go("advance")
    /\ UNCHANGED <<task, photos, tokens, cachedLink, stageOf, lastError, late, file,
                   row, revision>>

Advance ==
    /\ At("model_download", "advance") /\ Finish("succeeded")
    /\ UNCHANGED <<task, photos, tokens, cachedLink, lastError, result, late, file,
                   row, revision>>

-----------------------------------------------------------------------------
(* TripoModelValidateHandler                                               *)

\* load_downloaded
LoadDownloaded ==
    /\ At("model_validate", "start")
    /\ IF result /\ row /\ file = "whole" THEN Go("inspect") /\ UNCHANGED stageOf
       ELSE Finish("needs_input")
    /\ UNCHANGED <<task, photos, tokens, cachedLink, lastError, result, late, file,
                   row, revision>>

\* inspect_glb_file: a file that cannot be read is refused too.
Verdicts == IF task.content = "good" /\ file = "whole" THEN {"validated", "rejected"}
            ELSE {"rejected"}

Inspect ==
    /\ At("model_validate", "inspect")
    /\ \/ \E verdict \in Verdicts : Go(verdict) /\ UNCHANGED stageOf
       \/ TryAgain
    /\ UNCHANGED <<task, photos, tokens, cachedLink, lastError, result, late, file,
                   row, revision>>

\* get_or_create: the content's first revision stays as it is.
RecordRevision ==
    /\ worker.stage = "model_validate" /\ worker.step \in {"validated", "rejected"}
    /\ revision' = IF revision = "none" THEN worker.step ELSE revision
    /\ Finish(IF worker.step = "validated" THEN "succeeded" ELSE "needs_input")
    /\ UNCHANGED <<task, photos, tokens, cachedLink, lastError, result, late, file, row>>

-----------------------------------------------------------------------------
(* The administrator, the executor and the world                           *)

\* retry_stage: of a stage that waits for a person or has failed.
RetryChain(s) ==
    /\ worker = Resting
    /\ stageOf[s] \in {"needs_input", "failed"}
    /\ stageOf' = [stageOf EXCEPT ![s] = "queued"]
    /\ UNCHANGED <<task, photos, tokens, cachedLink, lastError, result, late, file,
                   row, revision, worker>>

\* Mutant: a download whose remote task is done counts as done.
RecoveredByTask(s) ==
    IF s = "model_download" /\ task.status = "success" THEN "succeeded" ELSE "queued"

\* recover: a stage with its result is advanced, another is queued again.
Recovered(s) == IF s = "model_download" /\ result /\ row THEN "succeeded" ELSE "queued"

ServerCrash ==
    /\ worker # Resting
    /\ stageOf' = [stageOf EXCEPT ![worker.stage] = Recovered(worker.stage)]
    /\ worker' = Resting /\ cachedLink' = 0 /\ late' = FALSE
    /\ UNCHANGED <<task, photos, tokens, lastError, result, file, row, revision>>

\* The lease lapses under a download that has committed its asset; the task
\* goes on and stores its result, but cannot advance the stage.
LeaseLapses ==
    /\ At("model_download", "record")
    /\ stageOf' = [stageOf EXCEPT !["model_download"] = "queued"]
    /\ worker' = Resting /\ late' = TRUE
    /\ UNCHANGED <<task, photos, tokens, cachedLink, lastError, result, file, row, revision>>

LateResult ==
    /\ late /\ late' = FALSE /\ result' = TRUE
    /\ UNCHANGED <<task, photos, tokens, cachedLink, stageOf, lastError, file, row,
                   revision, worker>>

TaskMoves ==
    /\ \/ /\ task.status = "running"
          /\ \E content \in {"good", "broken"} :
               task' = [task EXCEPT !.status = "success", !.content = content]
       \/ task.status \in {"running", "success"} /\ task' = [task EXCEPT !.status = "gone"]
       \/ task.expired < task.issued /\ task' = [task EXCEPT !.expired = task.issued]
    /\ UNCHANGED <<photos, tokens, cachedLink, stageOf, lastError, result, late, file,
                   row, revision, worker>>

MediumFails ==
    /\ \/ \E v \in photos : photos' = photos \ {v} /\ UNCHANGED file
       \/ file = "whole" /\ file' \in {"lost", "truncated"} /\ UNCHANGED photos
    /\ UNCHANGED <<task, tokens, cachedLink, stageOf, lastError, result, late, row,
                   revision, worker>>

ModelFilesNext ==
    \/ \E n \in DOMAIN Chain : StartStage(n) \/ RetryChain(Chain[n])
    \/ \E v \in Views : Upload(v)
    \/ UploadDone \/ Submit \/ Poll
    \/ BeginDownload \/ Get \/ AskAgain \/ Stream \/ Commit \/ RecordResult \/ Advance
    \/ LoadDownloaded \/ Inspect \/ RecordRevision
    \/ ServerCrash \/ LeaseLapses \/ LateResult \/ TaskMoves \/ MediumFails

ModelFilesSpec == ModelFilesInit /\ [][ModelFilesNext]_modelFilesVars

-----------------------------------------------------------------------------
ModelFilesTypeOK ==
    /\ task.status \in {"none", "running", "success", "gone"}
    /\ task.issued \in 0 .. MaxLinks /\ task.expired \in 0 .. task.issued
    /\ tokens \subseteq Views /\ photos \subseteq Views
    /\ cachedLink \in 0 .. MaxLinks
    /\ stageOf \in [ChainStages -> {"queued", "running", "needs_input", "failed", "succeeded"}]
    /\ \A s \in ChainStages : stageOf[s] = "running" <=> worker.stage = s
    /\ result \in BOOLEAN /\ row \in BOOLEAN /\ late \in BOOLEAN
    /\ file \in {"absent", "whole", "lost", "truncated"}
    /\ revision \in {"none", "validated", "rejected"}

\* A download counts as done only when the whole file was kept and has its
\* rows; it is given up as irretrievable only when the provider has given
\* the task up; and a validated revision is of a content that passed.
SavedModelIsWhatWasBought ==
    /\ stageOf["model_download"] = "succeeded" =>
          result /\ row /\ file \in {"whole", "lost", "truncated"}
    /\ lastError = "gone" => task.status = "gone"
    /\ revision = "validated" => task.content = "good"
    /\ stageOf["model_validate"] = "succeeded" => revision # "none"
    /\ task.status # "none" => tokens = Views
=============================================================================
