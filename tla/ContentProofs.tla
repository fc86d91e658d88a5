--------------------------- MODULE ContentProofs ----------------------------
(***************************************************************************)
(* What the stages make: the model that is saved is the one that was bought, *)
(* a model that passes its check can be drawn, a draft holds together      *)
(* whoever edits it while the server fills it in, merged knowledge can be  *)
(* traced to its pages, and what is quoted covers the bill.                *)
(***************************************************************************)
EXTENDS ModelFiles, ModelCheck, DraftContent, Knowledge, Pricing,
        Sums, SequenceTheorems, TLAPS

-----------------------------------------------------------------------------
(* The files of the model branch.                                          *)

Statuses == {"none", "running", "success", "gone"}
StageStatuses == {"queued", "running", "needs_input", "failed", "succeeded"}

\* The steps of a stage's task.
Steps(stage) ==
    CASE stage = "model_download" ->
            {"start", "get", "refresh", "stream", "commit", "record", "advance"}
      [] stage = "model_validate" -> {"start", "inspect", "validated", "rejected"}
      [] OTHER -> {"start"}

\* The bought task: its file is what it was when it was done, its photos went
\* up first, and it is given up only when the provider gave it up.
TaskInv ==
    /\ task \in [status : Statuses, issued : 0 .. MaxLinks, expired : 0 .. MaxLinks,
                 content : {"none", "good", "broken"}]
    /\ task.expired <= task.issued
    /\ task.status \in {"none", "running"} => task.content = "none"
    /\ tokens \subseteq Views /\ photos \subseteq Views /\ cachedLink \in 0 .. MaxLinks
    /\ task.status # "none" => tokens = Views
    /\ lastError = "gone" => task.status = "gone"

\* Who runs: a stage is running when its task is, and only then; a download
\* has a task to ask about.
WorkerInv ==
    /\ stageOf \in [ChainStages -> StageStatuses]
    /\ worker = [step |-> worker.step, stage |-> worker.stage, link |-> worker.link,
                 hops |-> worker.hops, refreshed |-> worker.refreshed]
    /\ \/ worker = Resting
       \/ worker.stage \in ChainStages /\ worker.step \in Steps(worker.stage)
    /\ \A s \in ChainStages : stageOf[s] = "running" <=> worker.stage = s
    /\ stageOf["tripo_submit"] = "succeeded" => task.status # "none"
    /\ worker.stage = "model_download" => task.status # "none"

\* What is kept: rows come after the file and the result after the rows, late
\* or not; a verdict is about the content.
KeptInv ==
    /\ file \in {"absent", "whole", "lost", "truncated"}
    /\ row \in BOOLEAN /\ result \in BOOLEAN /\ late \in BOOLEAN
    /\ revision \in {"none", "validated", "rejected"}
    /\ row => file # "absent"
    /\ result \/ late => row
    /\ worker.step = "commit" => file # "absent"
    /\ worker.step \in {"record", "advance"} => row
    /\ worker.step = "advance" => result
    /\ stageOf["model_download"] = "succeeded" => result
    /\ worker.step = "validated" \/ revision = "validated" => task.content = "good"
    /\ stageOf["model_validate"] = "succeeded" => revision # "none"

ModelFilesInv == TaskInv /\ WorkerInv /\ KeptInv

-----------------------------------------------------------------------------
(* How a task of a stage moves.                                            *)

\* The five stages, in their order.
LEMMA ChainIs ==
    /\ DOMAIN Chain = 1 .. 5
    /\ ChainStages = {"tripo_upload", "tripo_submit", "tripo_poll", "model_download",
                      "model_validate"}
    /\ Chain[1] = "tripo_upload" /\ Chain[2] = "tripo_submit" /\ Chain[3] = "tripo_poll"
    /\ Chain[4] = "model_download" /\ Chain[5] = "model_validate"
<1>1. DOMAIN Chain = 1 .. 5
  BY DEF Chain
<1>2. /\ Chain[1] = "tripo_upload" /\ Chain[2] = "tripo_submit" /\ Chain[3] = "tripo_poll"
      /\ Chain[4] = "model_download" /\ Chain[5] = "model_validate"
  BY DEF Chain
<1>3. \A n : n \in 1 .. 5 <=> n \in {1, 2, 3, 4, 5}
  OBVIOUS
<1> QED
  BY <1>1, <1>2, <1>3 DEF ChainStages

\* A worker's row, field by field.
Row(a, b, c, d, e) == [step |-> a, stage |-> b, link |-> c, hops |-> d, refreshed |-> e]

\* A stage that ends, leaves its worker at rest.
LEMMA FinishKeeps ==
    ASSUME WorkerInv, worker.stage \in ChainStages,
           NEW status \in StageStatuses \ {"running"}, Finish(status),
           task.status # "none" => task'.status # "none",
           worker.stage = "tripo_submit" /\ status = "succeeded" => task'.status # "none"
    PROVE  /\ WorkerInv'
           /\ worker'.step = "none" /\ worker'.stage = "none"
           /\ \A s \in ChainStages :
                 stageOf'[s] = IF s = worker.stage THEN status ELSE stageOf[s]
<1>1. worker' = Resting /\ worker'.step = "none" /\ worker'.stage = "none"
  BY DEF Finish, Resting
<1>2. \A s \in ChainStages :
         stageOf'[s] = IF s = worker.stage THEN status ELSE stageOf[s]
  BY DEF Finish, WorkerInv
<1>3. stageOf' \in [ChainStages -> StageStatuses]
  BY DEF Finish, WorkerInv
<1>4. \A s \in ChainStages : stageOf'[s] = "running" <=> worker'.stage = s
  BY <1>1, <1>2, ChainIs DEF WorkerInv
<1>5. stageOf'["tripo_submit"] = "succeeded" => task'.status # "none"
  BY <1>2, ChainIs DEF WorkerInv
<1>6. worker' = [step |-> worker'.step, stage |-> worker'.stage, link |-> worker'.link,
                 hops |-> worker'.hops, refreshed |-> worker'.refreshed]
  BY <1>1 DEF Resting
<1>7. WorkerInv'
  BY <1>1, <1>3, <1>4, <1>5, <1>6 DEF WorkerInv, Resting
<1> QED
  BY <1>1, <1>2, <1>7

\* A task that goes on within its stage.
LEMMA WithinKeeps ==
    ASSUME WorkerInv, worker.stage \in ChainStages, UNCHANGED stageOf,
           task.status # "none" => task'.status # "none",
           worker'.stage = worker.stage, worker'.step \in Steps(worker.stage),
           worker' = [step |-> worker'.step, stage |-> worker'.stage,
                      link |-> worker'.link, hops |-> worker'.hops,
                      refreshed |-> worker'.refreshed]
    PROVE  WorkerInv'
<1>1. worker'.step \in Steps(worker'.stage)
  OBVIOUS
<1> QED
  BY <1>1 DEF WorkerInv, Steps

\* A step of a task changes nothing else of it.
LEMMA GoKeeps ==
    ASSUME WorkerInv, worker.stage \in ChainStages, UNCHANGED <<stageOf, task>>,
           NEW step \in Steps(worker.stage), Go(step)
    PROVE  WorkerInv' /\ worker'.stage = worker.stage /\ worker'.step = step
<1>1. \A a, b, c, d, e :
         [[step |-> a, stage |-> b, link |-> c, hops |-> d, refreshed |-> e]
            EXCEPT !.step = step]
           = [step |-> step, stage |-> b, link |-> c, hops |-> d, refreshed |-> e]
  OBVIOUS
<1>2. worker' = [step |-> step, stage |-> worker.stage, link |-> worker.link,
                 hops |-> worker.hops, refreshed |-> worker.refreshed]
  <2>1. worker = [step |-> worker.step, stage |-> worker.stage, link |-> worker.link,
                  hops |-> worker.hops, refreshed |-> worker.refreshed]
    BY DEF WorkerInv
  <2> QED
    BY <1>1, <2>1 DEF Go
<1>3. /\ worker'.stage = worker.stage /\ worker'.step = step
      /\ worker' = [step |-> worker'.step, stage |-> worker'.stage,
                    link |-> worker'.link, hops |-> worker'.hops,
                    refreshed |-> worker'.refreshed]
  BY <1>2
<1> QED
  BY <1>3, WithinKeeps

\* A new link leaves the task what it was.
LEMMA NewLinkKeeps ==
    ASSUME TaskInv, NewLink, task.issued < MaxLinks, UNCHANGED <<photos, tokens>>,
           lastError' \in {lastError, "retryable"}
    PROVE  TaskInv' /\ task'.status = task.status /\ task'.content = task.content
<1>1. task.issued + 1 \in 1 .. MaxLinks /\ task.expired <= task.issued + 1
  BY ModelFilesAssumption DEF TaskInv
<1>2. /\ task' = [task EXCEPT !.issued = task.issued + 1]
      /\ cachedLink' = task.issued + 1
  BY DEF NewLink
<1>3. /\ task'.status = task.status /\ task'.content = task.content
      /\ task'.expired = task.expired /\ task'.issued = task.issued + 1
      /\ task' \in [status : Statuses, issued : 0 .. MaxLinks, expired : 0 .. MaxLinks,
                    content : {"none", "good", "broken"}]
  BY <1>1, <1>2 DEF TaskInv
<1> QED
  BY <1>1, <1>2, <1>3, ModelFilesAssumption DEF TaskInv

\* A stage ends and nothing that is kept changes: it succeeds only with what
\* its success says.
LEMMA TaskEndKeeps ==
    ASSUME ModelFilesInv, worker.stage \in ChainStages,
           NEW status \in StageStatuses \ {"running"}, Finish(status),
           TaskInv', task'.content = task.content,
           task.status # "none" => task'.status # "none",
           status = "succeeded" =>
               /\ worker.stage = "tripo_submit" => task'.status # "none"
               /\ worker.stage = "model_download" => result
               /\ worker.stage = "model_validate" => revision' # "none",
           revision' \in {"none", "validated", "rejected"},
           revision' = "validated" => task.content = "good",
           revision # "none" => revision' # "none",
           UNCHANGED <<file, row, result, late>>
    PROVE  ModelFilesInv'
<1>1. WorkerInv /\ KeptInv
  BY DEF ModelFilesInv
<1>2. /\ WorkerInv'
      /\ worker'.step = "none" /\ worker'.stage = "none"
      /\ \A s \in ChainStages :
            stageOf'[s] = IF s = worker.stage THEN status ELSE stageOf[s]
  BY <1>1, FinishKeeps
<1>3. KeptInv'
  BY <1>1, <1>2, ChainIs DEF KeptInv
<1> QED
  BY <1>2, <1>3 DEF ModelFilesInv

\* A worker has a step of its stage.
LEMMA AtStage ==
    ASSUME WorkerInv, NEW stage \in ChainStages, worker.stage = stage
    PROVE  worker.step \in Steps(stage) /\ stageOf[stage] = "running"
BY ChainIs DEF WorkerInv, Resting

\* Nothing but the task's own steps happens to the task.
LEMMA TaskStays ==
    ASSUME TaskInv, UNCHANGED <<task, photos, tokens, cachedLink>>,
           lastError' # "gone" \/ lastError' = lastError \/ task.status = "gone"
    PROVE  TaskInv'
BY DEF TaskInv

\* A stage begins with the results of the stage before it.
LEMMA StartStageKeeps ==
    ASSUME ModelFilesInv, NEW n \in DOMAIN Chain, StartStage(n)
    PROVE  ModelFilesInv'
<1> DEFINE s == Chain[n]
<1>1. TaskInv /\ WorkerInv /\ KeptInv
  BY DEF ModelFilesInv
<1>2. s \in ChainStages /\ n \in 1 .. 5
  BY ChainIs DEF ChainStages
<1>3. /\ worker = Resting /\ stageOf' = [stageOf EXCEPT ![s] = "running"]
      /\ stageOf[s] = "queued"
      /\ worker' = [Resting EXCEPT !.stage = s, !.step = "start"]
      /\ UNCHANGED <<task, photos, tokens, cachedLink, lastError, result, late, file,
                     row, revision>>
  BY DEF StartStage
<1>4. s = "model_download" => task.status # "none"
  <2>1. ASSUME s = "model_download" PROVE n = 4
    BY <1>2, <2>1, ChainIs
  <2>2. ASSUME n = 4 PROVE stageOf["tripo_submit"] = "succeeded"
    BY <2>2, ChainIs DEF StartStage
  <2> QED
    BY <1>1, <2>1, <2>2 DEF WorkerInv
<1> HIDE DEF s
<1>5. worker' = [step |-> "start", stage |-> s, link |-> 0, hops |-> 0,
                 refreshed |-> FALSE]
  BY <1>3 DEF Resting
<1>6. /\ worker'.step = "start" /\ worker'.stage = s
      /\ worker' = [step |-> worker'.step, stage |-> worker'.stage,
                    link |-> worker'.link, hops |-> worker'.hops,
                    refreshed |-> worker'.refreshed]
  BY <1>5
<1>7. \A t \in ChainStages : stageOf'[t] = IF t = s THEN "running" ELSE stageOf[t]
  BY <1>1, <1>3 DEF WorkerInv
<1>8. stageOf' \in [ChainStages -> StageStatuses]
  BY <1>1, <1>3 DEF WorkerInv, StageStatuses
<1>9. \A t \in ChainStages : stageOf'[t] = "running" <=> worker'.stage = t
  BY <1>1, <1>3, <1>6, <1>7, ChainIs DEF WorkerInv, Resting
<1>10. worker'.step \in Steps(worker'.stage)
  BY <1>6 DEF Steps
<1>11. WorkerInv'
  BY <1>1, <1>2, <1>3, <1>4, <1>6, <1>7, <1>8, <1>9, <1>10, ChainIs DEF WorkerInv
<1>12. KeptInv'
  BY <1>1, <1>3, <1>6, <1>7, ChainIs DEF KeptInv, Resting
<1>13. TaskInv'
  BY <1>1, <1>3, TaskStays
<1> QED
  BY <1>11, <1>12, <1>13 DEF ModelFilesInv

\* A photo is uploaded, or the upload fails.
LEMMA UploadKeeps ==
    ASSUME ModelFilesInv, NEW v \in Views, Upload(v)
    PROVE  ModelFilesInv'
<1>1. TaskInv /\ WorkerInv /\ KeptInv
  BY DEF ModelFilesInv
<1>2. /\ worker.stage = "tripo_upload" /\ worker.stage \in ChainStages
      /\ UNCHANGED <<task, photos, cachedLink, lastError, result, late, file, row, revision>>
  BY ChainIs DEF Upload, At
<1>3. ASSUME tokens' = tokens \cup {v}, UNCHANGED <<stageOf, worker>>
      PROVE  ModelFilesInv'
  <2>1. TaskInv'
    BY <1>1, <1>2, <1>3 DEF TaskInv
  <2>2. WorkerInv'
    BY <1>1, <1>2, <1>3 DEF WorkerInv, Resting, Steps
  <2>3. KeptInv'
    BY <1>1, <1>2, <1>3 DEF KeptInv
  <2> QED
    BY <2>1, <2>2, <2>3 DEF ModelFilesInv
<1>4. ASSUME NEW status \in {"needs_input", "queued", "failed"}, Finish(status),
             UNCHANGED tokens
      PROVE  ModelFilesInv'
  <2>1. TaskInv'
    BY <1>1, <1>2, <1>4, TaskStays
  <2>2. status \in StageStatuses \ {"running"} /\ status # "succeeded"
    BY DEF StageStatuses
  <2>3. /\ revision' \in {"none", "validated", "rejected"}
        /\ revision' = "validated" => task.content = "good"
    BY <1>1, <1>2 DEF KeptInv
  <2> QED
    BY <1>2, <1>4, <2>1, <2>2, <2>3, TaskEndKeeps
<1> QED
  BY <1>3, <1>4 DEF Upload, TryAgain

\* A stage ends while everything but the stages, the links and the reason
\* stays.
LEMMA PlainEnd ==
    ASSUME ModelFilesInv, worker.stage \in ChainStages,
           NEW status \in StageStatuses \ {"running"}, Finish(status),
           TaskInv', task'.content = task.content, task'.status = task.status,
           UNCHANGED <<file, row, result, late, revision>>,
           status = "succeeded" =>
               /\ worker.stage = "tripo_submit" => task'.status # "none"
               /\ worker.stage = "model_download" => result
               /\ worker.stage # "model_validate"
    PROVE  ModelFilesInv'
<1>1. /\ revision' \in {"none", "validated", "rejected"}
      /\ revision' = "validated" => task.content = "good"
  BY DEF ModelFilesInv, KeptInv
<1> QED
  BY <1>1, TaskEndKeeps

\* The upload stage records what it uploaded.
LEMMA UploadDoneKeeps ==
    ASSUME ModelFilesInv, UploadDone
    PROVE  ModelFilesInv'
<1>1. worker.stage = "tripo_upload" /\ worker.stage \in ChainStages
  BY ChainIs DEF UploadDone, At
<1>2. TaskInv'
  BY TaskStays DEF UploadDone, ModelFilesInv
<1>3. "succeeded" \in StageStatuses \ {"running"}
  BY DEF StageStatuses
<1> QED
  BY <1>1, <1>2, <1>3, PlainEnd DEF UploadDone

\* The task is bought with the uploads the stage read.
LEMMA SubmitKeeps ==
    ASSUME ModelFilesInv, Submit
    PROVE  ModelFilesInv'
<1>1. TaskInv /\ WorkerInv /\ KeptInv
  BY DEF ModelFilesInv
<1>2. worker.stage = "tripo_submit" /\ worker.stage \in ChainStages
  BY ChainIs DEF Submit, At
<1>3. CASE Views \subseteq tokens
  <2>1. /\ task.status = "none" /\ task' = [task EXCEPT !.status = "running"]
        /\ Finish("succeeded") /\ tokens = Views
    BY <1>1, <1>3 DEF Submit, TaskInv
  <2>2. /\ task'.status = "running" /\ task'.content = task.content
        /\ task'.issued = task.issued /\ task'.expired = task.expired
        /\ task' \in [status : Statuses, issued : 0 .. MaxLinks, expired : 0 .. MaxLinks,
                      content : {"none", "good", "broken"}]
    BY <1>1, <2>1 DEF TaskInv, Statuses
  <2>3. TaskInv'
    BY <1>1, <2>1, <2>2 DEF TaskInv, Submit
  <2>4. "succeeded" \in StageStatuses \ {"running"}
    BY DEF StageStatuses
  <2>5. /\ revision' \in {"none", "validated", "rejected"}
        /\ revision' = "validated" => task.content = "good"
        /\ UNCHANGED <<file, row, result, late, revision>>
    BY <1>1 DEF KeptInv, Submit
  <2>6. task'.status # "none"
    BY <2>2
  <2> QED
    BY <1>2, <2>1, <2>2, <2>3, <2>4, <2>5, <2>6, TaskEndKeeps
<1>4. CASE ~(Views \subseteq tokens)
  <2>1. Finish("needs_input") /\ UNCHANGED task
    BY <1>4 DEF Submit
  <2>2. TaskInv'
    BY <1>1, <2>1, TaskStays DEF Submit
  <2>3. "needs_input" \in StageStatuses \ {"running"}
    BY DEF StageStatuses
  <2> QED
    BY <1>2, <2>1, <2>2, <2>3, PlainEnd DEF Submit
<1> QED
  BY <1>3, <1>4

\* A poll tells what the provider says of the task.
LEMMA PollKeeps ==
    ASSUME ModelFilesInv, Poll
    PROVE  ModelFilesInv'
<1>1. TaskInv /\ WorkerInv /\ KeptInv
  BY DEF ModelFilesInv
<1>2. /\ worker.stage = "tripo_poll" /\ worker.stage \in ChainStages
      /\ UNCHANGED <<photos, tokens, lastError, result, late, file, row, revision>>
  BY ChainIs DEF Poll, At
<1>3. {"queued", "failed", "succeeded"} \subseteq StageStatuses \ {"running"}
  BY DEF StageStatuses
<1>4. ASSUME NewLink, Finish("succeeded"), "link" \in Answers
      PROVE  ModelFilesInv'
  <2>1. task.issued < MaxLinks
    BY <1>4 DEF Answers
  <2>2. TaskInv' /\ task'.status = task.status /\ task'.content = task.content
    BY <1>1, <1>2, <1>4, <2>1, NewLinkKeeps
  <2> QED
    BY <1>2, <1>3, <1>4, <2>2, PlainEnd
<1>5. ASSUME KeepLink, NEW status \in {"queued", "failed"}, Finish(status)
      PROVE  ModelFilesInv'
  <2>1. UNCHANGED task /\ TaskInv'
    BY <1>1, <1>2, <1>5, TaskStays DEF KeepLink
  <2> QED
    BY <1>2, <1>3, <1>5, <2>1, PlainEnd
<1> QED
  BY <1>4, <1>5 DEF Poll, TryAgain

\* A download that asks for a link, gets one, waits, or learns that the
\* provider gave the task up.
LEMMA AskForLinkKeeps ==
    ASSUME ModelFilesInv, worker.stage = "model_download", NEW refreshed \in BOOLEAN,
           AskForLink(refreshed),
           UNCHANGED <<photos, tokens, result, late, file, row, revision>>
    PROVE  ModelFilesInv'
<1>1. TaskInv /\ WorkerInv /\ KeptInv /\ worker.stage \in ChainStages
  BY ChainIs DEF ModelFilesInv
<1>2. {"queued", "failed"} \subseteq StageStatuses \ {"running"}
  BY DEF StageStatuses
<1>3. ASSUME "link" \in Answers, NewLink, UNCHANGED <<stageOf, lastError>>,
             worker' = [worker EXCEPT !.step = "get", !.link = task.issued + 1,
                                      !.hops = 0, !.refreshed = refreshed]
      PROVE  ModelFilesInv'
  <2>1. task.issued < MaxLinks
    BY <1>3 DEF Answers
  <2>2. TaskInv' /\ task'.status = task.status /\ task'.content = task.content
    BY <1>1, <1>3, <2>1, NewLinkKeeps
  <2>3. PICK r1 : r1 = [worker EXCEPT !.step = "get"]
    OBVIOUS
  <2>4. worker' = [step |-> "get", stage |-> worker.stage, link |-> task.issued + 1,
                   hops |-> 0, refreshed |-> refreshed]
    <3>1. worker = Row(worker.step, worker.stage, worker.link, worker.hops,
                       worker.refreshed)
      BY <1>1 DEF WorkerInv, Row
    <3>2. r1 = Row("get", worker.stage, worker.link, worker.hops, worker.refreshed)
      BY <2>3, <3>1 DEF Row
    <3>3. PICK r2 : r2 = [r1 EXCEPT !.link = task.issued + 1]
      OBVIOUS
    <3>4. r2 = Row("get", worker.stage, task.issued + 1, worker.hops, worker.refreshed)
      BY <3>2, <3>3 DEF Row
    <3>5. PICK r3 : r3 = [r2 EXCEPT !.hops = 0]
      OBVIOUS
    <3>6. r3 = Row("get", worker.stage, task.issued + 1, 0, worker.refreshed)
      BY <3>4, <3>5 DEF Row
    <3>7. [r3 EXCEPT !.refreshed = refreshed]
            = Row("get", worker.stage, task.issued + 1, 0, refreshed)
      BY <3>6 DEF Row
    <3>8. worker' = [r3 EXCEPT !.refreshed = refreshed]
      BY <1>3, <2>3, <3>3, <3>5
    <3> QED
      BY <3>7, <3>8 DEF Row
  <2>5. /\ worker'.stage = worker.stage /\ worker'.step = "get"
        /\ worker' = [step |-> worker'.step, stage |-> worker'.stage,
                      link |-> worker'.link, hops |-> worker'.hops,
                      refreshed |-> worker'.refreshed]
    BY <2>4
  <2>6. WorkerInv'
    BY <1>1, <1>3, <2>2, <2>5, WithinKeeps DEF Steps
  <2>7. KeptInv'
    BY <1>1, <1>3, <2>2, <2>5 DEF KeptInv
  <2> QED
    BY <2>2, <2>6, <2>7 DEF ModelFilesInv
<1>4. ASSUME KeepLink, NEW status \in {"queued", "failed"}, Finish(status),
             lastError' = "retryable"
      PROVE  ModelFilesInv'
  <2>1. UNCHANGED task /\ TaskInv'
    BY <1>1, <1>4, TaskStays DEF KeepLink
  <2> QED
    BY <1>1, <1>2, <1>4, <2>1, PlainEnd
<1>5. ASSUME "gone" \in Answers, KeepLink, Finish("failed"), lastError' = "gone"
      PROVE  ModelFilesInv'
  <2>1. task.status = "gone"
    BY <1>1, <1>5 DEF Answers, WorkerInv, TaskInv, Statuses
  <2>2. UNCHANGED task /\ TaskInv'
    BY <1>1, <1>5, <2>1, TaskStays DEF KeepLink
  <2> QED
    BY <1>1, <1>2, <1>5, <2>2, PlainEnd
<1> QED
  BY <1>3, <1>4, <1>5 DEF AskForLink, TryAgain

\* The download begins with links of the task that was bought.
LEMMA BeginDownloadKeeps ==
    ASSUME ModelFilesInv, BeginDownload
    PROVE  ModelFilesInv'
<1>1. TaskInv /\ WorkerInv /\ KeptInv
  BY DEF ModelFilesInv
<1>2. /\ worker.stage = "model_download" /\ worker.stage \in ChainStages
      /\ UNCHANGED <<photos, tokens, result, late, file, row, revision>>
  BY ChainIs DEF BeginDownload, At
<1>3. CASE result /\ Finish("succeeded") /\ UNCHANGED <<task, cachedLink, lastError>>
  <2>1. TaskInv'
    BY <1>1, <1>2, <1>3, TaskStays
  <2>2. "succeeded" \in StageStatuses \ {"running"}
    BY DEF StageStatuses
  <2> QED
    BY <1>2, <1>3, <2>1, <2>2, PlainEnd
<1>4. CASE /\ worker' = [worker EXCEPT !.step = "get", !.link = cachedLink]
           /\ UNCHANGED <<task, cachedLink, stageOf, lastError>>
  <2>1. TaskInv'
    BY <1>1, <1>2, <1>4, TaskStays
  <2>2. PICK r1 : r1 = [worker EXCEPT !.step = "get"]
    OBVIOUS
  <2>3. worker' = [step |-> "get", stage |-> worker.stage, link |-> cachedLink,
                   hops |-> worker.hops, refreshed |-> worker.refreshed]
    <3>1. worker = Row(worker.step, worker.stage, worker.link, worker.hops,
                       worker.refreshed)
      BY <1>1 DEF WorkerInv, Row
    <3>2. r1 = Row("get", worker.stage, worker.link, worker.hops, worker.refreshed)
      BY <2>2, <3>1 DEF Row
    <3>3. [r1 EXCEPT !.link = cachedLink]
            = Row("get", worker.stage, cachedLink, worker.hops, worker.refreshed)
      BY <3>2 DEF Row
    <3>4. worker' = [r1 EXCEPT !.link = cachedLink]
      BY <1>4, <2>2
    <3> QED
      BY <3>3, <3>4 DEF Row
  <2>4. /\ worker'.stage = worker.stage /\ worker'.step = "get"
        /\ worker' = [step |-> worker'.step, stage |-> worker'.stage,
                      link |-> worker'.link, hops |-> worker'.hops,
                      refreshed |-> worker'.refreshed]
    BY <2>3
  <2>5. WorkerInv'
    BY <1>1, <1>2, <1>4, <2>4, WithinKeeps DEF Steps
  <2>6. KeptInv'
    BY <1>1, <1>2, <1>4, <2>4 DEF KeptInv
  <2> QED
    BY <2>1, <2>5, <2>6 DEF ModelFilesInv
<1>5. CASE AskForLink(FALSE)
  BY <1>2, <1>5, AskForLinkKeeps
<1> QED
  BY <1>3, <1>4, <1>5 DEF BeginDownload

\* A link that has lapsed is asked for again.
LEMMA AskAgainKeeps ==
    ASSUME ModelFilesInv, AskAgain
    PROVE  ModelFilesInv'
BY AskForLinkKeeps DEF AskAgain, At

\* A download moves to a step that needs nothing, or ends without success.
LEMMA DownloadMoves ==
    ASSUME ModelFilesInv, worker.stage = "model_download",
           UNCHANGED <<task, photos, tokens, cachedLink, result, late, row, revision, file>>,
           lastError' # "gone" \/ lastError' = lastError
    PROVE  /\ \A step \in {"refresh", "stream"} :
                 Go(step) /\ UNCHANGED stageOf => ModelFilesInv'
           /\ \A status \in {"queued", "failed", "needs_input"} :
                 Finish(status) => ModelFilesInv'
<1>1. TaskInv /\ WorkerInv /\ KeptInv /\ worker.stage \in ChainStages
  BY ChainIs DEF ModelFilesInv
<1>2. TaskInv'
  BY <1>1, TaskStays
<1>3. ASSUME NEW step \in {"refresh", "stream"}, Go(step), UNCHANGED stageOf
      PROVE  ModelFilesInv'
  <2>1. step \in Steps(worker.stage)
    BY <1>3 DEF Steps
  <2>2. WorkerInv' /\ worker'.stage = worker.stage /\ worker'.step = step
    BY <1>1, <1>3, <2>1, GoKeeps
  <2>3. KeptInv'
    BY <1>1, <1>3, <2>2 DEF KeptInv
  <2> QED
    BY <1>2, <2>2, <2>3 DEF ModelFilesInv
<1>4. ASSUME NEW status \in {"queued", "failed", "needs_input"}, Finish(status)
      PROVE  ModelFilesInv'
  <2>1. status \in StageStatuses \ {"running"} /\ status # "succeeded"
    BY <1>4 DEF StageStatuses
  <2> QED
    BY <1>1, <1>2, <1>4, <2>1, PlainEnd
<1> QED
  BY <1>3, <1>4

\* What a link delivers is the file of the task, or nothing.
LEMMA RequestKeeps ==
    ASSUME ModelFilesInv, Get
    PROVE  ModelFilesInv'
<1>1. TaskInv /\ WorkerInv /\ KeptInv
  BY DEF ModelFilesInv
<1>2. /\ worker.stage = "model_download" /\ worker.stage \in ChainStages
      /\ worker.step = "get"
      /\ UNCHANGED <<task, photos, tokens, cachedLink, result, late, row, revision, file>>
  BY ChainIs DEF Get, At
<1>3. lastError' # "gone" \/ lastError' = lastError
  BY DEF Get, Finish
<1>4. /\ \A step \in {"refresh", "stream"} :
            Go(step) /\ UNCHANGED stageOf => ModelFilesInv'
      /\ \A status \in {"queued", "failed", "needs_input"} :
            Finish(status) => ModelFilesInv'
  BY <1>2, <1>3, DownloadMoves
<1>5. ASSUME worker' = [worker EXCEPT !.hops = @ + 1], UNCHANGED <<stageOf, lastError>>
      PROVE  ModelFilesInv'
  <2>1. \A a, b, c, d, e, f :
           [[step |-> a, stage |-> b, link |-> c, hops |-> d, refreshed |-> e]
              EXCEPT !.hops = f]
             = [step |-> a, stage |-> b, link |-> c, hops |-> f, refreshed |-> e]
    OBVIOUS
  <2>2. worker = [step |-> worker.step, stage |-> worker.stage, link |-> worker.link,
                  hops |-> worker.hops, refreshed |-> worker.refreshed]
    BY <1>1 DEF WorkerInv
  <2>3. worker' = [worker EXCEPT !.hops = worker.hops + 1]
    BY <1>5
  <2>4. worker' = [step |-> worker.step, stage |-> worker.stage, link |-> worker.link,
                   hops |-> worker.hops + 1, refreshed |-> worker.refreshed]
    BY <2>1, <2>2, <2>3
  <2>5. /\ worker'.stage = worker.stage /\ worker'.step = worker.step
        /\ worker' = [step |-> worker'.step, stage |-> worker'.stage,
                      link |-> worker'.link, hops |-> worker'.hops,
                      refreshed |-> worker'.refreshed]
    BY <2>4
  <2>6. WorkerInv'
    BY <1>1, <1>2, <1>5, <2>5, WithinKeeps DEF Steps
  <2>7. KeptInv' /\ TaskInv'
    BY <1>1, <1>2, <1>5, <2>5, TaskStays DEF KeptInv
  <2> QED
    BY <2>6, <2>7 DEF ModelFilesInv
<1> QED
  BY <1>4, <1>5 DEF Get, TryAgain

\* Only a whole body, or one that is already there, goes on to its rows.
LEMMA StreamKeeps ==
    ASSUME ModelFilesInv, Stream
    PROVE  ModelFilesInv'
<1>1. TaskInv /\ WorkerInv /\ KeptInv
  BY DEF ModelFilesInv
<1>2. /\ worker.stage = "model_download" /\ worker.stage \in ChainStages
      /\ worker.step = "stream"
      /\ UNCHANGED <<task, photos, tokens, cachedLink, result, late, row, revision>>
  BY ChainIs DEF Stream, At
<1>3. PICK body \in {"whole", "cut", "none"} :
         /\ file' = Kept(body)
         /\ \/ Kept(body) = body /\ Go("commit") /\ UNCHANGED <<stageOf, lastError>>
            \/ /\ body = "cut" /\ Kept(body) # body
               /\ TryAgain /\ lastError' = "retryable"
            \/ body = "none" /\ Finish("needs_input") /\ lastError' = "size_or_space"
  BY DEF Stream
<1>4. CASE Kept(body) = body /\ Go("commit") /\ UNCHANGED <<stageOf, lastError>>
  <2>1. file' = "whole"
    BY <1>1, <1>3, <1>4 DEF Kept, KeptInv
  <2>2. "commit" \in Steps(worker.stage)
    BY <1>2 DEF Steps
  <2>3. WorkerInv' /\ worker'.stage = worker.stage /\ worker'.step = "commit"
    BY <1>1, <1>2, <1>4, <2>2, GoKeeps
  <2>4. KeptInv' /\ TaskInv'
    BY <1>1, <1>2, <1>4, <2>1, <2>3, TaskStays DEF KeptInv
  <2> QED
    BY <2>3, <2>4 DEF ModelFilesInv
<1>5. CASE body # "whole" /\ lastError' \in {"retryable", "size_or_space"}
  <2>1. UNCHANGED file
    BY <1>3, <1>5 DEF Kept
  <2>2. \A status \in {"queued", "failed", "needs_input"} :
            Finish(status) => ModelFilesInv'
    BY <1>2, <1>5, <2>1, DownloadMoves
  <2> QED
    BY <1>3, <1>4, <2>2 DEF TryAgain
<1> QED
  BY <1>3, <1>4, <1>5

\* The downloaded file becomes an asset.
LEMMA StoreKeeps ==
    ASSUME ModelFilesInv, Commit
    PROVE  ModelFilesInv'
<1>1. TaskInv /\ WorkerInv /\ KeptInv
  BY DEF ModelFilesInv
<1>2. worker.stage \in ChainStages /\ worker.stage = "model_download" /\ worker.step = "commit"
  BY ChainIs DEF Commit, At
<1>3. "record" \in Steps(worker.stage)
  BY <1>2 DEF Steps
<1>4. WorkerInv' /\ worker'.stage = worker.stage /\ worker'.step = "record"
  BY <1>1, <1>2, <1>3, GoKeeps DEF Commit
<1>5. KeptInv' /\ TaskInv'
  BY <1>1, <1>2, <1>4, TaskStays DEF KeptInv, Commit
<1> QED
  BY <1>4, <1>5 DEF ModelFilesInv

\* The stage records the asset as its result.
LEMMA RecordResultKeeps ==
    ASSUME ModelFilesInv, RecordResult
    PROVE  ModelFilesInv'
<1>1. TaskInv /\ WorkerInv /\ KeptInv
  BY DEF ModelFilesInv
<1>2. worker.stage \in ChainStages /\ worker.stage = "model_download" /\ worker.step = "record"
  BY ChainIs DEF RecordResult, At
<1>3. "advance" \in Steps(worker.stage)
  BY <1>2 DEF Steps
<1>4. WorkerInv' /\ worker'.stage = worker.stage /\ worker'.step = "advance"
  BY <1>1, <1>2, <1>3, GoKeeps DEF RecordResult
<1>5. KeptInv' /\ TaskInv'
  BY <1>1, <1>2, <1>4, TaskStays DEF KeptInv, RecordResult
<1> QED
  BY <1>4, <1>5 DEF ModelFilesInv

\* A stage that has its result succeeds.
LEMMA AdvanceKeeps ==
    ASSUME ModelFilesInv, Advance
    PROVE  ModelFilesInv'
<1>1. /\ worker.stage = "model_download" /\ worker.stage \in ChainStages
      /\ worker.step = "advance"
  BY ChainIs DEF Advance, At
<1>2. TaskInv' /\ result
  BY <1>1, TaskStays DEF Advance, ModelFilesInv, KeptInv
<1>3. "succeeded" \in StageStatuses \ {"running"}
  BY DEF StageStatuses
<1> QED
  BY <1>1, <1>2, <1>3, PlainEnd DEF Advance

\* The check reads the asset of the download.
LEMMA LoadDownloadedKeeps ==
    ASSUME ModelFilesInv, LoadDownloaded
    PROVE  ModelFilesInv'
<1>1. TaskInv /\ WorkerInv /\ KeptInv
  BY DEF ModelFilesInv
<1>2. worker.stage = "model_validate" /\ worker.stage \in ChainStages
  BY ChainIs DEF LoadDownloaded, At
<1>3. TaskInv'
  BY <1>1, TaskStays DEF LoadDownloaded
<1>4. CASE Go("inspect") /\ UNCHANGED stageOf
  <2>1. "inspect" \in Steps(worker.stage)
    BY <1>2 DEF Steps
  <2>2. WorkerInv' /\ worker'.stage = worker.stage /\ worker'.step = "inspect"
    BY <1>1, <1>2, <1>4, <2>1, GoKeeps DEF LoadDownloaded
  <2>3. KeptInv'
    BY <1>1, <1>4, <2>2 DEF KeptInv, LoadDownloaded
  <2> QED
    BY <1>3, <2>2, <2>3 DEF ModelFilesInv
<1>5. CASE Finish("needs_input")
  <2>1. "needs_input" \in StageStatuses \ {"running"}
    BY DEF StageStatuses
  <2> QED
    BY <1>2, <1>3, <1>5, <2>1, PlainEnd DEF LoadDownloaded
<1> QED
  BY <1>4, <1>5 DEF LoadDownloaded

\* The model passes its check, or the stage needs a person.
LEMMA InspectKeeps ==
    ASSUME ModelFilesInv, Inspect
    PROVE  ModelFilesInv'
<1>1. TaskInv /\ WorkerInv /\ KeptInv
  BY DEF ModelFilesInv
<1>2. worker.stage = "model_validate" /\ worker.stage \in ChainStages
  BY ChainIs DEF Inspect, At
<1>3. TaskInv'
  BY <1>1, TaskStays DEF Inspect
<1>4. ASSUME NEW verdict \in Verdicts, Go(verdict), UNCHANGED stageOf
      PROVE  ModelFilesInv'
  <2>1. /\ verdict \in Steps(worker.stage) /\ verdict \in {"validated", "rejected"}
        /\ verdict = "validated" => task.content = "good"
    BY <1>2 DEF Steps, Verdicts
  <2>2. WorkerInv' /\ worker'.stage = worker.stage /\ worker'.step = verdict
    BY <1>1, <1>2, <1>4, <2>1, GoKeeps DEF Inspect
  <2>3. KeptInv'
    BY <1>1, <1>4, <2>1, <2>2 DEF KeptInv, Inspect
  <2> QED
    BY <1>3, <2>2, <2>3 DEF ModelFilesInv
<1>5. ASSUME NEW status \in {"queued", "failed"}, Finish(status)
      PROVE  ModelFilesInv'
  <2>1. status \in StageStatuses \ {"running"} /\ status # "succeeded"
    BY <1>5 DEF StageStatuses
  <2> QED
    BY <1>2, <1>3, <1>5, <2>1, PlainEnd DEF Inspect
<1> QED
  BY <1>4, <1>5 DEF Inspect, TryAgain

\* The verdict becomes the content's first revision, or finds one.
LEMMA RecordRevisionKeeps ==
    ASSUME ModelFilesInv, RecordRevision
    PROVE  ModelFilesInv'
<1>1. TaskInv /\ WorkerInv /\ KeptInv
  BY DEF ModelFilesInv
<1>2. /\ worker.stage = "model_validate" /\ worker.stage \in ChainStages
      /\ worker.step \in {"validated", "rejected"}
  BY ChainIs DEF RecordRevision
<1>3. TaskInv'
  BY <1>1, TaskStays DEF RecordRevision
<1>4. PICK status : status = IF worker.step = "validated" THEN "succeeded" ELSE "needs_input"
  OBVIOUS
<1>5. status \in StageStatuses \ {"running"} /\ Finish(status)
  BY <1>4 DEF StageStatuses, RecordRevision
<1>6. /\ revision' \in {"none", "validated", "rejected"}
      /\ revision' = "validated" => task.content = "good"
      /\ revision' # "none"
  BY <1>1, <1>2 DEF RecordRevision, KeptInv
<1> QED
  BY <1>2, <1>3, <1>5, <1>6, TaskEndKeeps DEF RecordRevision

-----------------------------------------------------------------------------
(* The administrator, the executor and the world.                          *)

\* A retry begins at a stage and forgets what came after it.
LEMMA RetryChainKeeps ==
    ASSUME ModelFilesInv, NEW s \in ChainStages, RetryChain(s)
    PROVE  ModelFilesInv'
<1>1. TaskInv /\ WorkerInv /\ KeptInv
  BY DEF ModelFilesInv
<1>2. /\ worker = Resting /\ worker.stage = "none" /\ worker' = worker
      /\ stageOf' = [stageOf EXCEPT ![s] = "queued"]
  BY DEF RetryChain, Resting
<1>3. /\ stageOf' \in [ChainStages -> StageStatuses]
      /\ \A t \in ChainStages : stageOf'[t] = IF t = s THEN "queued" ELSE stageOf[t]
  BY <1>1, <1>2 DEF WorkerInv, StageStatuses
<1>4. WorkerInv'
  BY <1>1, <1>2, <1>3, ChainIs DEF WorkerInv, RetryChain
<1>5. KeptInv'
  BY <1>1, <1>2, <1>3, ChainIs DEF KeptInv, RetryChain
<1>6. TaskInv'
  BY <1>1, TaskStays DEF RetryChain
<1> QED
  BY <1>4, <1>5, <1>6 DEF ModelFilesInv

\* A crash forgets the link and the late answer; a stage whose result is
\* there is done.
LEMMA ServerCrashKeeps ==
    ASSUME ModelFilesInv, ServerCrash
    PROVE  ModelFilesInv'
<1>1. TaskInv /\ WorkerInv /\ KeptInv
  BY DEF ModelFilesInv
<1>2. worker.stage \in ChainStages
  BY <1>1 DEF WorkerInv, ServerCrash
<1>3. PICK status : status = Recovered(worker.stage)
  OBVIOUS
<1>4. /\ status \in {"succeeded", "queued"}
      /\ status \in StageStatuses \ {"running"}
      /\ status = "succeeded" => worker.stage = "model_download" /\ result
  BY <1>3 DEF Recovered, StageStatuses
<1>5. Finish(status)
  BY <1>3 DEF Finish, ServerCrash
<1>6. /\ WorkerInv'
      /\ worker'.step = "none" /\ worker'.stage = "none"
      /\ \A s \in ChainStages :
            stageOf'[s] = IF s = worker.stage THEN status ELSE stageOf[s]
  BY <1>1, <1>2, <1>4, <1>5, FinishKeeps DEF ServerCrash
<1>7. KeptInv'
  BY <1>1, <1>4, <1>6, ChainIs DEF KeptInv, ServerCrash
<1>8. TaskInv'
  BY <1>1, ModelFilesAssumption DEF TaskInv, ServerCrash
<1> QED
  BY <1>6, <1>7, <1>8 DEF ModelFilesInv

\* The lease lapses and another worker may start the stage.
LEMMA LeaseLapsesKeeps ==
    ASSUME ModelFilesInv, LeaseLapses
    PROVE  ModelFilesInv'
<1>1. TaskInv /\ WorkerInv /\ KeptInv
  BY DEF ModelFilesInv
<1>2. /\ worker.stage = "model_download" /\ worker.stage \in ChainStages
      /\ worker.step = "record"
  BY ChainIs DEF LeaseLapses, At
<1>3. Finish("queued") /\ "queued" \in StageStatuses \ {"running"}
  BY <1>2 DEF LeaseLapses, Finish, StageStatuses
<1>4. /\ WorkerInv'
      /\ worker'.step = "none" /\ worker'.stage = "none"
      /\ \A s \in ChainStages :
            stageOf'[s] = IF s = worker.stage THEN "queued" ELSE stageOf[s]
  BY <1>1, <1>2, <1>3, FinishKeeps DEF LeaseLapses
<1>5. KeptInv'
  BY <1>1, <1>2, <1>4, ChainIs DEF KeptInv, LeaseLapses
<1>6. TaskInv'
  BY <1>1, TaskStays DEF LeaseLapses
<1> QED
  BY <1>4, <1>5, <1>6 DEF ModelFilesInv

\* A worker that lost its lease stores its result all the same.
LEMMA LateResultKeeps ==
    ASSUME ModelFilesInv, LateResult
    PROVE  ModelFilesInv'
<1>1. TaskInv /\ WorkerInv /\ KeptInv
  BY DEF ModelFilesInv
<1>2. WorkerInv'
  BY <1>1 DEF WorkerInv, LateResult, Resting, Steps
<1>3. KeptInv' /\ TaskInv'
  BY <1>1, TaskStays DEF KeptInv, LateResult
<1> QED
  BY <1>2, <1>3 DEF ModelFilesInv

\* The provider's task is done, is given up, or its links expire.
LEMMA TaskMovesKeeps ==
    ASSUME ModelFilesInv, TaskMoves
    PROVE  ModelFilesInv'
<1>1. TaskInv /\ WorkerInv /\ KeptInv
  BY DEF ModelFilesInv
<1>2. UNCHANGED <<photos, tokens, cachedLink, stageOf, lastError, result, late, file,
                  row, revision, worker>>
  BY DEF TaskMoves
<1>3. /\ task.content = "good" => task'.content = "good"
      /\ TaskInv'
      /\ task.status # "none" => task'.status # "none"
  <2>1. ASSUME task.status = "running", NEW content \in {"good", "broken"},
               task' = [task EXCEPT !.status = "success", !.content = content]
        PROVE  /\ task.content = "good" => task'.content = "good"
               /\ TaskInv'
               /\ task.status # "none" => task'.status # "none"
    <3>1. /\ task'.status = "success" /\ task'.content = content
          /\ task'.issued = task.issued /\ task'.expired = task.expired
          /\ task' \in [status : Statuses, issued : 0 .. MaxLinks,
                        expired : 0 .. MaxLinks, content : {"none", "good", "broken"}]
      BY <1>1, <2>1 DEF TaskInv, Statuses
    <3> QED
      BY <1>1, <1>2, <2>1, <3>1 DEF TaskInv
  <2>2. ASSUME task.status \in {"running", "success"},
               task' = [task EXCEPT !.status = "gone"]
        PROVE  /\ task.content = "good" => task'.content = "good"
               /\ TaskInv'
               /\ task.status # "none" => task'.status # "none"
    <3>1. /\ task'.status = "gone" /\ task'.content = task.content
          /\ task'.issued = task.issued /\ task'.expired = task.expired
          /\ task' \in [status : Statuses, issued : 0 .. MaxLinks,
                        expired : 0 .. MaxLinks, content : {"none", "good", "broken"}]
      BY <1>1, <2>2 DEF TaskInv, Statuses
    <3> QED
      BY <1>1, <1>2, <2>2, <3>1 DEF TaskInv
  <2>3. ASSUME task' = [task EXCEPT !.expired = task.issued]
        PROVE  /\ task.content = "good" => task'.content = "good"
               /\ TaskInv'
               /\ task.status # "none" => task'.status # "none"
    <3>1. /\ task'.status = task.status /\ task'.content = task.content
          /\ task'.issued = task.issued /\ task'.expired = task.issued
          /\ task' \in [status : Statuses, issued : 0 .. MaxLinks,
                        expired : 0 .. MaxLinks, content : {"none", "good", "broken"}]
      BY <1>1, <2>3 DEF TaskInv
    <3> QED
      BY <1>1, <1>2, <2>3, <3>1, ModelFilesAssumption DEF TaskInv
  <2> QED
    BY <2>1, <2>2, <2>3 DEF TaskMoves
<1>4. WorkerInv'
  BY <1>1, <1>2, <1>3 DEF WorkerInv, Resting, Steps
<1>5. KeptInv'
  BY <1>1, <1>2, <1>3 DEF KeptInv
<1> QED
  BY <1>3, <1>4, <1>5 DEF ModelFilesInv

\* A photo or the saved file is lost or damaged on the medium.
LEMMA MediumFailsKeeps ==
    ASSUME ModelFilesInv, MediumFails
    PROVE  ModelFilesInv'
<1>1. TaskInv /\ WorkerInv /\ KeptInv
  BY DEF ModelFilesInv
<1>2. WorkerInv'
  BY <1>1 DEF WorkerInv, MediumFails, Resting, Steps
<1>3. TaskInv'
  BY <1>1 DEF TaskInv, MediumFails
<1>4. KeptInv'
  BY <1>1 DEF KeptInv, MediumFails
<1> QED
  BY <1>2, <1>3, <1>4 DEF ModelFilesInv

-----------------------------------------------------------------------------

\* Nothing uploaded, bought or saved.
LEMMA ModelFilesBegin == ModelFilesInit => ModelFilesInv
<1> SUFFICES ASSUME ModelFilesInit PROVE ModelFilesInv
  OBVIOUS
<1>1. TaskInv
  BY ModelFilesAssumption DEF ModelFilesInit, TaskInv, Statuses
<1>2. WorkerInv
  BY ChainIs DEF ModelFilesInit, WorkerInv, Resting, StageStatuses
<1>3. KeptInv
  BY ChainIs DEF ModelFilesInit, KeptInv, Resting
<1> QED
  BY <1>1, <1>2, <1>3 DEF ModelFilesInv

\* Every step keeps the invariant.
LEMMA ModelFilesKept ==
    ModelFilesInv /\ [ModelFilesNext]_modelFilesVars => ModelFilesInv'
<1> SUFFICES ASSUME ModelFilesInv, [ModelFilesNext]_modelFilesVars
             PROVE  ModelFilesInv'
  OBVIOUS
<1>1. ASSUME NEW n \in DOMAIN Chain, StartStage(n) \/ RetryChain(Chain[n])
      PROVE  ModelFilesInv'
  BY <1>1, StartStageKeeps, RetryChainKeeps DEF ChainStages
<1>2. ASSUME NEW v \in Views, Upload(v)
      PROVE  ModelFilesInv'
  BY <1>2, UploadKeeps
<1>3. CASE UploadDone \/ Submit \/ Poll
  BY <1>3, UploadDoneKeeps, SubmitKeeps, PollKeeps
<1>4. CASE BeginDownload \/ Get \/ AskAgain \/ Stream \/ Commit \/ RecordResult \/ Advance
  BY <1>4, BeginDownloadKeeps, RequestKeeps, AskAgainKeeps, StreamKeeps, StoreKeeps,
     RecordResultKeeps, AdvanceKeeps
<1>5. CASE LoadDownloaded \/ Inspect \/ RecordRevision
  BY <1>5, LoadDownloadedKeeps, InspectKeeps, RecordRevisionKeeps
<1>6. CASE ServerCrash \/ LeaseLapses \/ LateResult \/ TaskMoves \/ MediumFails
  BY <1>6, ServerCrashKeeps, LeaseLapsesKeeps, LateResultKeeps, TaskMovesKeeps,
     MediumFailsKeeps
<1>7. CASE UNCHANGED modelFilesVars
  <2>1. TaskInv' /\ KeptInv'
    BY <1>7 DEF ModelFilesInv, modelFilesVars, TaskInv, KeptInv
  <2>2. WorkerInv'
    BY <1>7 DEF ModelFilesInv, modelFilesVars, WorkerInv, Resting, Steps
  <2> QED
    BY <2>1, <2>2 DEF ModelFilesInv
<1> QED
  BY <1>1, <1>2, <1>3, <1>4, <1>5, <1>6, <1>7 DEF ModelFilesNext

\* Links are only those issued, and a stage is running exactly while a task
\* runs it.
THEOREM ModelFilesTyped == ModelFilesSpec => []ModelFilesTypeOK
<1>1. ModelFilesInv => ModelFilesTypeOK
  <2> SUFFICES ASSUME ModelFilesInv PROVE ModelFilesTypeOK
    OBVIOUS
  <2>1. TaskInv /\ WorkerInv /\ KeptInv
    BY DEF ModelFilesInv
  <2>2. task.issued \in 0 .. MaxLinks /\ task.expired \in 0 .. task.issued
    BY <2>1, ModelFilesAssumption DEF TaskInv
  <2> QED
    BY <2>1, <2>2 DEF ModelFilesTypeOK, TaskInv, WorkerInv, KeptInv, Statuses,
                      StageStatuses
<1> QED
  BY <1>1, ModelFilesBegin, ModelFilesKept, PTL DEF ModelFilesSpec

\* Through crashes, lapsed leases, late answers, expired links and broken
\* downloads: what counts as downloaded was kept whole and has its rows, a
\* model is given up only with the provider's task, and a validated revision
\* is of a content that passed (TripoModelDownloadHandler, ModelDownloader,
\* TripoModelValidateHandler, recover).
THEOREM BoughtModelIsSaved == ModelFilesSpec => []SavedModelIsWhatWasBought
<1>1. ModelFilesInv => SavedModelIsWhatWasBought
  BY DEF ModelFilesInv, TaskInv, WorkerInv, KeptInv, SavedModelIsWhatWasBought
<1> QED
  BY <1>1, ModelFilesBegin, ModelFilesKept, PTL DEF ModelFilesSpec

-----------------------------------------------------------------------------
(* The check of a model.                                                   *)

\* The BIN chunk ends with the file, and starts at a word.
BinOK(bin, len) ==
    bin = NoBin \/ /\ bin.offset \in Nat /\ bin.length \in Nat
                   /\ bin.offset + bin.length = len /\ bin.offset % 4 = 0

\* The buffer is inside the BIN chunk.
BufferOK(buffer, bin) ==
    buffer = NoBin \/ /\ buffer \in Nat
                      /\ buffer > 0 => bin # NoBin /\ buffer <= bin.length

\* The elements of an accessor are inside the buffer and aligned.
LayoutOK(a, buffer) ==
    /\ buffer # NoBin /\ buffer \in Nat /\ buffer > 0
    /\ a.start \in Nat /\ a.stride \in Nat /\ a.count \in Nat /\ a.element \in Nat
    /\ a.size \in {1, 2, 4}
    /\ \A n \in 0 .. a.count - 1 :
          /\ a.start + n * a.stride + a.element <= buffer
          /\ (a.start + n * a.stride) % a.size = 0

ImageOK(image, buffer) ==
    image.start \in Nat /\ image.length \in Nat /\ image.start + image.length <= buffer

\* Every declaration that was read is sound with those before it.
ModelCheckInv ==
    /\ "step" \in DOMAIN glb
    /\ glb.step \in {"container", "layout", "geometry", "indices", "images",
                     "values", "accepted", "refused"}
    /\ glb.step \notin {"container", "refused"} =>
          {"bin", "len"} \subseteq DOMAIN glb /\ BinOK(glb.bin, glb.len)
    /\ glb.step \notin {"container", "layout", "refused"} =>
          "buffer" \in DOMAIN glb /\ BufferOK(glb.buffer, glb.bin)
    /\ glb.step \in {"indices", "images", "values", "accepted"} =>
          /\ "positions" \in DOMAIN glb /\ LayoutOK(glb.positions, glb.buffer)
          /\ glb.positions.element = 12 /\ glb.positions.size = 4
          /\ glb.positions.count > 0
    /\ glb.step \in {"images", "values", "accepted"} =>
          /\ {"triangles", "indices"} \subseteq DOMAIN glb
          /\ glb.triangles \in 1 .. MaxTriangles
          /\ glb.indices = NoBin \/ glb.indices.count = 0 \/ LayoutOK(glb.indices, glb.buffer)
    /\ glb.step \in {"values", "accepted"} =>
          /\ "image" \in DOMAIN glb
          /\ glb.image = NoBin \/ ImageOK(glb.image, glb.buffer)
    /\ glb.step = "accepted" =>
          "largest" \in DOMAIN glb /\ glb.largest \in 0 .. glb.positions.count - 1

-----------------------------------------------------------------------------
(* Arithmetic of elements.                                                 *)

\* Fewer elements end earlier.
LEMMA FewerIsLess ==
    ASSUME NEW m \in Nat, NEW n \in Nat, m <= n, NEW k \in Nat
    PROVE  m * k <= n * k
<1>1. PICK d \in Nat : n = m + d
  <2>1. n - m \in Nat /\ n = m + (n - m)
    OBVIOUS
  <2> QED
    BY <2>1
<1>2. n * k = m * k + d * k
  BY <1>1
<1>3. d * k \in Nat /\ m * k \in Nat
  OBVIOUS
<1> QED
  BY <1>2, <1>3

\* What views and accessors declare are numbers.
LEMMA SizesAreNumbers ==
    /\ \A n \in Sizes : n \in Nat
    /\ MaxCount \in Nat /\ MaxTriangles \in Nat /\ MaxTexture \in Nat
    /\ \A v \in BufferViews : v.offset \in Nat /\ v.length \in Nat /\ v.stride \in Nat
<1>1. /\ \A n \in Sizes : n \in Nat
      /\ \A n \in Strides \cup {0} : n \in Nat
      /\ MaxCount \in Nat /\ MaxTriangles \in Nat /\ MaxTexture \in Nat
  BY ModelCheckAssumption
<1>2. ASSUME NEW v \in BufferViews
      PROVE  v.offset \in Sizes /\ v.length \in Sizes /\ v.stride \in Strides \cup {0}
  BY Zenon DEF BufferViews
<1> QED
  BY <1>1, <1>2

\* An accessor that is accepted has all its elements in the buffer.
LEMMA LayoutSound ==
    ASSUME NEW a, AccessorAccepted(a), glb.buffer \in Nat, a.view \in BufferViews,
           a.offset \in Nat, a.size \in {1, 2, 4}, a.components \in {1, 3},
           a.count \in Nat, a.count > 0
    PROVE  /\ LayoutOK(LayoutOf(a), glb.buffer)
           /\ LayoutOf(a).element = a.size * a.components
           /\ LayoutOf(a).size = a.size /\ LayoutOf(a).count = a.count
<1> DEFINE s == Stride(a)
           e == Element(a)
           start == a.view.offset + a.offset
<1>1. a.view.offset \in Nat /\ a.view.length \in Nat /\ a.view.stride \in Nat
  BY SizesAreNumbers
<1>2. e \in Nat /\ e > 0 /\ e % a.size = 0 /\ e = a.size * a.components
  BY DEF Element
<1>3. a.view.stride # 0 => a.view.stride % a.size = 0
  <2>1. a.view.stride # 0 => a.view.stride % 4 = 0
    BY DEF AccessorAccepted, ViewAccepted
  <2> QED
    BY <1>1, <2>1
<1>4. s \in Nat /\ s % a.size = 0
  BY <1>1, <1>2, <1>3 DEF Stride
<1>5. LayoutOf(a) = [start |-> start, stride |-> s, element |-> e, size |-> a.size,
                     count |-> a.count]
  BY DEF LayoutOf
<1>6. /\ start \in Nat /\ start % a.size = 0
      /\ a.view.offset + a.view.length <= glb.buffer
      /\ a.offset + (a.count - 1) * s + e <= a.view.length
  BY <1>1 DEF AccessorAccepted, ViewAccepted, Span
<1> HIDE DEF s, e
<1>7. PICK last \in Nat : last = (a.count - 1) * s
  <2>1. a.count - 1 \in Nat
    OBVIOUS
  <2> QED
    BY <1>4, <2>1
<1>8. start + last + e <= glb.buffer /\ glb.buffer > 0 /\ glb.buffer # NoBin
  BY <1>1, <1>2, <1>6, <1>7 DEF AccessorAccepted, ViewAccepted
<1> HIDE DEF start
<1>9. ASSUME NEW n \in 0 .. a.count - 1
      PROVE  start + n * s + e <= glb.buffer /\ (start + n * s) % a.size = 0
  <2>1. n \in Nat /\ a.count - 1 \in Nat /\ n <= a.count - 1
    OBVIOUS
  <2>2. n * s <= (a.count - 1) * s
    BY <1>4, <2>1, FewerIsLess
  <2>3. PICK k \in Nat : k = n * s
    BY <1>4, <2>1
  <2>4. k <= last
    BY <1>7, <2>2, <2>3
  <2>5. start + k + e <= glb.buffer
    BY <1>2, <1>6, <1>8, <2>4
  <2>6. (start + n * s) % a.size = 0
    <3>1. PICK size \in {1, 2, 4} : size = a.size
      OBVIOUS
    <3>2. PICK first \in Nat : first = start
      BY <1>6
    <3>3. PICK step \in Nat : step = s
      BY <1>4
    <3>4. first % size = 0 /\ step % size = 0
      BY <1>4, <1>6, <3>1, <3>2, <3>3
    <3>5. PICK x \in Nat : first = size * x
      <4>1. first \div size \in Nat /\ first = size * (first \div size)
        BY <3>1, <3>2, <3>4
      <4> QED
        BY <4>1
    <3>6. PICK y \in Nat : step = size * y
      <4>1. step \div size \in Nat /\ step = size * (step \div size)
        BY <3>1, <3>3, <3>4
      <4> QED
        BY <4>1
    <3>7. PICK z \in Nat : z = n * y
      BY <2>1, <3>6
    <3>8. n * step = size * z
      BY <2>1, <3>1, <3>6, <3>7
    <3>9. first + n * step = size * (x + z) /\ x + z \in Nat
      BY <3>1, <3>5, <3>7, <3>8
    <3>10. \A m \in Nat : (size * m) % size = 0
      BY <3>1
    <3>11. (first + n * step) % size = 0
      BY <3>9, <3>10
    <3> QED
      BY <3>1, <3>2, <3>3, <3>11
  <2> QED
    BY <2>3, <2>5, <2>6
<1> QED
  BY <1>2, <1>4, <1>5, <1>6, <1>8, <1>9 DEF LayoutOK

-----------------------------------------------------------------------------
(* What a step knows of the file.                                          *)

\* A step adds its fields to those known.
LEMMA ReadAdds ==
    ASSUME NEW step, NEW fields, Read(step, fields), "step" \notin DOMAIN fields,
           "step" \in DOMAIN glb
    PROVE  /\ glb'.step = step
           /\ DOMAIN glb' = DOMAIN glb \cup DOMAIN fields
           /\ \A f \in DOMAIN fields : glb'[f] = fields[f]
           /\ \A f \in DOMAIN glb \ (DOMAIN fields \cup {"step"}) : glb'[f] = glb[f]
BY DEF Read

\* Nothing is claimed of a file that was refused.
LEMMA RefuseKeeps == ASSUME Refuse PROVE ModelCheckInv'
<1>1. glb'.step = "refused" /\ "step" \in DOMAIN glb'
  BY DEF Refuse
<1> QED
  BY <1>1 DEF ModelCheckInv

\* A file of at most two chunks, the second the BIN chunk, ends with it.
LEMMA ReadContainerKeeps ==
    ASSUME ModelCheckInv, ReadContainer
    PROVE  ModelCheckInv'
<1>1. PICK chunks \in ChunkLists, glTF2 \in BOOLEAN, cut \in {0, 4}, declared \in {0, 4} :
         IF /\ glTF2 /\ FileLen(chunks) - cut = FileLen(chunks) - declared
            /\ WellChunked(chunks) /\ cut = 0
         THEN Read("layout", [bin |-> BinOf(chunks), len |-> FileLen(chunks) - cut])
         ELSE Refuse
  BY DEF ReadContainer
<1>2. CASE Refuse
  BY <1>2, RefuseKeeps
<1>3. CASE /\ WellChunked(chunks) /\ cut = 0
           /\ Read("layout", [bin |-> BinOf(chunks), len |-> FileLen(chunks) - cut])
  <2>1. PICK k \in 0 .. 2 : chunks \in [1 .. k -> Chunks]
    BY DEF ChunkLists
  <2>2. Len(chunks) = k
    BY <2>1, LenProperties, SeqDef
  <2>3. \A n \in 1 .. k : chunks[n].length \in Nat
    BY <2>1, ModelCheckAssumption DEF Chunks
  <2>4. k # 0
    BY <1>3, <2>1, <2>2, EmptySeq DEF WellChunked
  <2>5. chunks # <<>>
    BY <1>3 DEF WellChunked
  <2>6. FileLen(chunks) \in Nat
    BY <2>2, <2>3, <2>4, <2>5 DEF FileLen, DataOffset, HeaderLen, ChunkHeaderLen
  <2>7. BinOK(BinOf(chunks), FileLen(chunks))
    <3>1. CASE k = 1
      BY <2>2, <3>1 DEF BinOf, BinOK
    <3>2. CASE k = 2
      <4>1. BinOf(chunks) = [offset |-> DataOffset(chunks, 2), length |-> chunks[2].length]
        BY <2>2, <3>2 DEF BinOf
      <4>2. /\ DataOffset(chunks, 2) = 28 + chunks[1].length
            /\ FileLen(chunks) = DataOffset(chunks, 2) + chunks[2].length
        BY <2>2, <2>3, <2>5, <3>2 DEF FileLen, DataOffset, HeaderLen, ChunkHeaderLen
      <4>3. chunks[1].length % 4 = 0
        BY <1>3, <2>1, <3>2 DEF WellChunked
      <4>4. chunks[1].length \in Nat /\ chunks[2].length \in Nat
        BY <2>3, <3>2
      <4>5. (28 + chunks[1].length) % 4 = 0
        BY <4>3, <4>4
      <4> QED
        BY <4>1, <4>2, <4>4, <4>5 DEF BinOK
    <3> QED
      BY <2>4, <3>1, <3>2
  <2>8. PICK fields : fields = [bin |-> BinOf(chunks), len |-> FileLen(chunks)]
    OBVIOUS
  <2>9. Read("layout", fields)
    <3>1. FileLen(chunks) - cut = FileLen(chunks)
      BY <1>3, <2>6
    <3>2. fields = [bin |-> BinOf(chunks), len |-> FileLen(chunks) - cut]
      BY <2>8, <3>1
    <3> QED
      BY <1>3, <3>2
  <2>10. /\ DOMAIN fields = {"bin", "len"} /\ fields.bin = BinOf(chunks)
         /\ fields.len = FileLen(chunks)
    BY <2>8
  <2>11. /\ glb'.step = "layout" /\ DOMAIN glb' = DOMAIN glb \cup {"bin", "len"}
         /\ glb'.bin = BinOf(chunks) /\ glb'.len = FileLen(chunks)
    <3>1. "step" \notin DOMAIN fields /\ "step" \in DOMAIN glb
      BY <2>10 DEF ModelCheckInv
    <3>2. /\ glb'.step = "layout" /\ DOMAIN glb' = DOMAIN glb \cup DOMAIN fields
          /\ \A f \in DOMAIN fields : glb'[f] = fields[f]
      BY <2>9, <3>1, ReadAdds
    <3> QED
      BY <2>10, <3>2
  <2> QED
    BY <2>7, <2>11 DEF ModelCheckInv
<1> QED
  BY <1>1, <1>2, <1>3

\* The buffer fills the BIN chunk but for its padding.
LEMMA ReadBuffersKeeps ==
    ASSUME ModelCheckInv, ReadBuffers
    PROVE  ModelCheckInv'
<1>1. /\ glb.step = "layout" /\ "step" \in DOMAIN glb
      /\ {"bin", "len"} \subseteq DOMAIN glb /\ BinOK(glb.bin, glb.len)
  BY DEF ReadBuffers, ModelCheckInv
<1>2. CASE Refuse
  BY <1>2, RefuseKeeps
<1>3. ASSUME NEW buffer, Read("geometry", [buffer |-> buffer]), BufferOK(buffer, glb.bin)
      PROVE  ModelCheckInv'
  <2>1. PICK fields : fields = [buffer |-> buffer]
    OBVIOUS
  <2>2. DOMAIN fields = {"buffer"} /\ fields.buffer = buffer
    BY <2>1
  <2>3. /\ glb'.step = "geometry" /\ DOMAIN glb' = DOMAIN glb \cup {"buffer"}
        /\ glb'.buffer = buffer
        /\ \A f \in DOMAIN glb \ {"buffer", "step"} : glb'[f] = glb[f]
    BY <1>1, <1>3, <2>1, <2>2, ReadAdds
  <2> QED
    BY <1>1, <1>3, <2>3 DEF ModelCheckInv
<1>4. BufferOK(NoBin, glb.bin)
  BY DEF BufferOK
<1>5. ASSUME NEW length \in Sizes,
             length <= IF glb.bin = NoBin THEN 0 ELSE glb.bin.length
      PROVE  BufferOK(length, glb.bin)
  BY <1>1, <1>5, ModelCheckAssumption DEF BinOK, BufferOK
<1> QED
  BY <1>2, <1>3, <1>4, <1>5 DEF ReadBuffers

\* A vertex is read from twelve bytes of the buffer.
LEMMA ReadPositionsKeeps ==
    ASSUME ModelCheckInv, ReadPositions
    PROVE  ModelCheckInv'
<1>1. /\ glb.step = "geometry" /\ "step" \in DOMAIN glb
      /\ {"bin", "len"} \subseteq DOMAIN glb /\ BinOK(glb.bin, glb.len)
      /\ "buffer" \in DOMAIN glb /\ BufferOK(glb.buffer, glb.bin)
  BY DEF ReadPositions, ModelCheckInv
<1>2. CASE Refuse
  BY <1>2, RefuseKeeps
<1>3. ASSUME NEW v \in BufferViews, NEW offset \in Sizes, NEW count \in 0 .. MaxCount,
             NEW sparse \in BOOLEAN, NEW a,
             a = [view |-> v, offset |-> offset, size |-> 4, components |-> 3,
                  count |-> count, sparse |-> sparse],
             AccessorAccepted(a), count > 0, Read("indices", [positions |-> LayoutOf(a)])
      PROVE  ModelCheckInv'
  <2>1. /\ a.view = v /\ a.offset = offset /\ a.size = 4 /\ a.components = 3
        /\ a.count = count
    BY <1>3
  <2>2. glb.buffer \in Nat
    BY <1>1, <1>3 DEF AccessorAccepted, ViewAccepted, BufferOK
  <2>3. offset \in Nat /\ count \in Nat
    BY ModelCheckAssumption
  <2>4. /\ LayoutOK(LayoutOf(a), glb.buffer) /\ LayoutOf(a).element = a.size * a.components
        /\ LayoutOf(a).size = a.size /\ LayoutOf(a).count = a.count
    BY <1>3, <2>1, <2>2, <2>3, LayoutSound
  <2>5. PICK layout : layout = LayoutOf(a)
    OBVIOUS
  <2>6. /\ LayoutOK(layout, glb.buffer) /\ layout.element = 12 /\ layout.size = 4
        /\ layout.count > 0
    BY <1>3, <2>1, <2>4, <2>5
  <2>7. PICK fields : fields = [positions |-> layout]
    OBVIOUS
  <2>8. DOMAIN fields = {"positions"} /\ fields.positions = layout
    BY <2>7
  <2>9. /\ glb'.step = "indices" /\ DOMAIN glb' = DOMAIN glb \cup {"positions"}
        /\ glb'.positions = layout
        /\ \A f \in DOMAIN glb \ {"positions", "step"} : glb'[f] = glb[f]
    BY <1>1, <1>3, <2>5, <2>7, <2>8, ReadAdds
  <2> QED
    BY <1>1, <2>6, <2>9 DEF ModelCheckInv
<1> QED
  BY <1>2, <1>3 DEF ReadPositions

\* What is drawn has a face, and its indices are in the buffer.
LEMMA DrawKeeps ==
    ASSUME ModelCheckInv, glb.step = "indices", NEW triangles \in Nat,
           WithinBudget(triangles), NEW indices,
           Read("images", [triangles |-> triangles, indices |-> indices]),
           indices = NoBin \/ indices.count = 0 \/ LayoutOK(indices, glb.buffer)
    PROVE  ModelCheckInv'
<1>1. /\ "step" \in DOMAIN glb
      /\ {"bin", "len"} \subseteq DOMAIN glb /\ BinOK(glb.bin, glb.len)
      /\ "buffer" \in DOMAIN glb /\ BufferOK(glb.buffer, glb.bin)
      /\ "positions" \in DOMAIN glb /\ LayoutOK(glb.positions, glb.buffer)
      /\ glb.positions.element = 12 /\ glb.positions.size = 4
      /\ glb.positions.count > 0
  BY DEF ModelCheckInv
<1>2. PICK fields : fields = [triangles |-> triangles, indices |-> indices]
  OBVIOUS
<1>3. /\ DOMAIN fields = {"triangles", "indices"} /\ fields.triangles = triangles
      /\ fields.indices = indices
  BY <1>2
<1>0. "step" \in DOMAIN glb
  BY <1>1
<1>4. /\ glb'.step = "images" /\ DOMAIN glb' = DOMAIN glb \cup {"triangles", "indices"}
      /\ glb'.triangles = triangles /\ glb'.indices = indices
      /\ \A f \in DOMAIN glb \ {"triangles", "indices", "step"} : glb'[f] = glb[f]
  BY <1>0, <1>2, <1>3, ReadAdds
<1>5. triangles \in 1 .. MaxTriangles
  BY ModelCheckAssumption DEF WithinBudget
<1>6. /\ glb'.bin = glb.bin /\ glb'.len = glb.len /\ glb'.buffer = glb.buffer
      /\ glb'.positions = glb.positions
  BY <1>1, <1>4
<1>7. glb'.indices = NoBin \/ glb'.indices.count = 0 \/ LayoutOK(glb'.indices, glb'.buffer)
  BY <1>4, <1>6
<1> QED
  BY <1>1, <1>4, <1>5, <1>6, <1>7 DEF ModelCheckInv

\* The number of triangles of a mode is one.
LEMMA TrianglesAreCounted ==
    ASSUME NEW mode \in Modes, NEW count \in Nat
    PROVE  Triangles(mode, count) \in Nat
BY DEF Modes, Triangles

\* A primitive without indices draws the vertices it has.
LEMMA DrawVerticesKeeps ==
    ASSUME ModelCheckInv, NEW mode \in Modes, DrawVertices(mode)
    PROVE  ModelCheckInv'
<1>1. glb.step = "indices" /\ glb.positions.count \in Nat
  BY DEF DrawVertices, ModelCheckInv, LayoutOK
<1>2. CASE Refuse
  BY <1>2, RefuseKeeps
<1>3. CASE /\ WithinBudget(Triangles(mode, glb.positions.count))
           /\ Read("images", [triangles |-> Triangles(mode, glb.positions.count),
                              indices |-> NoBin])
  <2>1. Triangles(mode, glb.positions.count) \in Nat
    BY <1>1, TrianglesAreCounted
  <2>2. PICK triangles \in Nat : triangles = Triangles(mode, glb.positions.count)
    BY <2>1
  <2> QED
    BY <1>1, <1>3, <2>2, DrawKeeps
<1> QED
  BY <1>2, <1>3 DEF DrawVertices

\* A primitive with indices reads them from the buffer.
LEMMA DrawIndicesKeeps ==
    ASSUME ModelCheckInv, NEW mode \in Modes, DrawIndices(mode)
    PROVE  ModelCheckInv'
<1>1. /\ glb.step = "indices" /\ BufferOK(glb.buffer, glb.bin)
  BY DEF DrawIndices, ModelCheckInv
<1>2. CASE Refuse
  BY <1>2, RefuseKeeps
<1>3. ASSUME NEW a \in [view : BufferViews, offset : Sizes, size : {1, 2, 4},
                        components : {1}, count : 0 .. MaxCount, sparse : {FALSE}],
             AccessorAccepted(a), WithinBudget(Triangles(mode, a.count)),
             Read("images", [triangles |-> Triangles(mode, a.count),
                             indices |-> LayoutOf(a)])
      PROVE  ModelCheckInv'
  <2>1. /\ a.view \in BufferViews /\ a.offset \in Nat /\ a.size \in {1, 2, 4}
        /\ a.components \in {1, 3} /\ a.count \in Nat
    <3>1. /\ a.view \in BufferViews /\ a.offset \in Sizes /\ a.size \in {1, 2, 4}
          /\ a.components \in {1} /\ a.count \in 0 .. MaxCount
      BY Zenon
    <3> QED
      BY <3>1, SizesAreNumbers
  <2>2. glb.buffer \in Nat
    BY <1>1, <1>3 DEF AccessorAccepted, ViewAccepted, BufferOK
  <2>3. LayoutOf(a).count = 0 \/ LayoutOK(LayoutOf(a), glb.buffer)
    <3>1. CASE a.count = 0
      BY <3>1 DEF LayoutOf
    <3>2. CASE a.count > 0
      BY <1>3, <2>1, <2>2, <3>2, LayoutSound
    <3> QED
      BY <2>1, <3>1, <3>2
  <2>4. PICK layout : layout = LayoutOf(a)
    OBVIOUS
  <2>5. PICK triangles \in Nat : triangles = Triangles(mode, a.count)
    BY <2>1, TrianglesAreCounted
  <2> QED
    BY <1>1, <1>3, <2>3, <2>4, <2>5, DrawKeeps
<1> QED
  BY <1>2, <1>3 DEF DrawIndices

\* The images lie in the buffer and within the budget.
LEMMA ReadImagesKeeps ==
    ASSUME ModelCheckInv, ReadImages
    PROVE  ModelCheckInv'
<1>1. /\ glb.step = "images" /\ "step" \in DOMAIN glb
      /\ {"bin", "len"} \subseteq DOMAIN glb /\ BinOK(glb.bin, glb.len)
      /\ "buffer" \in DOMAIN glb /\ BufferOK(glb.buffer, glb.bin)
      /\ "positions" \in DOMAIN glb /\ LayoutOK(glb.positions, glb.buffer)
      /\ glb.positions.element = 12 /\ glb.positions.size = 4
      /\ glb.positions.count > 0
      /\ {"triangles", "indices"} \subseteq DOMAIN glb
      /\ glb.triangles \in 1 .. MaxTriangles
      /\ glb.indices = NoBin \/ glb.indices.count = 0 \/ LayoutOK(glb.indices, glb.buffer)
  BY DEF ReadImages, ModelCheckInv
<1>2. CASE Refuse
  BY <1>2, RefuseKeeps
<1>3. ASSUME NEW image, Read("values", [image |-> image]),
             image = NoBin \/ ImageOK(image, glb.buffer)
      PROVE  ModelCheckInv'
  <2>1. PICK fields : fields = [image |-> image]
    OBVIOUS
  <2>2. DOMAIN fields = {"image"} /\ fields.image = image
    BY <2>1
  <2>0. "step" \in DOMAIN glb
    BY <1>1
  <2>3. /\ glb'.step = "values" /\ DOMAIN glb' = DOMAIN glb \cup {"image"}
        /\ glb'.image = image
        /\ \A f \in DOMAIN glb \ {"image", "step"} : glb'[f] = glb[f]
    BY <2>0, <1>3, <2>1, <2>2, ReadAdds
  <2>4. /\ glb'.bin = glb.bin /\ glb'.len = glb.len /\ glb'.buffer = glb.buffer
        /\ glb'.positions = glb.positions /\ glb'.triangles = glb.triangles
        /\ glb'.indices = glb.indices
    BY <1>1, <2>3
  <2>5. glb'.image = NoBin \/ ImageOK(glb'.image, glb'.buffer)
    BY <1>3, <2>3, <2>4
  <2> QED
    BY <1>1, <2>3, <2>4, <2>5 DEF ModelCheckInv
<1>4. ASSUME NEW v \in BufferViews, ViewAccepted(v), NEW image,
             image = [start |-> v.offset, length |-> v.length]
      PROVE  ImageOK(image, glb.buffer)
  BY <1>4, SizesAreNumbers DEF ViewAccepted, ImageOK
<1> QED
  BY <1>2, <1>3, <1>4 DEF ReadImages

\* The values that are read are below the number of vertices.
LEMMA ReadValuesKeeps ==
    ASSUME ModelCheckInv, ReadValues
    PROVE  ModelCheckInv'
<1>1. /\ glb.step = "values" /\ "step" \in DOMAIN glb
      /\ {"bin", "len"} \subseteq DOMAIN glb /\ BinOK(glb.bin, glb.len)
      /\ "buffer" \in DOMAIN glb /\ BufferOK(glb.buffer, glb.bin)
      /\ "positions" \in DOMAIN glb /\ LayoutOK(glb.positions, glb.buffer)
      /\ glb.positions.element = 12 /\ glb.positions.size = 4
      /\ glb.positions.count > 0
      /\ {"triangles", "indices"} \subseteq DOMAIN glb
      /\ glb.triangles \in 1 .. MaxTriangles
      /\ glb.indices = NoBin \/ glb.indices.count = 0 \/ LayoutOK(glb.indices, glb.buffer)
      /\ "image" \in DOMAIN glb
      /\ glb.image = NoBin \/ ImageOK(glb.image, glb.buffer)
  BY DEF ReadValues, ModelCheckInv
<1>2. CASE Refuse
  BY <1>2, RefuseKeeps
<1>3. ASSUME NEW largest \in 0 .. glb.positions.count - 1,
             Read("accepted", [largest |-> largest])
      PROVE  ModelCheckInv'
  <2>1. PICK fields : fields = [largest |-> largest]
    OBVIOUS
  <2>2. DOMAIN fields = {"largest"} /\ fields.largest = largest
    BY <2>1
  <2>0. "step" \in DOMAIN glb
    BY <1>1
  <2>3. /\ glb'.step = "accepted" /\ DOMAIN glb' = DOMAIN glb \cup {"largest"}
        /\ glb'.largest = largest
        /\ \A f \in DOMAIN glb \ {"largest", "step"} : glb'[f] = glb[f]
    BY <2>0, <1>3, <2>1, <2>2, ReadAdds
  <2>4. /\ glb'.bin = glb.bin /\ glb'.len = glb.len /\ glb'.buffer = glb.buffer
        /\ glb'.positions = glb.positions /\ glb'.triangles = glb.triangles
        /\ glb'.indices = glb.indices /\ glb'.image = glb.image
    BY <1>1, <2>3
  <2> QED
    BY <1>1, <2>3, <2>4 DEF ModelCheckInv
<1>4. PICK largest \in 0 .. MaxCount, finite \in BOOLEAN :
         IF finite /\ (glb.indices # NoBin => largest < glb.positions.count)
         THEN Read("accepted", [largest |-> IF glb.indices = NoBin
                                            THEN glb.positions.count - 1 ELSE largest])
         ELSE Refuse
  BY DEF ReadValues
<1>5. PICK named : named = IF glb.indices = NoBin THEN glb.positions.count - 1 ELSE largest
  OBVIOUS
<1>6. CASE /\ glb.indices # NoBin => largest < glb.positions.count
           /\ Read("accepted", [largest |-> named])
  <2>1. glb.positions.count \in Nat
    BY <1>1 DEF LayoutOK
  <2>2. named \in 0 .. glb.positions.count - 1
    BY <1>1, <1>5, <1>6, <2>1, ModelCheckAssumption
  <2> QED
    BY <1>3, <1>6, <2>2
<1> QED
  BY <1>2, <1>4, <1>5, <1>6

\* Nothing is known of the file yet.
LEMMA ModelCheckBegins == ModelCheckInit => ModelCheckInv
<1> SUFFICES ASSUME ModelCheckInit PROVE ModelCheckInv
  OBVIOUS
<1>1. glb.step = "container" /\ "step" \in DOMAIN glb
  BY DEF ModelCheckInit
<1> QED
  BY <1>1 DEF ModelCheckInv

\* Every step keeps the invariant.
LEMMA ModelCheckKept ==
    ModelCheckInv /\ [ModelCheckNext]_modelCheckVars => ModelCheckInv'
<1> SUFFICES ASSUME ModelCheckInv, [ModelCheckNext]_modelCheckVars
             PROVE  ModelCheckInv'
  OBVIOUS
<1>1. CASE UNCHANGED modelCheckVars
  BY <1>1 DEF modelCheckVars, ModelCheckInv
<1> QED
  BY <1>1, ReadContainerKeeps, ReadBuffersKeeps, ReadPositionsKeeps, DrawVerticesKeeps,
     DrawIndicesKeeps, ReadImagesKeeps, ReadValuesKeeps DEF ModelCheckNext

\* The BIN chunk ends with the file.
THEOREM ModelCheckTyped == ModelCheckSpec => []ModelCheckTypeOK
<1>1. ModelCheckInv => ModelCheckTypeOK
  BY DEF ModelCheckInv, ModelCheckTypeOK, BinOK
<1> QED
  BY <1>1, ModelCheckBegins, ModelCheckKept, PTL DEF ModelCheckSpec

\* Bytes of the buffer are bytes of the file, at the alignment they have in
\* the buffer.
LEMMA BufferIsReadable ==
    ASSUME ModelCheckInv, glb.step = "accepted", NEW n \in Nat, NEW size \in Nat,
           NEW component \in {1, 2, 4}, n + size <= glb.buffer, n % component = 0
    PROVE  Readable(n, size, component)
<1>1. /\ BinOK(glb.bin, glb.len) /\ BufferOK(glb.buffer, glb.bin)
      /\ glb.buffer \in Nat /\ glb.buffer > 0 /\ glb.buffer # NoBin
  BY DEF ModelCheckInv, LayoutOK
<1>2. glb.bin # NoBin /\ glb.buffer <= glb.bin.length
  BY <1>1 DEF BufferOK
<1>3. /\ glb.bin.offset \in Nat /\ glb.bin.length \in Nat
      /\ glb.bin.offset + glb.bin.length = glb.len /\ glb.bin.offset % 4 = 0
  BY <1>1, <1>2 DEF BinOK
<1>4. (glb.bin.offset + n) % component = 0
  <2>1. PICK offset \in Nat : offset = glb.bin.offset
    BY <1>3
  <2>2. offset % 4 = 0
    BY <1>3, <2>1
  <2>3. (offset + n) % component = 0
    BY <2>2
  <2> QED
    BY <2>1, <2>3
<1> QED
  BY <1>1, <1>2, <1>3, <1>4 DEF Readable

\* Whatever a file declares: what is accepted can be drawn - each element of
\* its accessors, each vertex an index names and each image is in the file,
\* whole and aligned - and has a face to draw (inspect of inspect.rs).
THEOREM AcceptedIsDrawable == ModelCheckSpec => []AcceptedModelsAreDrawable
<1>1. ModelCheckInv => AcceptedModelsAreDrawable
  <2> SUFFICES ASSUME ModelCheckInv, glb.step = "accepted"
               PROVE  /\ \A a \in {glb.positions, glb.indices} \ {NoBin} :
                           \A n \in 0 .. a.count - 1 :
                              Readable(a.start + n * a.stride, a.element, a.size)
                      /\ Readable(glb.positions.start
                                    + glb.largest * glb.positions.stride, 12, 4)
                      /\ glb.image # NoBin =>
                           Readable(glb.image.start, glb.image.length, 1)
                      /\ glb.triangles \in 1 .. MaxTriangles
    BY DEF AcceptedModelsAreDrawable
  <2>1. ASSUME NEW a, LayoutOK(a, glb.buffer), NEW n \in 0 .. a.count - 1
        PROVE  Readable(a.start + n * a.stride, a.element, a.size)
    <3>1. n \in Nat /\ a.stride \in Nat /\ a.start \in Nat /\ a.element \in Nat
      BY <2>1 DEF LayoutOK
    <3>2. n * a.stride \in Nat
      BY <3>1
    <3>3. PICK m \in Nat : m = a.start + n * a.stride
      BY <3>1, <3>2
    <3>4. m + a.element <= glb.buffer /\ m % a.size = 0 /\ a.size \in {1, 2, 4}
      BY <2>1, <3>3 DEF LayoutOK
    <3> QED
      BY <3>1, <3>3, <3>4, BufferIsReadable
  <2>2. ASSUME NEW a \in {glb.positions, glb.indices} \ {NoBin}, NEW n \in 0 .. a.count - 1
        PROVE  Readable(a.start + n * a.stride, a.element, a.size)
    <3>1. a.count # 0
      BY <2>2
    <3>2. LayoutOK(a, glb.buffer)
      BY <2>2, <3>1 DEF ModelCheckInv
    <3> QED
      BY <2>1, <2>2, <3>2
  <2>3. Readable(glb.positions.start + glb.largest * glb.positions.stride, 12, 4)
    BY <2>1 DEF ModelCheckInv
  <2>4. ASSUME glb.image # NoBin
        PROVE  Readable(glb.image.start, glb.image.length, 1)
    <3>1. ImageOK(glb.image, glb.buffer)
      BY <2>4 DEF ModelCheckInv
    <3>2. PICK n \in Nat : n = glb.image.start
      BY <3>1 DEF ImageOK
    <3>3. n % 1 = 0
      OBVIOUS
    <3> QED
      BY <3>1, <3>2, <3>3, BufferIsReadable DEF ImageOK
  <2>5. glb.triangles \in 1 .. MaxTriangles
    BY DEF ModelCheckInv
  <2> QED
    BY <2>2, <2>3, <2>4, <2>5
<1> QED
  BY <1>1, ModelCheckBegins, ModelCheckKept, PTL DEF ModelCheckSpec

-----------------------------------------------------------------------------
(* What a draft holds.                                                     *)

NodeNames == UNION {Names(f) : f \in PartsFiles}

SpotRow == [part : PartNames \cup {NoPart},
            status : {"none", "unbound", "candidate", "confirmed", "stale"},
            anchor : Models]

BindingRow == [part : PartNames, nodes : SUBSET NodeNames]

ActionRow == [parts : SUBSET PartNames, steps : SUBSET StepNames, nodes : SUBSET NodeNames]

LayerRow == [of : Models, names : SUBSET NodeNames,
             bindings : SUBSET BindingRow, actions : SUBSET ActionRow]

ContentRow == [model : Models, parts : SUBSET PartNames, steps : SUBSET StepNames,
               spots : [SpotIds -> SpotRow],
               poses : UNION {[S -> Models] : S \in SUBSET StepNames},
               layer : LayerRow]

EntityRow == [status : {"none", "confirmed", "needs_review"},
              edited : SUBSET (PartFields \cup StepFields), textOnly : BOOLEAN]

ReviewRow == [of : Models, loaded : BOOLEAN, userConfirmed : BOOLEAN]

SheetRow == [rev : 1 .. MaxContentRev, status : {"needs_review", "ready"},
             content : ContentRow,
             entities : UNION {[S -> EntityRow] : S \in SUBSET PartsAndSteps},
             modelReview : ReviewRow]

\* Poses are of steps that are there, on the model.
PosesFit(c) == \A s \in DOMAIN c.poses : s \in c.steps /\ c.poses[s] = c.model

\* A taken hotspot is of a part that is there; a usable one is on the model.
SpotFits(c, spot) ==
    spot.status # "none" =>
        /\ spot.part \in c.parts
        /\ spot.status \in {"candidate", "confirmed"} => OnModel(c.model, spot)

SpotsFit(c) == \A h \in SpotIds : SpotFits(c, c.spots[h])

\* The layer names nodes of its file, parts and steps of the content.
LayerFits(c) ==
    /\ c.layer # NoLayer => c.layer.of = c.model
    /\ \A b \in c.layer.bindings : b.part \in c.parts /\ b.nodes \subseteq c.layer.names
    /\ \A a \in c.layer.actions :
          /\ a.nodes \subseteq c.layer.names
          /\ a.parts \subseteq c.parts /\ a.steps \subseteq c.steps

ContentFits(c) == c \in ContentRow /\ PosesFit(c) /\ SpotsFit(c) /\ LayerFits(c)

\* What a person declared is of what the content holds.
ReviewsFit(seen) ==
    /\ DOMAIN seen.entities \subseteq seen.content.parts \cup seen.content.steps
    /\ seen.modelReview # NotReviewed => seen.modelReview.of = seen.content.model
    /\ seen.modelReview.userConfirmed => seen.modelReview.loaded

SheetFits(seen) == seen \in SheetRow /\ ContentFits(seen.content) /\ ReviewsFit(seen)

ShownRow == [step : {"shown"}, rev : 1 .. MaxContentRev, model : Models]
AttachRow == [step : {"attach"}, rev : 1 .. MaxContentRev, file : PartsFiles, read : ContentRow]

\* What a caller saw is what the draft is as long as the revision stands.
SightFits(w) ==
    \/ w = [step |-> "idle"]
    \/ /\ w \in ShownRow /\ sheet # NoDraft /\ w.rev <= sheet.rev
       /\ w.rev = sheet.rev => w.model = sheet.content.model
    \/ /\ w \in AttachRow /\ sheet # NoDraft /\ w.rev <= sheet.rev
       /\ w.rev = sheet.rev => w.read = sheet.content

ContentInv ==
    /\ produced \in [model : Models, parts : SUBSET PartNames, steps : SUBSET StepNames]
    /\ former = NoDraft \/ ContentFits(former)
    /\ assembly = NoDraft \/ ContentFits(assembly)
    /\ sheet = NoDraft \/ SheetFits(sheet)
    /\ DOMAIN sight = Callers
    /\ \A t \in Callers : SightFits(sight[t])

-----------------------------------------------------------------------------
\* A content keeps its fields' types, one by one.
LEMMA ContentTyped ==
    ASSUME NEW c \in ContentRow
    PROVE  /\ c.model \in Models /\ c.parts \subseteq PartNames /\ c.steps \subseteq StepNames
           /\ c.spots \in [SpotIds -> SpotRow]
           /\ DOMAIN c.poses \subseteq StepNames /\ c.poses \in [DOMAIN c.poses -> Models]
           /\ c.layer \in LayerRow
<1>1. c.poses \in UNION {[S -> Models] : S \in SUBSET StepNames}
  BY DEF ContentRow
<1>2. PICK S \in SUBSET StepNames : c.poses \in [S -> Models]
  BY <1>1
<1>3. DOMAIN c.poses = S
  BY <1>2
<1> QED
  BY <1>2, <1>3 DEF ContentRow

\* Poses on steps of the manual are well typed.
LEMMA PosesTyped ==
    ASSUME NEW S \in SUBSET StepNames, NEW f \in [S -> Models]
    PROVE  f \in UNION {[T -> Models] : T \in SUBSET StepNames}
OBVIOUS

\* A content is what its fields are.
LEMMA ContentIs ==
    ASSUME NEW m \in Models, NEW ps \in SUBSET PartNames, NEW ss \in SUBSET StepNames,
           NEW sp \in [SpotIds -> SpotRow], NEW S \in SUBSET StepNames,
           NEW po \in [S -> Models], NEW l \in LayerRow
    PROVE  [model |-> m, parts |-> ps, steps |-> ss, spots |-> sp, poses |-> po,
            layer |-> l] \in ContentRow
BY PosesTyped DEF ContentRow

\* A hotspot in use after a write is one whose anchor is the draft's model.
LEMMA NormalizedFits ==
    ASSUME NEW c \in ContentRow,
           \A h \in SpotIds : c.spots[h].status # "none" => c.spots[h].part \in c.parts
    PROVE  /\ Normalized(c) \in ContentRow
           /\ SpotsFit(Normalized(c))
           /\ Normalized(c).model = c.model /\ Normalized(c).parts = c.parts
           /\ Normalized(c).steps = c.steps /\ Normalized(c).poses = c.poses
           /\ Normalized(c).layer = c.layer
<1> DEFINE spot(h) == IF c.spots[h].status \in {"candidate", "confirmed"}
                            /\ ~OnModel(c.model, c.spots[h])
                      THEN [c.spots[h] EXCEPT !.status = "stale"] ELSE c.spots[h]
           sp == [h \in SpotIds |-> spot(h)]
<1>1. ASSUME NEW h \in SpotIds PROVE spot(h) \in SpotRow /\ SpotFits(c, spot(h))
  <2> DEFINE x == c.spots[h]
  <2>1. x \in SpotRow /\ (x.status # "none" => x.part \in c.parts)
    BY ContentTyped
  <2> HIDE DEF x
  <2>2. CASE x.status \in {"candidate", "confirmed"} /\ ~OnModel(c.model, x)
    <3>1. [x EXCEPT !.status = "stale"] \in SpotRow
          /\ [x EXCEPT !.status = "stale"].part = x.part
          /\ [x EXCEPT !.status = "stale"].status = "stale"
      BY <2>1, Zenon DEF SpotRow
    <3>2. spot(h) = [x EXCEPT !.status = "stale"]
      BY <2>2 DEF x
    <3> QED
      BY <2>1, <2>2, <3>1, <3>2 DEF SpotFits
  <2>3. CASE ~(x.status \in {"candidate", "confirmed"} /\ ~OnModel(c.model, x))
    <3>1. spot(h) = x
      BY <2>3 DEF x
    <3> QED
      BY <2>1, <2>3, <3>1 DEF SpotFits
  <2> QED
    BY <2>2, <2>3
<1>2. sp \in [SpotIds -> SpotRow]
  BY <1>1
<1>3. Normalized(c) = [c EXCEPT !.spots = sp]
  BY DEF Normalized
<1> HIDE DEF sp
<1>4. /\ [c EXCEPT !.spots = sp] \in ContentRow
      /\ [c EXCEPT !.spots = sp].spots = sp
      /\ [c EXCEPT !.spots = sp].model = c.model /\ [c EXCEPT !.spots = sp].parts = c.parts
      /\ [c EXCEPT !.spots = sp].steps = c.steps /\ [c EXCEPT !.spots = sp].poses = c.poses
      /\ [c EXCEPT !.spots = sp].layer = c.layer
  BY <1>2, Zenon DEF ContentRow
<1>5. \A h \in SpotIds : SpotFits(c, sp[h])
  BY <1>1 DEF sp
<1>6. SpotsFit(Normalized(c))
  BY <1>3, <1>4, <1>5 DEF SpotsFit, SpotFits
<1> QED
  BY <1>3, <1>4, <1>6

\* A new content with hotspots and poses.
BareHolding(m, ps, ss, sp, po) == [Bare(m, ps, ss) EXCEPT !.spots = sp, !.poses = po]

\* It has these fields.
LEMMA BareWith ==
    ASSUME NEW m, NEW ps, NEW ss, NEW sp, NEW po
    PROVE  BareHolding(m, ps, ss, sp, po)
             = [model |-> m, parts |-> ps, steps |-> ss, spots |-> sp, poses |-> po,
                layer |-> NoLayer]
<1> DEFINE s0 == [h \in SpotIds |-> Unbound]
           p0 == [s \in {} |-> NoModel]
<1>1. Bare(m, ps, ss) = [model |-> m, parts |-> ps, steps |-> ss, spots |-> s0, poses |-> p0,
                         layer |-> NoLayer]
  BY DEF Bare
<1> HIDE DEF s0, p0
<1>2. PICK r : r = Bare(m, ps, ss)
  OBVIOUS
<1>3. PICK q : q = [r EXCEPT !.spots = sp]
  OBVIOUS
<1>4. q = [model |-> m, parts |-> ps, steps |-> ss, spots |-> sp, poses |-> p0,
           layer |-> NoLayer]
  BY <1>1, <1>2, <1>3
<1>5. [q EXCEPT !.poses = po] = [model |-> m, parts |-> ps, steps |-> ss, spots |-> sp,
                                 poses |-> po, layer |-> NoLayer]
  BY <1>4
<1>6. [r EXCEPT !.spots = sp, !.poses = po] = [q EXCEPT !.poses = po]
  BY <1>3
<1> QED
  BY <1>2, <1>5, <1>6 DEF BareHolding

\* A new content holds together.
LEMMA BareFits ==
    ASSUME NEW m \in Models, NEW ps \in SUBSET PartNames, NEW ss \in SUBSET StepNames
    PROVE  ContentFits(Bare(m, ps, ss))
<1>1. PICK sp : sp = [h \in SpotIds |-> Unbound]
  OBVIOUS
<1>2. PICK po : po = [s \in {} |-> NoModel]
  OBVIOUS
<1>3. PICK c : c = [model |-> m, parts |-> ps, steps |-> ss, spots |-> sp, poses |-> po,
                    layer |-> NoLayer]
  OBVIOUS
<1>4. c = Bare(m, ps, ss)
  BY <1>1, <1>2, <1>3, Zenon DEF Bare
<1>5. sp \in [SpotIds -> SpotRow] /\ \A h \in SpotIds : sp[h].status = "none"
  BY <1>1 DEF Unbound, SpotRow, NoAnchor, Models
<1>6. po \in [{} -> Models] /\ DOMAIN po = {}
  BY <1>2
<1>7. NoLayer \in LayerRow
  BY DEF NoLayer, LayerRow, Models
<1>8. c \in ContentRow
  BY <1>3, <1>5, <1>6, <1>7, ContentIs
<1>9. PosesFit(c)
  BY <1>3, <1>6 DEF PosesFit
<1>10. SpotsFit(c)
  BY <1>3, <1>5 DEF SpotsFit, SpotFits
<1>11. LayerFits(c)
  BY <1>3 DEF LayerFits, NoLayer
<1> QED
  BY <1>4, <1>8, <1>9, <1>10, <1>11 DEF ContentFits

\* What is carried over from a draft that holds together holds together.
LEMMA CarriedFits ==
    ASSUME NEW m \in Models, NEW ps \in SUBSET PartNames, NEW ss \in SUBSET StepNames,
           NEW previous, ContentFits(previous)
    PROVE  ContentFits(CarriedForward(Bare(m, ps, ss), previous))
<1> DEFINE c == Bare(m, ps, ss)
           sp == [h \in SpotIds |-> IF previous.spots[h].part \in c.parts
                                    THEN previous.spots[h] ELSE Unbound]
           K == PosesKept(c, previous)
           po == [s \in K |-> previous.poses[s]]
           d == [model |-> m, parts |-> ps, steps |-> ss, spots |-> sp, poses |-> po,
                 layer |-> NoLayer]
<1>1. previous \in ContentRow /\ PosesFit(previous)
  BY DEF ContentFits
<1>2. Unbound \in SpotRow
  BY DEF Unbound, SpotRow, NoAnchor, Models
<1>3. sp \in [SpotIds -> SpotRow]
  BY <1>1, <1>2, ContentTyped
<1>4. K \in SUBSET StepNames /\ K \subseteq ss
  BY DEF PosesKept, Bare
<1>5. \A s \in K : s \in DOMAIN previous.poses /\ previous.poses[s] = m
  BY <1>1 DEF PosesKept, Bare, PosesFit
<1>6. po \in [K -> Models] /\ \A s \in K : po[s] = m
  BY <1>5
<1>7. NoLayer \in LayerRow
  BY DEF NoLayer, LayerRow, Models
<1>8. d \in ContentRow
  <2> HIDE DEF sp, po, K
  <2> QED
    BY <1>3, <1>4, <1>6, <1>7, ContentIs
<1>9. CarriedForward(c, previous) = Normalized(d)
  <2>1. CarriedForward(c, previous) = Normalized([c EXCEPT !.spots = sp, !.poses = po])
    BY DEF CarriedForward
  <2>2. [c EXCEPT !.spots = sp, !.poses = po] = d
    <3>1. [c EXCEPT !.spots = sp, !.poses = po] = BareHolding(m, ps, ss, sp, po)
      BY Zenon DEF BareHolding
    <3> HIDE DEF sp, po
    <3> QED
      BY <3>1, BareWith
  <2> QED
    BY <2>1, <2>2
<1>10. \A h \in SpotIds : d.spots[h].status # "none" => d.spots[h].part \in d.parts
  BY DEF Bare, Unbound
<1>11. PosesFit(d) /\ LayerFits(d)
  BY <1>4, <1>6 DEF PosesFit, LayerFits, NoLayer
<1> HIDE DEF d
<1>12. ContentFits(Normalized(d))
  <2>1. PosesFit(Normalized(d)) /\ LayerFits(Normalized(d))
    BY <1>8, <1>10, <1>11, NormalizedFits DEF PosesFit, LayerFits
  <2> QED
    BY <1>8, <1>10, <2>1, NormalizedFits DEF ContentFits
<1> QED
  BY <1>9, <1>12

\* What every request looks like, valid or not, from a tab that shows a model.
RequestFits(patch, seen) ==
    /\ patch.status \subseteq {"needs_review", "ready"}
    /\ \A i \in patch.upsert :
          i.part \in PartNames /\ i.status \in {"unbound", "confirmed"} /\ i.anchor \in Models
    /\ \A p \in patch.poses : p.on = seen
    /\ \A e \in patch.entities :
          /\ e.status \in {"keep", "confirmed", "needs_review"}
          /\ e.edited \subseteq PartFields \cup StepFields
    /\ \A r \in patch.review : r.loaded \in BOOLEAN /\ r.userConfirmed \in BOOLEAN
    /\ UNION patch.bindings \subseteq BindingRow
    /\ UNION patch.actions \subseteq ActionRow

\* The requests of a tab are such.
LEMMA RequestsFit ==
    ASSUME NEW seen \in Models, NEW patch \in Requests(seen)
    PROVE  RequestFits(patch, seen)
<1> DEFINE Asked1 == {[Untouched EXCEPT !.status = {s}] : s \in {"needs_review", "ready"}}
           Asked2 ==
             {[Untouched EXCEPT !.upsert = {SpotItem(i, p, "unbound", NoAnchor)}] :
                i \in SpotIds \cup {NoPart}, p \in PartNames}
           Asked3 ==
             {[Untouched EXCEPT !.upsert = {SpotItem(i, p, "confirmed", a)}] :
                i \in SpotIds \cup {NoPart}, p \in PartNames, a \in {seen, OldModel}}
           Asked4 == {[Untouched EXCEPT !.remove = {h}] : h \in SpotIds}
           Asked5 == {PoseRequest(s, seen, C) : s \in StepNames, C \in SUBSET StepNames}
           Asked6 == {[Untouched EXCEPT !.clear = {s}] : s \in StepNames}
           Asked7 ==
             {[Untouched EXCEPT !.entities = {[of |-> e, status |-> "keep", edited |-> F, textOnly |-> "yes"]}] :
                e \in PartsAndSteps, F \in {PartFields, StepFields}}
           Asked8 ==
             {[Untouched EXCEPT !.entities = {[of |-> e, status |-> s, edited |-> {}, textOnly |-> "keep"]}] :
                e \in PartsAndSteps, s \in {"confirmed", "needs_review"}}
           Asked9 ==
             {[Untouched EXCEPT !.review = {[loaded |-> l, userConfirmed |-> ~l]}] :
                l \in BOOLEAN}
           Asked10 ==
             {[Untouched EXCEPT !.bindings = {{[part |-> p, nodes |-> Names(f)]}}] :
                p \in PartNames, f \in PartsFiles}
           OneAction(p, S, n) ==
             [Untouched EXCEPT !.actions = {{[parts |-> {p}, steps |-> S, nodes |-> {n}]}}]
           Asked11 ==
             {OneAction(p, S, n) : p \in PartNames, S \in SUBSET StepNames, n \in NodeNames}
           Asked12 == {[Untouched EXCEPT !.bindings = {{}}], [Untouched EXCEPT !.actions = {{}}]}
<1>1. CASE patch \in Asked1
  BY <1>1 DEF Untouched, RequestFits
<1>2. CASE patch \in Asked2
  BY <1>2 DEF Untouched, RequestFits, SpotItem, NoAnchor, Models
<1>3. CASE patch \in Asked3
  BY <1>3 DEF Untouched, RequestFits, SpotItem, Models
<1>4. CASE patch \in Asked4
  BY <1>4 DEF Untouched, RequestFits
<1>5. CASE patch \in Asked5
  <2>1. PICK s \in StepNames, C \in SUBSET StepNames : patch = PoseRequest(s, seen, C)
    BY <1>5
  <2>2. /\ patch.poses = {[step |-> s, on |-> seen]}
        /\ patch.status = {} /\ patch.upsert = {} /\ patch.entities = {}
        /\ patch.review = {} /\ patch.bindings = {} /\ patch.actions = {}
    BY <2>1, Zenon DEF Untouched, PoseRequest
  <2> QED
    BY <2>2 DEF RequestFits
<1>6. CASE patch \in Asked6
  BY <1>6 DEF Untouched, RequestFits
<1>7. CASE patch \in Asked7
  BY <1>7 DEF Untouched, RequestFits
<1>8. CASE patch \in Asked8
  BY <1>8 DEF Untouched, RequestFits
<1>9. CASE patch \in Asked9
  <2>1. PICK l \in BOOLEAN :
             patch = [Untouched EXCEPT !.review = {[loaded |-> l, userConfirmed |-> ~l]}]
    BY <1>9
  <2>2. /\ patch.review = {[loaded |-> l, userConfirmed |-> ~l]}
        /\ patch.status = {} /\ patch.upsert = {} /\ patch.poses = {} /\ patch.entities = {}
        /\ patch.bindings = {} /\ patch.actions = {}
    BY <2>1, Zenon DEF Untouched
  <2>3. PICK k \in BOOLEAN : k = ~l
    OBVIOUS
  <2>4. \A r \in patch.review : r.loaded = l /\ r.userConfirmed = k
    BY <2>2, <2>3
  <2> QED
    BY <2>2, <2>4, Zenon DEF RequestFits
<1>10. CASE patch \in Asked10
  <2>1. PICK p \in PartNames, f \in PartsFiles :
             patch = [Untouched EXCEPT !.bindings = {{[part |-> p, nodes |-> Names(f)]}}]
    BY <1>10
  <2>2. Names(f) \subseteq NodeNames
    BY DEF NodeNames
  <2>3. [part |-> p, nodes |-> Names(f)] \in BindingRow
    BY <2>2 DEF BindingRow
  <2>4. /\ patch.bindings = {{[part |-> p, nodes |-> Names(f)]}}
        /\ patch.status = {} /\ patch.upsert = {} /\ patch.poses = {} /\ patch.entities = {}
        /\ patch.review = {} /\ patch.actions = {}
    BY <2>1, Zenon DEF Untouched
  <2> QED
    BY <2>3, <2>4 DEF RequestFits
<1>11. CASE patch \in Asked11
  <2>1. PICK p \in PartNames, S \in SUBSET StepNames, n \in NodeNames :
             patch = OneAction(p, S, n)
    <3> HIDE DEF OneAction
    <3> QED
      BY <1>11
  <2>2. [parts |-> {p}, steps |-> S, nodes |-> {n}] \in ActionRow
    BY DEF ActionRow
  <2>3. /\ patch.actions = {{[parts |-> {p}, steps |-> S, nodes |-> {n}]}}
        /\ patch.status = {} /\ patch.upsert = {} /\ patch.poses = {} /\ patch.entities = {}
        /\ patch.review = {} /\ patch.bindings = {}
    BY <2>1, Zenon DEF Untouched
  <2> QED
    BY <2>2, <2>3 DEF RequestFits
<1>12. CASE patch \in Asked12
  BY <1>12 DEF Untouched, RequestFits
<1>13. Requests(seen) = Asked1 \cup Asked2 \cup Asked3 \cup Asked4 \cup Asked5 \cup Asked6
          \cup Asked7 \cup Asked8 \cup Asked9 \cup Asked10 \cup Asked11 \cup Asked12
  BY DEF Requests, NodeNames
<1> HIDE DEF Asked1, Asked2, Asked3, Asked4, Asked5, Asked6, Asked7, Asked8, Asked9,
             Asked10, Asked11, Asked12
<1> QED
  BY <1>1, <1>2, <1>3, <1>4, <1>5, <1>6, <1>7, <1>8, <1>9, <1>10, <1>11, <1>12, <1>13

\* Hotspots after a valid request are of parts that are there.
LEMMA SpotsCommittedFit ==
    ASSUME NEW c, ContentFits(c), NEW patch, RequestFits(patch, c.model),
           SpotsValid(c, patch)
    PROVE  /\ SpotsCommitted(c, patch) \in [SpotIds -> SpotRow]
           /\ \A h \in SpotIds : SpotsCommitted(c, patch)[h].status # "none" =>
                                    SpotsCommitted(c, patch)[h].part \in c.parts
<1> DEFINE free == SpotIds \ Taken(c)
           place(item) == IF item.id = NoPart THEN CHOOSE h \in free : TRUE ELSE item.id
           chosen(h) == CHOOSE i \in patch.upsert : place(i) = h
           written == [h \in SpotIds |->
             IF \E item \in patch.upsert : place(item) = h
             THEN [part |-> chosen(h).part, status |-> chosen(h).status,
                   anchor |-> chosen(h).anchor]
             ELSE c.spots[h]]
           new(h) == IF h \in patch.remove THEN Unbound ELSE written[h]
<1>1. SpotsCommitted(c, patch) = [h \in SpotIds |-> new(h)]
  BY DEF SpotsCommitted
<1>2. ASSUME NEW h \in SpotIds
      PROVE  written[h] \in SpotRow /\ (written[h].status # "none" => written[h].part \in c.parts)
  <2>1. CASE \E item \in patch.upsert : place(item) = h
    <3>1. chosen(h) \in patch.upsert
      BY <2>1
    <3>2. chosen(h).part \in c.parts
      BY <3>1 DEF SpotsValid
    <3> HIDE DEF chosen
    <3>3. written[h] = [part |-> chosen(h).part, status |-> chosen(h).status,
                        anchor |-> chosen(h).anchor]
      BY <2>1
    <3>4. /\ chosen(h).part \in PartNames /\ chosen(h).anchor \in Models
          /\ chosen(h).status \in {"unbound", "confirmed"}
      BY <3>1 DEF RequestFits
    <3> QED
      BY <3>2, <3>3, <3>4 DEF SpotRow
  <2>2. CASE ~ \E item \in patch.upsert : place(item) = h
    <3>1. written[h] = c.spots[h]
      BY <2>2
    <3>2. c.spots[h] \in SpotRow
      BY ContentTyped DEF ContentFits
    <3> QED
      BY <3>1, <3>2 DEF ContentFits, SpotsFit, SpotFits
  <2> QED
    BY <2>1, <2>2
<1>3. ASSUME NEW h \in SpotIds
      PROVE  new(h) \in SpotRow /\ (new(h).status # "none" => new(h).part \in c.parts)
  <2> HIDE DEF written
  <2>1. Unbound \in SpotRow /\ Unbound.status = "none"
    BY DEF Unbound, SpotRow, NoAnchor, Models
  <2> QED
    BY <1>2, <2>1
<1> HIDE DEF new
<1> QED
  BY <1>1, <1>3

\* Poses after a valid request are of steps that are there, on the model that
\* the tab showed.
LEMMA PosesCommittedFit ==
    ASSUME NEW c, ContentFits(c), NEW patch, RequestFits(patch, c.model),
           PosesValid(c, patch)
    PROVE  /\ DOMAIN PosesCommitted(c, patch) \subseteq c.steps
           /\ PosesCommitted(c, patch) \in [DOMAIN PosesCommitted(c, patch) -> Models]
           /\ \A s \in DOMAIN PosesCommitted(c, patch) : PosesCommitted(c, patch)[s] = c.model
<1> DEFINE set == {p.step : p \in patch.poses}
           chosen(s) == CHOOSE p \in patch.poses : p.step = s
           D == (DOMAIN c.poses \cup set) \ patch.clear
           pose(s) == IF s \in set THEN chosen(s).on ELSE c.poses[s]
<1>1. PosesCommitted(c, patch) = [s \in D |-> pose(s)]
  BY DEF PosesCommitted
<1>2. D \subseteq c.steps
  BY DEF PosesValid, ContentFits, PosesFit
<1>3. ASSUME NEW s \in D PROVE pose(s) = c.model
  <2>1. CASE s \in set
    <3>1. chosen(s) \in patch.poses
      BY <2>1
    <3> HIDE DEF chosen
    <3> QED
      BY <2>1, <3>1 DEF RequestFits
  <2>2. CASE s \notin set
    BY <1>3, <2>2 DEF ContentFits, PosesFit
  <2> QED
    BY <2>1, <2>2
<1>4. c.model \in Models
  BY ContentTyped DEF ContentFits
<1> HIDE DEF D, pose
<1> QED
  BY <1>1, <1>2, <1>3, <1>4

\* The layer after a valid request names what is there.
LEMMA LayerCommittedFit ==
    ASSUME NEW c, ContentFits(c), NEW patch, RequestFits(patch, c.model),
           InteractiveValid(c, patch)
    PROVE  LET l == LayerCommitted(c, patch)
           IN  /\ l \in LayerRow
               /\ l # NoLayer => l.of = c.model
               /\ \A b \in l.bindings : b.part \in c.parts /\ b.nodes \subseteq l.names
               /\ \A a \in l.actions : /\ a.nodes \subseteq l.names
                                       /\ a.parts \subseteq c.parts /\ a.steps \subseteq c.steps
<1> DEFINE k == c.layer
           bs == IF patch.bindings = {} THEN k.bindings ELSE UNION patch.bindings
           as == IF patch.actions = {} THEN k.actions ELSE UNION patch.actions
<1>1. k \in LayerRow /\ LayerFits(c)
  BY ContentTyped DEF ContentFits
<1>2. bs \in SUBSET BindingRow /\ as \in SUBSET ActionRow
  BY <1>1 DEF LayerRow, RequestFits
<1>3. LayerCommitted(c, patch) = [k EXCEPT !.bindings = bs, !.actions = as]
  <2>1. LayerCommitted(c, patch) =
          [k EXCEPT !.bindings = IF patch.bindings = {} THEN @ ELSE UNION patch.bindings,
                    !.actions = IF patch.actions = {} THEN @ ELSE UNION patch.actions]
    BY DEF LayerCommitted
  <2> QED
    BY <1>1, <2>1 DEF LayerRow
<1>4. \A b \in bs : b.part \in c.parts /\ b.nodes \subseteq k.names
  <2>1. CASE patch.bindings = {}
    BY <1>1, <2>1 DEF LayerFits
  <2>2. CASE patch.bindings # {}
    BY <2>2 DEF InteractiveValid
  <2> QED
    BY <2>1, <2>2
<1>5. \A a \in as : /\ a.nodes \subseteq k.names
                    /\ a.parts \subseteq c.parts /\ a.steps \subseteq c.steps
  <2>1. CASE patch.actions = {}
    BY <1>1, <2>1 DEF LayerFits
  <2>2. CASE patch.actions # {}
    BY <2>2 DEF InteractiveValid
  <2> QED
    BY <2>1, <2>2
<1>6. patch.bindings # {} \/ patch.actions # {} => k.of = c.model
  BY DEF InteractiveValid, LayerUsable
<1>7. patch.bindings = {} /\ patch.actions = {} => bs = k.bindings /\ as = k.actions
  OBVIOUS
<1>8. PICK b1 : b1 = bs
  OBVIOUS
<1>9. PICK a1 : a1 = as
  OBVIOUS
<1> HIDE DEF bs, as
<1>10. PICK l1 : l1 = [k EXCEPT !.bindings = b1]
  OBVIOUS
<1>11. l1 \in LayerRow /\ l1.bindings = b1 /\ l1.names = k.names /\ l1.of = k.of
       /\ l1.actions = k.actions
  BY <1>1, <1>2, <1>8, <1>10, Zenon DEF LayerRow
<1>12. PICK l : l = [l1 EXCEPT !.actions = a1]
  OBVIOUS
<1>13. l \in LayerRow /\ l.bindings = b1 /\ l.names = k.names /\ l.of = k.of
       /\ l.actions = a1
  BY <1>2, <1>9, <1>11, <1>12, Zenon DEF LayerRow
<1>14. LayerCommitted(c, patch) = l
  BY <1>3, <1>8, <1>9, <1>10, <1>12
<1>15. l # NoLayer => l.of = c.model
  <2>1. CASE patch.bindings = {} /\ patch.actions = {}
    <3>1. b1 = k.bindings /\ a1 = k.actions
      BY <1>7, <1>8, <1>9, <2>1
    <3>2. l = k
      BY <1>1, <1>11, <1>13, <3>1 DEF LayerRow
    <3> QED
      BY <1>1, <3>2 DEF LayerFits
  <2>2. CASE patch.bindings # {} \/ patch.actions # {}
    BY <1>6, <1>13, <2>2
  <2> QED
    BY <2>1, <2>2
<1> QED
  BY <1>4, <1>5, <1>8, <1>9, <1>13, <1>14, <1>15

\* Reviews after a valid request are of parts and steps that are there.
LEMMA EntitiesCommittedFit ==
    ASSUME NEW seen, SheetFits(seen), NEW patch, RequestFits(patch, seen.content.model),
           EntitiesValid(seen, patch)
    PROVE  LET es == EntitiesCommitted(seen, patch)
           IN  /\ es \in [DOMAIN es -> EntityRow]
               /\ DOMAIN es \subseteq seen.content.parts \cup seen.content.steps
<1> DEFINE of == {edit.of : edit \in patch.entities}
           D == DOMAIN seen.entities \cup of
           chosen(e) == CHOOSE edit \in patch.entities : edit.of = e
           new(e) == IF \E edit \in patch.entities : edit.of = e
                     THEN EntityCommitted(ReviewOf(seen, e), chosen(e)) ELSE seen.entities[e]
<1>1. EntitiesCommitted(seen, patch) = [e \in D |-> new(e)]
  BY DEF EntitiesCommitted
<1>2. D \subseteq seen.content.parts \cup seen.content.steps
  BY DEF EntitiesValid, SheetFits, ReviewsFit
<1>3. \A e \in DOMAIN seen.entities : seen.entities[e] \in EntityRow
  <2>1. seen.entities \in UNION {[S -> EntityRow] : S \in SUBSET PartsAndSteps}
    BY DEF SheetFits, SheetRow
  <2> QED
    BY <2>1
<1>4. ASSUME NEW e PROVE ReviewOf(seen, e) \in EntityRow \/ ReviewOf(seen, e) = NeverReviewed
  BY <1>3 DEF ReviewOf
<1>5. NeverReviewed \in EntityRow
  BY DEF NeverReviewed, EntityRow
<1>6. ASSUME NEW e \in D PROVE new(e) \in EntityRow
  <2>1. CASE \E edit \in patch.entities : edit.of = e
    <3>1. PICK edit \in patch.entities : edit = chosen(e)
      BY <2>1
    <3>2. /\ edit.status \in {"keep", "confirmed", "needs_review"}
          /\ edit.edited \subseteq PartFields \cup StepFields
      BY DEF RequestFits
    <3>3. PICK old \in EntityRow : old = ReviewOf(seen, e)
      BY <1>4, <1>5
    <3>4. (IF edit.textOnly = "keep" THEN old.textOnly ELSE edit.textOnly = "yes") \in BOOLEAN
      <4>1. old.textOnly \in BOOLEAN
        BY Zenon DEF EntityRow
      <4> QED
        BY <4>1
    <3>5. PICK only \in BOOLEAN :
             only = IF edit.textOnly = "keep" THEN old.textOnly ELSE edit.textOnly = "yes"
      BY <3>4
    <3>6. PICK status : status = IF edit.status = "keep" THEN old.status ELSE edit.status
      OBVIOUS
    <3>7. status \in {"none", "confirmed", "needs_review"}
      BY <3>2, <3>6 DEF EntityRow
    <3>8. PICK edited : edited = old.edited \cup edit.edited
      OBVIOUS
    <3>9. edited \in SUBSET (PartFields \cup StepFields)
      BY <3>2, <3>8 DEF EntityRow
    <3>10. EntityCommitted(old, edit)
             = [status |-> status, edited |-> edited, textOnly |-> only]
      BY <3>5, <3>6, <3>8, Zenon DEF EntityCommitted
    <3>11. [status |-> status, edited |-> edited, textOnly |-> only] \in EntityRow
      BY <3>7, <3>9, Zenon DEF EntityRow
    <3> QED
      BY <2>1, <3>1, <3>3, <3>10, <3>11
  <2>2. CASE ~ \E edit \in patch.entities : edit.of = e
    BY <1>3, <2>2
  <2> QED
    BY <2>1, <2>2
<1> HIDE DEF D, new
<1> QED
  BY <1>1, <1>2, <1>6

\* What is declared of a model is of the draft's model, and nobody confirms one
\* that was not loaded.
LEMMA ModelReviewCommittedFits ==
    ASSUME NEW seen, SheetFits(seen), NEW patch, RequestFits(patch, seen.content.model),
           ModelReviewValid(seen, patch)
    PROVE  LET new == ModelReviewCommitted(seen, patch)
           IN  /\ new \in ReviewRow
               /\ new # NotReviewed => new.of = seen.content.model
               /\ new.userConfirmed => new.loaded
<1> DEFINE old == seen.modelReview
           m == seen.content.model
<1>1. old \in ReviewRow /\ (old # NotReviewed => old.of = m) /\ (old.userConfirmed => old.loaded)
  BY DEF SheetFits, SheetRow, ReviewsFit
<1>2. CASE patch.review = {}
  BY <1>1, <1>2 DEF ModelReviewCommitted
<1>3. CASE patch.review # {}
  <2>1. PICK r \in patch.review : r = CHOOSE x \in patch.review : TRUE
    BY <1>3
  <2>2. /\ r.loaded \in BOOLEAN /\ r.userConfirmed \in BOOLEAN
        /\ r.userConfirmed => r.loaded \/ old.loaded
    BY DEF RequestFits, ModelReviewValid
  <2>3. PICK base : base = IF old.of = m THEN old ELSE [NotReviewed EXCEPT !.of = m]
    OBVIOUS
  <2>4. /\ base \in ReviewRow /\ base.of = m
        /\ base.userConfirmed => base.loaded
        /\ base.loaded = old.loaded
    <3>1. CASE old.of = m
      BY <1>1, <2>3, <3>1
    <3>2. CASE old.of # m
      <4>1. old = NotReviewed
        BY <1>1, <3>2
      <4>2. base = [of |-> m, loaded |-> FALSE, userConfirmed |-> FALSE]
        BY <2>3, <3>2 DEF NotReviewed
      <4>3. m \in Models
        BY ContentTyped DEF SheetFits, ContentFits
      <4>4. base \in ReviewRow
        BY <4>2, <4>3, Zenon DEF ReviewRow
      <4>5. base.of = m /\ base.loaded = FALSE /\ base.userConfirmed = FALSE
        BY <4>2
      <4>6. old.loaded = FALSE
        BY <4>1 DEF NotReviewed
      <4> QED
        BY <4>4, <4>5, <4>6
    <3> QED
      BY <3>1, <3>2
  <2>5. PICK loaded \in BOOLEAN : loaded = (base.loaded \/ r.loaded)
    OBVIOUS
  <2>6. PICK confirmed \in BOOLEAN : confirmed = (base.userConfirmed \/ r.userConfirmed)
    OBVIOUS
  <2>7. ModelReviewCommitted(seen, patch)
          = [base EXCEPT !.loaded = loaded, !.userConfirmed = confirmed]
    <3>1. ModelReviewCommitted(seen, patch)
            = [base EXCEPT !.loaded = @ \/ r.loaded, !.userConfirmed = @ \/ r.userConfirmed]
      BY <1>3, <2>1, <2>3, Zenon DEF ModelReviewCommitted
    <3> QED
      BY <2>4, <2>5, <2>6, <3>1 DEF ReviewRow
  <2>8. PICK n1 : n1 = [base EXCEPT !.loaded = loaded]
    OBVIOUS
  <2>9. n1 \in ReviewRow /\ n1.of = m /\ n1.loaded = loaded
    BY <2>4, <2>8, Zenon DEF ReviewRow
  <2>10. PICK n2 : n2 = [n1 EXCEPT !.userConfirmed = confirmed]
    OBVIOUS
  <2>11. n2 \in ReviewRow /\ n2.of = m /\ n2.loaded = loaded /\ n2.userConfirmed = confirmed
    BY <2>9, <2>10, Zenon DEF ReviewRow
  <2>12. ModelReviewCommitted(seen, patch) = n2
    BY <2>7, <2>8, <2>10
  <2>13. confirmed => loaded
    BY <2>2, <2>4, <2>5, <2>6
  <2> QED
    BY <2>11, <2>12, <2>13
<1> QED
  BY <1>2, <1>3

\* The content after a valid request holds together.
LEMMA ContentApplied ==
    ASSUME NEW c, ContentFits(c), NEW patch, RequestFits(patch, c.model),
           SpotsValid(c, patch), PosesValid(c, patch), InteractiveValid(c, patch)
    PROVE  LET d == Normalized([c EXCEPT !.spots = SpotsCommitted(c, patch),
                                         !.poses = PosesCommitted(c, patch),
                                         !.layer = LayerCommitted(c, patch)])
           IN  /\ ContentFits(d) /\ d.model = c.model
               /\ d.parts = c.parts /\ d.steps = c.steps
<1>1. PICK sp : sp = SpotsCommitted(c, patch)
  OBVIOUS
<1>2. PICK po : po = PosesCommitted(c, patch)
  OBVIOUS
<1>3. PICK l : l = LayerCommitted(c, patch)
  OBVIOUS
<1>4. /\ sp \in [SpotIds -> SpotRow]
      /\ \A h \in SpotIds : sp[h].status # "none" => sp[h].part \in c.parts
  BY <1>1, SpotsCommittedFit
<1>5. /\ DOMAIN po \subseteq c.steps /\ po \in [DOMAIN po -> Models]
      /\ \A s \in DOMAIN po : po[s] = c.model
  BY <1>2, PosesCommittedFit
<1>6. /\ l \in LayerRow
      /\ l # NoLayer => l.of = c.model
      /\ \A b \in l.bindings : b.part \in c.parts /\ b.nodes \subseteq l.names
      /\ \A a \in l.actions : /\ a.nodes \subseteq l.names
                              /\ a.parts \subseteq c.parts /\ a.steps \subseteq c.steps
  BY <1>3, LayerCommittedFit
<1>7. c \in ContentRow /\ c.steps \subseteq StepNames
  BY ContentTyped DEF ContentFits
<1>8. po \in UNION {[T -> Models] : T \in SUBSET StepNames}
  <2>1. DOMAIN po \in SUBSET StepNames
    BY <1>5, <1>7
  <2> QED
    BY <1>5, <2>1, PosesTyped
<1>9. PICK c1 : c1 = [c EXCEPT !.spots = sp]
  OBVIOUS
<1>10. /\ c1 \in ContentRow /\ c1.spots = sp /\ c1.model = c.model /\ c1.parts = c.parts
       /\ c1.steps = c.steps
  BY <1>4, <1>7, <1>9, Zenon DEF ContentRow
<1>11. PICK c2 : c2 = [c1 EXCEPT !.poses = po]
  OBVIOUS
<1>12. /\ c2 \in ContentRow /\ c2.spots = sp /\ c2.model = c.model /\ c2.parts = c.parts
       /\ c2.steps = c.steps /\ c2.poses = po
  BY <1>8, <1>10, <1>11, Zenon DEF ContentRow
<1>13. PICK c3 : c3 = [c2 EXCEPT !.layer = l]
  OBVIOUS
<1>14. /\ c3 \in ContentRow /\ c3.spots = sp /\ c3.model = c.model /\ c3.parts = c.parts
       /\ c3.steps = c.steps /\ c3.poses = po /\ c3.layer = l
  BY <1>6, <1>12, <1>13, Zenon DEF ContentRow
<1>15. [c EXCEPT !.spots = SpotsCommitted(c, patch), !.poses = PosesCommitted(c, patch),
                 !.layer = LayerCommitted(c, patch)] = c3
  BY <1>1, <1>2, <1>3, <1>9, <1>11, <1>13
<1>16. \A h \in SpotIds : c3.spots[h].status # "none" => c3.spots[h].part \in c3.parts
  BY <1>4, <1>14
<1>17. PICK d : d = Normalized(c3)
  OBVIOUS
<1>18. /\ d \in ContentRow /\ SpotsFit(d) /\ d.model = c.model /\ d.parts = c.parts
       /\ d.steps = c.steps /\ d.poses = po /\ d.layer = l
  BY <1>14, <1>16, <1>17, NormalizedFits
<1>19. PosesFit(d) /\ LayerFits(d)
  BY <1>5, <1>6, <1>18 DEF PosesFit, LayerFits
<1> QED
  BY <1>15, <1>17, <1>18, <1>19 DEF ContentFits

\* A valid request leaves a draft that holds together.
LEMMA AppliedFits ==
    ASSUME NEW seen, SheetFits(seen), NEW patch, RequestFits(patch, seen.content.model),
           PatchValid(seen, patch)
    PROVE  /\ SheetFits(Applied(seen, patch))
           /\ Applied(seen, patch).rev = seen.rev
           /\ Applied(seen, patch).content.model = seen.content.model
<1>1. PICK d : d = Normalized([seen.content EXCEPT
                                 !.spots = SpotsCommitted(seen.content, patch),
                                 !.poses = PosesCommitted(seen.content, patch),
                                 !.layer = LayerCommitted(seen.content, patch)])
  OBVIOUS
<1>2. /\ ContentFits(d) /\ d.model = seen.content.model
      /\ d.parts = seen.content.parts /\ d.steps = seen.content.steps
  BY <1>1, ContentApplied DEF SheetFits, PatchValid
<1>3. PICK es : es = EntitiesCommitted(seen, patch)
  OBVIOUS
<1>4. es \in [DOMAIN es -> EntityRow] /\ DOMAIN es \subseteq d.parts \cup d.steps
  BY <1>2, <1>3, EntitiesCommittedFit DEF PatchValid
<1>5. es \in UNION {[S -> EntityRow] : S \in SUBSET PartsAndSteps}
  <2>1. d.parts \subseteq PartNames /\ d.steps \subseteq StepNames
    BY <1>2, ContentTyped DEF ContentFits
  <2>2. DOMAIN es \in SUBSET PartsAndSteps
    BY <1>4, <2>1 DEF PartsAndSteps
  <2> QED
    BY <1>4, <2>2
<1>6. PICK mr : mr = ModelReviewCommitted(seen, patch)
  OBVIOUS
<1>7. mr \in ReviewRow /\ (mr # NotReviewed => mr.of = d.model)
      /\ (mr.userConfirmed => mr.loaded)
  BY <1>2, <1>6, ModelReviewCommittedFits DEF PatchValid
<1>8. PICK st : st = IF patch.status = {} THEN seen.status ELSE CHOOSE s \in patch.status : TRUE
  OBVIOUS
<1>9. st \in {"needs_review", "ready"}
  BY <1>8 DEF RequestFits, SheetFits, SheetRow
<1>10. seen \in SheetRow
  BY DEF SheetFits
<1>11. PICK r1 : r1 = [seen EXCEPT !.content = d]
  OBVIOUS
<1>12. r1 \in SheetRow /\ r1.content = d /\ r1.rev = seen.rev /\ r1.status = seen.status
  BY <1>2, <1>10, <1>11, Zenon DEF SheetRow, ContentFits
<1>13. PICK r2 : r2 = [r1 EXCEPT !.entities = es]
  OBVIOUS
<1>14. r2 \in SheetRow /\ r2.content = d /\ r2.rev = seen.rev /\ r2.status = seen.status
       /\ r2.entities = es
  BY <1>5, <1>12, <1>13, Zenon DEF SheetRow
<1>15. PICK r3 : r3 = [r2 EXCEPT !.modelReview = mr]
  OBVIOUS
<1>16. r3 \in SheetRow /\ r3.content = d /\ r3.rev = seen.rev /\ r3.status = seen.status
       /\ r3.entities = es /\ r3.modelReview = mr
  BY <1>7, <1>14, <1>15, Zenon DEF SheetRow
<1>17. PICK r4 : r4 = [r3 EXCEPT !.status = st]
  OBVIOUS
<1>18. r4 \in SheetRow /\ r4.content = d /\ r4.rev = seen.rev
       /\ r4.entities = es /\ r4.modelReview = mr
  BY <1>9, <1>16, <1>17, Zenon DEF SheetRow
<1>19. Applied(seen, patch) = r4
  <2>1. Applied(seen, patch) =
          [seen EXCEPT !.content = d, !.entities = es, !.modelReview = mr,
             !.status = IF patch.status = {} THEN @ ELSE CHOOSE s \in patch.status : TRUE]
    BY <1>1, <1>3, <1>6, Zenon DEF Applied
  <2>2. [seen EXCEPT !.content = d, !.entities = es, !.modelReview = mr,
             !.status = IF patch.status = {} THEN @ ELSE CHOOSE s \in patch.status : TRUE]
        = [r3 EXCEPT !.status = IF patch.status = {} THEN @ ELSE CHOOSE s \in patch.status : TRUE]
    BY <1>11, <1>13, <1>15
  <2>3. r4 = [r3 EXCEPT !.status = IF patch.status = {} THEN @ ELSE CHOOSE s \in patch.status : TRUE]
    BY <1>8, <1>16, <1>17
  <2> QED
    BY <2>1, <2>2, <2>3
<1> QED
  BY <1>2, <1>4, <1>7, <1>18, <1>19 DEF SheetFits, ReviewsFit

-----------------------------------------------------------------------------
\* The three models are apart.
LEMMA ThreeModels ==
    Cardinality({OldModel, NewModel, NoModel}) = 3 => OldModel # NoModel /\ NewModel # NoModel
<1>1. \A x, y : Cardinality({x, y}) # 3
  <2> SUFFICES ASSUME NEW x, NEW y PROVE Cardinality({x, y}) # 3
    OBVIOUS
  <2>1. Cardinality({x}) = 1 /\ IsFiniteSet({x})
    BY FS_Singleton
  <2>2. Cardinality({x} \cup {y}) \in {1, 2}
    BY <2>1, FS_AddElement
  <2>3. {x} \cup {y} = {x, y}
    OBVIOUS
  <2> QED
    BY <2>2, <2>3
<1>2. OldModel = NoModel => {OldModel, NewModel, NoModel} = {OldModel, NewModel}
  OBVIOUS
<1>3. NewModel = NoModel => {OldModel, NewModel, NoModel} = {OldModel, NewModel}
  OBVIOUS
<1> QED
  BY <1>1, <1>2, <1>3

\* What an earlier job left holds together.
LEMMA FormersFit == \A d \in FormerDrafts : d = NoDraft \/ ContentFits(d)
<1> SUFFICES ASSUME NEW f \in Formers
             PROVE  ContentFits(
                      [Bare(f.model, PartNames, StepNames) EXCEPT
                         !.spots = [h \in SpotIds |->
                            [part |-> f.part, status |-> "confirmed", anchor |-> f.model]],
                         !.poses = [s \in StepNames |-> f.model]])
  BY DEF FormerDrafts
<1>1. /\ f.model \in {OldModel, NewModel} /\ f.part \in PartNames
      /\ OldModel # NoModel /\ NewModel # NoModel
  <2>1. f \in [model : {OldModel, NewModel}, part : PartNames]
    BY DraftContentAssumption
  <2>2. Cardinality({OldModel, NewModel, NoModel}) = 3
    BY DraftContentAssumption
  <2>3. OldModel # NoModel /\ NewModel # NoModel
    BY <2>2, ThreeModels
  <2> QED
    BY <2>1, <2>3
<1>2. PICK sp : sp = [h \in SpotIds |->
                        [part |-> f.part, status |-> "confirmed", anchor |-> f.model]]
  OBVIOUS
<1>3. PICK po : po = [s \in StepNames |-> f.model]
  OBVIOUS
<1>4. sp \in [SpotIds -> SpotRow]
  <2>1. [part |-> f.part, status |-> "confirmed", anchor |-> f.model] \in SpotRow
    BY <1>1 DEF SpotRow, Models
  <2> QED
    BY <1>2, <2>1
<1>5. po \in [StepNames -> Models]
  BY <1>1, <1>3 DEF Models
<1>6. PICK c : c = [model |-> f.model, parts |-> PartNames, steps |-> StepNames,
                    spots |-> sp, poses |-> po, layer |-> NoLayer]
  OBVIOUS
<1>7. c \in ContentRow
  <2>1. NoLayer \in LayerRow
    BY DEF NoLayer, LayerRow, Models
  <2> QED
    BY <1>1, <1>4, <1>5, <1>6, <2>1, ContentIs DEF Models
<1>8. PosesFit(c)
  BY <1>3, <1>6 DEF PosesFit
<1>9. SpotsFit(c)
  BY <1>1, <1>2, <1>6 DEF SpotsFit, SpotFits, OnModel
<1>10. LayerFits(c)
  BY <1>6 DEF LayerFits, NoLayer
<1>11. c = BareHolding(f.model, PartNames, StepNames, sp, po)
  BY <1>6, BareWith
<1>12. c = [Bare(f.model, PartNames, StepNames) EXCEPT !.spots = sp, !.poses = po]
  BY <1>11, Zenon DEF BareHolding
<1>13. ContentFits(c)
  BY <1>7, <1>8, <1>9, <1>10 DEF ContentFits
<1> QED
  BY <1>2, <1>3, <1>12, <1>13, Zenon

\* Nothing is assembled at first.
LEMMA ContentBegins == ContentInit => ContentInv
<1> SUFFICES ASSUME ContentInit PROVE ContentInv
  OBVIOUS
<1>1. produced \in [model : Models, parts : SUBSET PartNames, steps : SUBSET StepNames]
  BY DEF ContentInit, Models
<1>2. \A t \in Callers : SightFits(sight[t])
  BY DEF ContentInit, SightFits
<1> QED
  BY <1>1, <1>2, FormersFit DEF ContentInit, ContentInv

\* A draft that is stored is not the one that is missing.
LEMMA StoredIsNot == \A seen \in SheetRow : seen # NoDraft
<1> SUFFICES ASSUME NEW seen \in SheetRow, seen = NoDraft PROVE FALSE
  OBVIOUS
<1>1. seen.rev \in 1 .. MaxContentRev
  BY DEF SheetRow
<1>2. seen.rev = 0
  BY DEF NoDraft
<1> QED
  BY <1>1, <1>2

\* Content is not the draft that is missing.
LEMMA ContentIsNot == \A c \in ContentRow : c # NoDraft
<1> SUFFICES ASSUME NEW c \in ContentRow, c = NoDraft PROVE FALSE
  OBVIOUS
<1>1. "model" \in DOMAIN c
  BY DEF ContentRow
<1>2. DOMAIN NoDraft = {"rev"}
  BY DEF NoDraft
<1> QED
  BY <1>1, <1>2

\* A branch that ends names parts and steps of the manuals.
LEMMA BranchEndsKeeps == ContentInv /\ BranchEnds => ContentInv'
<1> SUFFICES ASSUME ContentInv, BranchEnds PROVE ContentInv'
  OBVIOUS
<1>1. produced' \in [model : Models, parts : SUBSET PartNames, steps : SUBSET StepNames]
  <2>1. CASE produced' = [produced EXCEPT !.model = NewModel]
    BY <2>1, Zenon DEF ContentInv, Models
  <2>2. CASE \E f \in Finds : produced' = [produced EXCEPT !.parts = f.parts, !.steps = f.steps]
    <3>1. PICK f \in Finds : produced' = [produced EXCEPT !.parts = f.parts, !.steps = f.steps]
      BY <2>2
    <3>2. f.parts \in SUBSET PartNames /\ f.steps \in SUBSET StepNames
      BY DraftContentAssumption
    <3>3. produced' = [model |-> produced.model, parts |-> f.parts, steps |-> f.steps]
      BY <3>1 DEF ContentInv
    <3> QED
      BY <3>2, <3>3 DEF ContentInv
  <2> QED
    BY <2>1, <2>2 DEF BranchEnds
<1>2. UNCHANGED <<former, sheet, assembly, sight>>
  BY DEF BranchEnds
<1> QED
  BY <1>1, <1>2 DEF ContentInv, SightFits

\* What is assembled holds together.
LEMMA ReadProductsKeeps == ContentInv /\ ReadProducts => ContentInv'
<1> SUFFICES ASSUME ContentInv, ReadProducts PROVE ContentInv'
  OBVIOUS
<1>1. /\ produced.model \in Models /\ produced.parts \in SUBSET PartNames
      /\ produced.steps \in SUBSET StepNames
  BY DEF ContentInv
<1>2. PICK m \in Models, ps \in SUBSET PartNames, ss \in SUBSET StepNames :
         m = produced.model /\ ps = produced.parts /\ ss = produced.steps
  BY <1>1
<1>3. \/ sheet # NoDraft /\ assembly' = CarriedForward(Bare(m, ps, ss), sheet.content)
      \/ former # NoDraft /\ assembly' = CarriedForward(Bare(m, ps, ss), former)
      \/ assembly' = Bare(m, ps, ss)
  BY <1>2 DEF ReadProducts
<1>4. ContentFits(assembly')
  <2>1. ASSUME sheet # NoDraft,
               assembly' = CarriedForward(Bare(m, ps, ss), sheet.content)
        PROVE  ContentFits(assembly')
    <3>1. PICK c : c = sheet.content
      OBVIOUS
    <3>2. ContentFits(c)
      BY <2>1, <3>1 DEF ContentInv, SheetFits
    <3> QED
      BY <2>1, <3>1, <3>2, CarriedFits
  <2>2. ASSUME former # NoDraft, assembly' = CarriedForward(Bare(m, ps, ss), former)
        PROVE  ContentFits(assembly')
    <3>1. ContentFits(former)
      BY <2>2 DEF ContentInv
    <3> QED
      BY <2>2, <3>1, CarriedFits
  <2> QED
    BY <1>3, <2>1, <2>2, BareFits
<1>5. UNCHANGED <<produced, former, sheet, sight>>
  BY DEF ReadProducts
<1> QED
  BY <1>4, <1>5 DEF ContentInv, SightFits

\* What callers saw of an earlier revision.
LEMMA SightsStay ==
    ASSUME ContentInv, sheet # NoDraft, sheet' # NoDraft, sheet'.rev \in Int,
           sheet' = sheet \/ sheet'.rev > sheet.rev
    PROVE  \A w : SightFits(w) => SightFits(w)'
<1> SUFFICES ASSUME NEW w, SightFits(w) PROVE SightFits(w)'
  OBVIOUS
<1>1. sheet.rev \in Int
  BY DEF ContentInv, SheetFits, SheetRow
<1>2. CASE w = [step |-> "idle"]
  BY <1>2 DEF SightFits
<1>3. CASE w \in ShownRow
  <2>1. w.rev \in Int
    BY <1>3 DEF ShownRow
  <2> QED
    BY <1>1, <1>3, <2>1 DEF SightFits, ShownRow, AttachRow
<1>4. CASE w \in AttachRow
  <2>1. w.rev \in Int
    BY <1>4 DEF AttachRow
  <2> QED
    BY <1>1, <1>4, <2>1 DEF SightFits, ShownRow, AttachRow
<1> QED
  BY <1>2, <1>3, <1>4 DEF SightFits

\* An assembly is written as it was made, and its revision is a new one.
LEMMA WriteAssemblyKeeps == ContentInv /\ WriteAssembly => ContentInv'
<1> SUFFICES ASSUME ContentInv, WriteAssembly PROVE ContentInv'
  OBVIOUS
<1>1. UNCHANGED <<produced, former, sight>> /\ assembly' = NoDraft
  BY DEF WriteAssembly
<1>2. ContentFits(assembly)
  BY DEF ContentInv, WriteAssembly
<1>3. ASSUME NEW n \in 1 .. MaxContentRev PROVE SheetFits(Unreviewed(assembly, n))
                                                /\ Unreviewed(assembly, n).rev = n
  <2>1. PICK none : none = [e \in {} |-> NeverReviewed]
    OBVIOUS
  <2>2. none \in UNION {[S -> EntityRow] : S \in SUBSET PartsAndSteps} /\ DOMAIN none = {}
    <3>1. none \in [{} -> EntityRow]
      BY <2>1
    <3> QED
      BY <3>1
  <2>3. PICK seen : seen = [rev |-> n, status |-> "needs_review", content |-> assembly,
                          entities |-> none, modelReview |-> NotReviewed]
    OBVIOUS
  <2>4. seen = Unreviewed(assembly, n)
    BY <2>1, <2>3, Zenon DEF Unreviewed
  <2>5. NotReviewed \in ReviewRow /\ NotReviewed.userConfirmed = FALSE
    BY DEF NotReviewed, ReviewRow, Models
  <2>6. assembly \in ContentRow
    BY <1>2 DEF ContentFits
  <2>7. seen \in SheetRow
    BY <2>2, <2>3, <2>5, <2>6, Zenon DEF SheetRow
  <2> QED
    BY <1>2, <2>2, <2>3, <2>4, <2>5, <2>7 DEF SheetFits, ReviewsFit
<1>4. CASE sheet = NoDraft
  <2>1. sheet' = Unreviewed(assembly, 1)
    BY <1>4 DEF WriteAssembly
  <2>2. SheetFits(sheet')
    BY <1>3, <2>1, DraftContentAssumption
  <2>3. \A t \in Callers : sight[t] = [step |-> "idle"]
    BY <1>4 DEF ContentInv, SightFits
  <2> QED
    BY <1>1, <2>2, <2>3 DEF ContentInv, SightFits
<1>5. CASE sheet # NoDraft /\ UNCHANGED sheet
  BY <1>1, <1>5 DEF ContentInv, SightFits
<1>6. CASE /\ sheet # NoDraft /\ sheet.rev < MaxContentRev
           /\ sheet' = Unreviewed(assembly, sheet.rev + 1)
  <2>1. sheet.rev \in 1 .. MaxContentRev
    BY <1>6 DEF ContentInv, SheetFits, SheetRow
  <2>2. sheet.rev + 1 \in 1 .. MaxContentRev
    BY <1>6, <2>1, DraftContentAssumption
  <2>3. SheetFits(sheet') /\ sheet'.rev = sheet.rev + 1
    BY <1>3, <1>6, <2>2
  <2>4. sheet' # NoDraft
    BY <2>3, StoredIsNot DEF SheetFits
  <2>5. \A t \in Callers : SightFits(sight[t])'
    <3>1. \A w : SightFits(w) => SightFits(w)'
      BY <1>6, <2>1, <2>3, <2>4, SightsStay
    <3> QED
      BY <1>1, <3>1 DEF ContentInv
  <2> QED
    BY <1>1, <2>3, <2>5 DEF ContentInv
<1> QED
  BY <1>4, <1>5, <1>6 DEF WriteAssembly

\* One caller sees something else, and nothing else changes.
LEMMA SightMoves ==
    ASSUME ContentInv, NEW t \in Callers, NEW w, SightFits(w), Moves(t, w),
           UNCHANGED <<produced, former, sheet, assembly>>
    PROVE  ContentInv'
<1>1. SightFits(w)'
  BY DEF SightFits
<1>2. sight' = [sight EXCEPT ![t] = w]
  BY DEF Moves
<1>3. ASSUME NEW u \in Callers PROVE SightFits(sight[u])'
  <2>1. CASE u = t
    BY <1>1, <1>2, <2>1 DEF ContentInv
  <2>2. CASE u # t
    <3>1. sight'[u] = sight[u] /\ SightFits(sight[u])
      BY <1>2, <2>2 DEF ContentInv
    <3> QED
      BY <3>1 DEF SightFits
  <2> QED
    BY <2>1, <2>2
<1> QED
  BY <1>2, <1>3 DEF ContentInv

\* A tab shows the draft that is there.
LEMMA ShowContentKeeps ==
    ASSUME ContentInv, NEW t \in Callers, ShowContent(t) PROVE ContentInv'
<1>1. PICK w : w = [step |-> "shown", rev |-> sheet.rev, model |-> sheet.content.model]
  OBVIOUS
<1>2. sheet.rev \in 1 .. MaxContentRev /\ sheet.content.model \in Models
  <2>1. SheetFits(sheet)
    BY DEF ContentInv, ShowContent
  <2> QED
    BY <2>1 DEF SheetFits, SheetRow, ContentRow
<1>3. w \in ShownRow
  BY <1>1, <1>2 DEF ShownRow
<1>4. SightFits(w)
  BY <1>1, <1>2, <1>3 DEF SightFits, ShowContent
<1> QED
  BY <1>1, <1>4, SightMoves DEF ShowContent

\* A valid request on the draft the tab showed leaves one that holds together.
LEMMA PatchContentKeeps ==
    ASSUME ContentInv, NEW t \in Callers, PatchContent(t) PROVE ContentInv'
<1>1. UNCHANGED <<produced, former, assembly>>
  BY DEF PatchContent
<1>2. PICK w : w = sight[t]
  OBVIOUS
<1>3. /\ w \in ShownRow /\ sheet # NoDraft /\ w.rev <= sheet.rev
      /\ w.rev = sheet.rev => w.model = sheet.content.model
  BY <1>2 DEF PatchContent, ContentInv, SightFits, AttachRow
<1>4. w.model \in Models /\ w.rev \in 1 .. MaxContentRev
  BY <1>3 DEF ShownRow
<1>5. PICK patch \in Requests(w.model) :
          IF PatchValid(sheet, patch) /\ sheet.rev = w.rev
          THEN IF Applied(sheet, patch) = sheet THEN UNCHANGED <<sheet, sight>>
               ELSE /\ sheet.rev < MaxContentRev
                    /\ sheet' = [Applied(sheet, patch) EXCEPT !.rev = @ + 1]
                    /\ Moves(t, [w EXCEPT !.rev = @ + 1])
          ELSE UNCHANGED sheet /\ Moves(t, [step |-> "idle"])
  BY <1>2 DEF PatchContent
<1>6. CASE UNCHANGED <<sheet, sight>>
  BY <1>1, <1>6 DEF ContentInv, SightFits
<1>7. CASE UNCHANGED sheet /\ Moves(t, [step |-> "idle"])
  <2>1. SightFits([step |-> "idle"])
    BY DEF SightFits
  <2> QED
    BY <1>1, <1>7, <2>1, SightMoves
<1>8. CASE /\ PatchValid(sheet, patch) /\ sheet.rev = w.rev
           /\ sheet.rev < MaxContentRev
           /\ sheet' = [Applied(sheet, patch) EXCEPT !.rev = @ + 1]
           /\ Moves(t, [w EXCEPT !.rev = @ + 1])
  <2>1. PICK seen : seen = sheet
    OBVIOUS
  <2>2. SheetFits(seen) /\ seen.content.model = w.model
    BY <1>3, <1>8, <2>1 DEF ContentInv
  <2>3. RequestFits(patch, seen.content.model)
    BY <1>4, <2>2, RequestsFit
  <2>4. PICK new : new = Applied(seen, patch)
    OBVIOUS
  <2>5. /\ SheetFits(new) /\ new.rev = seen.rev /\ new.content.model = w.model
    BY <1>8, <2>1, <2>2, <2>3, <2>4, AppliedFits
  <2>6. PICK n : n = seen.rev + 1
    OBVIOUS
  <2>7. n \in 1 .. MaxContentRev /\ n > seen.rev /\ seen.rev \in Int
    BY <1>4, <1>8, <2>1, <2>6, DraftContentAssumption
  <2>8. new \in SheetRow
    BY <2>5 DEF SheetFits
  <2>9. sheet' = [new EXCEPT !.rev = n]
    BY <1>8, <2>1, <2>4, <2>5, <2>6, <2>8 DEF SheetRow
  <2>10. /\ sheet' \in SheetRow /\ sheet'.rev = n /\ sheet'.content = new.content
         /\ sheet'.entities = new.entities /\ sheet'.modelReview = new.modelReview
    BY <2>7, <2>8, <2>9, Zenon DEF SheetRow
  <2>11. SheetFits(sheet')
    BY <2>5, <2>10 DEF SheetFits, ReviewsFit
  <2>12. sheet' # NoDraft
    BY <2>10, StoredIsNot
  <2>13. \A x : SightFits(x) => SightFits(x)'
    BY <1>3, <2>1, <2>7, <2>10, <2>12, SightsStay
  <2>14. PICK v : v = [w EXCEPT !.rev = n]
    OBVIOUS
  <2>15. v \in ShownRow /\ v.rev = n /\ v.model = w.model
    BY <1>3, <2>7, <2>14, Zenon DEF ShownRow
  <2>16. [w EXCEPT !.rev = @ + 1] = v
    BY <1>3, <1>8, <2>1, <2>6, <2>14 DEF ShownRow
  <2>17. SightFits(v)'
    BY <2>5, <2>7, <2>10, <2>12, <2>15 DEF SightFits
  <2>18. sight' = [sight EXCEPT ![t] = v]
    BY <1>8, <2>16 DEF Moves
  <2>19. ASSUME NEW u \in Callers PROVE SightFits(sight[u])'
    <3>1. CASE u = t
      BY <2>17, <2>18, <3>1 DEF ContentInv
    <3>2. CASE u # t
      <4>1. sight'[u] = sight[u] /\ SightFits(sight[u])
        BY <2>18, <3>2 DEF ContentInv
      <4> QED
        BY <2>13, <4>1
    <3> QED
      BY <3>1, <3>2
  <2> QED
    BY <1>1, <2>11, <2>18, <2>19 DEF ContentInv
<1> QED
  BY <1>5, <1>6, <1>7, <1>8

\* What is read to attach a file is the draft, if nothing was written since.
LEMMA ReadForPartsKeeps ==
    ASSUME ContentInv, NEW t \in Callers, ReadForParts(t) PROVE ContentInv'
<1>1. PICK w : w = sight[t]
  OBVIOUS
<1>2. w \in ShownRow /\ sheet # NoDraft /\ w.rev <= sheet.rev
  BY <1>1 DEF ReadForParts, ContentInv, SightFits, AttachRow
<1>3. PICK upload \in PartsFiles :
         \/ Moves(t, [step |-> "attach", rev |-> w.rev, file |-> upload, read |-> sheet.content])
         \/ Moves(t, [step |-> "idle"])
  BY <1>1 DEF ReadForParts
<1>4. PICK v : v = [step |-> "attach", rev |-> w.rev, file |-> upload, read |-> sheet.content]
  OBVIOUS
<1>5. sheet.content \in ContentRow
  BY <1>2 DEF ContentInv, SheetFits, ContentFits
<1>6. v \in AttachRow /\ v.rev = w.rev /\ v.read = sheet.content
  BY <1>2, <1>4, <1>5 DEF AttachRow, ShownRow
<1>7. SightFits(v)
  BY <1>2, <1>6 DEF SightFits
<1>8. SightFits([step |-> "idle"])
  BY DEF SightFits
<1>9. UNCHANGED <<produced, former, sheet, assembly>>
  BY DEF ReadForParts
<1> QED
  BY <1>3, <1>4, <1>7, <1>8, <1>9, SightMoves

\* The file is written with what was read, which is what the draft still holds.
LEMMA WritePartsKeeps ==
    ASSUME ContentInv, NEW t \in Callers, WriteParts(t) PROVE ContentInv'
<1>1. UNCHANGED <<produced, former, assembly>> /\ Moves(t, [step |-> "idle"])
  BY DEF WriteParts
<1>2. SightFits([step |-> "idle"])
  BY DEF SightFits
<1>3. PICK w : w = sight[t]
  OBVIOUS
<1>4. /\ w \in AttachRow /\ sheet # NoDraft
      /\ w.rev = sheet.rev => w.read = sheet.content
  BY <1>3 DEF WriteParts, ContentInv, SightFits, ShownRow
<1>5. CASE UNCHANGED sheet
  BY <1>1, <1>2, <1>5, SightMoves
<1>6. CASE /\ sheet.rev = w.rev /\ sheet.rev < MaxContentRev
           /\ sheet' = [sheet EXCEPT !.rev = @ + 1,
                  !.content = [w.read EXCEPT !.layer = LayerOn(w.file, w.read)]]
  <2>1. PICK seen : seen = sheet
    OBVIOUS
  <2>2. SheetFits(seen) /\ w.read = seen.content
    BY <1>4, <1>6, <2>1 DEF ContentInv
  <2>3. PICK c : c = w.read
    OBVIOUS
  <2>4. ContentFits(c) /\ c \in ContentRow
    BY <2>2, <2>3 DEF SheetFits, ContentFits
  <2>5. PICK l : l = LayerOn(w.file, c)
    OBVIOUS
  <2>6. /\ l.of = c.model /\ l.names = Names(w.file)
        /\ l.bindings = {b \in c.layer.bindings : b.nodes \subseteq Names(w.file)}
        /\ l.actions = {a \in c.layer.actions : a.nodes \subseteq Names(w.file)}
    BY <2>5 DEF LayerOn, Resolvable
  <2>7. l \in LayerRow
    <3>1. c.model \in Models /\ c.layer \in LayerRow
      BY <2>4, ContentTyped
    <3>2. Names(w.file) \subseteq NodeNames
      BY <1>4 DEF AttachRow, NodeNames
    <3>3. l.bindings \subseteq BindingRow /\ l.actions \subseteq ActionRow
      BY <2>6, <3>1 DEF LayerRow
    <3>4. l = [of |-> l.of, names |-> l.names, bindings |-> l.bindings, actions |-> l.actions]
      BY <2>5 DEF LayerOn
    <3> QED
      BY <2>6, <3>1, <3>2, <3>3, <3>4, Zenon DEF LayerRow
  <2>8. PICK d : d = [c EXCEPT !.layer = l]
    OBVIOUS
  <2>9. /\ d \in ContentRow /\ d.layer = l /\ d.model = c.model /\ d.parts = c.parts
        /\ d.steps = c.steps /\ d.spots = c.spots /\ d.poses = c.poses
    BY <2>4, <2>7, <2>8, Zenon DEF ContentRow
  <2>10. LayerFits(d)
    <3>1. LayerFits(c)
      BY <2>4 DEF ContentFits
    <3> QED
      BY <2>6, <2>9, <3>1 DEF LayerFits
  <2>11. ContentFits(d)
    BY <2>4, <2>9, <2>10 DEF ContentFits, PosesFit, SpotsFit, SpotFits
  <2>12. PICK n : n = seen.rev + 1
    OBVIOUS
  <2>13. seen \in SheetRow
    BY <2>2 DEF SheetFits
  <2>14. seen.rev \in 1 .. MaxContentRev
    BY <2>13 DEF SheetRow
  <2>15. n \in 1 .. MaxContentRev /\ n > seen.rev /\ seen.rev \in Int
    BY <1>6, <2>1, <2>12, <2>14, DraftContentAssumption
  <2>16. PICK r1 : r1 = [seen EXCEPT !.rev = n]
    OBVIOUS
  <2>17. /\ r1 \in SheetRow /\ r1.rev = n /\ r1.content = seen.content
         /\ r1.entities = seen.entities /\ r1.modelReview = seen.modelReview
    BY <2>13, <2>15, <2>16, Zenon DEF SheetRow
  <2>18. PICK r2 : r2 = [r1 EXCEPT !.content = d]
    OBVIOUS
  <2>19. /\ r2 \in SheetRow /\ r2.rev = n /\ r2.content = d
         /\ r2.entities = seen.entities /\ r2.modelReview = seen.modelReview
    BY <2>9, <2>17, <2>18, Zenon DEF SheetRow
  <2>20. sheet' = r2
    <3>1. sheet' = [seen EXCEPT !.rev = @ + 1, !.content = d]
      BY <1>6, <2>1, <2>3, <2>5, <2>8
    <3>2. [seen EXCEPT !.rev = @ + 1] = r1
      BY <2>12, <2>13, <2>16 DEF SheetRow
    <3> QED
      BY <2>18, <3>1, <3>2
  <2>21. SheetFits(sheet')
    BY <2>2, <2>3, <2>9, <2>11, <2>19, <2>20 DEF SheetFits, ReviewsFit
  <2>22. sheet' # NoDraft
    BY <2>21, StoredIsNot DEF SheetFits
  <2>23. \A x : SightFits(x) => SightFits(x)'
    BY <1>4, <2>1, <2>15, <2>19, <2>20, <2>22, SightsStay
  <2>24. sight' = [sight EXCEPT ![t] = [step |-> "idle"]]
    BY <1>1 DEF Moves
  <2>25. ASSUME NEW u \in Callers PROVE SightFits(sight[u])'
    <3>1. CASE u = t
      BY <1>2, <2>23, <2>24, <3>1 DEF ContentInv
    <3>2. CASE u # t
      <4>1. sight'[u] = sight[u] /\ SightFits(sight[u])
        BY <2>24, <3>2 DEF ContentInv
      <4> QED
        BY <2>23, <4>1
    <3> QED
      BY <3>1, <3>2
  <2> QED
    BY <1>1, <2>21, <2>24, <2>25 DEF ContentInv
<1> QED
  BY <1>3, <1>5, <1>6 DEF WriteParts

\* Every step keeps the invariant.
LEMMA ContentStep == ContentInv /\ [ContentNext]_contentVars => ContentInv'
<1>1. ASSUME ContentInv, UNCHANGED contentVars PROVE ContentInv'
  BY <1>1 DEF contentVars, ContentInv, SightFits
<1> QED
  BY <1>1, BranchEndsKeeps, ReadProductsKeeps, WriteAssemblyKeeps, ShowContentKeeps,
     PatchContentKeeps, ReadForPartsKeeps, WritePartsKeeps DEF ContentNext

-----------------------------------------------------------------------------
\* The draft, what is being assembled and what callers saw keep their types.
THEOREM ContentTypesHold == ContentSpec => []ContentTypeOK
<1>1. ContentInv => ContentTypeOK
  <2> SUFFICES ASSUME ContentInv PROVE ContentTypeOK
    OBVIOUS
  <2>1. assembly = NoDraft \/ assembly.model \in Models
    BY DEF ContentInv, ContentFits, ContentRow
  <2>2. ASSUME sheet # NoDraft
        PROVE  /\ sheet.rev \in 1 .. MaxContentRev
               /\ sheet.status \in {"needs_review", "ready"}
               /\ \A h \in SpotIds : sheet.content.spots[h].status \in
                      {"none", "unbound", "candidate", "confirmed", "stale"}
    <3>1. sheet \in SheetRow /\ sheet.content \in ContentRow
      BY <2>2 DEF ContentInv, SheetFits, ContentFits
    <3>2. sheet.content.spots \in [SpotIds -> SpotRow]
      BY <3>1, ContentTyped
    <3> QED
      BY <3>1, <3>2 DEF SheetRow, SpotRow
  <2>3. \A t \in Callers : sight[t].step \in {"idle", "shown", "attach"}
    BY DEF ContentInv, SightFits, ShownRow, AttachRow
  <2> QED
    BY <2>1, <2>2, <2>3 DEF ContentInv, ContentTypeOK
<1> QED
  BY <1>1, ContentBegins, ContentStep, PTL DEF ContentSpec

\* Every reference inside a draft resolves: poses, hotspots, the layer and its
\* bindings and actions, and what people declared, after any order of
\* assemblies, edits and uploads.
THEOREM DraftsHoldTogether == ContentSpec => []DraftHoldsTogether
<1>1. ContentInv => DraftHoldsTogether
  BY DEF ContentInv, SheetFits, ContentFits, ReviewsFit, PosesFit, SpotsFit, SpotFits,
         LayerFits, Taken, DraftHoldsTogether
<1> QED
  BY <1>1, ContentBegins, ContentStep, PTL DEF ContentSpec

-----------------------------------------------------------------------------
(* What is known of a manual.                                              *)

\* Every entity of every document the model may answer with.
Listed == UNION {ToSet(o) : o \in Outputs}
Ids == {ContentId(e) : e \in Listed}
Sources == [page : Nat, quote : {c.quote : c \in UNION {e.cites : e \in Listed}},
            derived : BOOLEAN]
BatchRow == [id : Ids, parts : SUBSET Ids, evidence : SUBSET Sources, batches : SUBSET Nat]

\* m tells what e tells, from all the places e was found on.
Covers(m, e) ==
    /\ m.id = e.id
    /\ e.batches \subseteq m.batches
    /\ \A x \in e.evidence : \E y \in m.evidence : SameSource(x, y)

Represents(known, e) == \E x \in DOMAIN known : Covers(known[x], e)

\* Every source of m is a page that one of its batches sent.
Sourced(m) ==
    /\ m.batches \subseteq Batches
    /\ \A x \in m.evidence :
          /\ \E i \in m.batches : x.page \in PagesOf(i)
          /\ x.derived = (x.page \in ImagePages)

\* Knowledge whose steps need parts of T alone, each content once.
KnownFits(known, T) ==
    /\ known \in Seq(BatchRow)
    /\ \A x, y \in DOMAIN known : known[x].id = known[y].id => x = y
    /\ \A x \in DOMAIN known : Sourced(known[x]) /\ known[x].parts \subseteq T

\* What a batch recorded is the structure of a valid document.
IsAnswer(i, answer) ==
    \E o \in Outputs : Valid(i, o) /\ answer = Completed(i, o)

MergeFits(merged, conflicts) ==
    /\ \A i \in Batches : \A e \in ToSet(batch[i].result.entities) :
          \E m \in merged :
             /\ m.id = e.id /\ i \in m.batches
             /\ \A x \in e.evidence : \E y \in m.evidence : SameSource(x, y)
    /\ \A m \in merged :
          /\ \A x \in m.evidence :
                /\ \E i \in m.batches : x.page \in PagesOf(i)
                /\ pages[x.page] # "blank"
                /\ x.derived = (pages[x.page] = "scan")
          /\ m.parts \subseteq {o.id : o \in merged}
          /\ \A o \in merged :
                (m # o /\ m.id[1] = o.id[1] /\ m.id[2] = o.id[2]
                   /\ m.id[1] \in Entities)
                   => \E c \in conflicts : {m.id, o.id} \subseteq c

\* A batch that was sent holds no blank page, one that succeeded recorded a
\* valid answer, and once merged all have succeeded.
KnowledgeInv ==
    /\ pages \in UNION {[1 .. n -> PageKinds] : n \in 1 .. MaxPages}
    /\ prompt \in [snapshot : Versions, build : Versions]
    /\ DOMAIN batch = Batches
    /\ \A i \in Batches :
          /\ batch[i] = [status |-> batch[i].status, result |-> batch[i].result]
          /\ batch[i].status \in {"queued", "running", "needs_input",
                                  "succeeded", "submission_unknown"}
          /\ batch[i].status \in {"running", "succeeded"} =>
                \A p \in PagesOf(i) : pages[p] # "blank"
          /\ batch[i].status = "succeeded" => IsAnswer(i, batch[i].result)
    /\ merge # NoResult =>
          /\ \A i \in Batches : batch[i].status = "succeeded"
          /\ MergeFits(ToSet(merge.entities), merge.conflicts)

-----------------------------------------------------------------------------
(* Joining                                                                 *)

\* A fact covers itself.
LEMMA CoversItself == ASSUME NEW e PROVE Covers(e, e)
<1> QED
  BY DEF Covers, SameSource

\* What covers what covers e covers e.
LEMMA CoversThrough ==
    ASSUME NEW e, NEW m, Covers(m, e), NEW k, Covers(k, m) PROVE Covers(k, e)
<1>1. \A x \in e.evidence : \E y \in k.evidence : SameSource(x, y)
  BY DEF Covers, SameSource
<1> QED
  BY <1>1 DEF Covers

\* An entity joins what is known: nothing known is lost, and it is there.
LEMMA EntityJoins ==
    ASSUME NEW T, NEW known, KnownFits(known, T),
           NEW e \in BatchRow, Sourced(e), e.parts \subseteq T
    PROVE  LET j == MergeEntity(known, e)
           IN  /\ KnownFits(j, T)
               /\ \A d : Represents(known, d) => Represents(j, d)
               /\ Represents(j, e)
<1> DEFINE same == {x \in DOMAIN known : known[x].id = e.id}
           j == MergeEntity(known, e)
<1>1. known \in Seq(BatchRow) /\ Len(known) \in Nat /\ DOMAIN known = 1 .. Len(known)
  BY LenProperties DEF KnownFits
<1>2. CASE same = {}
  <2>1. j = Append(known, e)
    BY <1>2 DEF MergeEntity
  <2>2. /\ j \in Seq(BatchRow) /\ DOMAIN j = 1 .. Len(known) + 1
        /\ \A x \in DOMAIN known : j[x] = known[x]
        /\ j[Len(known) + 1] = e
    BY <1>1, <2>1
  <2> HIDE DEF j
  <2>3. \A x \in DOMAIN j : x \in DOMAIN known \/ x = Len(known) + 1
    BY <1>1, <2>2
  <2>4. \A x, y \in DOMAIN j : j[x].id = j[y].id => x = y
    BY <1>2, <2>2, <2>3 DEF KnownFits
  <2>5. \A x \in DOMAIN j : Sourced(j[x]) /\ j[x].parts \subseteq T
    BY <2>2, <2>3 DEF KnownFits
  <2>6. \A d : Represents(known, d) => Represents(j, d)
    BY <1>1, <2>2 DEF Represents
  <2>7. Represents(j, e)
    BY <1>1, <2>2, CoversItself DEF Represents
  <2>8. KnownFits(j, T)
    BY <2>2, <2>4, <2>5 DEF KnownFits
  <2> QED
    BY <2>8, <2>6, <2>7 DEF j
<1>3. CASE same # {}
  <2> DEFINE fuller(m) == [m EXCEPT !.evidence = MergeEvidence(@, e.evidence),
                                    !.batches = @ \cup e.batches]
  <2>1. j = [x \in DOMAIN known |-> IF x \notin same THEN known[x] ELSE fuller(known[x])]
    BY <1>3 DEF MergeEntity
  <2>2. ASSUME NEW m \in BatchRow, m.id = e.id
        PROVE  /\ fuller(m) \in BatchRow /\ fuller(m).id = m.id /\ fuller(m).parts = m.parts
               /\ fuller(m).evidence = MergeEvidence(m.evidence, e.evidence)
               /\ fuller(m).batches = m.batches \cup e.batches
    <3>1. MergeEvidence(m.evidence, e.evidence) \in SUBSET Sources
      BY DEF MergeEvidence, BatchRow
    <3>2. m.batches \cup e.batches \in SUBSET Nat
      BY DEF BatchRow
    <3>3. PICK v : v = MergeEvidence(m.evidence, e.evidence)
      OBVIOUS
    <3>4. PICK b : b = m.batches \cup e.batches
      OBVIOUS
    <3>5. fuller(m) = [[m EXCEPT !.evidence = v] EXCEPT !.batches = b]
      BY <3>3, <3>4, Zenon
    <3>6. PICK m1 : m1 = [m EXCEPT !.evidence = v]
      OBVIOUS
    <3>7. /\ m1 \in BatchRow /\ m1.id = m.id /\ m1.parts = m.parts
          /\ m1.evidence = v /\ m1.batches = m.batches
      BY <3>1, <3>3, <3>6, Zenon DEF BatchRow
    <3>8. PICK m2 : m2 = [m1 EXCEPT !.batches = b]
      OBVIOUS
    <3>9. /\ m2 \in BatchRow /\ m2.id = m1.id /\ m2.parts = m1.parts
          /\ m2.evidence = m1.evidence /\ m2.batches = b
      BY <3>2, <3>4, <3>7, <3>8, Zenon DEF BatchRow
    <3>10. fuller(m) = m2
      BY <3>5, <3>6, <3>8
    <3> HIDE DEF fuller
    <3> QED
      BY <3>3, <3>4, <3>7, <3>9, <3>10
  <2>3. ASSUME NEW m \in BatchRow, m.id = e.id
        PROVE  Covers(fuller(m), m) /\ Covers(fuller(m), e)
    <3>1. PICK f : f = fuller(m)
      OBVIOUS
    <3>2. /\ f.id = m.id /\ f.evidence = MergeEvidence(m.evidence, e.evidence)
          /\ f.batches = m.batches \cup e.batches
      BY <2>2, <2>3, <3>1
    <3> HIDE DEF fuller
    <3>3. Covers(f, m)
      BY <3>2 DEF Covers, MergeEvidence, SameSource
    <3>4. \A x \in e.evidence : \E y \in f.evidence : SameSource(x, y)
      BY <3>2 DEF MergeEvidence, SameSource
    <3> QED
      BY <2>3, <3>1, <3>2, <3>3, <3>4 DEF Covers
  <2>4. ASSUME NEW m \in BatchRow, m.id = e.id, Sourced(m) PROVE Sourced(fuller(m))
    <3>1. PICK f : f = fuller(m)
      OBVIOUS
    <3>2. /\ f.evidence = MergeEvidence(m.evidence, e.evidence)
          /\ f.batches = m.batches \cup e.batches
      BY <2>2, <2>4, <3>1
    <3> HIDE DEF fuller
    <3>3. f.evidence \subseteq m.evidence \cup e.evidence
      BY <3>2 DEF MergeEvidence
    <3>4. Sourced(f)
      BY <2>4, <3>2, <3>3 DEF Sourced
    <3> QED
      BY <3>1, <3>4
  <2> HIDE DEF fuller
  <2>5. \A x \in DOMAIN known : known[x] \in BatchRow
    BY <1>1
  <2>6. DOMAIN j = DOMAIN known /\ \A x \in DOMAIN known :
            j[x] = IF x \notin same THEN known[x] ELSE fuller(known[x])
    BY <2>1
  <2>7. \A x \in DOMAIN known : /\ j[x] \in BatchRow /\ j[x].id = known[x].id
                                /\ j[x].parts = known[x].parts
                                /\ Sourced(j[x]) /\ Covers(j[x], known[x])
    BY <2>2, <2>3, <2>4, <2>5, <2>6, CoversItself DEF KnownFits
  <2>8. j \in Seq(BatchRow)
    <3>1. j \in [1 .. Len(known) -> BatchRow]
      BY <1>1, <2>1, <2>2, <2>5
    <3> QED
      BY <1>1, <3>1, SeqDef
  <2> HIDE DEF j
  <2>9. KnownFits(j, T)
    BY <2>6, <2>7, <2>8 DEF KnownFits
  <2>10. \A d : Represents(known, d) => Represents(j, d)
    BY <2>6, <2>7, CoversThrough DEF Represents
  <2>11. Represents(j, e)
    <3>1. PICK x \in same : TRUE
      BY <1>3
    <3> QED
      BY <2>3, <2>5, <2>6, <3>1 DEF Represents
  <2> QED
    BY <2>9, <2>10, <2>11 DEF j
<1> QED
  BY <1>2, <1>3

\* s runs through the entities: s[n] is what is known after the first n.
IsJoin(s, known, entities, N) ==
    s = [n \in 0 .. N |->
            IF n = 0 THEN known ELSE MergeEntity(s[n - 1], entities[n])]

\* There is such a run.
LEMMA JoinExists ==
    ASSUME NEW N \in Nat, NEW known, NEW entities
    PROVE  \E s : IsJoin(s, known, entities, N)
<1> DEFINE S == {n \in 0 .. N : \E s : IsJoin(s, known, entities, n)}
<1>1. 0 \in S
  <2> DEFINE first == [n \in 0 .. 0 |-> known]
  <2>1. first = [n \in 0 .. 0 |->
                    IF n = 0 THEN known ELSE MergeEntity(first[n - 1], entities[n])]
    OBVIOUS
  <2>2. IsJoin(first, known, entities, 0)
    BY <2>1 DEF IsJoin
  <2> QED
    BY <2>2
<1>2. ASSUME NEW n \in 1 .. N, n - 1 \in S PROVE n \in S
  <2>1. PICK s : IsJoin(s, known, entities, n - 1)
    BY <1>2
  <2> DEFINE next == [k \in 0 .. n |->
                        IF k = n THEN MergeEntity(s[n - 1], entities[n]) ELSE s[k]]
  <2>2. \A k \in 0 .. n - 1 :
            s[k] = IF k = 0 THEN known ELSE MergeEntity(s[k - 1], entities[k])
    BY <2>1 DEF IsJoin
  <2>3. \A k \in 0 .. n :
            next[k] = IF k = 0 THEN known ELSE MergeEntity(next[k - 1], entities[k])
    BY <2>2
  <2>4. IsJoin(next, known, entities, n)
    BY <2>3 DEF IsJoin
  <2> QED
    BY <2>4
<1>3. N \in S
  <2> HIDE DEF S
  <2> QED
    BY <1>1, <1>2, IntervalInduction
<1> QED
  BY <1>3

\* The entities of a batch join what is known: nothing known is lost, and
\* all of them are there.
LEMMA EntitiesJoin ==
    ASSUME NEW T, NEW known, KnownFits(known, T), NEW entities \in Seq(BatchRow),
           \A n \in DOMAIN entities : Sourced(entities[n]) /\ entities[n].parts \subseteq T
    PROVE  LET j == Joined(known, entities)
           IN  /\ KnownFits(j, T)
               /\ \A d : Represents(known, d) => Represents(j, d)
               /\ \A e \in ToSet(entities) : Represents(j, e)
<1> DEFINE Is(s) == s = [n \in 0 .. Len(entities) |->
                            IF n = 0 THEN known ELSE MergeEntity(s[n - 1], entities[n])]
<1>1. Len(entities) \in Nat /\ DOMAIN entities = 1 .. Len(entities)
  BY LenProperties
<1>2. \E s : Is(s)
  <2>1. \E s : IsJoin(s, known, entities, Len(entities))
    BY <1>1, JoinExists
  <2> QED
    BY <2>1 DEF IsJoin
<1>3. Joined(known, entities) = (CHOOSE s : Is(s))[Len(entities)]
  BY DEF Joined
<1>4. PICK s : s = CHOOSE u : Is(u)
  OBVIOUS
<1>5. Is(s)
  <2> HIDE DEF Is
  <2> QED
    BY <1>2, <1>4
<1>6. \A n \in 0 .. Len(entities) :
          s[n] = IF n = 0 THEN known ELSE MergeEntity(s[n - 1], entities[n])
  BY <1>5
<1>7. s[Len(entities)] = Joined(known, entities)
  BY <1>3, <1>4
<1> HIDE DEF Is
<1> DEFINE S == {n \in 0 .. Len(entities) :
                    /\ KnownFits(s[n], T)
                    /\ \A d : Represents(known, d) => Represents(s[n], d)
                    /\ \A k \in 1 .. n : Represents(s[n], entities[k])}
<1>8. 0 \in S
  BY <1>1, <1>6
<1>9. ASSUME NEW n \in 1 .. Len(entities), n - 1 \in S PROVE n \in S
  <2>1. PICK e : e = entities[n]
    OBVIOUS
  <2>2. e \in BatchRow /\ Sourced(e) /\ e.parts \subseteq T
    BY <1>1, <2>1
  <2>3. PICK before : before = s[n - 1]
    OBVIOUS
  <2>4. /\ KnownFits(before, T)
        /\ \A d : Represents(known, d) => Represents(before, d)
        /\ \A k \in 1 .. n - 1 : Represents(before, entities[k])
    BY <1>9, <2>3
  <2>5. s[n] = MergeEntity(before, e)
    BY <1>1, <1>6, <2>1, <2>3
  <2>6. /\ KnownFits(s[n], T)
        /\ \A d : Represents(before, d) => Represents(s[n], d)
        /\ Represents(s[n], e)
    BY <2>2, <2>4, <2>5, EntityJoins
  <2>7. \A k \in 1 .. n : Represents(s[n], entities[k])
    BY <1>1, <2>1, <2>4, <2>6
  <2> QED
    BY <1>1, <2>4, <2>6, <2>7
<1>10. Len(entities) \in S
  <2> HIDE DEF S
  <2> QED
    BY <1>1, <1>8, <1>9, IntervalInduction
<1> QED
  BY <1>1, <1>7, <1>10 DEF ToSet

\* The same for the batches: s[n] is what is known after the first n.
IsMerge(s, results, N) ==
    s = [n \in 0 .. N |->
            IF n = 0 THEN <<>> ELSE Joined(s[n - 1], results[n].result.entities)]

\* There is such a run.
LEMMA MergeExists ==
    ASSUME NEW N \in Nat, NEW results
    PROVE  \E s : IsMerge(s, results, N)
<1> DEFINE S == {n \in 0 .. N : \E s : IsMerge(s, results, n)}
<1>1. 0 \in S
  <2> DEFINE first == [n \in 0 .. 0 |-> <<>>]
  <2>1. first = [n \in 0 .. 0 |->
                    IF n = 0 THEN <<>> ELSE Joined(first[n - 1], results[n].result.entities)]
    OBVIOUS
  <2>2. IsMerge(first, results, 0)
    BY <2>1 DEF IsMerge
  <2> QED
    BY <2>2
<1>2. ASSUME NEW n \in 1 .. N, n - 1 \in S PROVE n \in S
  <2>1. PICK s : IsMerge(s, results, n - 1)
    BY <1>2
  <2> DEFINE next == [k \in 0 .. n |->
                        IF k = n THEN Joined(s[n - 1], results[n].result.entities) ELSE s[k]]
  <2>2. \A k \in 0 .. n - 1 :
            s[k] = IF k = 0 THEN <<>> ELSE Joined(s[k - 1], results[k].result.entities)
    BY <2>1 DEF IsMerge
  <2>3. \A k \in 0 .. n :
            next[k] = IF k = 0 THEN <<>> ELSE Joined(next[k - 1], results[k].result.entities)
    BY <2>2
  <2>4. IsMerge(next, results, n)
    BY <2>3 DEF IsMerge
  <2> QED
    BY <2>4
<1>3. N \in S
  <2> HIDE DEF S
  <2> QED
    BY <1>1, <1>2, IntervalInduction
<1> QED
  BY <1>3

\* The merge of batches that fit: all they say is there.
LEMMA BatchesMerge ==
    ASSUME NEW T, BatchCount \in Nat,
           \A i \in Batches :
              LET entities == batch[i].result.entities
              IN  /\ entities \in Seq(BatchRow)
                  /\ \A n \in DOMAIN entities :
                        Sourced(entities[n]) /\ entities[n].parts \subseteq T
    PROVE  /\ KnownFits(Merged, T)
           /\ \A i \in Batches : \A e \in ToSet(batch[i].result.entities) :
                 Represents(Merged, e)
<1> DEFINE N == BatchCount
           Is(s) == s = [n \in 0 .. N |->
                            IF n = 0 THEN <<>> ELSE Joined(s[n - 1], batch[n].result.entities)]
<1>2. \E s : Is(s)
  BY MergeExists DEF IsMerge
<1>3. Merged = (CHOOSE s : Is(s))[N]
  BY DEF Merged
<1>4. PICK s : s = CHOOSE u : Is(u)
  OBVIOUS
<1>5. Is(s)
  <2> HIDE DEF Is
  <2> QED
    BY <1>2, <1>4
<1>6. \A n \in 0 .. N :
          s[n] = IF n = 0 THEN <<>> ELSE Joined(s[n - 1], batch[n].result.entities)
  BY <1>5
<1>7. s[N] = Merged
  BY <1>3, <1>4
<1> HIDE DEF Is
<1> DEFINE S == {n \in 0 .. N :
                    /\ KnownFits(s[n], T)
                    /\ \A i \in 1 .. n : \A e \in ToSet(batch[i].result.entities) :
                          Represents(s[n], e)}
<1>8. 0 \in S
  <2>1. s[0] = <<>>
    BY <1>6
  <2>2. KnownFits(<<>>, T)
    BY DEF KnownFits
  <2> QED
    BY <2>1, <2>2
<1>9. ASSUME NEW n \in 1 .. N, n - 1 \in S PROVE n \in S
  <2>1. PICK es : es = batch[n].result.entities
    OBVIOUS
  <2>2. /\ es \in Seq(BatchRow)
        /\ \A k \in DOMAIN es : Sourced(es[k]) /\ es[k].parts \subseteq T
    BY <2>1 DEF Batches
  <2>3. PICK before : before = s[n - 1]
    OBVIOUS
  <2>4. /\ KnownFits(before, T)
        /\ \A i \in 1 .. n - 1 : \A e \in ToSet(batch[i].result.entities) :
              Represents(before, e)
    BY <1>9, <2>3
  <2>5. s[n] = Joined(before, es)
    BY <1>6, <2>1, <2>3
  <2>6. /\ KnownFits(s[n], T)
        /\ \A d : Represents(before, d) => Represents(s[n], d)
        /\ \A e \in ToSet(es) : Represents(s[n], e)
    BY <2>2, <2>4, <2>5, EntitiesJoin
  <2>7. ASSUME NEW i \in 1 .. n, NEW e \in ToSet(batch[i].result.entities)
        PROVE  Represents(s[n], e)
    <3>1. CASE i = n
      BY <2>1, <2>6, <2>7, <3>1
    <3>2. CASE i # n
      <4>1. i \in 1 .. n - 1
        BY <3>2
      <4> QED
        BY <2>4, <2>6, <2>7, <4>1
    <3> QED
      BY <3>1, <3>2
  <2> QED
    BY <2>6, <2>7
<1>10. N \in S
  <2> HIDE DEF S
  <2>1. 0 .. N \subseteq S
    BY <1>8, <1>9, IntervalInduction
  <2> QED
    BY <2>1
<1> QED
  BY <1>7, <1>10 DEF Batches

-----------------------------------------------------------------------------
(* What is merged                                                          *)

\* A quotient of naturals is a natural.
LEMMA QuotientIsNat == ASSUME NEW a \in Nat, NEW b \in Nat \ {0} PROVE a \div b \in Nat
<1> QED
  OBVIOUS

\* The pages are numbered from 1 and cut into a number of batches.
LEMMA PagesAreNumbered ==
    ASSUME pages \in UNION {[1 .. n -> PageKinds] : n \in 1 .. MaxPages}
    PROVE  /\ BatchCount \in Nat
           /\ DOMAIN pages \subseteq Nat
           /\ \A i : PagesOf(i) \subseteq DOMAIN pages
<1>1. PICK n \in 1 .. MaxPages : pages \in [1 .. n -> PageKinds]
  OBVIOUS
<1>2. n \in Nat /\ pages \in Seq(PageKinds)
  BY <1>1, SeqDef, KnowledgeAssumption
<1>3. Len(pages) \in Nat
  BY <1>2, LenProperties
<1>4. PICK a : a = Len(pages) + PagesPerBatch - 1
  OBVIOUS
<1>5. a \in Nat /\ PagesPerBatch \in Nat \ {0}
  BY <1>3, <1>4, KnowledgeAssumption
<1>6. BatchCount \in Nat
  BY <1>4, <1>5, QuotientIsNat DEF BatchCount
<1> QED
  BY <1>1, <1>6 DEF PagesOf

\* What a valid answer holds, structured.
LEMMA StructuredFits ==
    ASSUME pages \in UNION {[1 .. n -> PageKinds] : n \in 1 .. MaxPages},
           NEW i \in Batches, NEW o \in Outputs, Valid(i, o)
    PROVE  LET es == Structured(i, o)
           IN  /\ es \in Seq(BatchRow)
               /\ \A n \in DOMAIN es :
                     /\ es[n].batches = {i}
                     /\ Sourced(es[n])
                     /\ es[n].parts \subseteq {d.id : d \in ToSet(es)}
<1> DEFINE es == Structured(i, o)
<1>1. /\ BatchCount \in Nat /\ DOMAIN pages \subseteq Nat
      /\ PagesOf(i) \subseteq DOMAIN pages /\ i \in Nat
  BY PagesAreNumbered DEF Batches
<1>2. /\ o \in Seq(ToSet(o)) /\ Len(o) \in Nat /\ DOMAIN o = 1 .. Len(o)
      /\ \A e \in ToSet(o) : e.kind \in Entities \/ e.cites = {}
  BY KnowledgeAssumption, LenProperties
<1>3. DOMAIN es = DOMAIN o /\ \A n \in DOMAIN o :
        es[n] = [id |-> ContentId(o[n]),
                 parts |-> {ContentId(p) : p \in PartsNamed(o, o[n])},
                 evidence |-> Evidence(o[n]), batches |-> {i}]
  BY DEF Structured
<1> HIDE DEF es
<1>4. \A n \in DOMAIN o : o[n] \in ToSet(o) /\ o[n] \in Listed
  BY DEF ToSet, Listed
<1>5. ASSUME NEW n \in DOMAIN o
      PROVE  \A x \in Evidence(o[n]) :
                /\ x \in Sources /\ x.page \in PagesOf(i)
                /\ x.derived = (x.page \in ImagePages)
  <2>1. PICK e : e = o[n]
    OBVIOUS
  <2>2. e \in ToSet(o) /\ e \in Listed
    BY <1>4, <2>1
  <2>3. ASSUME NEW c \in e.cites PROVE c.page \in PagesOf(i)
    BY <1>2, <2>2, <2>3 DEF Valid, WellCited
  <2>4. ASSUME NEW c \in e.cites
        PROVE  [page |-> c.page, quote |-> c.quote, derived |-> c.page \in ImagePages]
                  \in Sources
    <3>1. c.page \in Nat
      BY <1>1, <2>3
    <3>2. c.quote \in {k.quote : k \in UNION {d.cites : d \in Listed}}
      BY <2>2
    <3>3. (c.page \in ImagePages) \in BOOLEAN
      OBVIOUS
    <3> QED
      BY <3>1, <3>2, <3>3, Zenon DEF Sources
  <2>5. ASSUME NEW x \in Evidence(e)
        PROVE  /\ x \in Sources /\ x.page \in PagesOf(i)
               /\ x.derived = (x.page \in ImagePages)
    <3>1. PICK c \in e.cites :
            x = [page |-> c.page, quote |-> c.quote, derived |-> c.page \in ImagePages]
      BY DEF Evidence
    <3>2. x.page = c.page /\ x.derived = (c.page \in ImagePages)
      BY <3>1, Zenon
    <3> QED
      BY <2>3, <2>4, <3>1, <3>2
  <2> QED
    BY <2>1, <2>5
<1>6. ASSUME NEW n \in DOMAIN o
      PROVE  /\ es[n].id = ContentId(o[n]) /\ es[n].batches = {i}
             /\ es[n].evidence = Evidence(o[n])
             /\ es[n].parts = {ContentId(p) : p \in PartsNamed(o, o[n])}
  BY <1>3
<1>7. \A n \in DOMAIN o : {ContentId(p) : p \in PartsNamed(o, o[n])} \subseteq Ids
  BY DEF PartsNamed, Ids, Listed
<1>8. ASSUME NEW n \in DOMAIN o PROVE es[n] \in BatchRow
  <2>1. ContentId(o[n]) \in Ids
    BY <1>4 DEF Ids
  <2>2. Evidence(o[n]) \in SUBSET Sources
    BY <1>5
  <2>3. {i} \in SUBSET Nat
    BY <1>1
  <2> QED
    BY <1>3, <1>7, <2>1, <2>2, <2>3 DEF BatchRow
<1>9. es \in Seq(BatchRow)
  <2>1. es = [n \in 1 .. Len(o) |-> es[n]]
    BY <1>2 DEF es, Structured
  <2>2. es \in [1 .. Len(o) -> BatchRow]
    BY <1>2, <1>8, <2>1
  <2> QED
    BY <1>2, <2>2, SeqDef
<1>10. ASSUME NEW n \in DOMAIN o PROVE Sourced(es[n])
  BY <1>5, <1>6 DEF Sourced
<1>11. ASSUME NEW n \in DOMAIN o PROVE es[n].parts \subseteq {d.id : d \in ToSet(es)}
  <2>1. ASSUME NEW p \in PartsNamed(o, o[n]) PROVE ContentId(p) \in {d.id : d \in ToSet(es)}
    <3>1. PICK y \in DOMAIN o : p = o[y]
      BY <2>1 DEF PartsNamed, ToSet
    <3>2. es[y] \in ToSet(es) /\ es[y].id = ContentId(p)
      BY <1>3, <1>6, <3>1 DEF ToSet
    <3> QED
      BY <3>2
  <2> QED
    BY <1>6, <2>1
<1>12. QED
  BY <1>3, <1>6, <1>9, <1>10, <1>11 DEF es

\* Two variants of one fact are in one conflict.
LEMMA VariantsConflict ==
    ASSUME NEW known \in Seq(BatchRow), NEW m \in ToSet(known), NEW o \in ToSet(known),
           m.id # o.id, m.id[1] = o.id[1], m.id[2] = o.id[2], m.id[1] \in Entities
    PROVE  \E c \in Conflicts(known) : {m.id, o.id} \subseteq c
<1> DEFINE ids == {e.id : e \in ToSet(known)}
           variants(id) == {d \in ids : d[1] = id[1] /\ d[2] = id[2]}
           n == Len(known)
           f == [k \in 1 .. n |-> known[k].id]
<1>1. n \in Nat /\ DOMAIN known = 1 .. n
  BY LenProperties
<1>2. f \in [1 .. n -> ids] /\ \A d \in ids : \E k \in 1 .. n : f[k] = d
  BY <1>1 DEF ToSet
<1> HIDE DEF f, n
<1>3. f \in Surjection(1 .. n, ids)
  <2> HIDE DEF ids
  <2> QED
    BY <1>2 DEF Surjection
<1>4. IsFiniteSet(ids)
  <2> HIDE DEF ids
  <2>1. IsFiniteSet(1 .. n)
    BY <1>1, FS_Interval
  <2> QED
    BY <1>3, <2>1, FS_Surjection
<1>5. m.id \in variants(m.id) /\ o.id \in variants(m.id) /\ variants(m.id) \subseteq ids
  OBVIOUS
<1>6. PICK V : V = variants(m.id)
  OBVIOUS
<1>7. PICK a, b : a = m.id /\ b = o.id /\ a # b
  OBVIOUS
<1>8. a \in V /\ b \in V /\ V \in SUBSET ids
  BY <1>5, <1>6, <1>7
<1>9. Cardinality({a, b}) = 2
  <2>1. IsFiniteSet({a}) /\ Cardinality({a}) = 1
    BY FS_Singleton
  <2>2. PICK A : A = {a}
    OBVIOUS
  <2>3. Cardinality(A \cup {b}) = IF b \in A THEN Cardinality(A) ELSE Cardinality(A) + 1
    BY <2>1, <2>2, FS_AddElement
  <2>4. b \notin A /\ Cardinality(A) = 1
    BY <1>7, <2>1, <2>2
  <2>5. Cardinality(A \cup {b}) = 2
    BY <2>3, <2>4
  <2>6. A \cup {b} = {a, b}
    BY <2>2
  <2> QED
    BY <2>5, <2>6, Zenon
<1>10. Cardinality(V) > 1
  <2> HIDE DEF ids
  <2>1. IsFiniteSet(V) /\ {a, b} \in SUBSET V
    BY <1>4, <1>8, FS_Subset
  <2>2. Cardinality({a, b}) <= Cardinality(V) /\ Cardinality(V) \in Nat
    BY <2>1, FS_Subset, FS_CardinalityType
  <2> QED
    BY <1>9, <2>2
<1>11. variants(m.id) \in Conflicts(known)
  <2>1. Conflicts(known) = {variants(id) : id \in {d \in ids : d[1] \in Entities
                                              /\ Cardinality(variants(d)) > 1}}
    BY DEF Conflicts
  <2>2. m.id \in {d \in ids : d[1] \in Entities /\ Cardinality(variants(d)) > 1}
    BY <1>5, <1>6, <1>10
  <2> QED
    BY <2>1, <2>2
<1> QED
  BY <1>5, <1>11

\* The merge of valid answers of all batches can be traced.
LEMMA AllMerged ==
    ASSUME KnowledgeInv, \A i \in Batches : batch[i].status = "succeeded"
    PROVE  MergeFits(ToSet(Merged), Conflicts(Merged))
<1> DEFINE es(i) == batch[i].result.entities
           T == UNION {{d.id : d \in ToSet(es(i))} : i \in Batches}
<1>1. /\ BatchCount \in Nat /\ DOMAIN pages \subseteq Nat
      /\ \A i : PagesOf(i) \subseteq DOMAIN pages
  BY PagesAreNumbered DEF KnowledgeInv
<1>2. ASSUME NEW i \in Batches
      PROVE  /\ es(i) \in Seq(BatchRow)
             /\ \A n \in DOMAIN es(i) :
                   /\ es(i)[n].batches = {i}
                   /\ Sourced(es(i)[n])
                   /\ es(i)[n].parts \subseteq {d.id : d \in ToSet(es(i))}
  <2>1. PICK o \in Outputs : Valid(i, o) /\ batch[i].result = Completed(i, o)
    BY DEF KnowledgeInv, IsAnswer
  <2>2. es(i) = Structured(i, o)
    BY <2>1 DEF Completed
  <2> HIDE DEF es
  <2> QED
    BY <2>1, <2>2, StructuredFits DEF KnowledgeInv
<1>3. \A i \in Batches : \A n \in DOMAIN es(i) : es(i)[n].parts \subseteq T
  <2> HIDE DEF es
  <2> QED
    BY <1>2
<1>4. /\ KnownFits(Merged, T)
      /\ \A i \in Batches : \A e \in ToSet(es(i)) : Represents(Merged, e)
  <2>1. PICK U : U = T
    OBVIOUS
  <2>2. \A i \in Batches : \A n \in DOMAIN batch[i].result.entities :
              batch[i].result.entities[n].parts \subseteq U
    BY <1>3, <2>1
  <2> HIDE DEF T
  <2>3. /\ KnownFits(Merged, U)
        /\ \A i \in Batches : \A e \in ToSet(batch[i].result.entities) :
              Represents(Merged, e)
    BY <1>1, <1>2, <2>2, BatchesMerge
  <2> QED
    BY <2>1, <2>3
<1>5. PICK known : known = Merged
  OBVIOUS
<1>6. /\ known \in Seq(BatchRow)
      /\ \A x, y \in DOMAIN known : known[x].id = known[y].id => x = y
      /\ \A x \in DOMAIN known : Sourced(known[x]) /\ known[x].parts \subseteq T
  BY <1>4, <1>5 DEF KnownFits
<1>7. \A m \in ToSet(known) : \E x \in DOMAIN known : m = known[x]
  BY DEF ToSet
<1>8. \A x \in DOMAIN known : known[x] \in ToSet(known)
  BY DEF ToSet
<1>9. ASSUME NEW i \in Batches, NEW e \in ToSet(es(i))
      PROVE  \E m \in ToSet(known) :
                /\ m.id = e.id /\ i \in m.batches
                /\ \A x \in e.evidence : \E y \in m.evidence : SameSource(x, y)
  <2>1. PICK n \in DOMAIN es(i) : e = es(i)[n]
    BY <1>9 DEF ToSet
  <2>2. e.batches = {i}
    BY <1>2, <2>1
  <2>3. PICK x \in DOMAIN known : Covers(known[x], e)
    BY <1>4, <1>5, <1>9 DEF Represents
  <2> QED
    BY <1>8, <2>2, <2>3 DEF Covers
<1>10. T \subseteq {o.id : o \in ToSet(known)}
  <2>1. ASSUME NEW i \in Batches, NEW d \in ToSet(es(i))
        PROVE  d.id \in {o.id : o \in ToSet(known)}
    BY <1>9, <2>1
  <2> QED
    BY <2>1
<1>11. ASSUME NEW m \in ToSet(known), NEW x \in m.evidence
       PROVE  /\ \E i \in m.batches : x.page \in PagesOf(i)
              /\ pages[x.page] # "blank"
              /\ x.derived = (pages[x.page] = "scan")
  <2>1. Sourced(m)
    BY <1>6, <1>7
  <2>2. PICK i \in m.batches : x.page \in PagesOf(i)
    BY <1>11, <2>1 DEF Sourced
  <2>3. i \in Batches
    BY <2>1 DEF Sourced
  <2>4. pages[x.page] # "blank"
    BY <2>2, <2>3 DEF KnowledgeInv
  <2>5. x.page \in ImagePages <=> pages[x.page] = "scan"
    BY <1>1, <2>2 DEF ImagePages
  <2>6. x.derived = (x.page \in ImagePages)
    BY <1>11, <2>1 DEF Sourced
  <2>7. (x.page \in ImagePages) = (pages[x.page] = "scan")
    BY <2>5
  <2> QED
    BY <2>2, <2>4, <2>6, <2>7
<1>12. ASSUME NEW m \in ToSet(known) PROVE m.parts \subseteq {o.id : o \in ToSet(known)}
  BY <1>6, <1>7, <1>10
<1>13. ASSUME NEW m \in ToSet(known), NEW o \in ToSet(known), m # o,
              m.id[1] = o.id[1], m.id[2] = o.id[2], m.id[1] \in Entities
       PROVE  \E c \in Conflicts(known) : {m.id, o.id} \subseteq c
  <2>1. m.id # o.id
    BY <1>6, <1>7, <1>13
  <2> QED
    BY <1>6, <1>13, <2>1, VariantsConflict
<1>14. MergeFits(ToSet(known), Conflicts(known))
  BY <1>9, <1>11, <1>12, <1>13 DEF MergeFits
<1> QED
  BY <1>5, <1>14

-----------------------------------------------------------------------------
(* The steps                                                               *)

\* A valid answer is one while the sealed pages and the prompt stay.
LEMMA AnswersStay ==
    ASSUME UNCHANGED pages, prompt'.snapshot = prompt.snapshot,
           NEW k, NEW r, IsAnswer(k, r)
    PROVE  IsAnswer(k, r)'
<1>1. ImagePages' = ImagePages /\ PagesOf(k)' = PagesOf(k)
  BY DEF ImagePages, PagesOf
<1>2. ASSUME NEW e PROVE Evidence(e)' = Evidence(e)
  <2> DEFINE within(J) ==
        {[page |-> c.page, quote |-> c.quote, derived |-> c.page \in J] : c \in e.cites}
  <2>1. Evidence(e) = within(ImagePages)
    BY DEF Evidence
  <2>2. Evidence(e)' = within(ImagePages')
    BY DEF Evidence
  <2> HIDE DEF within
  <2> QED
    BY <1>1, <2>1, <2>2
<1>3. PICK o \in Outputs : Valid(k, o) /\ r = Completed(k, o)
  BY DEF IsAnswer
<1>4. Valid(k, o)'
  BY <1>1, <1>3 DEF Valid, WellCited, LocalIdsUnique, RefsResolve, PartsNamed
<1>5. Structured(k, o)' = Structured(k, o)
  BY <1>2 DEF Structured, ContentId, PartsNamed
<1>6. Completed(k, o)' = Completed(k, o)
  BY <1>1, <1>5 DEF Completed
<1> QED
  BY <1>3, <1>4, <1>6 DEF IsAnswer

\* A batch that records an answer has one.
LEMMA AnswerRecorded ==
    ASSUME UNCHANGED pages, prompt'.snapshot = prompt.snapshot,
           NEW k, NEW r, IsAnswer(k, r), batch'[k].result = r
    PROVE  IsAnswer(k, batch[k].result)'
<1>1. IsAnswer(k, r)'
  BY AnswersStay
<1> QED
  BY <1>1 DEF IsAnswer

\* The sealed pages, the confirmed prompt and the merge stay, and one batch
\* moves to what its status allows.
LEMMA BatchMoves ==
    ASSUME KnowledgeInv, NEW i \in Batches, NEW status, NEW answer,
           SetBatch(i, status, answer), UNCHANGED <<pages, prompt, merge>>,
           batch[i].status # "succeeded",
           status \in {"queued", "running", "needs_input", "succeeded",
                       "submission_unknown"},
           status \in {"running", "succeeded"} => \A p \in PagesOf(i) : pages[p] # "blank",
           status = "succeeded" => IsAnswer(i, answer)
    PROVE  KnowledgeInv'
<1>1. PICK b : b = [status |-> status, result |-> answer]
  OBVIOUS
<1>2. b.status = status /\ b.result = answer /\ b = [status |-> b.status, result |-> b.result]
  BY <1>1
<1>3. batch' = [batch EXCEPT ![i] = b]
  BY <1>1 DEF SetBatch
<1>4. DOMAIN batch' = Batches /\ \A k \in Batches : batch'[k] = IF k = i THEN b ELSE batch[k]
  BY <1>3 DEF KnowledgeInv
<1>5. Batches' = Batches /\ \A k : PagesOf(k)' = PagesOf(k)
  BY DEF Batches, BatchCount, PagesOf
<1>7. merge = NoResult
  BY DEF KnowledgeInv
<1>8. ASSUME NEW k \in Batches
      PROVE  /\ batch'[k] = [status |-> batch'[k].status, result |-> batch'[k].result]
             /\ batch'[k].status \in {"queued", "running", "needs_input",
                                     "succeeded", "submission_unknown"}
             /\ batch'[k].status \in {"running", "succeeded"} =>
                   \A p \in PagesOf(k) : pages[p] # "blank"
  BY <1>2, <1>4 DEF KnowledgeInv
<1>9. ASSUME NEW k \in Batches, batch'[k].status = "succeeded"
      PROVE  IsAnswer(k, batch[k].result)'
  <2>1. CASE k = i
    <3>1. batch'[k].result = answer /\ IsAnswer(k, answer)
      BY <1>2, <1>4, <1>9, <2>1
    <3> QED
      BY <3>1, AnswerRecorded
  <2>2. CASE k # i
    <3>1. batch'[k].result = batch[k].result /\ IsAnswer(k, batch[k].result)
      BY <1>4, <1>9, <2>2 DEF KnowledgeInv
    <3> QED
      BY <3>1, AnswerRecorded
  <2> QED
    BY <2>1, <2>2
<1> QED
  BY <1>4, <1>5, <1>7, <1>8, <1>9 DEF KnowledgeInv, NoResult

\* A batch is sent, and it is known that it holds no blank page.
LEMMA SendBatchKeeps ==
    ASSUME KnowledgeInv, NEW i \in Batches, SendBatch(i) PROVE KnowledgeInv'
<1> QED
  BY BatchMoves DEF SendBatch, Sendable

\* A batch that may not be sent waits for a person.
LEMMA ParkBatchKeeps ==
    ASSUME KnowledgeInv, NEW i \in Batches, ParkBatch(i) PROVE KnowledgeInv'
<1> QED
  BY BatchMoves DEF ParkBatch

\* A person buys the batch once more.
LEMMA ReauthorizeKeeps ==
    ASSUME KnowledgeInv, NEW i \in Batches, Reauthorize(i) PROVE KnowledgeInv'
<1> QED
  BY BatchMoves DEF Reauthorize

\* A answer that says it is complete is a valid answer.
LEMMA RecordKeeps ==
    ASSUME KnowledgeInv, NEW i \in Batches, NEW answer, Record(i, answer),
           answer.outcome = "completed" => IsAnswer(i, answer)
    PROVE  KnowledgeInv'
<1>1. PICK s : s = IF answer.outcome = "completed" THEN "succeeded" ELSE "needs_input"
  OBVIOUS
<1>2. /\ SetBatch(i, s, answer) /\ batch[i].status = "running"
      /\ UNCHANGED <<pages, prompt, merge>>
  BY <1>1 DEF Record
<1>3. \A p \in PagesOf(i) : pages[p] # "blank"
  BY <1>2 DEF KnowledgeInv
<1>4. s \in {"succeeded", "needs_input"} /\ (s = "succeeded" => IsAnswer(i, answer))
  BY <1>1
<1> QED
  BY <1>2, <1>3, <1>4, BatchMoves

\* What was not produced is not complete.
LEMMA NotProducedIsNot ==
    ASSUME NEW i, NEW outcome PROVE NotProduced(i, outcome).outcome = outcome
<1> QED
  BY DEF NotProduced

\* The document is validated and recorded.
LEMMA TakeOutputKeeps ==
    ASSUME KnowledgeInv, NEW i \in Batches, NEW o \in Outputs \cup {Malformed},
           TakeOutput(i, o)
    PROVE  KnowledgeInv'
<1>1. BatchResult(i, o).outcome = "completed" => IsAnswer(i, BatchResult(i, o))
  <2>1. CASE o = Malformed
    BY <2>1, NotProducedIsNot DEF BatchResult
  <2>2. CASE o # Malformed /\ Valid(i, o)
    BY <2>2 DEF BatchResult, IsAnswer
  <2>3. CASE o # Malformed /\ ~Valid(i, o)
    BY <2>3, NotProducedIsNot DEF BatchResult
  <2> QED
    BY <2>1, <2>2, <2>3
<1>2. PICK r : r = BatchResult(i, o)
  OBVIOUS
<1>3. Record(i, r)
  BY <1>2 DEF TakeOutput
<1> QED
  BY <1>1, <1>2, <1>3, RecordKeeps

\* A response without a document is recorded.
LEMMA TakeNoKnowledgeKeeps ==
    ASSUME KnowledgeInv, NEW i \in Batches, NEW o \in NoKnowledge, TakeNoKnowledge(i, o)
    PROVE  KnowledgeInv'
<1>1. NotProduced(i, o).outcome # "completed"
  BY NotProducedIsNot DEF NoKnowledge
<1>2. PICK r : r = NotProduced(i, o)
  OBVIOUS
<1>3. Record(i, r)
  BY <1>2 DEF TakeNoKnowledge
<1> QED
  BY <1>1, <1>2, <1>3, RecordKeeps

\* The request fails.
LEMMA TakeHttpFailureKeeps ==
    ASSUME KnowledgeInv, NEW i \in Batches, NEW f \in {"throttled", "refused", "lost"},
           TakeHttpFailure(i, f)
    PROVE  KnowledgeInv'
<1>1. PICK s \in {"queued", "needs_input", "submission_unknown"} : SetBatch(i, s, NoResult)
  BY DEF TakeHttpFailure, SetBatch
<1>2. batch[i].status = "running" /\ UNCHANGED <<pages, prompt, merge>>
  BY DEF TakeHttpFailure
<1> QED
  BY <1>1, <1>2, BatchMoves

\* Another build is deployed: what was confirmed stays.
LEMMA UpgradeKeeps ==
    ASSUME KnowledgeInv, NEW v \in Versions, Upgrade(v) PROVE KnowledgeInv'
<1>1. prompt' \in [snapshot : Versions, build : Versions] /\ prompt'.snapshot = prompt.snapshot
  BY DEF Upgrade, KnowledgeInv
<1>2. UNCHANGED <<pages, batch, merge>>
  BY DEF Upgrade
<1>3. Batches' = Batches /\ \A k : PagesOf(k)' = PagesOf(k)
  BY <1>2 DEF Batches, BatchCount, PagesOf
<1>5. ASSUME merge # NoResult PROVE MergeFits(ToSet(merge.entities), merge.conflicts)'
  BY <1>2, <1>3, <1>5 DEF KnowledgeInv, MergeFits
<1>6. \A k \in Batches : batch[k].status = "succeeded" => IsAnswer(k, batch[k].result)'
  BY <1>1, <1>2, AnswerRecorded DEF KnowledgeInv
<1> QED
  BY <1>1, <1>2, <1>3, <1>5, <1>6 DEF KnowledgeInv

\* The answers of all batches are merged.
LEMMA MergeBatchesKeeps == ASSUME KnowledgeInv, MergeBatches PROVE KnowledgeInv'
<1>1. UNCHANGED <<pages, prompt, batch>> /\ \A i \in Batches : batch[i].status = "succeeded"
  BY DEF MergeBatches
<1>2. MergeFits(ToSet(Merged), Conflicts(Merged))
  BY <1>1, AllMerged
<1>3. merge'.entities = Merged /\ merge'.conflicts = Conflicts(Merged)
  BY DEF MergeBatches
<1>4. Batches' = Batches /\ \A k : PagesOf(k)' = PagesOf(k)
  BY <1>1 DEF Batches, BatchCount, PagesOf
<1>6. PICK entities, conflicts : entities = Merged /\ conflicts = Conflicts(Merged)
  OBVIOUS
<1>7. MergeFits(ToSet(entities), conflicts)'
  BY <1>1, <1>2, <1>4, <1>6 DEF MergeFits, ToSet
<1>8. MergeFits(ToSet(merge.entities), merge.conflicts)'
  BY <1>3, <1>6, <1>7 DEF MergeFits, ToSet
<1>9. \A k \in Batches : batch[k].status = "succeeded" => IsAnswer(k, batch[k].result)'
  BY <1>1, AnswerRecorded DEF KnowledgeInv
<1> QED
  BY <1>1, <1>4, <1>8, <1>9 DEF KnowledgeInv

\* Every step keeps the invariant.
LEMMA KnowledgeStep == KnowledgeInv /\ [KnowledgeNext]_knowledgeVars => KnowledgeInv'
<1> SUFFICES ASSUME KnowledgeInv, [KnowledgeNext]_knowledgeVars PROVE KnowledgeInv'
  OBVIOUS
<1>1. CASE UNCHANGED knowledgeVars
  <2>1. Batches' = Batches /\ \A k : PagesOf(k)' = PagesOf(k)
    BY <1>1 DEF knowledgeVars, Batches, BatchCount, PagesOf
  <2>3. \A k \in Batches : batch[k].status = "succeeded" => IsAnswer(k, batch[k].result)'
    BY <1>1, AnswerRecorded DEF KnowledgeInv, knowledgeVars
  <2>4. ASSUME merge # NoResult PROVE MergeFits(ToSet(merge.entities), merge.conflicts)'
    BY <1>1, <2>1, <2>4 DEF knowledgeVars, KnowledgeInv, MergeFits
  <2> QED
    BY <1>1, <2>1, <2>3, <2>4 DEF knowledgeVars, KnowledgeInv
<1>2. CASE KnowledgeNext
  BY <1>2, SendBatchKeeps, ParkBatchKeeps, ReauthorizeKeeps, TakeOutputKeeps,
     TakeNoKnowledgeKeeps, TakeHttpFailureKeeps, UpgradeKeeps, MergeBatchesKeeps
     DEF KnowledgeNext
<1> QED
  BY <1>1, <1>2

\* Nothing is sent at first.
LEMMA KnowledgeBegins == KnowledgeInit => KnowledgeInv
<1> SUFFICES ASSUME KnowledgeInit PROVE KnowledgeInv
  OBVIOUS
<1>1. prompt \in [snapshot : Versions, build : Versions]
  BY DEF KnowledgeInit
<1>2. PICK q : q = [status |-> "queued", result |-> NoResult]
  OBVIOUS
<1>3. batch = [i \in Batches |-> q]
  BY <1>2 DEF KnowledgeInit
<1>4. q.status = "queued" /\ q = [status |-> q.status, result |-> q.result]
  BY <1>2
<1> QED
  BY <1>1, <1>3, <1>4 DEF KnowledgeInit, KnowledgeInv

\* The sealed pages, the prompt versions and the batches keep their types,
\* and a batch that succeeded has recorded a answer.
THEOREM KnowledgeTyped == KnowledgeSpec => []KnowledgeTypeOK
<1>1. KnowledgeInv => KnowledgeTypeOK
  <2> SUFFICES ASSUME KnowledgeInv PROVE KnowledgeTypeOK
    OBVIOUS
  <2>1. ASSUME NEW i \in Batches, batch[i].status = "succeeded"
        PROVE  batch[i].result # NoResult
    <3>1. PICK o \in Outputs : batch[i].result = Completed(i, o)
      BY <2>1 DEF KnowledgeInv, IsAnswer
    <3>2. batch[i].result.outcome = "completed" /\ NoResult.outcome = "none"
      BY <3>1 DEF Completed, NoResult
    <3> QED
      BY <3>2
  <2> QED
    BY <2>1 DEF KnowledgeInv, KnowledgeTypeOK
<1> QED
  BY <1>1, KnowledgeBegins, KnowledgeStep, PTL DEF KnowledgeSpec

\* Whatever batches were refused, lost, bought again or answered under
\* another build, merged knowledge has every fact of every answer with all
\* its sources, each a page its own batch sent, and no variants of a fact
\* stand without a conflict (merge_batches, validate_batch_output).
THEOREM MergedIsTraceable == KnowledgeSpec => []MergedKnowledgeIsTraceable
<1>1. KnowledgeInv => MergedKnowledgeIsTraceable
  BY DEF KnowledgeInv, MergeFits, MergedKnowledgeIsTraceable
<1> QED
  BY <1>1, KnowledgeBegins, KnowledgeStep, PTL DEF KnowledgeSpec

-----------------------------------------------------------------------------
(* What is promised to pay.                                                *)

\* Powers up to the greatest that is needed.
TopPower == Scale + MaxDigits

IsPower(s, N) ==
    s = [n \in 0 .. N |-> IF n = 0 THEN 1 ELSE Radix * s[n - 1]]

\* There are such powers.
LEMMA PowerExists == ASSUME NEW N \in Nat PROVE \E s : IsPower(s, N)
<1> DEFINE S == {n \in 0 .. N : \E s : IsPower(s, n)}
<1>1. 0 \in S
  <2> DEFINE first == [n \in 0 .. 0 |-> 1]
  <2>1. first = [n \in 0 .. 0 |-> IF n = 0 THEN 1 ELSE Radix * first[n - 1]]
    OBVIOUS
  <2>2. IsPower(first, 0)
    BY <2>1 DEF IsPower
  <2> QED
    BY <2>2
<1>2. ASSUME NEW n \in 1 .. N, n - 1 \in S PROVE n \in S
  <2>1. PICK s : IsPower(s, n - 1)
    BY <1>2
  <2> DEFINE next == [k \in 0 .. n |-> IF k = n THEN Radix * s[n - 1] ELSE s[k]]
  <2>2. \A k \in 0 .. n - 1 : s[k] = IF k = 0 THEN 1 ELSE Radix * s[k - 1]
    BY <2>1 DEF IsPower
  <2>3. \A k \in 0 .. n : next[k] = IF k = 0 THEN 1 ELSE Radix * next[k - 1]
    BY <2>2
  <2>4. IsPower(next, n)
    BY <2>3 DEF IsPower
  <2> QED
    BY <2>4
<1>3. N \in S
  <2> HIDE DEF S
  <2> QED
    BY <1>1, <1>2, IntervalInduction
<1> QED
  BY <1>3

\* A power is the radix times the power before it.
LEMMA PowerIs ==
    /\ TopPower \in Nat
    /\ \A n \in 0 .. TopPower : Power[n] = IF n = 0 THEN 1 ELSE Radix * Power[n - 1]
<1>1. TopPower \in Nat
  BY PricingAssumption DEF TopPower
<1> DEFINE Is(s) == s = [n \in 0 .. Scale + MaxDigits |->
                            IF n = 0 THEN 1 ELSE Radix * s[n - 1]]
<1>2. \E s : Is(s)
  <2>1. \E s : IsPower(s, TopPower)
    BY <1>1, PowerExists
  <2> QED
    BY <2>1 DEF IsPower, TopPower
<1>3. Power = CHOOSE s : Is(s)
  BY DEF Power
<1>4. Is(Power)
  <2> HIDE DEF Is
  <2> QED
    BY <1>2, <1>3
<1> QED
  BY <1>1, <1>4 DEF TopPower

\* Powers of the radix are positive.
LEMMA PowerIsPositive == \A n \in 0 .. TopPower : Power[n] \in Nat \ {0}
<1> DEFINE S == {n \in 0 .. TopPower : Power[n] \in Nat \ {0}}
<1>1. 0 \in S
  BY PowerIs
<1>2. ASSUME NEW n \in 1 .. TopPower, n - 1 \in S PROVE n \in S
  <2>1. PICK p \in Nat \ {0} : p = Power[n - 1]
    BY <1>2
  <2>2. Power[n] = Radix * p
    BY <2>1, PowerIs
  <2>3. Radix * p \in Nat /\ Radix * p > 0
    BY PricingAssumption
  <2> QED
    BY <2>2, <2>3, PowerIs
<1>3. 0 .. TopPower \subseteq S
  <2> HIDE DEF S
  <2> QED
    BY <1>1, <1>2, PowerIs, IntervalInduction
<1> QED
  BY <1>3

\* The product of two powers is the power of the sum.
LEMMA PowerAdds ==
    ASSUME NEW a \in Nat, NEW b \in Nat, a + b <= TopPower
    PROVE  Power[a + b] = Power[a] * Power[b]
<1> DEFINE S == {n \in 0 .. b : Power[a + n] = Power[a] * Power[n]}
<1>1. 0 \in S
  <2>1. Power[0] = 1 /\ Power[a + 0] = Power[a] /\ Power[a] \in Nat
    BY PowerIs, PowerIsPositive
  <2> QED
    BY <2>1
<1>2. ASSUME NEW n \in 1 .. b, n - 1 \in S PROVE n \in S
  <2>1. PICK x \in Nat, y \in Nat : x = Power[a] /\ y = Power[n - 1]
    BY PowerIs, PowerIsPositive
  <2>2. Power[a + (n - 1)] = x * y
    BY <1>2, <2>1
  <2>3. a + n \in 0 .. TopPower /\ n \in 0 .. TopPower /\ a + n # 0 /\ (a + n) - 1 = a + (n - 1)
    BY PowerIs
  <2>4. Power[a + n] = Radix * (x * y) /\ Power[n] = Radix * y
    BY <2>1, <2>2, <2>3, PowerIs
  <2>5. Radix * (x * y) = x * (Radix * y)
    BY PricingAssumption
  <2> QED
    BY <2>1, <2>4, <2>5
<1>3. b \in S
  <2> HIDE DEF S
  <2> QED
    BY <1>1, <1>2, IntervalInduction
<1> QED
  BY <1>3

\* A quotient, and what is left.
LEMMA Quotient ==
    ASSUME NEW a \in Nat, NEW b \in Nat \ {0}
    PROVE  /\ a \div b \in Nat
           /\ (a \div b) * b <= a
           /\ a < (a \div b) * b + b
<1> QED
  OBVIOUS

\* What is divided up is covered, and no more than is needed.
LEMMA CeilCovers ==
    ASSUME NEW a \in Nat, NEW b \in Nat \ {0}
    PROVE  /\ CeilDiv(a, b) \in Nat
           /\ a <= CeilDiv(a, b) * b
           /\ CeilDiv(a, b) * b < a + b
<1>1. PICK x : x = a + b - 1
  OBVIOUS
<1>2. x \in Nat
  BY <1>1
<1>3. PICK q : q = x \div b
  OBVIOUS
<1>4. q \in Nat /\ q * b <= x /\ x < q * b + b
  BY <1>2, <1>3, Quotient
<1>5. CeilDiv(a, b) = q
  BY <1>1, <1>3 DEF CeilDiv
<1>6. q * b \in Nat
  BY <1>4
<1> QED
  BY <1>1, <1>4, <1>5, <1>6

\* More is divided into no less.
LEMMA CeilGrows ==
    ASSUME NEW a \in Nat, NEW c \in Nat, a <= c, NEW b \in Nat \ {0}
    PROVE  CeilDiv(a, b) <= CeilDiv(c, b)
<1>1. PICK q \in Nat, r \in Nat : q = CeilDiv(a, b) /\ r = CeilDiv(c, b)
  BY CeilCovers
<1>2. q * b < a + b /\ c <= r * b
  BY <1>1, CeilCovers
<1>3. ASSUME r < q PROVE FALSE
  <2>1. (r + 1) * b <= q * b
    BY <1>3
  <2>2. (r + 1) * b = r * b + b
    OBVIOUS
  <2>3. r * b \in Nat /\ q * b \in Nat
    OBVIOUS
  <2> QED
    BY <1>2, <2>1, <2>2, <2>3
<1> QED
  BY <1>1, <1>3

\* A literal becomes at least what it says.
LEMMA PriceCovers ==
    ASSUME NEW l \in Literals
    PROVE  /\ PriceToMinor(l) \in Nat
           /\ Exact(l) \in Nat
           /\ Exact(l) <= PriceToMinor(l) * Power[MaxDigits]
<1>1. PICK w \in Nat, d \in 0 .. MaxDigits, f \in Nat :
        w = l.whole /\ d = l.digits /\ f = l.frac
  BY PricingAssumption
<1>2. Scale \in Nat /\ MaxDigits \in Nat /\ TopPower = Scale + MaxDigits
  BY PricingAssumption DEF TopPower
<1>3. PICK s \in Nat \ {0}, m \in Nat \ {0}, pd \in Nat \ {0}, rest \in Nat \ {0} :
        s = Power[Scale] /\ m = Power[MaxDigits] /\ pd = Power[d] /\ rest = Power[Scale + MaxDigits - d]
  BY <1>2, PowerIsPositive
<1>4. Exact(l) = (w * pd + f) * rest
  BY <1>1, <1>3 DEF Exact
<1>5. pd * rest = s * m
  <2>1. Power[d + (Scale + MaxDigits - d)] = pd * rest
    BY <1>2, <1>3, PowerAdds
  <2>2. Power[Scale + MaxDigits] = s * m
    BY <1>2, <1>3, PowerAdds
  <2>3. d + (Scale + MaxDigits - d) = Scale + MaxDigits
    BY <1>2
  <2> QED
    BY <2>1, <2>2, <2>3
<1>6. Exact(l) = (w * s) * m + f * rest
  <2>1. (w * pd + f) * rest = w * (pd * rest) + f * rest
    OBVIOUS
  <2>2. w * (s * m) = (w * s) * m
    OBVIOUS
  <2> QED
    BY <1>4, <1>5, <2>1, <2>2
<1>7. Exact(l) \in Nat
  BY <1>4
<1>8. CASE d <= Scale
  <2>1. PICK p \in Nat \ {0} : p = Power[Scale - d]
    BY <1>2, <1>8, PowerIsPositive
  <2>2. PriceToMinor(l) = w * s + f * p
    BY <1>1, <1>3, <1>8, <2>1 DEF PriceToMinor, Whole
  <2>3. rest = p * m
    <3>1. Power[(Scale - d) + MaxDigits] = p * m
      BY <1>2, <1>3, <1>8, <2>1, PowerAdds
    <3>2. (Scale - d) + MaxDigits = Scale + MaxDigits - d
      BY <1>2
    <3> QED
      BY <1>3, <3>1, <3>2
  <2>4. (w * s + f * p) * m = (w * s) * m + f * (p * m)
    OBVIOUS
  <2>5. w * s + f * p \in Nat
    OBVIOUS
  <2> QED
    BY <1>3, <1>6, <1>7, <2>2, <2>3, <2>4, <2>5
<1>9. CASE d > Scale
  <2>1. PICK p \in Nat \ {0} : p = Power[d - Scale]
    BY <1>2, <1>9, PowerIsPositive
  <2>2. PICK q \in Nat : q = CeilDiv(f, p) /\ f <= q * p
    BY CeilCovers
  <2>3. PriceToMinor(l) = w * s + q
    BY <1>1, <1>2, <1>3, <1>9, <2>1, <2>2 DEF PriceToMinor, Whole
  <2>4. p * rest = m
    <3>1. Power[(d - Scale) + (Scale + MaxDigits - d)] = p * rest
      BY <1>2, <1>3, <1>9, <2>1, PowerAdds
    <3>2. (d - Scale) + (Scale + MaxDigits - d) = MaxDigits
      BY <1>2
    <3> QED
      BY <1>3, <3>1, <3>2
  <2>5. f * rest <= (q * p) * rest
    <3>1. PICK x \in Nat : x = q * p
      OBVIOUS
    <3>2. f <= x
      BY <2>2, <3>1
    <3>3. f * rest <= x * rest
      BY <3>2
    <3> QED
      BY <3>1, <3>3
  <2>6. (q * p) * rest = q * (p * rest)
    OBVIOUS
  <2>7. f * rest <= q * m
    BY <2>4, <2>5, <2>6
  <2>8. (w * s + q) * m = (w * s) * m + q * m
    OBVIOUS
  <2>9. (w * s) * m \in Nat /\ f * rest \in Nat /\ q * m \in Nat /\ w * s + q \in Nat
    OBVIOUS
  <2> QED
    BY <1>3, <1>6, <1>7, <2>3, <2>7, <2>8, <2>9
<1> QED
  BY <1>2, <1>8, <1>9

-----------------------------------------------------------------------------
(* Sums and products                                                       *)

\* The sum of a sequence adds up its numbers.
LEMMA SumOfIs ==
    ASSUME NEW c, NEW N \in Nat, Len(c) = N
    PROVE  \E s : IsSum(s, c, N) /\ SumOf(c) = s[N]
<1> DEFINE Is(s) == s = [n \in 0 .. Len(c) |-> IF n = 0 THEN 0 ELSE s[n - 1] + c[n]]
<1>1. \E s : Is(s)
  <2>1. \E s : IsSum(s, c, Len(c))
    BY SumExists, Len(c) \in Nat
  <2> QED
    BY <2>1 DEF IsSum
<1>2. SumOf(c) = (CHOOSE s : Is(s))[Len(c)]
  BY DEF SumOf
<1>3. PICK s : s = CHOOSE u : Is(u)
  OBVIOUS
<1>4. Is(s)
  <2> HIDE DEF Is
  <2> QED
    BY <1>1, <1>3
<1>5. IsSum(s, c, Len(c))
  BY <1>4 DEF IsSum
<1> QED
  BY <1>2, <1>3, <1>5

\* What adds less adds up to less.
LEMMA SumsGrow ==
    ASSUME NEW N \in Nat, NEW c, NEW s, IsSum(s, c, N), NEW d, NEW u, IsSum(u, d, N),
           \A n \in 1 .. N : c[n] \in Nat /\ d[n] \in Nat /\ c[n] <= d[n]
    PROVE  s[N] \in Nat /\ u[N] \in Nat /\ s[N] <= u[N]
<1> DEFINE S == {n \in 0 .. N : s[n] \in Nat /\ u[n] \in Nat /\ s[n] <= u[n]}
<1>1. \A n \in 0 .. N : /\ s[n] = IF n = 0 THEN 0 ELSE s[n - 1] + c[n]
                        /\ u[n] = IF n = 0 THEN 0 ELSE u[n - 1] + d[n]
  BY DEF IsSum
<1>2. 0 \in S
  BY <1>1
<1>3. ASSUME NEW n \in 1 .. N, n - 1 \in S PROVE n \in S
  <2>1. PICK x \in Nat, y \in Nat : x = s[n - 1] /\ y = u[n - 1] /\ x <= y
    BY <1>3
  <2>2. s[n] = x + c[n] /\ u[n] = y + d[n]
    BY <1>1, <2>1
  <2> QED
    BY <2>1, <2>2
<1>4. N \in S
  <2> HIDE DEF S
  <2> QED
    BY <1>2, <1>3, IntervalInduction
<1> QED
  BY <1>4

\* One, two and three lines.
LEMMA SumOfLines ==
    /\ \A a \in Nat : SumOf(<<a>>) = a
    /\ \A a, b \in Nat : SumOf(<<a, b>>) = a + b
    /\ \A a, b, c \in Nat : SumOf(<<a, b, c>>) = a + b + c
<1>1. ASSUME NEW a \in Nat PROVE SumOf(<<a>>) = a
  <2>1. PICK v : v = <<a>>
    OBVIOUS
  <2>2. Len(v) = 1 /\ v[1] = a
    BY <2>1
  <2>3. PICK s : IsSum(s, v, 1) /\ SumOf(v) = s[1]
    BY <2>2, SumOfIs
  <2>4. s[0] = 0 /\ s[1] = s[0] + v[1]
    BY <2>3 DEF IsSum
  <2> QED
    BY <2>1, <2>2, <2>3, <2>4
<1>2. ASSUME NEW a \in Nat, NEW b \in Nat PROVE SumOf(<<a, b>>) = a + b
  <2>1. PICK v : v = <<a, b>>
    OBVIOUS
  <2>2. Len(v) = 2 /\ v[1] = a /\ v[2] = b
    BY <2>1
  <2>3. PICK s : IsSum(s, v, 2) /\ SumOf(v) = s[2]
    BY <2>2, SumOfIs
  <2>4. s[0] = 0 /\ s[1] = s[0] + v[1] /\ s[2] = s[1] + v[2]
    BY <2>3 DEF IsSum
  <2> QED
    BY <2>1, <2>2, <2>3, <2>4
<1>3. ASSUME NEW a \in Nat, NEW b \in Nat, NEW c \in Nat
      PROVE  SumOf(<<a, b, c>>) = a + b + c
  <2>1. PICK v : v = <<a, b, c>>
    OBVIOUS
  <2>2. Len(v) = 3 /\ v[1] = a /\ v[2] = b /\ v[3] = c
    BY <2>1
  <2>3. PICK s : IsSum(s, v, 3) /\ SumOf(v) = s[3]
    BY <2>2, SumOfIs
  <2>4. s[0] = 0 /\ s[1] = s[0] + v[1] /\ s[2] = s[1] + v[2] /\ s[3] = s[2] + v[3]
    BY <2>3 DEF IsSum
  <2> QED
    BY <2>1, <2>2, <2>3, <2>4
<1> QED
  BY <1>1, <1>2, <1>3

\* Two lines, one after the other.
LEMMA TwoLines == ASSUME NEW a \in Nat, NEW b \in Nat PROVE <<a>> \o <<b>> = <<a, b>>
<1>1. PICK x, y, v : x = <<a>> /\ y = <<b>> /\ v = <<a, b>>
  OBVIOUS
<1>2. /\ x \in Seq(Nat) /\ y \in Seq(Nat) /\ v \in Seq(Nat)
      /\ Len(x) = 1 /\ Len(y) = 1 /\ Len(v) = 2
      /\ x[1] = a /\ y[1] = b /\ v[1] = a /\ v[2] = b
  BY <1>1
<1>3. PICK w : w = x \o y
  OBVIOUS
<1>4. /\ w \in Seq(Nat) /\ Len(w) = Len(x) + Len(y)
      /\ \A i \in 1 .. Len(x) + Len(y) :
            w[i] = IF i <= Len(x) THEN x[i] ELSE y[i - Len(x)]
  BY <1>2, <1>3, ConcatProperties
<1>5. Len(w) = 2 /\ w[1] = a /\ w[2] = b
  BY <1>2, <1>4
<1>6. \A i \in 1 .. Len(w) : w[i] = v[i]
  BY <1>2, <1>5
<1>7. w = v
  BY <1>2, <1>4, <1>5, <1>6, SeqEqual
<1> QED
  BY <1>1, <1>3, <1>7

\* Products grow with their factors.
LEMMA ProductsGrow ==
    ASSUME NEW a \in Nat, NEW b \in Nat, a <= b, NEW c \in Nat
    PROVE  a * c \in Nat /\ b * c \in Nat /\ a * c <= b * c
<1> QED
  OBVIOUS

-----------------------------------------------------------------------------
(* The tokens of a plan                                                    *)

\* What the plan of the sealed pages adds up to.
PlanFits ==
    /\ InputUpper \in Nat /\ InputExpected \in Nat /\ InputExpected <= InputUpper
    /\ OutputUpper \in Nat /\ OutputExpected \in Nat /\ OutputExpected <= OutputUpper
    /\ Images \in Nat

SealedFits == sealed \in UNION {[1 .. n -> PageBytes] : n \in 1 .. MaxQuoted}

\* A page is expected to take no more tokens than it may.
LEMMA PageTokens ==
    ASSUME NEW bytes \in PageBytes
    PROVE  /\ UpperTokens(bytes) \in Nat /\ ExpectedTokens(bytes) \in Nat
           /\ ExpectedTokens(bytes) <= UpperTokens(bytes)
<1>1. bytes \in Nat
  BY PricingAssumption
<1>2. CASE bytes > 0
  <2>1. PICK b \in Nat \ {0} : b = BytesPerToken
    BY PricingAssumption
  <2>2. PICK q \in Nat : q = CeilDiv(bytes, b) /\ q * b < bytes + b
    BY <1>1, <2>1, CeilCovers
  <2>3. ASSUME q > bytes PROVE FALSE
    <3>1. (bytes + 1) * b <= q * b
      BY <1>1, <2>3
    <3>2. (bytes + 1) * b = bytes * b + b
      BY <1>1
    <3>3. bytes <= bytes * b
      BY <1>1
    <3>4. bytes * b \in Nat /\ q * b \in Nat
      BY <1>1
    <3> QED
      BY <1>1, <2>2, <3>1, <3>2, <3>3, <3>4
  <2> QED
    BY <1>1, <1>2, <2>1, <2>2, <2>3 DEF UpperTokens, ExpectedTokens
<1>3. CASE bytes = 0
  BY <1>3, PricingAssumption DEF UpperTokens, ExpectedTokens
<1> QED
  BY <1>1, <1>2, <1>3

\* The whole plan is expected to take no more than it may.
LEMMA PlanHolds == ASSUME SealedFits PROVE PlanFits
<1>1. PICK n \in 1 .. MaxQuoted : sealed \in [1 .. n -> PageBytes]
  BY DEF SealedFits
<1>2. n \in Nat /\ sealed \in Seq(PageBytes) /\ Len(sealed) = n /\ DOMAIN sealed = 1 .. n
  <2>1. n \in Nat
    BY PricingAssumption
  <2>2. sealed \in Seq(PageBytes) /\ DOMAIN sealed = 1 .. n
    BY <1>1, <2>1, SeqDef
  <2>3. Len(sealed) \in Nat /\ DOMAIN sealed = 1 .. Len(sealed)
    BY <2>2, LenProperties
  <2> QED
    BY <2>1, <2>2, <2>3
<1>3. PICK up, ex : /\ up = [p \in DOMAIN sealed |-> UpperTokens(sealed[p])]
                    /\ ex = [p \in DOMAIN sealed |-> ExpectedTokens(sealed[p])]
  OBVIOUS
<1>4. \A p \in 1 .. n : /\ ex[p] \in Nat /\ up[p] \in Nat /\ ex[p] <= up[p]
  <2>1. \A p \in 1 .. n : sealed[p] \in PageBytes
    BY <1>1
  <2>2. \A p \in 1 .. n : up[p] = UpperTokens(sealed[p]) /\ ex[p] = ExpectedTokens(sealed[p])
    BY <1>2, <1>3
  <2> QED
    BY <2>1, <2>2, PageTokens
<1>5. Len(up) = n /\ Len(ex) = n
  <2>1. up \in [1 .. n -> Nat] /\ ex \in [1 .. n -> Nat]
    BY <1>2, <1>3, <1>4
  <2>2. up \in Seq(Nat) /\ ex \in Seq(Nat) /\ DOMAIN up = 1 .. n /\ DOMAIN ex = 1 .. n
    BY <1>2, <2>1, SeqDef
  <2>3. /\ Len(up) \in Nat /\ DOMAIN up = 1 .. Len(up)
        /\ Len(ex) \in Nat /\ DOMAIN ex = 1 .. Len(ex)
    BY <2>2, LenProperties
  <2> QED
    BY <1>2, <2>2, <2>3
<1>6. SumOf(ex) \in Nat /\ SumOf(up) \in Nat /\ SumOf(ex) <= SumOf(up)
  <2>1. PICK s : IsSum(s, ex, n) /\ SumOf(ex) = s[n]
    BY <1>2, <1>5, SumOfIs
  <2>2. PICK u : IsSum(u, up, n) /\ SumOf(up) = u[n]
    BY <1>2, <1>5, SumOfIs
  <2>3. s[n] \in Nat /\ u[n] \in Nat /\ s[n] <= u[n]
    BY <1>2, <1>4, <2>1, <2>2, SumsGrow
  <2> QED
    BY <2>1, <2>2, <2>3
<1>7. PICK k \in Nat : k = QuoteBatches /\ n <= k * BatchPages
  <2>1. BatchPages \in Nat \ {0}
    BY PricingAssumption
  <2> QED
    BY <1>2, <2>1, CeilCovers DEF QuoteBatches
<1>8. PICK ou \in Nat, oe \in Nat : ou = Overhead.upper /\ oe = Overhead.expected /\ oe <= ou
  BY PricingAssumption
<1>9. k * oe \in Nat /\ k * ou \in Nat /\ k * oe <= k * ou
  BY <1>8
<1>10. InputUpper \in Nat /\ InputExpected \in Nat /\ InputExpected <= InputUpper
  <2>1. InputUpper = k * ou + SumOf(up) /\ InputExpected = k * oe + SumOf(ex)
    BY <1>3, <1>7, <1>8 DEF InputUpper, InputExpected
  <2> QED
    BY <1>6, <1>9, <2>1
<1>11. OutputUpper \in Nat /\ OutputExpected \in Nat /\ OutputExpected <= OutputUpper
  <2>1. PICK po \in Nat, bp \in Nat, mo \in Nat :
          po = PageOutput /\ bp = BatchPages /\ mo = MaxOutput /\ po * bp <= mo
    BY PricingAssumption
  <2>2. OutputUpper = k * mo /\ OutputExpected = n * po
    BY <1>2, <1>7, <2>1 DEF OutputUpper, OutputExpected
  <2>3. PICK x \in Nat : x = k * bp
    OBVIOUS
  <2>4. n * po <= x * po
    BY <1>2, <1>7, <2>1, <2>3, ProductsGrow
  <2>5. x * po = k * (po * bp)
    BY <2>3
  <2>6. PICK y \in Nat : y = po * bp
    OBVIOUS
  <2>7. y * k <= mo * k
    BY <2>1, <2>6, ProductsGrow
  <2>8. n * po \in Nat /\ x * po \in Nat /\ k * mo \in Nat /\ y * k = k * y /\ mo * k = k * mo
    BY <1>2
  <2> QED
    BY <2>2, <2>4, <2>5, <2>6, <2>7, <2>8
<1>12. Images \in Nat
  <2>1. IsFiniteSet(DOMAIN sealed)
    BY <1>2, FS_Interval
  <2>2. IsFiniteSet({p \in DOMAIN sealed : sealed[p] = 0})
    BY <2>1, FS_Subset
  <2> QED
    BY <2>2, FS_CardinalityType DEF Images
<1> QED
  BY <1>10, <1>11, <1>12 DEF PlanFits

-----------------------------------------------------------------------------
(* The quote                                                               *)

\* The catalog was read whole, from literals that are accepted.
CatalogFits ==
    /\ catalog.literal \in [Prices -> Literals \cup {Invalid}]
    /\ Accepted(catalog.literal)
    /\ catalog.minor = [p \in {q \in Prices : catalog.literal[q] # Invalid} |->
                           PriceToMinor(catalog.literal[p])]

\* The quote is what the plan and the catalog say, and it covers the bill.
QuoteFits ==
    /\ quoted.tripo.upper \in 0 .. MaxMinor
    /\ quoted.manual.upper \in 0 .. MaxMinor
    /\ QuoteCoversTheBill

\* There is a quote only after the catalog was read.
PricingInv ==
    /\ SealedFits
    /\ catalog.minor = <<>> \/ CatalogFits
    /\ quoted # NoQuote => CatalogFits /\ QuoteFits

\* A price of the catalog is at least what its literal says.
LEMMA CatalogCovers ==
    ASSUME CatalogFits, NEW p \in DOMAIN catalog.minor
    PROVE  /\ catalog.minor[p] \in 0 .. MaxMinor
           /\ Exact(catalog.literal[p]) \in Nat
           /\ Exact(catalog.literal[p]) <= catalog.minor[p] * Power[MaxDigits]
<1>1. p \in Prices /\ catalog.literal[p] \in Literals
      /\ catalog.minor[p] = PriceToMinor(catalog.literal[p])
  BY DEF CatalogFits
<1>2. PriceToMinor(catalog.literal[p]) <= MaxMinor
  BY <1>1 DEF CatalogFits, Accepted, Fits
<1> QED
  BY <1>1, <1>2, PriceCovers, PricingAssumption

\* The catalog has a price for what every quote buys.
LEMMA CatalogHas ==
    ASSUME CatalogFits
    PROVE  {"preset", "input", "output", "image"} \subseteq DOMAIN catalog.minor
<1> QED
  BY DEF CatalogFits, Accepted, Prices

\* The cost of tokens, at the price of so many, covers them.
LEMMA TokenCostCovers ==
    ASSUME CatalogFits, NEW p \in DOMAIN catalog.minor, NEW n \in Nat
    PROVE  /\ TokenCost(n, p) \in Nat
           /\ n * catalog.minor[p] <= TokenCost(n, p) * PerUnits
<1>1. PICK m \in Nat, k \in Nat \ {0} : m = catalog.minor[p] /\ k = PerUnits
  BY CatalogCovers, PricingAssumption
<1>2. PICK a \in Nat : a = n * m
  OBVIOUS
<1>3. TokenCost(n, p) = CeilDiv(a, k)
  BY <1>1, <1>2 DEF TokenCost
<1> QED
  BY <1>1, <1>2, <1>3, CeilCovers

\* More tokens cost no less.
LEMMA TokenCostGrows ==
    ASSUME CatalogFits, NEW p \in DOMAIN catalog.minor, NEW n \in Nat, NEW u \in Nat, n <= u
    PROVE  TokenCost(n, p) <= TokenCost(u, p)
<1>1. PICK m \in Nat, k \in Nat \ {0} : m = catalog.minor[p] /\ k = PerUnits
  BY CatalogCovers, PricingAssumption
<1>2. PICK a \in Nat, b \in Nat : a = n * m /\ b = u * m /\ a <= b
  BY ProductsGrow
<1>3. TokenCost(n, p) = CeilDiv(a, k) /\ TokenCost(u, p) = CeilDiv(b, k)
  BY <1>1, <1>2 DEF TokenCost
<1> QED
  BY <1>2, <1>3, CeilGrows

\* What costs at least n units of m, each of which is e at the finest, costs
\* at least n times e.
LEMMA FinestCovers ==
    ASSUME NEW n \in Nat, NEW m \in Nat, NEW e \in Nat, NEW unit \in Nat, e <= m * unit,
           NEW cost \in Nat, n * m <= cost
    PROVE  n * e <= cost * unit
<1>1. PICK x \in Nat : x = m * unit
  OBVIOUS
<1>2. e * n <= x * n
  BY <1>1, ProductsGrow
<1>3. PICK y \in Nat : y = n * m
  OBVIOUS
<1>4. y * unit <= cost * unit
  BY <1>3, ProductsGrow
<1>5. x * n = y * unit
  BY <1>1, <1>3
<1>6. n * e = e * n /\ n * e \in Nat /\ cost * unit \in Nat /\ x * n \in Nat
  BY <1>1
<1> QED
  BY <1>2, <1>4, <1>5, <1>6

\* What is quoted for the manual covers every batch at its most.
LEMMA ManualCovers ==
    ASSUME CatalogFits, SealedFits
    PROVE  LET price(p) == Exact(catalog.literal[p])
               manual == AmountOf(ManualExpected, ManualUpper)
           IN  /\ manual.upper * PerUnits * Power[MaxDigits]
                    >= InputUpper * price("input") + OutputUpper * price("output")
                         + Images * price("image") * PerUnits
               /\ manual.estimated <= manual.upper
               /\ manual.upper \in Nat
<1>1. PICK iu \in Nat, ie \in Nat, ou \in Nat, oe \in Nat, im \in Nat :
        /\ iu = InputUpper /\ ie = InputExpected /\ ie <= iu
        /\ ou = OutputUpper /\ oe = OutputExpected /\ oe <= ou
        /\ im = Images
  BY PlanHolds DEF PlanFits
<1>2. PICK mi \in Nat, pi \in Nat, mo \in Nat, po \in Nat, mm \in Nat, pm \in Nat,
           unit \in Nat, k \in Nat :
        /\ mi = catalog.minor["input"] /\ pi = Exact(catalog.literal["input"])
        /\ mo = catalog.minor["output"] /\ po = Exact(catalog.literal["output"])
        /\ mm = catalog.minor["image"] /\ pm = Exact(catalog.literal["image"])
        /\ unit = Power[MaxDigits] /\ k = PerUnits
        /\ pi <= mi * unit /\ po <= mo * unit /\ pm <= mm * unit
  <2>1. \A p \in {"input", "output", "image"} :
            /\ catalog.minor[p] \in Nat /\ Exact(catalog.literal[p]) \in Nat
            /\ Exact(catalog.literal[p]) <= catalog.minor[p] * Power[MaxDigits]
    BY CatalogHas, CatalogCovers
  <2>2. Power[MaxDigits] \in Nat /\ PerUnits \in Nat
    BY PricingAssumption, PowerIsPositive DEF TopPower
  <2> QED
    BY <2>1, <2>2
<1>3. PICK ci \in Nat, co \in Nat, ei \in Nat, eo \in Nat :
        /\ ci = TokenCost(InputUpper, "input") /\ iu * mi <= ci * k
        /\ co = TokenCost(OutputUpper, "output") /\ ou * mo <= co * k
        /\ ei = TokenCost(InputExpected, "input") /\ ei <= ci
        /\ eo = TokenCost(OutputExpected, "output") /\ eo <= co
  <2>1. "input" \in DOMAIN catalog.minor /\ "output" \in DOMAIN catalog.minor
    BY CatalogHas
  <2>2. /\ TokenCost(iu, "input") \in Nat /\ iu * mi <= TokenCost(iu, "input") * k
        /\ TokenCost(ou, "output") \in Nat /\ ou * mo <= TokenCost(ou, "output") * k
        /\ TokenCost(ie, "input") \in Nat /\ TokenCost(oe, "output") \in Nat
    BY <1>2, <2>1, TokenCostCovers
  <2>3. TokenCost(ie, "input") <= TokenCost(iu, "input")
    BY <1>1, <2>1, TokenCostGrows
  <2>4. TokenCost(oe, "output") <= TokenCost(ou, "output")
    BY <1>1, <2>1, TokenCostGrows
  <2> QED
    BY <1>1, <2>2, <2>3, <2>4
<1>4. PICK cm \in Nat : cm = im * mm /\ cm = ImageCost
  BY <1>1, <1>2 DEF ImageCost
<1>5. PICK manual : manual = AmountOf(ManualExpected, ManualUpper)
  OBVIOUS
<1>6. manual.upper = ci + co + cm /\ manual.estimated = ei + eo + cm
  <2>1. ManualUpper = <<ci, co, cm>> /\ ManualExpected = <<ei, eo, cm>>
    BY <1>3, <1>4 DEF ManualUpper, ManualExpected
  <2>2. manual.upper = SumOf(<<ci, co, cm>>) /\ manual.estimated = SumOf(<<ei, eo, cm>>)
    BY <1>5, <2>1 DEF AmountOf
  <2> QED
    BY <2>2, SumOfLines
<1>7. iu * pi <= (ci * k) * unit
  <2>1. PICK c \in Nat : c = ci * k
    OBVIOUS
  <2>2. iu * mi <= c
    BY <1>3, <2>1
  <2>3. iu * pi <= c * unit
    BY <1>2, <2>2, FinestCovers
  <2> QED
    BY <2>1, <2>3
<1>8. ou * po <= (co * k) * unit
  <2>1. PICK c \in Nat : c = co * k
    OBVIOUS
  <2>2. ou * mo <= c
    BY <1>3, <2>1
  <2>3. ou * po <= c * unit
    BY <1>2, <2>2, FinestCovers
  <2> QED
    BY <2>1, <2>3
<1>9. (im * pm) * k <= (cm * k) * unit
  <2>1. im * pm <= cm * unit
    BY <1>2, <1>4, FinestCovers
  <2>2. PICK x \in Nat, y \in Nat : x = im * pm /\ y = cm * unit
    OBVIOUS
  <2>3. x * k <= y * k
    BY <2>1, <2>2, ProductsGrow
  <2>4. y * k = (cm * k) * unit
    BY <2>2
  <2> QED
    BY <2>2, <2>3, <2>4
<1>10. ((ci + co + cm) * k) * unit = (ci * k) * unit + (co * k) * unit + (cm * k) * unit
  OBVIOUS
<1>11. iu * pi + ou * po + (im * pm) * k <= ((ci + co + cm) * k) * unit
  <2>1. PICK a \in Nat, b \in Nat, c \in Nat :
          a = iu * pi /\ b = ou * po /\ c = (im * pm) * k
    OBVIOUS
  <2>2. PICK x \in Nat, y \in Nat, z \in Nat :
          x = (ci * k) * unit /\ y = (co * k) * unit /\ z = (cm * k) * unit
    OBVIOUS
  <2>3. a + b + c <= x + y + z
    BY <1>7, <1>8, <1>9, <2>1, <2>2
  <2> QED
    BY <1>10, <2>1, <2>2, <2>3
<1>12. manual.upper * PerUnits * Power[MaxDigits]
          >= InputUpper * Exact(catalog.literal["input"])
               + OutputUpper * Exact(catalog.literal["output"])
               + Images * Exact(catalog.literal["image"]) * PerUnits
  BY <1>1, <1>2, <1>6, <1>11
<1>13. manual.estimated <= manual.upper /\ manual.upper \in Nat
  BY <1>3, <1>6
<1> QED
  BY <1>5, <1>12, <1>13

\* What is quoted for the model covers the tasks it buys.
LEMMA TripoCovers ==
    ASSUME CatalogFits
    PROVE  LET price(p) == Exact(catalog.literal[p])
               tripo == AmountOf(TripoLines, TripoLines)
           IN  /\ tripo.upper * Power[MaxDigits]
                    >= price("preset") + (IF Segmented THEN price("segment") ELSE 0)
               /\ tripo.estimated <= tripo.upper
               /\ tripo.upper \in Nat
<1>1. PICK unit \in Nat : unit = Power[MaxDigits]
  BY PricingAssumption, PowerIsPositive DEF TopPower
<1>2. PICK m \in Nat, e \in Nat :
        m = catalog.minor["preset"] /\ e = Exact(catalog.literal["preset"]) /\ e <= m * unit
  BY <1>1, CatalogHas, CatalogCovers
<1>3. PICK tripo : tripo = AmountOf(TripoLines, TripoLines)
  OBVIOUS
<1>4. tripo.upper = SumOf(TripoLines) /\ tripo.estimated = SumOf(TripoLines)
  BY <1>3 DEF AmountOf
<1>5. CASE Segmented
  <2>1. PICK n \in Nat, s \in Nat :
          n = catalog.minor["segment"] /\ s = Exact(catalog.literal["segment"]) /\ s <= n * unit
    BY <1>1, <1>5, CatalogCovers DEF Segmented
  <2>2. TripoLines = <<m, n>>
    <3>1. TripoLines = <<m>> \o <<n>>
      BY <1>2, <1>5, <2>1 DEF TripoLines
    <3>2. <<m>> \o <<n>> = <<m, n>>
      BY TwoLines
    <3> QED
      BY <3>1, <3>2
  <2>3. SumOf(TripoLines) = m + n
    BY <2>2, SumOfLines
  <2>4. (m + n) * unit = m * unit + n * unit
    OBVIOUS
  <2>5. e + s <= (m + n) * unit
    <3>1. PICK x \in Nat, y \in Nat : x = m * unit /\ y = n * unit
      OBVIOUS
    <3> QED
      BY <1>2, <2>1, <2>4, <3>1
  <2> QED
    BY <1>1, <1>2, <1>3, <1>4, <1>5, <2>1, <2>3, <2>5
<1>6. CASE ~Segmented
  <2>1. TripoLines = <<m>>
    BY <1>2, <1>6 DEF TripoLines
  <2>2. SumOf(TripoLines) = m
    BY <2>1, SumOfLines
  <2> QED
    BY <1>1, <1>2, <1>3, <1>4, <1>6, <2>2
<1> QED
  BY <1>5, <1>6

\* The plan is that of the sealed pages.
LEMMA PlanStays ==
    ASSUME UNCHANGED sealed
    PROVE  InputUpper' = InputUpper /\ OutputUpper' = OutputUpper /\ Images' = Images
<1>1. QuoteBatches' = QuoteBatches
  BY DEF QuoteBatches, CeilDiv
<1> DEFINE total(s) == SumOf([p \in DOMAIN s |-> UpperTokens(s[p])])
<1>2. InputUpper = QuoteBatches * Overhead.upper + total(sealed)
  BY DEF InputUpper
<1>3. InputUpper' = QuoteBatches' * Overhead.upper + total(sealed')
  BY DEF InputUpper, SumOf, UpperTokens
<1>4. InputUpper' = InputUpper
  <2> HIDE DEF total
  <2> QED
    BY <1>1, <1>2, <1>3
<1>5. OutputUpper' = OutputUpper /\ Images' = Images
  BY <1>1 DEF OutputUpper, Images
<1> QED
  BY <1>4, <1>5

\* Nothing is quoted at first.
LEMMA PricingBegins == PricingInit => PricingInv
<1> QED
  BY DEF PricingInit, PricingInv, SealedFits

\* The catalog is read when nothing is quoted yet.
LEMMA LoadCatalogKeeps == ASSUME PricingInv, LoadCatalog PROVE PricingInv'
<1>1. PICK literals \in [Prices -> Literals \cup {Invalid}] :
        /\ Accepted(literals)
        /\ catalog' = [literal |-> literals,
                       minor |-> [p \in {q \in Prices : literals[q] # Invalid} |->
                                     PriceToMinor(literals[p])]]
  BY DEF LoadCatalog
<1>2. PICK minor : minor = [p \in {q \in Prices : literals[q] # Invalid} |->
                                PriceToMinor(literals[p])]
  OBVIOUS
<1>3. catalog'.literal = literals /\ catalog'.minor = minor
  BY <1>1, <1>2
<1>4. CatalogFits'
  BY <1>1, <1>2, <1>3 DEF CatalogFits, Accepted, Fits, PriceToMinor, Whole, CeilDiv
<1>5. catalog.minor = <<>>
  BY DEF LoadCatalog
<1>6. "preset" \notin DOMAIN catalog.minor
  BY <1>5
<1>7. quoted = NoQuote
  BY <1>6, CatalogHas DEF PricingInv
<1>8. sealed' = sealed /\ quoted' = quoted
  BY DEF LoadCatalog
<1> QED
  BY <1>4, <1>7, <1>8 DEF PricingInv, SealedFits

\* The quote is stored as the catalog and the plan make it.
LEMMA EstimateKeeps ==
    ASSUME PricingInv, NEW chosen, Estimate(chosen) PROVE PricingInv'
<1>1. /\ CatalogFits /\ SealedFits /\ UNCHANGED <<catalog, sealed>> /\ quoted' = Quoted
      /\ Fits(Quoted.tripo.upper) /\ Fits(Quoted.manual.upper)
  BY DEF PricingInv, Estimate, Quotable
<1>2. PICK tripo, manual, segmented :
        /\ tripo = AmountOf(TripoLines, TripoLines)
        /\ manual = AmountOf(ManualExpected, ManualUpper)
        /\ segmented = Segmented
  OBVIOUS
<1>3. /\ quoted'.tripo = tripo /\ quoted'.manual = manual /\ quoted'.segmented = segmented
      /\ Quoted.tripo = tripo /\ Quoted.manual = manual
  BY <1>1, <1>2 DEF Quoted
<1>4. /\ tripo.upper \in 0 .. MaxMinor /\ manual.upper \in 0 .. MaxMinor
  BY <1>1, <1>2, <1>3, TripoCovers, ManualCovers, PricingAssumption DEF Fits
<1>5. PICK unit, pi, po, pm, pp, ps :
        /\ unit = Power[MaxDigits]
        /\ pi = Exact(catalog.literal["input"]) /\ po = Exact(catalog.literal["output"])
        /\ pm = Exact(catalog.literal["image"]) /\ pp = Exact(catalog.literal["preset"])
        /\ ps = Exact(catalog.literal["segment"])
  OBVIOUS
<1>6. /\ manual.upper * PerUnits * unit
            >= InputUpper * pi + OutputUpper * po + Images * pm * PerUnits
      /\ manual.estimated <= manual.upper
  BY <1>1, <1>2, <1>5, ManualCovers
<1>7. /\ tripo.upper * unit >= pp + (IF segmented THEN ps ELSE 0)
      /\ tripo.estimated <= tripo.upper
  BY <1>1, <1>2, <1>5, TripoCovers
<1>8. /\ InputUpper' = InputUpper /\ OutputUpper' = OutputUpper /\ Images' = Images
  BY <1>1, PlanStays
<1>9. QuoteCoversTheBill'
  BY <1>1, <1>3, <1>5, <1>6, <1>7, <1>8 DEF QuoteCoversTheBill, Exact
<1>10. QuoteFits'
  BY <1>3, <1>4, <1>9 DEF QuoteFits
<1>11. CatalogFits'
  BY <1>1 DEF CatalogFits, Accepted, Fits, PriceToMinor, Whole, CeilDiv
<1> QED
  BY <1>1, <1>10, <1>11 DEF PricingInv, SealedFits

\* What was read, sealed and quoted stays.
LEMMA PricingStays ==
    ASSUME PricingInv, UNCHANGED <<catalog, sealed, quoted>> PROVE PricingInv'
<1>1. InputUpper' = InputUpper /\ OutputUpper' = OutputUpper /\ Images' = Images
  BY PlanStays
<1>2. CatalogFits => CatalogFits'
  BY DEF CatalogFits, Accepted, Fits, PriceToMinor, Whole, CeilDiv
<1>3. QuoteCoversTheBill => QuoteCoversTheBill'
  BY <1>1 DEF QuoteCoversTheBill, Exact
<1>4. QuoteFits => QuoteFits'
  BY <1>3 DEF QuoteFits
<1> QED
  BY <1>2, <1>4 DEF PricingInv, SealedFits

\* Every step keeps the invariant.
LEMMA PricingStep == PricingInv /\ [PricingNext]_pricingVars => PricingInv'
<1> SUFFICES ASSUME PricingInv, [PricingNext]_pricingVars PROVE PricingInv'
  OBVIOUS
<1>1. CASE LoadCatalog
  BY <1>1, LoadCatalogKeeps
<1>2. ASSUME NEW chosen \in SUBSET PhotoViews, Estimate(chosen) PROVE PricingInv'
  BY <1>2, EstimateKeeps
<1>3. ASSUME NEW new, SetUp(new) PROVE PricingInv'
  BY <1>3, PricingStays DEF SetUp
<1>4. CASE UNCHANGED pricingVars
  BY <1>4, PricingStays DEF pricingVars
<1> QED
  BY <1>1, <1>2, <1>3, <1>4 DEF PricingNext

\* Every amount that is read or quoted fits the width of an amount.
THEOREM PricingTyped == PricingSpec => []PricingTypeOK
<1>1. PricingInv => PricingTypeOK
  <2> SUFFICES ASSUME PricingInv PROVE PricingTypeOK
    OBVIOUS
  <2>1. sealed \in Seq(PageBytes)
    <3>1. PICK n \in 1 .. MaxQuoted : sealed \in [1 .. n -> PageBytes]
      BY DEF PricingInv, SealedFits
    <3>2. n \in Nat
      BY PricingAssumption
    <3> QED
      BY <3>1, <3>2, SeqDef
  <2>2. /\ DOMAIN catalog.minor \subseteq Prices
        /\ \A p \in DOMAIN catalog.minor : catalog.minor[p] \in 0 .. MaxMinor
    <3>1. CASE catalog.minor = <<>>
      BY <3>1
    <3>2. CASE CatalogFits
      BY <3>2, CatalogCovers DEF CatalogFits
    <3> QED
      BY <3>1, <3>2 DEF PricingInv
  <2> QED
    BY <2>1, <2>2 DEF PricingInv, QuoteFits, PricingTypeOK
<1> QED
  BY <1>1, PricingBegins, PricingStep, PTL DEF PricingSpec

\* Whatever the prices' digits, the pages and the tokens of a page, the
\* quoted bounds pay for every batch at its most, for its images and for the
\* model's tasks, at the exact price, and no expectation exceeds its bound
\* (parse_decimal_scaled, mul_div_ceil, manual_ai_amount, tripo_amount).
THEOREM BillIsCovered == PricingSpec => []QuoteCoversTheBill
<1>1. PricingInv => QuoteCoversTheBill
  BY DEF PricingInv, QuoteFits, QuoteCoversTheBill
<1> QED
  BY <1>1, PricingBegins, PricingStep, PTL DEF PricingSpec

=============================================================================
