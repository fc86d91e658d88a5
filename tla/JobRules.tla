------------------------------ MODULE JobRules ------------------------------
(***************************************************************************)
(* The pure rules of the job pipeline (crates/core/src/jobs.rs,            *)
(* jobs/recover.rs, jobs/control.rs, core/src/cost.rs): the stage graph,   *)
(* how a paid stage is submitted, the aggregation of a job's status, what  *)
(* an execution or a recovery concludes from the recorded facts, and the   *)
(* cost-ledger transitions.  No state lives here.                          *)
(***************************************************************************)
EXTENDS Integers, FiniteSets

StageKinds ==
    {"freeze_inputs", "manual_extract", "manual_merge", "tripo_upload",
     "tripo_submit", "tripo_poll", "model_download", "model_validate",
     "assemble_draft", "tripo_segment", "auto_bind"}

JobStatuses ==
    {"queued", "running", "retry_wait", "waiting_provider", "needs_input",
     "submission_unknown", "succeeded", "failed", "cancelled"}

Terminal == {"succeeded", "failed", "cancelled"}

SubmitStates == {"intent", "submitting", "accepted", "unknown", "failed"}

(* A bill may exist and nobody has decided yet whether it does.            *)
InDoubt == {"submitting", "unknown"}

(* What the partial unique index of provider_attempts ranges over.         *)
Unresolved == InDoubt \cup {"intent"}

(* The kinds all of whose stages in the job a stage of kind k waits for.   *)
StageDependency(k) ==
    CASE k = "freeze_inputs"                       -> {}
      [] k \in {"manual_extract", "tripo_upload"}  -> {"freeze_inputs"}
      [] k = "manual_merge"                        -> {"manual_extract"}
      [] k = "tripo_submit"                        -> {"tripo_upload"}
      [] k = "tripo_poll"                          -> {"tripo_submit"}
      [] k = "model_download"                      -> {"tripo_poll"}
      [] k = "model_validate"                      -> {"model_download"}
      [] k = "assemble_draft"         -> {"manual_merge", "model_validate"}
      [] k = "tripo_segment"                       -> {"assemble_draft"}
      [] k = "auto_bind"                           -> {"tripo_segment"}

AsyncKinds == {"tripo_submit", "tripo_segment"}
SyncKinds  == {"manual_extract"}
PaidKinds  == AsyncKinds \cup SyncKinds

(* The groups whose running stages the claim predicate counts.  The SQL    *)
(* leaves tripo_segment out of the remote group, unlike concurrency_group. *)
ClaimGroup(k) ==
    IF k = "manual_extract" THEN {"manual_extract"}
    ELSE IF k \in {"tripo_upload", "tripo_submit", "tripo_poll",
                   "model_download", "model_validate"}
         THEN {"tripo_upload", "tripo_submit", "tripo_poll",
               "model_download", "model_validate"}
         ELSE {}

Providers == {"tripo", "manual_ai"}

BranchOf(k) ==
    CASE k \in {"manual_extract", "manual_merge"}               -> "knowledge"
      [] k \in {"freeze_inputs", "assemble_draft", "auto_bind"} -> "local"
      [] OTHER                                                  -> "model"

BranchProvider(k) == IF BranchOf(k) = "knowledge" THEN "manual_ai" ELSE "tripo"

SameBranch(k1, k2) == BranchOf(k1) = BranchOf(k2) /\ BranchOf(k1) # "local"

(* Mutant: only success and failure are final.                             *)
AggregateRevivesCancelled(current, statuses) ==
    IF current \in {"succeeded", "failed"} THEN current
    ELSE IF "needs_input" \in statuses THEN "needs_input"
    ELSE "running"

(* aggregate_job_status over the set of the job's stage statuses.          *)
AggregateJobStatus(current, statuses) ==
    IF current \in Terminal THEN current
    ELSE IF "submission_unknown" \in statuses THEN "submission_unknown"
    ELSE IF "needs_input" \in statuses THEN "needs_input"
    ELSE IF "failed" \in statuses THEN "failed"
    ELSE IF statuses = {"succeeded"} THEN "succeeded"
    ELSE IF "waiting_provider" \in statuses THEN "waiting_provider"
    ELSE IF statuses = {"queued"} THEN "queued"
    ELSE "running"

(* Mutant: a retry aggregates like any other step, and a failed job sticks. *)
AggregateStaysFailed(current, statuses) == AggregateJobStatus(current, statuses)

(* recompute_status_after_retry: a failed job is aggregated as if running. *)
AggregateAfterRetry(current, statuses) ==
    IF current = "failed" THEN AggregateJobStatus("running", statuses)
                          ELSE AggregateJobStatus(current, statuses)

-----------------------------------------------------------------------------
(* A provider attempt: its submit state and the remote task it recorded.   *)
(* A task is named by the attempt whose POST created it; 0 is none.        *)
NoTask == 0
NoAttempt == [state |-> "absent", task |-> NoTask]

(* resume_hint, with "receipt" for an accepted attempt without a task      *)
(* (executor: Fresh; the submit handler looks at the attempt itself).      *)
ResumeHint(a) ==
    CASE a.state \in {"absent", "intent", "failed"}    -> "fresh"
      [] a.state = "accepted" /\ a.task # NoTask       -> "task"
      [] a.state = "accepted" /\ a.task = NoTask       -> "receipt"
      [] a.state \in InDoubt                           -> "unknown"

(* Mutants: a request without a reply is taken for accepted, or for never  *)
(* sent.                                                                   *)
PlanTrustsTheRequest(kind, a) ==
    IF a.state \in InDoubt THEN "succeeded" ELSE "queued"

PlanResendsTheRequest(kind, a) == "queued"

(* recover::plan: the status an expired running stage is moved to.  First  *)
(* the job and the recorded result decide, then the latest attempt.        *)
PlanByAttempt(kind, a) ==
    LET known == kind \in AsyncKinds /\ a.task # NoTask
    IN CASE a.state \in {"absent", "intent", "failed"} -> "queued"
         [] a.state \in InDoubt /\ known               -> "succeeded"
         [] a.state \in InDoubt /\ ~known              -> "submission_unknown"
         [] a.state = "accepted" ->
              CASE kind \in SyncKinds                 -> "needs_input"
                [] kind = "tripo_submit" /\ known     -> "succeeded"
                [] kind \in AsyncKinds /\ ~known      -> "submission_unknown"
                [] OTHER                              -> "queued"

RecoveryPlan(kind, result, a, jobStatus) ==
    CASE jobStatus = "cancelled"                             -> "cancelled"
      [] jobStatus # "cancelled" /\ result = "no_knowledge"  -> "needs_input"
      [] jobStatus # "cancelled" /\ result = "knowledge"     -> "succeeded"
      [] jobStatus # "cancelled" /\ result = "none" -> PlanByAttempt(kind, a)

-----------------------------------------------------------------------------
LedgerStates == {"reserved", "unknown", "settled", "released"}

HoldsBudget(state) == state \in {"reserved", "unknown"}

(* Mutants: a wrong name for the state, and an unknown fate as not billed.  *)
LedgerStateMisspelt(state, event) ==
    IF HoldsBudget(state) /\ event = "mark_unknown"
    THEN "submission_unknown" ELSE state

LedgerReleasesUnknown(state, event) ==
    IF HoldsBudget(state) /\ event = "mark_unknown" THEN "released" ELSE state

(* ledger.rs transition: an event the state does not take leaves it alone. *)
NextLedgerState(state, event) ==
    IF ~HoldsBudget(state) THEN state
    ELSE CASE event = "settle"       -> "settled"
           [] event = "release"      -> "released"
           [] event = "mark_unknown" -> "unknown"

(* release_definitely_not_billed takes a reserved entry only.              *)
ReleaseNotBilled(state) ==
    IF state = "reserved" THEN NextLedgerState(state, "release") ELSE state
=============================================================================
