----------------------------- MODULE JobControl -----------------------------
(***************************************************************************)
(* The administrator's side of a job (crates/server/src/jobs/control.rs)   *)
(* composed with the executor: cancel, retry of a stage, and the three     *)
(* ways to reconcile a submission whose result is unknown.  Every request  *)
(* first reads and checks (revision, gate, the attempt), may then wait for *)
(* the provider, and commits in a transaction that looks again only at     *)
(* what its SQL names: a Check action and a commit action.                 *)
(***************************************************************************)
EXTENDS JobExecutor

CONSTANTS Admins,       \* administrator sessions
          Reconcilers,  \* bound: those of them that reconcile
          MaxRequests   \* bound: control requests that pass their checks

ASSUME RequestsAssumption == MaxRequests \in Nat /\ Reconcilers \subseteq Admins

VARIABLES admins,       \* the request each session has in flight
          requests,
          keys          \* idempotency keys of the retries that were made

controlVars == <<admins, requests, keys>>
allVars == <<vars, controlVars>>

RequestKinds == {"none", "cancel", "retry", "attach", "no_task", "replace"}

Request == [action    : RequestKinds,
            stage     : Stages,
            attempt   : Nat,        \* the attempt read with the stage
            task      : Nat,        \* attach: what the administrator found
            key       : Nat,        \* retry: the Idempotency-Key
            cancelled : BOOLEAN]    \* the job, when it was read

NoRequest == [action |-> "none", stage |-> NoStage, attempt |-> 0,
              task |-> NoTask, key |-> 0, cancelled |-> FALSE]

InitControl ==
    /\ Init
    /\ admins = [a \in Admins |-> NoRequest]
    /\ requests = 0
    /\ keys = {}

-----------------------------------------------------------------------------
(* Checks.                                                                 *)

Check(a, request) ==
    /\ admins[a].action = "none"
    /\ requests < MaxRequests
    /\ requests' = requests + 1
    /\ admins' = [admins EXCEPT ![a] = request]
    /\ UNCHANGED <<vars, keys>>

CheckCancel(a, j) ==
    /\ job[j] \notin Terminal
    /\ \E s \in StagesOf(j) :
          Check(a, [NoRequest EXCEPT !.action = "cancel", !.stage = s])

(* Mutant: an unknown submission may be retried.                           *)
RetryableIfUnknown == {"failed", "needs_input", "submission_unknown"}

Retryable == {"failed", "needs_input"}

(* retry_gate: a new purchase needs a reservation that still holds.        *)
RetryGate(s) ==
    LET j == JobOf[s]
    IN /\ job[j] # "cancelled"
       /\ stage[s].status \in Retryable
       /\ ~\E r \in StagesOf(j) \ {s} : /\ SameBranch(Kind[r], Kind[s])
                                        /\ stage[r].status = "submission_unknown"
       /\ Kind[s] \in {"manual_extract", "tripo_upload", "tripo_submit"} =>
             HoldsBudget(ledger[j][BranchProvider(Kind[s])])

(* A key is named by the request that brings it first; a client without an *)
(* answer sends its request again.  A key that was used is only answered.  *)
CheckRetry(a, s) ==
    \E key \in 1 .. requests + 1 :
        /\ key \notin keys
        /\ RetryGate(s)
        /\ Check(a, [NoRequest EXCEPT !.action = "retry", !.stage = s, !.key = key])

(* reconcile reads the stage, its latest attempt and the job.  To attach,  *)
(* the administrator names a task found at the provider.                   *)
CheckReconcile(a, s) ==
    LET e == LatestEpoch(attempts, s)
        request == [NoRequest EXCEPT !.stage = s, !.attempt = e,
                                     !.cancelled = job[JobOf[s]] = "cancelled"]
    IN /\ a \in Reconcilers
       /\ stage[s].status = "submission_unknown"
       /\ DOMAIN attempts[s] # {}
       /\ \/ /\ Kind[s] \in AsyncKinds
             /\ attempts[s][e].state \in InDoubt
             /\ \E t \in bills[s] :
                   Check(a, [request EXCEPT !.action = "attach", !.task = t])
          \/ Check(a, [request EXCEPT !.action = "no_task"])
          \/ /\ ~request.cancelled
             /\ Kind[s] \in PaidKinds
             /\ Check(a, [request EXCEPT !.action = "replace"])

-----------------------------------------------------------------------------
(* Commits.                                                                *)

Answer(a) == admins' = [admins EXCEPT ![a] = NoRequest]

Submitted(s) == \E e \in DOMAIN attempts[s] : attempts[s][e].state = "accepted"

(* jobs::cancel with cancel_unsubmitted_for_job.                           *)
Cancel(a) ==
    LET j == JobOf[admins[a].stage]
        stops(s) == \/ stage[s].status \in {"queued", "retry_wait", "needs_input"}
                    \/ stage[s].status = "running" /\ ~Submitted(s)
    IN /\ admins[a].action = "cancel"
       /\ \/ /\ job[j] \notin Terminal
             /\ stage' = [s \in Stages |->
                   IF JobOf[s] = j /\ stops(s)
                   THEN [stage[s] EXCEPT !.status = "cancelled"] ELSE stage[s]]
             /\ job' = [job EXCEPT ![j] = "cancelled"]
          \/ /\ job[j] \in Terminal
             /\ UNCHANGED <<job, stage>>
       /\ Answer(a)
       /\ UNCHANGED <<attempts, ledger, draft, workers, bills, allowance,
                      crashes, lapses, requests, keys>>

(* The stages computed from s, directly or through others.                 *)
Dependents(s) ==
    LET inJob == StagesOf(JobOf[s])
        closed(D) == \A r \in inJob :
                        DependsOn(r) \cap (D \cup {s}) # {} => r \in D
    IN {r \in inJob : \A D \in SUBSET inJob : closed(D) => r \in D}

Confirmed(s) == [allowance EXCEPT ![s] = Kind[s] \in PaidKinds]

(* Mutant: a key that is there already is overwritten.                     *)
KeyUpserted(key) == TRUE

(* The unique index of the idempotency records.                            *)
KeyIsUnique(key) == key \notin keys

(* A key confirms one purchase, however often the client sends it.         *)
ConfirmedWith(key, s) == IF key \in keys THEN allowance ELSE Confirmed(s)

(* reset_for_retry, requeue_succeeded_dependents, the key and the job's    *)
(* new status, unless the stage was moved since the check, or the same     *)
(* request went through: then the transaction is rolled back.              *)
Retry(a) ==
    LET s == admins[a].stage
        j == JobOf[s]
        retried == [stage[s] EXCEPT !.status = "queued", !.retries = 0,
                                    !.paused = FALSE]
        stale(r) == r \in Dependents(s) /\ stage[r].status = "succeeded"
    IN /\ admins[a].action = "retry"
       /\ \/ /\ stage[s].status \in Retryable /\ KeyIsUnique(admins[a].key)
             /\ keys' = keys \cup {admins[a].key}
             /\ stage' = [r \in Stages |->
                   IF r = s THEN retried
                   ELSE IF stale(r)
                   THEN [stage[r] EXCEPT !.status = "queued", !.result = "none"]
                   ELSE stage[r]]
             /\ job' = [job EXCEPT ![j] = AggregateAfterRetry(@, StatusesOf(stage', j))]
             /\ allowance' = ConfirmedWith(admins[a].key, s)
          \/ /\ stage[s].status \notin Retryable \/ ~KeyIsUnique(admins[a].key)
             /\ UNCHANGED <<job, stage, allowance, keys>>
       /\ Answer(a)
       /\ UNCHANGED <<attempts, ledger, draft, workers, bills, crashes, lapses,
                      requests>>

(* apply_reconcile_resolution.                                             *)
Resolve(st, s, status) ==
    IF st[s].status = "submission_unknown"
    THEN [st EXCEPT ![s].status = status, ![s].paused = FALSE] ELSE st

(* requeue_paused_manual_batches: only when nothing is unknown any more.   *)
RequeuePaused(st, j) ==
    [s \in Stages |->
        IF /\ JobOf[s] = j /\ Kind[s] = "manual_extract"
           /\ st[s].status = "needs_input" /\ st[s].paused
           /\ "submission_unknown" \notin StatusesOf(st, j)
        THEN [st[s] EXCEPT !.status = "queued", !.paused = FALSE] ELSE st[s]]

(* attachRemoteTask, after the provider confirmed the task: the fact is    *)
(* recorded even if the stage has moved on; another fact is not replaced.  *)
Attach(a) ==
    LET s == admins[a].stage
        e == admins[a].attempt
        t == admins[a].task
        status == IF admins[a].cancelled THEN "needs_input" ELSE "queued"
    IN /\ admins[a].action = "attach"
       /\ \/ /\ ~TaskConflict(attempts, s, e, t)
             /\ attempts' = RecordTask(attempts, s, e, t)
             /\ stage' = RequeuePaused(Resolve(stage, s, status), JobOf[s])
             /\ job' = Recompute(job, stage', JobOf[s])
          \/ /\ TaskConflict(attempts, s, e, t)
             /\ UNCHANGED <<job, stage, attempts>>
       /\ Answer(a)
       /\ UNCHANGED <<ledger, draft, workers, bills, allowance, crashes, lapses,
                      requests, keys>>

(* recordNoTask: the administrator's word; the reservation stays.          *)
RecordNoTask(a) ==
    LET s == admins[a].stage
    IN /\ admins[a].action = "no_task"
       /\ attempts' = SetState(attempts, s, admins[a].attempt, "failed")
       /\ stage' = RequeuePaused(Resolve(stage, s, "needs_input"), JobOf[s])
       /\ job' = Recompute(job, stage', JobOf[s])
       /\ Answer(a)
       /\ UNCHANGED <<ledger, draft, workers, bills, allowance, crashes, lapses,
                      requests, keys>>

(* authorizeReplacement: the stage may be bought again.                    *)
AuthorizeReplacement(a) ==
    LET s == admins[a].stage
        j == JobOf[s]
    IN /\ admins[a].action = "replace"
       /\ attempts' = SetState(attempts, s, admins[a].attempt, "failed")
       /\ stage' = RequeuePaused(Resolve(stage, s, "queued"), j)
       /\ job' = [job EXCEPT ![j] = AggregateAfterRetry(@, StatusesOf(stage', j))]
       /\ allowance' = Confirmed(s)
       /\ Answer(a)
       /\ UNCHANGED <<ledger, draft, workers, bills, crashes, lapses, requests, keys>>

-----------------------------------------------------------------------------
CheckAny ==
    \E a \in Admins : \/ \E j \in Jobs : CheckCancel(a, j)
                      \/ \E s \in Stages : CheckRetry(a, s) \/ CheckReconcile(a, s)

CommitAny ==
    \E a \in Admins : \/ Cancel(a) \/ Retry(a) \/ Attach(a)
                      \/ RecordNoTask(a) \/ AuthorizeReplacement(a)

(* A crash takes the requests in flight with it.                           *)
CrashControl ==
    /\ Crash
    /\ admins' = [a \in Admins |-> NoRequest]
    /\ UNCHANGED <<requests, keys>>

NextControl ==
    \/ ExecutorStep /\ UNCHANGED controlVars
    \/ CheckAny
    \/ CommitAny
    \/ CrashControl

SpecControl == InitControl /\ [][NextControl]_allVars

FairSpecControl == SpecControl /\ Fairness

-----------------------------------------------------------------------------
(* Properties.                                                             *)

(* Sessions and their requests have their type, with the executor's state. *)
TypeOKControl ==
    /\ TypeOK
    /\ admins \in [Admins -> Request]
    /\ requests \in Nat /\ keys \subseteq Nat

(* What a job says of itself is what its stages say: whenever the job or   *)
(* its stages are blocked or done, both agree - whichever of checkpoint,   *)
(* recovery, retry and reconciliation wrote last.  A failed job may hide   *)
(* what the other branch does, but not be failed without a failed stage.   *)
JobStatusIsHonest ==
    \A j \in Jobs :
        LET fromStages == AggregateJobStatus("running", StatusesOf(stage, j))
        IN /\ job[j] = "failed" => \E s \in StagesOf(j) : stage[s].status = "failed"
           /\ job[j] \notin {"failed", "cancelled"} =>
                 (job[j] \in Settled \/ fromStages \in Settled
                    => job[j] = fromStages)

(* A submission whose result is unknown stays so until a person reconciles *)
(* that very stage: no retry, recovery, claim or cancellation moves it.    *)
UnknownAwaitsReconciliation ==
    [][\A s \in Stages :
          stage[s].status = "submission_unknown"
          /\ stage'[s].status # "submission_unknown"
             => \E a \in Admins : /\ admins[a].stage = s
                                  /\ admins[a].action \in {"attach", "no_task", "replace"}
                                  /\ admins'[a].action = "none"]_allVars

(* Nothing is claimed for a cancelled job, and what was cancelled stays.   *)
CancelIsFinal ==
    [][\A s \in Stages :
          job[JobOf[s]] = "cancelled" =>
             /\ job'[JobOf[s]] = "cancelled"
             /\ stage'[s].epoch # stage[s].epoch => stage'[s].status = "cancelled"
             /\ stage[s].status = "cancelled" => stage'[s].status = "cancelled"]_allVars

(* A batch paused because of another batch's unknown submission goes back  *)
(* to the queue when that submission is reconciled.                        *)
PausedBatchHasCause ==
    \A s \in Stages :
        Kind[s] = "manual_extract" /\ stage[s].status = "needs_input" /\ stage[s].paused
        => \E r \in StagesOf(JobOf[s]) : stage[r].status = "submission_unknown"
=============================================================================
