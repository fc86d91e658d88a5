-------------------------- MODULE JobControlProofs --------------------------
(***************************************************************************)
(* What administrators cannot undo, whatever they send and however it      *)
(* meets the executor: leases and task ids as before, the wait of an       *)
(* unknown submission, and a cancellation.  For any number of sessions,    *)
(* requests, jobs, stages, workers, crashes and lapses.                    *)
(***************************************************************************)
EXTENDS JobControl, JobExecutorProofs

(* Requests have their type, and only a stage that submits asynchronously  *)
(* is given a task.                                                        *)
RequestsTyped ==
    /\ admins \in [Admins -> Request]
    /\ requests \in Nat /\ keys \subseteq Nat
    /\ \A a \in Admins : admins[a].action = "attach" => Kind[admins[a].stage] \in AsyncKinds

ControlInv == IInv /\ RequestsTyped

(* Somebody's reconciliation of s is committed by this step.               *)
Reconciles(s) ==
    \E a \in Admins : /\ admins[a].stage = s
                      /\ admins[a].action \in {"attach", "no_task", "replace"}
                      /\ admins'[a].action = "none"

(* What a commit may do to a row: never its lease; its status only if it   *)
(* is not cancelled, cancels what runs, or reconciles what is unknown.     *)
RowsCommitted ==
    \A s \in Stages : stage'[s].status # stage[s].status =>
        /\ stage[s].status # "cancelled"
        /\ stage[s].status = "running" => job'[JobOf[s]] = "cancelled"
        /\ stage[s].status = "submission_unknown" => Reconciles(s)

Committed ==
    /\ TablesTyped' /\ LeasesKept /\ AttemptsKept(attempts') /\ workers' = workers
    /\ RequestsTyped'
    /\ RowsCommitted /\ CancelledJobsStay

-----------------------------------------------------------------------------
(* Rows and requests.                                                      *)

(* A row whose status is written keeps its lease.                          *)
LEMMA RowWritten ==
    ASSUME NEW row \in Row, NEW status \in JobStatuses
    PROVE  /\ [row EXCEPT !.status = status] \in Row
           /\ [row EXCEPT !.status = status].status = status
           /\ [row EXCEPT !.status = status].epoch = row.epoch
           /\ [row EXCEPT !.status = status, !.paused = FALSE] \in Row
           /\ [row EXCEPT !.status = status, !.paused = FALSE].status = status
           /\ [row EXCEPT !.status = status, !.paused = FALSE].epoch = row.epoch
           /\ [row EXCEPT !.status = status, !.paused = FALSE].paused = FALSE
           /\ [row EXCEPT !.status = status, !.retries = 0, !.paused = FALSE] \in Row
           /\ [row EXCEPT !.status = status, !.retries = 0, !.paused = FALSE].epoch = row.epoch
           /\ [row EXCEPT !.status = status, !.result = "none"] \in Row
           /\ [row EXCEPT !.status = status, !.result = "none"].epoch = row.epoch
<1>1. 0 \in Nat /\ FALSE \in BOOLEAN /\ "none" \in Results
  BY DEF Results
<1> QED BY <1>1, Zenon DEF Row

(* A resolution moves the unknown stage, and batches that waited for it.   *)
LEMMA ResolvedRows ==
    ASSUME IInv, NEW s \in Stages, NEW status \in JobStatuses, NEW j,
           stage' = RequeuePaused(Resolve(stage, s, status), j)
    PROVE  /\ LeasesKept
           /\ \A r \in Stages : stage'[r].status # stage[r].status =>
                 \/ r = s /\ stage[r].status = "submission_unknown"
                 \/ stage[r].status = "needs_input" /\ JobOf[r] = j
<1> DEFINE st == Resolve(stage, s, status)
<1>1. stage \in [Stages -> Row] /\ "queued" \in JobStatuses
  BY DEF IInv, TypeOK, JobStatuses
<1>2. /\ st \in [Stages -> Row]
      /\ \A r \in Stages :
            /\ st[r].epoch = stage[r].epoch
            /\ r # s => st[r] = stage[r]
            /\ \/ st[s] = stage[s]
               \/ stage[s].status = "submission_unknown" /\ ~st[s].paused
  <2>1. CASE stage[s].status # "submission_unknown"
    <3>1. st = stage
      BY <2>1 DEF Resolve
    <3> HIDE DEF st
    <3> QED BY <1>1, <3>1
  <2>2. CASE stage[s].status = "submission_unknown"
    <3> DEFINE row == [stage[s] EXCEPT !.status = status, !.paused = FALSE]
    <3>1. st = [stage EXCEPT ![s] = row]
      BY <2>2, <1>1 DEF Resolve
    <3>2. row \in Row /\ row.epoch = stage[s].epoch /\ row.paused = FALSE
      BY <1>1, RowWritten
    <3> HIDE DEF row, st
    <3> QED BY <1>1, <2>2, <3>1, <3>2
  <2> QED BY <2>1, <2>2
<1>3. stage' = RequeuePaused(st, j)
  OBVIOUS
<1> HIDE DEF st
<1>4. \A r \in Stages :
        \/ stage'[r] = st[r]
        \/ /\ st[r].status = "needs_input" /\ st[r].paused /\ JobOf[r] = j
           /\ stage'[r] = [st[r] EXCEPT !.status = "queued", !.paused = FALSE]
  BY <1>3 DEF RequeuePaused
<1>5. stage' = [r \in Stages |-> stage'[r]]
  BY <1>3 DEF RequeuePaused
<1>6. \A r \in Stages : stage'[r] \in Row /\ stage'[r].epoch = st[r].epoch
  <2> TAKE r \in Stages
  <2>1. CASE stage'[r] = st[r]
    BY <1>2, <2>1
  <2>2. CASE stage'[r] = [st[r] EXCEPT !.status = "queued", !.paused = FALSE]
    <3> DEFINE row == [st[r] EXCEPT !.status = "queued", !.paused = FALSE]
    <3>1. row \in Row /\ row.epoch = st[r].epoch
      BY <1>1, <1>2, RowWritten
    <3>2. stage'[r] = row
      BY <2>2
    <3> HIDE DEF row
    <3> QED BY <3>1, <3>2
  <2> QED BY <1>4, <2>1, <2>2
<1>7. LeasesKept
  BY <1>2, <1>5, <1>6 DEF LeasesKept
<1>8. ASSUME NEW r \in Stages, stage'[r].status # stage[r].status
      PROVE  \/ r = s /\ stage[r].status = "submission_unknown"
             \/ stage[r].status = "needs_input" /\ JobOf[r] = j
  <2>1. stage'[r] = st[r] \/ (st[r].status = "needs_input" /\ JobOf[r] = j)
    BY <1>4
  <2>2. CASE r # s
    <3>1. st[r] = stage[r]
      BY <1>2, <2>2
    <3> QED BY <1>8, <2>1, <3>1
  <2>3. CASE r = s
    <3>1. st[r] = stage[r] \/ stage[r].status = "submission_unknown"
      BY <1>2, <2>3
    <3> QED BY <1>8, <2>1, <2>3, <3>1
  <2> QED BY <2>2, <2>3
<1> QED BY <1>7, <1>8

(* A request that was answered leaves the others alone.                    *)
LEMMA AnswerKeeps ==
    ASSUME RequestsTyped, NEW a \in Admins, Answer(a), requests' = requests,
           keys' \subseteq Nat
    PROVE  RequestsTyped' /\ admins'[a].action = "none"
<1>1. NoRequest \in Request
  BY NoStageType DEF NoRequest, Request, RequestKinds, NoTask
<1>2. NoRequest.action = "none"
  BY DEF NoRequest
<1> QED BY <1>1, <1>2 DEF RequestsTyped, Answer

(* The tables of a commit that leaves ledger, draft and bills alone.       *)
LEMMA TablesCommitted ==
    ASSUME IInv, job' \in [Jobs -> JobStatuses],
           allowance' \in [Stages -> BOOLEAN],
           UNCHANGED <<ledger, draft, bills, crashes, lapses>>
    PROVE  TablesTyped'
<1>1. TablesTyped
  BY TypeOKParts DEF IInv
<1> QED BY <1>1, Zenon DEF TablesTyped

(* A confirmation is a yes or a no for every stage.                        *)
LEMMA ConfirmedType ==
    ASSUME IInv, NEW s \in Stages, NEW key
    PROVE  Confirmed(s) \in [Stages -> BOOLEAN]
           /\ ConfirmedWith(key, s) \in [Stages -> BOOLEAN]
<1> DEFINE paid == Kind[s] \in PaidKinds
<1>1. paid \in BOOLEAN /\ allowance \in [Stages -> BOOLEAN]
  BY DEF IInv, TypeOK
<1>2. Confirmed(s) = [allowance EXCEPT ![s] = paid]
  BY DEF Confirmed
<1> HIDE DEF paid
<1>3. Confirmed(s) \in [Stages -> BOOLEAN]
  BY <1>1, <1>2
<1> QED BY <1>1, <1>3 DEF ConfirmedWith

-----------------------------------------------------------------------------
(* The commits.                                                            *)

(* Cancelling stops what was not submitted, once.                          *)
LEMMA CancelCommits ==
    ASSUME ControlInv, NEW a \in Admins, Cancel(a)
    PROVE  Committed
<1> DEFINE j == JobOf[admins[a].stage]
           stops(s) == \/ stage[s].status \in {"queued", "retry_wait", "needs_input"}
                       \/ stage[s].status = "running" /\ ~Submitted(s)
<1>1. j \in Jobs /\ stage \in [Stages -> Row] /\ job \in [Jobs -> JobStatuses]
      /\ "cancelled" \in JobStatuses
  BY JobOfAssumption DEF ControlInv, RequestsTyped, Request, IInv, TypeOK, JobStatuses
<1>2. /\ UNCHANGED <<attempts, ledger, draft, workers, bills, allowance, crashes, lapses>>
      /\ requests' = requests /\ keys' = keys /\ Answer(a)
  BY DEF Cancel
<1>3. RequestsTyped'
  BY <1>2, AnswerKeeps DEF ControlInv, RequestsTyped
<1>4. AttemptsKept(attempts')
  BY <1>2, UnchangedKept DEF ControlInv, IInv
<1>5. /\ LeasesKept /\ RowsCommitted /\ CancelledJobsStay
      /\ job' \in [Jobs -> JobStatuses]
  <2>1. CASE UNCHANGED <<job, stage>>
    BY <2>1, <1>1, KeptStage DEF RowsCommitted, CancelledJobsStay, ControlInv, IInv
  <2>2. CASE /\ job[j] \notin Terminal
             /\ stage' = [s \in Stages |->
                   IF JobOf[s] = j /\ stops(s)
                   THEN [stage[s] EXCEPT !.status = "cancelled"] ELSE stage[s]]
             /\ job' = [job EXCEPT ![j] = "cancelled"]
    <3>1. job' \in [Jobs -> JobStatuses] /\ CancelledJobsStay /\ job'[j] = "cancelled"
      BY <1>1, <2>2 DEF CancelledJobsStay
    <3>2. ASSUME NEW s \in Stages
          PROVE  \/ stage'[s] = stage[s]
                 \/ /\ JobOf[s] = j /\ stops(s)
                    /\ stage'[s] = [stage[s] EXCEPT !.status = "cancelled"]
      BY <2>2
    <3>3. ASSUME NEW s \in Stages
          PROVE  stage'[s] \in Row /\ stage'[s].epoch = stage[s].epoch
      <4> DEFINE row == [stage[s] EXCEPT !.status = "cancelled"]
      <4>1. row \in Row /\ row.epoch = stage[s].epoch
        BY <1>1, RowWritten
      <4>2. stage'[s] = stage[s] \/ stage'[s] = row
        BY <3>2
      <4> HIDE DEF row
      <4> QED BY <1>1, <4>1, <4>2
    <3>4. LeasesKept
      BY <2>2, <3>3 DEF LeasesKept
    <3>5. RowsCommitted
      BY <3>1, <3>2 DEF RowsCommitted
    <3> QED BY <3>1, <3>4, <3>5
  <2> QED BY <2>1, <2>2 DEF Cancel
<1>6. TablesTyped'
  BY <1>2, <1>5, TablesCommitted DEF ControlInv, IInv, TypeOK
<1> QED BY <1>2, <1>3, <1>4, <1>5, <1>6 DEF Committed

(* A retry queues a stage that failed or waits for a person, and what was  *)
(* computed from it.                                                       *)
LEMMA RetryCommits ==
    ASSUME ControlInv, NEW a \in Admins, Retry(a)
    PROVE  Committed
<1> DEFINE s == admins[a].stage
           j == JobOf[s]
           retried == [stage[s] EXCEPT !.status = "queued", !.retries = 0, !.paused = FALSE]
<1>1. /\ s \in Stages /\ j \in Jobs /\ stage \in [Stages -> Row]
      /\ admins[a].key \in Nat /\ "queued" \in JobStatuses
  BY JobOfAssumption DEF ControlInv, RequestsTyped, Request, IInv, TypeOK, JobStatuses
<1>2. /\ UNCHANGED <<attempts, ledger, draft, workers, bills, crashes, lapses>>
      /\ requests' = requests /\ Answer(a)
  BY DEF Retry
<1>3. RequestsTyped'
  BY <1>1, <1>2, AnswerKeeps DEF Retry, ControlInv, RequestsTyped
<1>4. AttemptsKept(attempts')
  BY <1>2, UnchangedKept DEF ControlInv, IInv
<1>5. allowance' \in [Stages -> BOOLEAN]
  <2>1. /\ allowance \in [Stages -> BOOLEAN]
        /\ ConfirmedWith(admins[a].key, s) \in [Stages -> BOOLEAN]
    BY <1>1, ConfirmedType DEF ControlInv, IInv, TypeOK
  <2> QED BY <2>1 DEF Retry
<1>6. /\ LeasesKept /\ RowsCommitted /\ CancelledJobsStay
      /\ job' \in [Jobs -> JobStatuses]
  <2>1. CASE UNCHANGED <<job, stage>>
    BY <2>1, KeptStage DEF RowsCommitted, CancelledJobsStay, ControlInv, IInv, TypeOK
  <2>2. CASE /\ stage[s].status \in Retryable
             /\ stage' = [r \in Stages |->
                   IF r = s THEN retried
                   ELSE IF r \in Dependents(s) /\ stage[r].status = "succeeded"
                   THEN [stage[r] EXCEPT !.status = "queued", !.result = "none"]
                   ELSE stage[r]]
             /\ job' = [job EXCEPT ![j] = AggregateAfterRetry(@, StatusesOf(stage', j))]
    <3>1. job' \in [Jobs -> JobStatuses] /\ CancelledJobsStay
      BY <1>1, <2>2, RecomputedJob DEF ControlInv
    <3>2. ASSUME NEW r \in Stages
          PROVE  \/ stage'[r] = stage[r]
                 \/ /\ stage[r].status \in {"failed", "needs_input", "succeeded"}
                    /\ \/ stage'[r] = [stage[r] EXCEPT !.status = "queued", !.retries = 0,
                                                       !.paused = FALSE]
                       \/ stage'[r] = [stage[r] EXCEPT !.status = "queued",
                                                       !.result = "none"]
      BY <2>2 DEF Retryable
    <3>3. ASSUME NEW r \in Stages
          PROVE  stage'[r] \in Row /\ stage'[r].epoch = stage[r].epoch
      <4> DEFINE again == [stage[r] EXCEPT !.status = "queued", !.retries = 0,
                                           !.paused = FALSE]
                 anew == [stage[r] EXCEPT !.status = "queued", !.result = "none"]
      <4>1. again \in Row /\ again.epoch = stage[r].epoch
        BY <1>1, RowWritten
      <4>2. anew \in Row /\ anew.epoch = stage[r].epoch
        BY <1>1, RowWritten
      <4>3. stage'[r] \in {stage[r], again, anew}
        BY <3>2
      <4> HIDE DEF again, anew
      <4> QED BY <1>1, <4>1, <4>2, <4>3
    <3>4. LeasesKept
      BY <2>2, <3>3 DEF LeasesKept
    <3>5. RowsCommitted
      BY <3>2 DEF RowsCommitted
    <3> QED BY <3>1, <3>4, <3>5
  <2> QED BY <2>1, <2>2 DEF Retry
<1>7. TablesTyped'
  BY <1>2, <1>5, <1>6, TablesCommitted DEF ControlInv
<1> QED BY <1>2, <1>3, <1>4, <1>6, <1>7 DEF Committed

(* A reconciliation resolves its own stage.                                *)
LEMMA ReconcileCommits ==
    ASSUME ControlInv, NEW a \in Admins, Attach(a) \/ RecordNoTask(a) \/ AuthorizeReplacement(a)
    PROVE  Committed
<1> DEFINE s == admins[a].stage
           j == JobOf[s]
<1>1. /\ s \in Stages /\ j \in Jobs /\ admins[a].task \in Nat
      /\ {"queued", "needs_input"} \subseteq JobStatuses
  BY JobOfAssumption DEF ControlInv, RequestsTyped, Request, JobStatuses
<1>2. /\ UNCHANGED <<ledger, draft, workers, bills, crashes, lapses>>
      /\ requests' = requests /\ keys' = keys /\ Answer(a)
      /\ admins[a].action \in {"attach", "no_task", "replace"}
  BY DEF Attach, RecordNoTask, AuthorizeReplacement
<1>3. RequestsTyped' /\ admins'[a].action = "none"
  BY <1>2, AnswerKeeps DEF ControlInv, RequestsTyped
<1>4. AttemptsKept(attempts')
  <2>1. AttemptsKept(SetState(attempts, s, admins[a].attempt, "failed"))
    BY <1>1, SetStateKept DEF ControlInv, IInv, SubmitStates
  <2>2. AttemptsKept(attempts)
    BY UnchangedKept DEF ControlInv, IInv
  <2>3. ASSUME Attach(a), ~TaskConflict(attempts, s, admins[a].attempt, admins[a].task)
        PROVE  AttemptsKept(RecordTask(attempts, s, admins[a].attempt, admins[a].task))
    <3>1. Kind[s] # "manual_extract"
      BY <2>3 DEF Attach, ControlInv, RequestsTyped, AsyncKinds
    <3> QED BY <1>1, <2>3, <3>1, RecordTaskKept DEF ControlInv, IInv
  <2> QED BY <2>1, <2>2, <2>3 DEF Attach, RecordNoTask, AuthorizeReplacement
<1>5. allowance' \in [Stages -> BOOLEAN]
  <2>1. allowance \in [Stages -> BOOLEAN] /\ Confirmed(s) \in [Stages -> BOOLEAN]
    BY <1>1, ConfirmedType DEF ControlInv, IInv, TypeOK
  <2> QED BY <2>1 DEF Attach, RecordNoTask, AuthorizeReplacement
<1>6. /\ LeasesKept /\ RowsCommitted /\ CancelledJobsStay
      /\ job' \in [Jobs -> JobStatuses]
  <2>1. CASE UNCHANGED <<job, stage>>
    BY <2>1, KeptStage DEF RowsCommitted, CancelledJobsStay, ControlInv, IInv, TypeOK
  <2>2. CASE /\ \E status \in {"queued", "needs_input"} :
                   stage' = RequeuePaused(Resolve(stage, s, status), j)
             /\ \/ job' = Recompute(job, stage', j)
                \/ job' = [job EXCEPT ![j] = AggregateAfterRetry(@, StatusesOf(stage', j))]
    <3>1. job' \in [Jobs -> JobStatuses] /\ CancelledJobsStay
      BY <1>1, <2>2, RecomputedJob DEF ControlInv
    <3>2. /\ LeasesKept
          /\ \A r \in Stages : stage'[r].status # stage[r].status =>
                \/ r = s /\ stage[r].status = "submission_unknown"
                \/ stage[r].status = "needs_input"
      BY <1>1, <2>2, ResolvedRows DEF ControlInv
    <3>3. RowsCommitted
      BY <1>2, <1>3, <3>2 DEF RowsCommitted, Reconciles
    <3> QED BY <3>1, <3>2, <3>3
  <2> QED BY <2>1, <2>2 DEF Attach, RecordNoTask, AuthorizeReplacement
<1>7. TablesTyped'
  BY <1>2, <1>5, <1>6, TablesCommitted DEF ControlInv
<1> QED BY <1>2, <1>3, <1>4, <1>6, <1>7 DEF Committed

-----------------------------------------------------------------------------
(* The specification.                                                      *)

(* A check changes no table, and asks to attach only to an asynchronous    *)
(* stage.                                                                  *)
LEMMA CheckKeeps ==
    ASSUME ControlInv, CheckAny
    PROVE  RequestsTyped' /\ UNCHANGED vars
<1>1. NoRequest \in Request /\ MaxRequests \in Nat
  BY NoStageType, RequestsAssumption DEF NoRequest, Request, RequestKinds, NoTask
<1>2. requests + 1 \in Nat
  BY DEF ControlInv, RequestsTyped
<1>3. ASSUME NEW a \in Admins, NEW request \in Request, Check(a, request),
             request.action = "attach" => Kind[request.stage] \in AsyncKinds
      PROVE  RequestsTyped' /\ UNCHANGED vars
  BY <1>2, <1>3 DEF Check, ControlInv, RequestsTyped
<1>4. ASSUME NEW a \in Admins, NEW j \in Jobs, CheckCancel(a, j)
      PROVE  RequestsTyped' /\ UNCHANGED vars
  <2>1. PICK s \in StagesOf(j) :
           Check(a, [NoRequest EXCEPT !.action = "cancel", !.stage = s])
    BY <1>4 DEF CheckCancel
  <2> DEFINE request == [NoRequest EXCEPT !.action = "cancel", !.stage = s]
  <2>2. request \in Request /\ request.action = "cancel"
    <3>1. s \in Stages
      BY DEF StagesOf
    <3> QED BY <3>1, <1>1, Zenon DEF Request, RequestKinds
  <2>3. Check(a, request)
    BY <2>1
  <2> HIDE DEF request
  <2> QED BY <1>3, <2>2, <2>3
<1>5. ASSUME NEW a \in Admins, NEW s \in Stages, CheckRetry(a, s)
      PROVE  RequestsTyped' /\ UNCHANGED vars
  <2>1. PICK key \in 1 .. requests + 1 :
           Check(a, [NoRequest EXCEPT !.action = "retry", !.stage = s, !.key = key])
    BY <1>5 DEF CheckRetry
  <2> DEFINE request == [NoRequest EXCEPT !.action = "retry", !.stage = s, !.key = key]
  <2>2. request \in Request /\ request.action = "retry"
    <3>1. key \in Nat
      BY <1>2
    <3> QED BY <3>1, <1>1, Zenon DEF Request, RequestKinds
  <2>3. Check(a, request)
    BY <2>1
  <2> HIDE DEF request
  <2> QED BY <1>3, <2>2, <2>3
<1>6. ASSUME NEW a \in Admins, NEW s \in Stages, CheckReconcile(a, s)
      PROVE  RequestsTyped' /\ UNCHANGED vars
  <2> DEFINE e == LatestEpoch(attempts, s)
             gone == job[JobOf[s]] = "cancelled"
             request == [NoRequest EXCEPT !.stage = s, !.attempt = e, !.cancelled = gone]
  <2>1. e \in Nat /\ gone \in BOOLEAN
    BY <1>6, LatestInDomain DEF CheckReconcile, ControlInv, IInv, TypeOK, AttemptsTyped
  <2>2. request \in Request /\ request.stage = s
    <3> HIDE DEF e, gone
    <3> QED BY <1>1, <2>1, Zenon DEF Request
  <2>3. \/ \E t \in bills[s] : /\ Kind[s] \in AsyncKinds
                              /\ Check(a, [request EXCEPT !.action = "attach", !.task = t])
        \/ Check(a, [request EXCEPT !.action = "no_task"])
        \/ Check(a, [request EXCEPT !.action = "replace"])
    BY <1>6 DEF CheckReconcile
  <2> HIDE DEF request
  <2>4. ASSUME NEW t \in bills[s], Kind[s] \in AsyncKinds,
               Check(a, [request EXCEPT !.action = "attach", !.task = t])
        PROVE  RequestsTyped' /\ UNCHANGED vars
    <3> DEFINE attach == [request EXCEPT !.action = "attach", !.task = t]
    <3>1. t \in Nat
      BY DEF ControlInv, IInv, TypeOK
    <3>2. attach \in Request /\ attach.stage = s
      BY <2>2, <3>1, Zenon DEF Request, RequestKinds
    <3>3. Check(a, attach)
      BY <2>4
    <3> HIDE DEF attach
    <3> QED BY <1>3, <2>4, <3>2, <3>3
  <2>5. ASSUME NEW action \in {"no_task", "replace"},
               Check(a, [request EXCEPT !.action = action])
        PROVE  RequestsTyped' /\ UNCHANGED vars
    <3> DEFINE word == [request EXCEPT !.action = action]
    <3>1. word \in Request /\ word.action = action
      BY <2>2, Zenon DEF Request, RequestKinds
    <3>2. Check(a, word)
      BY <2>5
    <3> HIDE DEF word
    <3> QED BY <1>3, <3>1, <3>2
  <2> QED BY <2>3, <2>4, <2>5
<1> QED BY <1>4, <1>5, <1>6 DEF CheckAny

(* No request is in flight when the jobs enter.                            *)
LEMMA ControlBegins == InitControl => ControlInv
<1> SUFFICES ASSUME InitControl PROVE ControlInv
  OBVIOUS
<1>1. IInv
  BY InitEstablishes DEF InitControl
<1>2. NoRequest \in Request /\ NoRequest.action = "none"
  BY NoStageType DEF NoRequest, Request, RequestKinds, NoTask
<1>3. RequestsTyped
  BY <1>2 DEF InitControl, RequestsTyped
<1> QED BY <1>1, <1>3 DEF ControlInv

(* Every commit is one of the five.                                        *)
LEMMA CommitsAre == ASSUME ControlInv, CommitAny PROVE Committed
  BY CancelCommits, RetryCommits, ReconcileCommits DEF CommitAny

(* A commit keeps the invariant of the executor: no guard changes.         *)
LEMMA CommitKeeps ==
    ASSUME ControlInv, CommitAny
    PROVE  ControlInv' /\ TasksKept
<1>1. Committed
  BY CommitsAre
<1>2. workers' = [w \in Workers |-> IF w \in {} THEN Idle(NoStage) ELSE workers[w]]
  BY <1>1 DEF Committed, ControlInv, IInv, TypeOK
<1>3. {} \in SUBSET Workers
  OBVIOUS
<1>4. IInv' /\ TasksKept
  BY <1>1, <1>2, <1>3, RetiredKeeps DEF Committed, ControlInv
<1> QED BY <1>1, <1>4 DEF Committed, ControlInv

(* The steps that are the executor's, or leave its tables alone.           *)
LEMMA NextControlCases ==
    ASSUME ControlInv, [NextControl]_allVars, ~CommitAny
    PROVE  [Next]_vars /\ RequestsTyped'
<1>1. CASE ExecutorStep /\ UNCHANGED controlVars
  BY <1>1 DEF Next, controlVars, ControlInv, RequestsTyped
<1>2. CASE CheckAny
  BY <1>2, CheckKeeps
<1>3. CASE CrashControl
  <2>1. NoRequest \in Request /\ NoRequest.action = "none"
    BY NoStageType DEF NoRequest, Request, RequestKinds, NoTask
  <2> QED BY <1>3, <2>1 DEF CrashControl, Next, ControlInv, RequestsTyped
<1>4. CASE UNCHANGED allVars
  BY <1>4 DEF allVars, controlVars, ControlInv, RequestsTyped
<1> QED BY <1>1, <1>2, <1>3, <1>4 DEF NextControl

(* Every step of executor and administrators keeps the invariant and the   *)
(* recorded tasks.                                                         *)
LEMMA ControlStepKeeps == ControlInv /\ [NextControl]_allVars => ControlInv' /\ TasksKept
<1> SUFFICES ASSUME ControlInv, [NextControl]_allVars PROVE ControlInv' /\ TasksKept
  OBVIOUS
<1>1. CASE CommitAny
  BY <1>1, CommitKeeps
<1>2. CASE ~CommitAny
  <2>1. [Next]_vars /\ RequestsTyped'
    BY <1>2, NextControlCases
  <2>2. IInv
    BY DEF ControlInv
  <2> QED BY <2>1, <2>2, StepKeeps DEF ControlInv
<1> QED BY <1>1, <1>2

(* What every step may do to a row.                                        *)
LEMMA ControlStepRows ==
    ControlInv /\ [NextControl]_allVars =>
        /\ CancelledJobsStay
        /\ RowsExecuted \/ (RowsCommitted /\ LeasesKept)
        /\ OnlyHolderMoves \/ RowsCommitted
<1> SUFFICES ASSUME ControlInv, [NextControl]_allVars
             PROVE  /\ CancelledJobsStay
                    /\ RowsExecuted \/ (RowsCommitted /\ LeasesKept)
                    /\ OnlyHolderMoves \/ RowsCommitted
  OBVIOUS
<1>1. CASE CommitAny
  BY <1>1, CommitsAre DEF Committed
<1>2. CASE ~CommitAny
  <2>1. [Next]_vars /\ IInv
    BY <1>2, NextControlCases DEF ControlInv
  <2> QED BY <2>1, StepExecutes, StepMoves
<1> QED BY <1>1, <1>2

(* The invariant holds throughout.                                         *)
LEMMA ControlAlways == SpecControl => []ControlInv
<1>1. ControlInv /\ [NextControl]_allVars => ControlInv'
  BY ControlStepKeeps
<1> QED BY <1>1, ControlBegins, PTL DEF SpecControl

-----------------------------------------------------------------------------
(* What a job says of its stages.                                          *)

(* JobStatusIsHonest for one job with this status over stages with these.  *)
Honest(status, statuses) ==
    LET fromStages == AggregateJobStatus("running", statuses)
    IN /\ status = "failed" => "failed" \in statuses
       /\ status \notin {"failed", "cancelled"} =>
             (status \in Settled \/ fromStages \in Settled => status = fromStages)

Claimed == {"queued", "retry_wait", "waiting_provider"}

(* What a step may do to a job and its stages: cancel the job, leave both, *)
(* claim a stage, or compute the status anew - from rows among which what  *)
(* is finished stayed so, or, when a person asked, from any that were not  *)
(* all succeeded.                                                          *)
JobFollows(j) ==
    LET before == StatusesOf(stage, j)
        after  == StatusesOf(stage', j)
    IN  \/ job'[j] = "cancelled"
        \/ job'[j] = job[j] /\ after = before
        \/ /\ job'[j] = job[j]
           /\ \E s \in StagesOf(j) :
                 /\ stage[s].status \in Claimed /\ stage'[s].status = "running"
                 /\ \A r \in StagesOf(j) \ {s} : stage'[r].status = stage[r].status
        \/ /\ job'[j] = AggregateJobStatus(job[j], after)
           /\ \A s \in StagesOf(j) : stage[s].status \in {"failed", "succeeded"} =>
                 stage'[s].status = stage[s].status
        \/ /\ job'[j] = AggregateAfterRetry(job[j], after)
           /\ before = {"succeeded"} => after = before

(* A status that was computed is honest.                                   *)
LEMMA AggregatedIsHonest ==
    ASSUME NEW status, NEW statuses, status \notin Terminal
    PROVE  Honest(AggregateJobStatus(status, statuses), statuses)
<1>1. AggregateJobStatus(status, statuses) = AggregateJobStatus("running", statuses)
  BY DEF AggregateJobStatus, Terminal
<1>2. AggregateJobStatus("running", statuses) = "failed" => "failed" \in statuses
  BY DEF AggregateJobStatus, Terminal
<1> QED BY <1>1, <1>2 DEF Honest

(* Where work goes on does not matter for what is blocked or done.         *)
LEMMA WorkIsHonest ==
    ASSUME NEW status, NEW before, NEW after, Honest(status, before),
           NEW claimed \in Claimed, claimed \in before, "running" \in after,
           \A x : x \notin Claimed \cup {"running"} => (x \in before <=> x \in after)
    PROVE  Honest(status, after)
<1>1. before # {"succeeded"} /\ after # {"succeeded"}
  BY DEF Claimed
<1>2. \A x \in {"submission_unknown", "needs_input", "failed"} : x \in before <=> x \in after
  BY DEF Claimed
<1>3. \/ AggregateJobStatus("running", before) = AggregateJobStatus("running", after)
      \/ /\ AggregateJobStatus("running", before) \notin Settled
         /\ AggregateJobStatus("running", after) \notin Settled
  BY <1>1, <1>2 DEF AggregateJobStatus, Terminal, Settled
<1> QED BY <1>2, <1>3 DEF Honest

(* All succeeded is what a succeeded job says.                             *)
LEMMA SucceededIsHonest ==
    ASSUME NEW statuses
    PROVE  Honest("succeeded", statuses) <=> statuses = {"succeeded"}
  BY DEF Honest, AggregateJobStatus, Terminal, Settled

(* A step that follows the rules keeps a job honest.                       *)
LEMMA FollowsHonest ==
    ASSUME NEW j \in Jobs, Honest(job[j], StatusesOf(stage, j)), JobFollows(j)
    PROVE  Honest(job'[j], StatusesOf(stage', j))
<1> DEFINE before == StatusesOf(stage, j)
           after == StatusesOf(stage', j)
<1>1. CASE job'[j] = "cancelled"
  BY <1>1 DEF Honest
<1>2. CASE job'[j] = job[j] /\ after = before
  BY <1>2
<1>3. ASSUME job'[j] = job[j], NEW s \in StagesOf(j),
             stage[s].status \in Claimed, stage'[s].status = "running",
             \A r \in StagesOf(j) \ {s} : stage'[r].status = stage[r].status
      PROVE  Honest(job'[j], after)
  <2>1. stage[s].status \in before /\ "running" \in after
    BY <1>3 DEF StatusesOf
  <2>2. ASSUME NEW x, x \notin Claimed \cup {"running"}
        PROVE  x \in before <=> x \in after
    BY <1>3, <2>2 DEF StatusesOf
  <2> HIDE DEF before, after
  <2> QED BY <1>3, <2>1, <2>2, WorkIsHonest DEF before
<1>4. CASE /\ job'[j] = AggregateJobStatus(job[j], after)
           /\ \A s \in StagesOf(j) : stage[s].status \in {"failed", "succeeded"} =>
                 stage'[s].status = stage[s].status
  <2>1. CASE job[j] \notin Terminal
    <3> HIDE DEF after
    <3> QED BY <1>4, <2>1, AggregatedIsHonest DEF after
  <2>2. CASE job[j] = "failed"
    <3>1. "failed" \in before
      BY <2>2 DEF Honest
    <3>2. "failed" \in after
      BY <1>4, <3>1 DEF StatusesOf
    <3>3. job'[j] = "failed"
      BY <1>4, <2>2 DEF AggregateJobStatus, Terminal
    <3> QED BY <3>2, <3>3 DEF Honest
  <2>3. CASE job[j] = "succeeded"
    <3>1. before = {"succeeded"}
      BY <2>3, SucceededIsHonest
    <3>2. after = before
      BY <1>4, <3>1 DEF StatusesOf
    <3>3. job'[j] = "succeeded"
      BY <1>4, <2>3 DEF AggregateJobStatus, Terminal
    <3> QED BY <3>1, <3>2, <3>3, SucceededIsHonest
  <2>4. CASE job[j] = "cancelled"
    BY <1>4, <2>4 DEF AggregateJobStatus, Terminal, Honest
  <2> QED BY <2>1, <2>2, <2>3, <2>4 DEF Terminal
<1>5. CASE /\ job'[j] = AggregateAfterRetry(job[j], after)
           /\ before = {"succeeded"} => after = before
  <2>1. CASE job[j] = "failed"
    <3>1. job'[j] = AggregateJobStatus("running", after) /\ "running" \notin Terminal
      BY <1>5, <2>1 DEF AggregateAfterRetry, Terminal
    <3> HIDE DEF after
    <3> QED BY <3>1, AggregatedIsHonest DEF after
  <2>2. CASE job[j] \notin Terminal
    <3>1. job'[j] = AggregateJobStatus(job[j], after)
      BY <1>5, <2>2 DEF AggregateAfterRetry, Terminal
    <3> HIDE DEF after
    <3> QED BY <2>2, <3>1, AggregatedIsHonest DEF after
  <2>3. CASE job[j] = "succeeded"
    <3>1. before = {"succeeded"}
      BY <2>3, SucceededIsHonest
    <3>2. job'[j] = "succeeded"
      BY <1>5, <2>3 DEF AggregateAfterRetry, AggregateJobStatus, Terminal
    <3> QED BY <1>5, <3>1, <3>2, SucceededIsHonest
  <2>4. CASE job[j] = "cancelled"
    BY <1>5, <2>4 DEF AggregateAfterRetry, AggregateJobStatus, Terminal, Honest
  <2> QED BY <2>1, <2>2, <2>3, <2>4 DEF Terminal
<1> QED BY <1>1, <1>2, <1>3, <1>4, <1>5 DEF JobFollows

(* The stages of other jobs keep their statuses.                           *)
LEMMA OthersFollow ==
    ASSUME NEW i \in Jobs, NEW j \in Jobs, i # j,
           job'[i] = job[i],
           \A r \in Stages : JobOf[r] # j => stage'[r].status = stage[r].status
    PROVE  JobFollows(i)
<1>1. \A r \in StagesOf(i) : stage'[r].status = stage[r].status
  BY DEF StagesOf
<1>2. StatusesOf(stage', i) = StatusesOf(stage, i)
  BY <1>1 DEF StatusesOf
<1> QED BY <1>2 DEF JobFollows

(* A checkpoint, a takeover or a word on an unknown submission.            *)
LEMMA RecomputedFollows ==
    ASSUME IInv, NEW j \in Jobs,
           job' = Recompute(job, stage', j),
           \A r \in Stages : stage'[r].status # stage[r].status =>
              /\ JobOf[r] = j
              /\ stage[r].status \notin {"failed", "succeeded"}
    PROVE  \A i \in Jobs : JobFollows(i)
<1>1. job' = [job EXCEPT ![j] = AggregateJobStatus(job[j], StatusesOf(stage', j))]
  BY DEF Recompute
<1>2. /\ job'[j] = AggregateJobStatus(job[j], StatusesOf(stage', j))
      /\ \A i \in Jobs : i # j => job'[i] = job[i]
  BY <1>1 DEF IInv, TypeOK
<1>3. JobFollows(j)
  BY <1>2 DEF JobFollows, StagesOf
<1> QED BY <1>2, <1>3, OthersFollow

(* A retry or a replacement.                                               *)
LEMMA RetriedFollows ==
    ASSUME IInv, NEW j \in Jobs,
           job' = [job EXCEPT ![j] = AggregateAfterRetry(@, StatusesOf(stage', j))],
           \A r \in Stages : stage'[r].status # stage[r].status => JobOf[r] = j,
           StatusesOf(stage, j) = {"succeeded"} =>
              \A r \in Stages : stage'[r].status = stage[r].status
    PROVE  \A i \in Jobs : JobFollows(i)
<1>1. /\ job'[j] = AggregateAfterRetry(job[j], StatusesOf(stage', j))
      /\ \A i \in Jobs : i # j => job'[i] = job[i]
  BY DEF IInv, TypeOK
<1>2. StatusesOf(stage, j) = {"succeeded"} => StatusesOf(stage', j) = StatusesOf(stage, j)
  BY DEF StatusesOf, StagesOf
<1>3. JobFollows(j)
  BY <1>1, <1>2 DEF JobFollows
<1> QED BY <1>1, <1>3, OthersFollow

(* Rows keep their statuses, and jobs theirs.                              *)
LEMMA NothingFollows ==
    ASSUME job' = job, \A r \in Stages : stage'[r].status = stage[r].status
    PROVE  \A i \in Jobs : JobFollows(i)
<1>1. \A i \in Jobs : StatusesOf(stage', i) = StatusesOf(stage, i)
  BY DEF StatusesOf, StagesOf
<1> QED BY <1>1 DEF JobFollows

(* A row of which only the result is written keeps its status.             *)
LEMMA ResultFollows ==
    ASSUME IInv, NEW s \in Stages, NEW result, job' = job,
           stage' = [stage EXCEPT ![s].result = result]
    PROVE  \A i \in Jobs : JobFollows(i)
<1> DEFINE row == [stage[s] EXCEPT !.result = result]
<1>1. stage \in [Stages -> Row]
  BY DEF IInv, TypeOK
<1>2. row.status = stage[s].status
  BY <1>1, Zenon DEF Row
<1>3. stage' = [stage EXCEPT ![s] = row]
  OBVIOUS
<1> HIDE DEF row
<1>4. \A r \in Stages : stage'[r].status = stage[r].status
  BY <1>1, <1>2, <1>3
<1> QED BY <1>4, NothingFollows

(* A claim starts one stage.                                               *)
LEMMA ClaimFollows ==
    ASSUME IInv, NEW w \in Workers, NEW s \in Stages, Claim(w, s)
    PROVE  \A i \in Jobs : JobFollows(i)
<1> DEFINE row == Leased(stage[s], "running")
<1>1. /\ stage \in [Stages -> Row] /\ job' = job
      /\ stage[s].status \in Claimed /\ stage' = [stage EXCEPT ![s] = row]
  BY DEF IInv, TypeOK, Claim, Claimable, Claimed
<1>2. row.status = "running"
  BY <1>1, LeasedResult
<1> HIDE DEF row
<1>3. \A r \in Stages : stage'[r] = IF r = s THEN row ELSE stage[r]
  BY <1>1
<1>4. ASSUME NEW i \in Jobs, i = JobOf[s]
      PROVE  JobFollows(i)
  <2>1. s \in StagesOf(i) /\ stage'[s].status = "running"
    BY <1>2, <1>3, <1>4 DEF StagesOf
  <2>2. \A r \in StagesOf(i) \ {s} : stage'[r].status = stage[r].status
    BY <1>3 DEF StagesOf
  <2> QED BY <1>1, <2>1, <2>2 DEF JobFollows
<1>5. ASSUME NEW i \in Jobs, i # JobOf[s]
      PROVE  JobFollows(i)
  <2>1. JobOf[s] \in Jobs
    BY JobOfAssumption
  <2>2. \A r \in Stages : JobOf[r] # JobOf[s] => stage'[r].status = stage[r].status
    BY <1>3
  <2> QED BY <1>1, <1>5, <2>1, <2>2, OthersFollow
<1> QED BY <1>4, <1>5

(* A running row is written, and its job follows.                          *)
LEMMA RunningFollows ==
    ASSUME IInv, NEW s \in Stages, NEW row, stage[s].status = "running",
           stage' = [stage EXCEPT ![s] = row],
           job' = Recompute(job, stage', JobOf[s])
    PROVE  \A i \in Jobs : JobFollows(i)
<1>1. JobOf[s] \in Jobs /\ stage \in [Stages -> Row]
  BY JobOfAssumption DEF IInv, TypeOK
<1>2. \A r \in Stages : r # s => stage'[r] = stage[r]
  BY <1>1
<1>3. \A r \in Stages : stage'[r].status # stage[r].status =>
         JobOf[r] = JobOf[s] /\ stage[r].status \notin {"failed", "succeeded"}
  BY <1>2
<1> QED BY <1>1, <1>3, RecomputedFollows

(* Every step of the executor.                                             *)
LEMMA StepFollows == IInv /\ [Next]_vars => \A i \in Jobs : JobFollows(i)
<1> SUFFICES ASSUME IInv, [Next]_vars PROVE \A i \in Jobs : JobFollows(i)
  OBVIOUS
<1>1. CASE UNCHANGED <<stage, job>>
  BY <1>1, NothingFollows
<1>2. ASSUME NEW w \in Workers, ResetFact(w) \/ HandleExtractReply(w) \/ Fact(w)
      PROVE  \A i \in Jobs : JobFollows(i)
  <2>1. workers[w].stage \in Stages /\ job' = job
    BY <1>2 DEF IInv, TypeOK, Worker, ResetFact, HandleExtractReply, Fact
  <2>2. \/ UNCHANGED stage
        \/ \E result \in Results :
              stage' = [stage EXCEPT ![workers[w].stage].result = result]
    BY <1>2 DEF ResetFact, HandleExtractReply, Fact, Results
  <2> QED BY <1>1, <2>1, <2>2, ResultFollows
<1>3. ASSUME NEW w \in Workers, Checkpoint(w)
      PROVE  \A i \in Jobs : JobFollows(i)
  <2>1. workers[w].stage \in Stages
    BY DEF IInv, TypeOK, Worker
  <2>2. CASE Holds(w, workers[w].stage)
    BY <1>3, <2>1, <2>2, RunningFollows DEF Checkpoint, Holds
  <2>3. CASE ~Holds(w, workers[w].stage)
    BY <1>1, <1>3, <2>3 DEF Checkpoint
  <2> QED BY <2>2, <2>3
<1>4. ASSUME NEW s \in Stages, NEW result \in Results, TakeOver(s, result)
      PROVE  \A i \in Jobs : JobFollows(i)
  BY <1>4, RunningFollows DEF TakeOver
<1>5. ASSUME NEW w \in Workers,
             \/ CheckInputs(w) \/ BeginIntent(w) \/ MarkSubmitting(w) \/ Post(w)
             \/ HandleSubmitReply(w) \/ LedgerStep(w) \/ Poll(w) \/ Fetch(w)
             \/ Merge(w) \/ Assemble(w) \/ SaveDraft(w)
      PROVE  UNCHANGED <<stage, job>>
  BY <1>5 DEF CheckInputs, BeginIntent, MarkSubmitting, Post,
     HandleSubmitReply, LedgerStep, Poll, Fetch, Merge, Assemble, SaveDraft
<1>6. CASE Crash \/ ScanAny \/ UNCHANGED vars
  BY <1>1, <1>6 DEF Crash, ScanAny, ScanLapsed, vars
<1> QED
  BY <1>1, <1>2, <1>3, <1>4, <1>5, <1>6, ClaimFollows, RecoverTakesOver
     DEF Next, ExecutorStep, ClaimAny, WorkerStep, RecoverAny

(* A cancellation touches one job.                                         *)
LEMMA CancelFollows ==
    ASSUME ControlInv, NEW a \in Admins, Cancel(a)
    PROVE  \A i \in Jobs : JobFollows(i)
<1> DEFINE j == JobOf[admins[a].stage]
           stops(s) == \/ stage[s].status \in {"queued", "retry_wait", "needs_input"}
                       \/ stage[s].status = "running" /\ ~Submitted(s)
<1>1. j \in Jobs /\ job \in [Jobs -> JobStatuses]
  BY JobOfAssumption DEF ControlInv, RequestsTyped, Request, IInv, TypeOK
<1>2. CASE UNCHANGED <<job, stage>>
  BY <1>2, NothingFollows
<1>3. CASE /\ stage' = [s \in Stages |->
                 IF JobOf[s] = j /\ stops(s)
                 THEN [stage[s] EXCEPT !.status = "cancelled"] ELSE stage[s]]
           /\ job' = [job EXCEPT ![j] = "cancelled"]
  <2>1. /\ \A r \in Stages : JobOf[r] # j => stage'[r].status = stage[r].status
        /\ job'[j] = "cancelled"
        /\ \A i \in Jobs : i # j => job'[i] = job[i]
    BY <1>1, <1>3
  <2>2. JobFollows(j)
    BY <2>1 DEF JobFollows
  <2> QED BY <1>1, <2>1, <2>2, OthersFollow
<1> QED BY <1>2, <1>3 DEF Cancel

(* A retry queues stages of one job, of which one had not succeeded.       *)
LEMMA RetryFollows ==
    ASSUME ControlInv, NEW a \in Admins, Retry(a)
    PROVE  \A i \in Jobs : JobFollows(i)
<1> DEFINE s == admins[a].stage
           j == JobOf[s]
           retried == [stage[s] EXCEPT !.status = "queued", !.retries = 0, !.paused = FALSE]
<1>1. s \in Stages /\ j \in Jobs
  BY JobOfAssumption DEF ControlInv, RequestsTyped, Request
<1>2. CASE UNCHANGED <<job, stage>>
  BY <1>2, NothingFollows
<1>3. CASE /\ stage[s].status \in Retryable
           /\ stage' = [r \in Stages |->
                 IF r = s THEN retried
                 ELSE IF r \in Dependents(s) /\ stage[r].status = "succeeded"
                 THEN [stage[r] EXCEPT !.status = "queued", !.result = "none"]
                 ELSE stage[r]]
           /\ job' = [job EXCEPT ![j] = AggregateAfterRetry(@, StatusesOf(stage', j))]
  <2>1. Dependents(s) \subseteq StagesOf(j)
    BY DEF Dependents
  <2>2. \A r \in Stages : JobOf[r] # j => stage'[r] = stage[r]
    BY <1>3, <2>1 DEF StagesOf
  <2>3. stage[s].status \in StatusesOf(stage, j) /\ stage[s].status # "succeeded"
    BY <1>1, <1>3 DEF StatusesOf, StagesOf, Retryable
  <2>4. StatusesOf(stage, j) # {"succeeded"}
    BY <2>3
  <2>5. job' = [job EXCEPT ![j] = AggregateAfterRetry(@, StatusesOf(stage', j))]
    BY <1>3
  <2>6. \A r \in Stages : stage'[r].status # stage[r].status => JobOf[r] = j
    BY <2>2
  <2> HIDE DEF j, s
  <2> QED BY <1>1, <2>4, <2>5, <2>6, RetriedFollows DEF ControlInv
<1> QED BY <1>2, <1>3 DEF Retry

(* A reconciliation resolves unknown stages and paused batches of one job. *)
LEMMA ReconcileFollows ==
    ASSUME ControlInv, NEW a \in Admins, Attach(a) \/ RecordNoTask(a) \/ AuthorizeReplacement(a)
    PROVE  \A i \in Jobs : JobFollows(i)
<1> DEFINE s == admins[a].stage
           j == JobOf[s]
<1>1. /\ s \in Stages /\ j \in Jobs /\ IInv
      /\ {"queued", "needs_input"} \subseteq JobStatuses
  BY JobOfAssumption DEF ControlInv, RequestsTyped, Request, JobStatuses
<1>2. CASE UNCHANGED <<job, stage>>
  BY <1>2, NothingFollows
<1>3. CASE /\ \E status \in {"queued", "needs_input"} :
                 stage' = RequeuePaused(Resolve(stage, s, status), j)
           /\ \/ job' = Recompute(job, stage', j)
              \/ job' = [job EXCEPT ![j] = AggregateAfterRetry(@, StatusesOf(stage', j))]
  <2>1. \A r \in Stages : stage'[r].status # stage[r].status =>
           /\ JobOf[r] = j
           /\ stage[r].status \in {"submission_unknown", "needs_input"}
    BY <1>1, <1>3, ResolvedRows
  <2>2. StatusesOf(stage, j) = {"succeeded"} =>
           \A r \in Stages : stage'[r].status = stage[r].status
    BY <2>1 DEF StatusesOf, StagesOf
  <2>3. \/ job' = Recompute(job, stage', j)
        \/ job' = [job EXCEPT ![j] = AggregateAfterRetry(@, StatusesOf(stage', j))]
    BY <1>3
  <2> HIDE DEF j, s
  <2>4. CASE job' = Recompute(job, stage', j)
    BY <1>1, <2>1, <2>4, RecomputedFollows
  <2>5. CASE job' = [job EXCEPT ![j] = AggregateAfterRetry(@, StatusesOf(stage', j))]
    BY <1>1, <2>1, <2>2, <2>5, RetriedFollows
  <2> QED BY <2>3, <2>4, <2>5
<1> QED BY <1>2, <1>3 DEF Attach, RecordNoTask, AuthorizeReplacement

(* Jobs follow their stages in every step of the composition.              *)
LEMMA ControlStepFollows ==
    ControlInv /\ [NextControl]_allVars => \A i \in Jobs : JobFollows(i)
<1> SUFFICES ASSUME ControlInv, [NextControl]_allVars
             PROVE  \A i \in Jobs : JobFollows(i)
  OBVIOUS
<1>1. CASE CommitAny
  BY <1>1, CancelFollows, RetryFollows, ReconcileFollows DEF CommitAny
<1>2. CASE ~CommitAny
  <2>1. [Next]_vars /\ IInv
    BY <1>2, NextControlCases DEF ControlInv
  <2> QED BY <2>1, StepFollows
<1> QED BY <1>1, <1>2

(* JobStatusIsHonest, job by job.                                          *)
LEMMA HonestJobs ==
    JobStatusIsHonest <=> \A j \in Jobs : Honest(job[j], StatusesOf(stage, j))
  BY DEF JobStatusIsHonest, Honest, StatusesOf

-----------------------------------------------------------------------------
(* The theorems.                                                           *)

(* Tables, tasks and requests keep their types (jobs/control.rs with the   *)
(* executor).                                                              *)
THEOREM ControlTyped == SpecControl => []TypeOKControl
<1>1. ControlInv => TypeOKControl
  BY DEF ControlInv, IInv, RequestsTyped, TypeOKControl
<1> QED BY <1>1, ControlAlways, PTL

(* No request hands out a lease or takes one: two tasks never hold the     *)
(* lease of one stage, with administrators at work either.                 *)
THEOREM LeasesStillExclude == SpecControl => []LeaseIsExclusive
<1>1. ControlInv => LeaseIsExclusive
  BY DEF ControlInv, IInv, EpochsAreFresh, LeaseIsExclusive, Holds
<1> QED BY <1>1, ControlAlways, PTL

(* Retries and reconciliations leave every epoch and every attempt's name. *)
THEOREM EpochsStillFresh == SpecControl => []EpochsAreFresh
<1>1. ControlInv => EpochsAreFresh
  BY DEF ControlInv, IInv
<1> QED BY <1>1, ControlAlways, PTL

(* A reconciliation does not replace a recorded task either: attaching     *)
(* compares, and the administrator's word changes the state only.          *)
THEOREM TaskIdsStillKept == SpecControl => TaskIdWriteOnce
<1>1. ControlInv /\ [NextControl]_allVars =>
         [\A s \in Stages : \A e \in DOMAIN attempts[s] :
             attempts[s][e].task # NoTask =>
                /\ e \in DOMAIN attempts'[s]
                /\ attempts'[s][e].task = attempts[s][e].task]_vars
  BY ControlStepKeeps DEF TasksKept
<1> QED BY <1>1, ControlAlways, PTL DEF SpecControl, TaskIdWriteOnce

(* Only a reconciliation of the stage itself moves an unknown submission:  *)
(* recovery, claims, cancellation and retries leave it.                    *)
THEOREM UnknownWaits == SpecControl => UnknownAwaitsReconciliation
<1>1. ControlInv /\ [NextControl]_allVars =>
         [\A s \in Stages :
             stage[s].status = "submission_unknown"
             /\ stage'[s].status # "submission_unknown"
                => \E a \in Admins : /\ admins[a].stage = s
                                     /\ admins[a].action \in {"attach", "no_task", "replace"}
                                     /\ admins'[a].action = "none"]_allVars
  BY ControlStepRows DEF RowsExecuted, Claimable, RowsCommitted, Reconciles
<1> QED BY <1>1, ControlAlways, PTL DEF SpecControl, UnknownAwaitsReconciliation

(* A cancelled job stays cancelled, none of its stages is claimed, and a   *)
(* takeover only cancels.                                                  *)
THEOREM CancellationIsFinal == SpecControl => CancelIsFinal
<1>1. ControlInv /\ [NextControl]_allVars =>
         [\A s \in Stages :
             job[JobOf[s]] = "cancelled" =>
                /\ job'[JobOf[s]] = "cancelled"
                /\ stage'[s].epoch # stage[s].epoch => stage'[s].status = "cancelled"
                /\ stage[s].status = "cancelled" => stage'[s].status = "cancelled"]_allVars
  <2> SUFFICES ASSUME ControlInv, [NextControl]_allVars, NEW s \in Stages,
                      job[JobOf[s]] = "cancelled"
               PROVE  /\ job'[JobOf[s]] = "cancelled"
                      /\ stage'[s].epoch # stage[s].epoch => stage'[s].status = "cancelled"
                      /\ stage[s].status = "cancelled" => stage'[s].status = "cancelled"
    OBVIOUS
  <2>1. JobOf[s] \in Jobs
    BY JobOfAssumption
  <2> QED
    BY <2>1, ControlStepRows
       DEF RowsExecuted, Claimable, RowsCommitted, LeasesKept, CancelledJobsStay
<1> QED BY <1>1, ControlAlways, PTL DEF SpecControl, CancelIsFinal

(* A running stage is moved on by its holder, a takeover or a cancellation *)
(* of the job; no retry and no reconciliation moves it.                    *)
THEOREM StaleTasksStillMoveNothing == SpecControl => OnlyHolderAdvances
<1>1. ControlInv /\ [NextControl]_allVars =>
         [\A s \in Stages :
             stage[s].status = "running" /\ stage'[s].status # "running" =>
                \/ stage'[s].epoch > stage[s].epoch
                \/ job'[JobOf[s]] = "cancelled"
                \/ \E w \in Workers : /\ workers[w].pc = "checkpoint"
                                      /\ workers[w].stage = s
                                      /\ workers[w].epoch = stage[s].epoch
                                      /\ workers'[w].pc = "idle"]_vars
  BY ControlStepRows DEF OnlyHolderMoves, RowsCommitted
<1> QED BY <1>1, ControlAlways, PTL DEF SpecControl, OnlyHolderAdvances

(* Whichever of checkpoint, takeover, cancellation, retry or               *)
(* reconciliation wrote last, and however they met: a job says blocked or  *)
(* done exactly when its stages do, and failed only over a failed stage.   *)
THEOREM JobsStayHonest == SpecControl => []JobStatusIsHonest
<1>1. InitControl => JobStatusIsHonest
  <2> SUFFICES ASSUME InitControl, NEW j \in Jobs
               PROVE  Honest(job[j], StatusesOf(stage, j))
    BY HonestJobs
  <2>1. job[j] = "queued" /\ \A s \in Stages : stage[s].status = "queued"
    BY DEF InitControl, Init, QueuedRow
  <2>2. StatusesOf(stage, j) \subseteq {"queued"}
    BY <2>1 DEF StatusesOf, StagesOf
  <2>3. "succeeded" \notin StatusesOf(stage, j) /\ StatusesOf(stage, j) # {"succeeded"}
    BY <2>2
  <2> QED BY <2>1, <2>2, <2>3 DEF Honest, AggregateJobStatus, Terminal, Settled
<1>2. JobStatusIsHonest /\ ControlInv /\ [NextControl]_allVars => JobStatusIsHonest'
  <2> SUFFICES ASSUME JobStatusIsHonest, ControlInv, [NextControl]_allVars,
                      NEW j \in Jobs
               PROVE  Honest(job'[j], StatusesOf(stage', j))
    BY DEF JobStatusIsHonest, Honest, StatusesOf
  <2>1. Honest(job[j], StatusesOf(stage, j))
    BY HonestJobs
  <2>2. JobFollows(j)
    BY ControlStepFollows
  <2> QED BY <2>1, <2>2, FollowsHonest
<1> QED BY <1>1, <1>2, ControlAlways, PTL DEF SpecControl
=============================================================================
