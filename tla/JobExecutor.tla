---------------------------- MODULE JobExecutor ----------------------------
(***************************************************************************)
(* The job executor of the server (crates/server/src/jobs/executor.rs,     *)
(* recover.rs, submission.rs, the stage handlers of providers/ and         *)
(* pipeline.rs, and the SQL of storage/repo/{job_stages,attempts,jobs,     *)
(* ledger}.rs).  Execution tasks claim stages under a lease, run their     *)
(* handler - for a paid stage through the submission window: intent,       *)
(* submitting, POST, receipt - and write the outcome back guarded by the   *)
(* lease epoch, while a recovery scan takes over stages whose lease ran    *)
(* out.  One action is one SQL transaction, one call to a provider, or the *)
(* reads between two of those.                                             *)
(***************************************************************************)
EXTENDS JobRules

CONSTANTS
    Jobs, Stages, Workers,
    Kind,                    \* [Stages -> StageKinds]
    JobOf,                   \* [Stages -> Jobs]
    ManualAiBatchLimit,      \* running manual_extract stages, at most
    RemoteGenerationLimit,   \* running remote generation stages, at most
    MaxSafeRetries,          \* MAX_SAFE_RETRIES
    MaxPolls,                \* polls that spend the remote wait budget
    MaxCrashes,              \* bound: crashes of the server
    MaxLapses                \* bound: leases that lapse under a live worker

(* The kinds whose handlers this module has.                               *)
HandledKinds ==
    {"manual_extract", "manual_merge", "tripo_upload", "tripo_submit",
     "tripo_poll", "model_download", "model_validate", "assemble_draft"}

ASSUME StagesAssumption  == Stages # {}
ASSUME KindsAssumption   == Kind \in [Stages -> HandledKinds]
ASSUME JobOfAssumption   == JobOf \in [Stages -> Jobs]
ASSUME BoundsAssumption  ==
    {ManualAiBatchLimit, RemoteGenerationLimit, MaxSafeRetries, MaxPolls,
     MaxCrashes, MaxLapses} \subseteq Nat

VARIABLES
    job,        \* jobs.status
    stage,      \* the job_stages rows
    attempts,   \* the provider_attempts rows, by stage and epoch of creation
    ledger,     \* cost_ledger.state, by job and provider
    draft,      \* the stages whose results the saved draft was built from
    workers,    \* the execution tasks of the server process
    bills,      \* at the provider: the attempts it charged for
    allowance,  \* history: a purchase is confirmed and not yet made
    crashes, lapses

vars == <<job, stage, attempts, ledger, draft, workers, bills, allowance,
          crashes, lapses>>

-----------------------------------------------------------------------------
(* Rows and their domains.                                                 *)

Results == {"none", "knowledge", "no_knowledge"}

Row == [status  : JobStatuses,
        epoch   : Nat,       \* lease_epoch
        retries : Nat,       \* attempt_count
        polls   : Nat,       \* poll_count
        result  : Results,   \* result_asset_id with usage.producedKnowledge
        paused  : BOOLEAN]   \* needs_input: manual_branch_paused_by_unknown

(* What the scan remembers of a lapsed row until it takes the lease over;  *)
(* a takeover needs the row's epoch unmoved, so it goes with its holder.   *)
Scans == Results \cup {"unseen"}

Attempt == [state : SubmitStates, task : Nat]

AttemptsTyped(at) ==
    /\ DOMAIN at = Stages
    /\ \A s \in Stages : /\ DOMAIN at[s] \subseteq Nat
                         /\ at[s] \in [DOMAIN at[s] -> Attempt]

Outcomes == {"none", "succeeded", "waiting", "retryable", "needs_input",
             "branch_paused", "submission_unknown", "failed"}

Replies == {"none", "task", "result", "diagnosis", "throttled", "refused",
            "lost"}

Worker == [pc      : {"idle", "inputs", "intent", "mark", "reset", "armed",
                      "reply", "run", "save", "ledger", "fact", "checkpoint"},
           stage   : Stages,
           epoch   : Nat,            \* LeaseGuard.epoch; names its attempt
           reply   : Replies,
           outcome : Outcomes,
           seen    : SUBSET Stages,  \* dependencies assembly read succeeded
           scan    : Scans]          \* the result a recovery scan found in its
                                     \* stage's row when the lease had run out

StagesOf(j) == {s \in Stages : JobOf[s] = j}

DependsOn(s) ==
    {d \in StagesOf(JobOf[s]) : Kind[d] \in StageDependency(Kind[s])}

StatusesOf(st, j) == {st[s].status : s \in StagesOf(j)}

(* latest_for_stage: rows are ordered by created_at, which is the time of  *)
(* the claim under which an attempt was created, that is by epoch.         *)
LatestEpoch(at, s) ==
    CHOOSE e \in DOMAIN at[s] : \A f \in DOMAIN at[s] : f <= e

Latest(at, s) ==
    IF DOMAIN at[s] = {} THEN NoAttempt ELSE at[s][LatestEpoch(at, s)]

SetState(at, s, e, state) == [at EXCEPT ![s][e].state = state]

(* jobs::recompute_status, in the transaction that wrote the rows st.      *)
Recompute(jb, st, j) == [jb EXCEPT ![j] = AggregateJobStatus(@, StatusesOf(st, j))]

HasUnresolvedOtherThan(at, s, e) ==
    \E f \in DOMAIN at[s] \ {e} : at[s][f].state \in Unresolved

(* The partial unique index rejects a second unresolved attempt.           *)
MarkUnknownFails(at, s, e) ==
    at[s][e].state \notin Unresolved /\ HasUnresolvedOtherThan(at, s, e)

-----------------------------------------------------------------------------
(* Jobs enter with every stage queued, the budget reserved and the first   *)
(* purchase of every paid stage confirmed by the accepted quote.           *)

QueuedRow == [status |-> "queued", epoch |-> 0, retries |-> 0, polls |-> 0,
              result |-> "none", paused |-> FALSE]

Idle(s) == [pc |-> "idle", stage |-> s, epoch |-> 0, reply |-> "none",
            outcome |-> "none", seen |-> {}, scan |-> "unseen"]

NoStage == CHOOSE s \in Stages : TRUE

Init ==
    /\ job = [j \in Jobs |-> "queued"]
    /\ stage = [s \in Stages |-> QueuedRow]
    /\ attempts = [s \in Stages |-> [e \in {} |-> NoAttempt]]
    /\ ledger = [j \in Jobs |-> [p \in Providers |-> "reserved"]]
    /\ draft = [j \in Jobs |-> {}]
    /\ workers = [w \in Workers |-> Idle(NoStage)]
    /\ bills = [s \in Stages |-> {}]
    /\ allowance = [s \in Stages |-> Kind[s] \in PaidKinds]
    /\ crashes = 0
    /\ lapses = 0

-----------------------------------------------------------------------------
(* Claiming.                                                               *)

(* Mutants: every stage is unlocked like the assembly, and the assembly    *)
(* does not wait for running stages.                                       *)
UnlockedAtRest(s) ==
    \A d \in DependsOn(s) : stage[d].status \notin
        {"queued", "retry_wait", "running", "waiting_provider"}

UnlockedWhileRunning(s) ==
    \A d \in DependsOn(s) : stage[d].status \notin
        {"queued", "retry_wait", "waiting_provider"}

(* CLAIM_CANDIDATE_SQL: assembly waits until its dependencies are at rest, *)
(* every other stage until they have succeeded.                            *)
Unlocked(s) ==
    \A d \in DependsOn(s) :
        IF Kind[s] = "assemble_draft"
        THEN stage[d].status \notin {"queued", "retry_wait", "running",
                                     "waiting_provider"}
        ELSE stage[d].status = "succeeded"

Claimable(s) ==
    /\ stage[s].status \in {"queued", "retry_wait", "waiting_provider"}
    /\ job[JobOf[s]] # "cancelled"
    /\ Unlocked(s)

RunningIn(kinds) ==
    {r \in Stages : stage[r].status = "running" /\ Kind[r] \in kinds}

HasCapacity(s) ==
    ClaimGroup(Kind[s]) # {} =>
        Cardinality(RunningIn(ClaimGroup(Kind[s]))) <
            IF Kind[s] = "manual_extract" THEN ManualAiBatchLimit
                                          ELSE RemoteGenerationLimit

(* execute: what the recorded facts decide before any provider is asked.   *)
FirstStep(s) ==
    LET hint == ResumeHint(Latest(attempts, s))
        outcome ==
            CASE hint = "unknown"                                -> "submission_unknown"
              [] hint = "task" /\ Kind[s] = "tripo_submit"       -> "succeeded"
              [] hint = "receipt" /\ Kind[s] = "tripo_submit"    -> "submission_unknown"
              [] hint = "task" /\ Kind[s] = "manual_extract"     -> "needs_input"
              [] OTHER                                           -> "none"
    IN IF outcome # "none" THEN [pc |-> "checkpoint", outcome |-> outcome]
       ELSE [pc |-> IF Kind[s] \in PaidKinds THEN "inputs" ELSE "run",
             outcome |-> "none"]

(* Mutant: taking a lease leaves the epoch.                                *)
LeasedInPlace(row, status) == [row EXCEPT !.status = status]

(* Whoever takes a lease, by a claim or from an expired holder, moves the  *)
(* epoch on.                                                               *)
Leased(row, status) == [row EXCEPT !.status = status, !.epoch = @ + 1]

(* claim, then the reads at the head of execute.  A provider configuration *)
(* that no longer matches the job's ends the execution in needs_input.     *)
Claim(w, s) ==
    /\ workers[w].pc = "idle"
    /\ Claimable(s)
    /\ HasCapacity(s)
    /\ stage' = [stage EXCEPT ![s] = Leased(@, "running")]
    /\ \E first \in {FirstStep(s), [pc |-> "checkpoint", outcome |-> "needs_input"]} :
          workers' = [workers EXCEPT ![w] =
              [Idle(s) EXCEPT !.pc = first.pc, !.outcome = first.outcome,
                              !.epoch = stage'[s].epoch]]
    /\ UNCHANGED <<job, attempts, ledger, draft, bills, allowance, crashes, lapses>>

-----------------------------------------------------------------------------
(* The submission window of a paid stage.                                  *)

Goto(w, pc) == workers' = [workers EXCEPT ![w].pc = pc, ![w].reply = "none"]

Conclude(w, pc, outcome) ==
    workers' = [workers EXCEPT ![w].pc = pc, ![w].outcome = outcome,
                               ![w].reply = "none"]

(* load_confirmed_inputs / load_frozen_inputs: the frozen inputs may no    *)
(* longer be usable; a batch also needs a held reservation and no other    *)
(* batch of its job in submission_unknown.                                 *)
CheckInputs(w) ==
    LET s     == workers[w].stage
        batch == Kind[s] = "manual_extract"
        holds == HoldsBudget(ledger[JobOf[s]]["manual_ai"])
        unknownSibling ==
            \E r \in StagesOf(JobOf[s]) \ {s} :
                /\ Kind[r] = "manual_extract"
                /\ stage[r].status = "submission_unknown"
    IN /\ workers[w].pc = "inputs"
       /\ \/ Conclude(w, "checkpoint", "needs_input")
          \/ /\ batch /\ holds /\ unknownSibling
             /\ Conclude(w, "checkpoint", "branch_paused")
          \/ /\ batch => holds /\ ~unknownSibling
             /\ Goto(w, "intent")
       /\ UNCHANGED <<job, stage, attempts, ledger, draft, bills, allowance,
                      crashes, lapses>>

(* begin_intent: refused while a payment of the stage is in doubt; an      *)
(* intent that never reached its request is closed first.                  *)
BeginIntent(w) ==
    LET s == workers[w].stage
        e == workers[w].epoch
        inDoubt == \E f \in DOMAIN attempts[s] : attempts[s][f].state \in InDoubt
        closed == [f \in DOMAIN attempts[s] |->
                      IF attempts[s][f].state = "intent"
                      THEN [attempts[s][f] EXCEPT !.state = "failed"]
                      ELSE attempts[s][f]]
        fresh == [state |-> "intent", task |-> NoTask]
    IN /\ workers[w].pc = "intent"
       /\ \/ /\ inDoubt
             /\ Conclude(w, "checkpoint", "retryable")
             /\ UNCHANGED attempts
          \/ /\ ~inDoubt
             /\ attempts' = [attempts EXCEPT ![s] =
                    [f \in DOMAIN attempts[s] \cup {e} |->
                        IF f = e THEN fresh ELSE closed[f]]]
             /\ Goto(w, "mark")
       /\ UNCHANGED <<job, stage, ledger, draft, bills, allowance, crashes, lapses>>

(* map_handler_error: an attempt left in doubt parks the stage.            *)
ErrorOutcome(s, e) ==
    IF attempts[s][e].state \in InDoubt THEN "submission_unknown" ELSE "retryable"

(* mark_submitting: only an intent may become a request.                   *)
MarkSubmitting(w) ==
    LET s == workers[w].stage
        e == workers[w].epoch
    IN /\ workers[w].pc = "mark"
       /\ \/ /\ attempts[s][e].state = "intent"
             /\ attempts' = SetState(attempts, s, e, "submitting")
             /\ Goto(w, IF Kind[s] = "manual_extract" THEN "reset" ELSE "armed")
          \/ /\ attempts[s][e].state # "intent"
             /\ Conclude(w, "checkpoint", ErrorOutcome(s, e))
             /\ UNCHANGED attempts
       /\ UNCHANGED <<job, stage, ledger, draft, bills, allowance, crashes, lapses>>

(* reset_result_fact: a batch forgets the result of an earlier request.    *)
ResetFact(w) ==
    LET s == workers[w].stage
    IN /\ workers[w].pc = "reset"
       /\ stage' = IF stage[s].status = "running"
                   THEN [stage EXCEPT ![s].result = "none"] ELSE stage
       /\ Goto(w, "armed")
       /\ UNCHANGED <<job, attempts, ledger, draft, bills, allowance, crashes, lapses>>

(* The one POST.  The provider charges for what it accepts; a lost reply   *)
(* hides whether it did.                                                   *)
Post(w) ==
    LET s == workers[w].stage
        e == workers[w].epoch
        billed == IF Kind[s] = "manual_extract"
                  THEN {"result", "diagnosis", "lost"} ELSE {"task", "lost"}
        reply(r) == workers' = [workers EXCEPT ![w].pc = "reply", ![w].reply = r]
    IN /\ workers[w].pc = "armed"
       /\ \/ /\ \E r \in billed : reply(r)
             /\ bills' = [bills EXCEPT ![s] = @ \cup {e}]
             /\ allowance' = [allowance EXCEPT ![s] = FALSE]
          \/ /\ \E r \in {"throttled", "refused", "lost"} : reply(r)
             /\ UNCHANGED <<bills, allowance>>
       /\ UNCHANGED <<job, stage, attempts, ledger, draft, crashes, lapses>>

(* Mutant: the recorded task id is overwritten.                            *)
TaskConflictIgnored(at, s, e, t) == FALSE

TaskConflict(at, s, e, t) == at[s][e].task \notin {NoTask, t}

RecordTask(at, s, e, t) ==
    [at EXCEPT ![s][e] = [state |-> "accepted", task |-> t]]

(* A reply to tripo_submit.  The receipt is written whatever became of the *)
(* lease; another task id already there parks the stage, as does a reply   *)
(* that cannot prove the request was not accepted.                         *)
HandleSubmitReply(w) ==
    LET s == workers[w].stage
        e == workers[w].epoch
        r == workers[w].reply
        doubt == IF MarkUnknownFails(attempts, s, e)
                 THEN attempts ELSE SetState(attempts, s, e, "unknown")
    IN /\ workers[w].pc = "reply"
       /\ Kind[s] = "tripo_submit"
       /\ \/ /\ r = "task"
             /\ ~TaskConflict(attempts, s, e, e)
             /\ attempts' = RecordTask(attempts, s, e, e)
             /\ Conclude(w, "checkpoint", "succeeded")
          \/ /\ r = "task"
             /\ TaskConflict(attempts, s, e, e)
             /\ attempts' = doubt
             /\ Conclude(w, "checkpoint",
                   IF MarkUnknownFails(attempts, s, e)
                   THEN ErrorOutcome(s, e) ELSE "submission_unknown")
          \/ /\ r = "throttled"
             /\ attempts' = SetState(attempts, s, e, "failed")
             /\ Conclude(w, "checkpoint", "retryable")
          \/ /\ r = "refused"
             /\ attempts' = SetState(attempts, s, e, "failed")
             /\ Conclude(w, "ledger", "failed")
          \/ /\ r = "lost"
             /\ attempts' = doubt
             /\ IF MarkUnknownFails(attempts, s, e)
                THEN Conclude(w, "checkpoint", ErrorOutcome(s, e))
                ELSE Conclude(w, "ledger", "submission_unknown")
       /\ UNCHANGED <<job, stage, ledger, draft, bills, allowance, crashes, lapses>>

(* A reply to a manual_extract batch.  The response is stored as an asset  *)
(* first (which may fail), then receipt and result in one transaction.     *)
HandleExtractReply(w) ==
    LET s == workers[w].stage
        e == workers[w].epoch
        r == workers[w].reply
        answered == r \in {"result", "diagnosis"}
        recordable == attempts[s][e].state \in {"intent", "submitting"}
    IN /\ workers[w].pc = "reply"
       /\ Kind[s] = "manual_extract"
       /\ \/ /\ answered
             /\ Conclude(w, "checkpoint", "needs_input")
             /\ UNCHANGED <<attempts, stage>>
          \/ /\ answered /\ ~recordable
             /\ Conclude(w, "checkpoint", "failed")
             /\ UNCHANGED <<attempts, stage>>
          \/ /\ answered /\ recordable
             /\ attempts' = [attempts EXCEPT ![s][e] =
                               [state |-> "accepted", task |-> NoTask]]
             /\ stage' = [stage EXCEPT ![s].result =
                            IF r = "result" THEN "knowledge" ELSE "no_knowledge"]
             /\ IF r = "result" THEN Conclude(w, "fact", "succeeded")
                                ELSE Conclude(w, "checkpoint", "needs_input")
          \/ /\ r \in {"throttled", "refused"}
             /\ attempts' = SetState(attempts, s, e, "failed")
             /\ Conclude(w, "checkpoint",
                   IF r = "throttled" THEN "retryable" ELSE "needs_input")
             /\ UNCHANGED stage
          \/ /\ r = "lost"
             /\ attempts' = IF MarkUnknownFails(attempts, s, e)
                            THEN attempts ELSE SetState(attempts, s, e, "unknown")
             /\ Conclude(w, "ledger", "submission_unknown")
             /\ UNCHANGED stage
       /\ UNCHANGED <<job, ledger, draft, bills, allowance, crashes, lapses>>

(* The ledger follows in a transaction of its own: released when the       *)
(* submission was refused, kept as unknown when its fate is not known,     *)
(* settled when the finished task names what it cost.                      *)
LedgerStep(w) ==
    LET s == workers[w].stage
        j == JobOf[s]
        p == BranchProvider(Kind[s])
        entry == ledger[j][p]
    IN /\ workers[w].pc = "ledger"
       /\ ledger' = [ledger EXCEPT ![j][p] =
             CASE workers[w].outcome = "failed" -> ReleaseNotBilled(entry)
               [] workers[w].outcome = "submission_unknown" ->
                      NextLedgerState(entry, "mark_unknown")
               [] workers[w].outcome = "succeeded" ->
                      NextLedgerState(entry, "settle")]
       /\ Goto(w, "checkpoint")
       /\ UNCHANGED <<job, stage, attempts, draft, bills, allowance, crashes, lapses>>

-----------------------------------------------------------------------------
(* The handlers that buy nothing.                                          *)

(* tripo_poll: asks for the task of the job's accepted submission.  The    *)
(* bill is settled when the finished task carries it.                      *)
Poll(w) ==
    LET s == workers[w].stage
        known == \E r \in StagesOf(JobOf[s]) :
                    /\ Kind[r] = "tripo_submit"
                    /\ \E e \in DOMAIN attempts[r] :
                          /\ attempts[r][e].state = "accepted"
                          /\ attempts[r][e].task # NoTask
    IN /\ workers[w].pc = "run"
       /\ Kind[s] = "tripo_poll"
       /\ \/ ~known /\ Conclude(w, "checkpoint", "needs_input")
          \/ known /\ Conclude(w, "ledger", "succeeded")
          \/ /\ known
             /\ \E outcome \in {"succeeded", "waiting", "retryable", "failed"} :
                   Conclude(w, "checkpoint", outcome)
       /\ UNCHANGED <<job, stage, attempts, ledger, draft, bills, allowance,
                      crashes, lapses>>

(* Upload, download, validation: files and queries, no purchase.           *)
Fetch(w) ==
    LET s == workers[w].stage
    IN /\ workers[w].pc = "run"
       /\ Kind[s] \in {"tripo_upload", "model_download", "model_validate"}
       /\ \/ Conclude(w, IF Kind[s] = "tripo_upload" THEN "checkpoint" ELSE "fact",
                      "succeeded")
          \/ \E outcome \in {"retryable", "needs_input", "failed"} :
                Conclude(w, "checkpoint", outcome)
       /\ UNCHANGED <<job, stage, attempts, ledger, draft, bills, allowance,
                      crashes, lapses>>

(* manual_merge: only over batches that have all succeeded with a result.  *)
Merge(w) ==
    LET s == workers[w].stage
        batches == {r \in StagesOf(JobOf[s]) : Kind[r] = "manual_extract"}
        complete == \A r \in batches : /\ stage[r].status = "succeeded"
                                       /\ stage[r].result # "none"
    IN /\ workers[w].pc = "run"
       /\ Kind[s] = "manual_merge"
       /\ \/ /\ stage[s].result # "none" \/ complete
             /\ Conclude(w, "fact", "succeeded")
          \/ Conclude(w, "checkpoint", "needs_input")
       /\ UNCHANGED <<job, stage, attempts, ledger, draft, bills, allowance,
                      crashes, lapses>>

(* assemble_draft reads which branches have a result ...                   *)
Assemble(w) ==
    LET s == workers[w].stage
        usable == {d \in DependsOn(s) : stage[d].status = "succeeded"}
    IN /\ workers[w].pc = "run"
       /\ Kind[s] = "assemble_draft"
       /\ \/ workers' = [workers EXCEPT ![w].pc = "save", ![w].seen = usable]
          \/ Conclude(w, "checkpoint", "needs_input")
       /\ UNCHANGED <<job, stage, attempts, ledger, draft, bills, allowance,
                      crashes, lapses>>

(* ... and writes the draft built from them in a later transaction.        *)
SaveDraft(w) ==
    /\ workers[w].pc = "save"
    /\ draft' = [draft EXCEPT ![JobOf[workers[w].stage]] = workers[w].seen]
    /\ Conclude(w, "checkpoint", "succeeded")
    /\ UNCHANGED <<job, stage, attempts, ledger, bills, allowance, crashes, lapses>>

-----------------------------------------------------------------------------
(* apply, first half: the result fact is written whatever became of the    *)
(* lease.                                                                  *)
Fact(w) ==
    /\ workers[w].pc = "fact"
    /\ stage' = [stage EXCEPT ![workers[w].stage].result = "knowledge"]
    /\ Goto(w, "checkpoint")
    /\ UNCHANGED <<job, attempts, ledger, draft, bills, allowance, crashes, lapses>>

(* plan_advance: the row a finished execution leaves.                      *)
Advanced(row, outcome) ==
    CASE outcome \in {"succeeded", "submission_unknown", "failed"} ->
            {[row EXCEPT !.status = outcome]}
      [] outcome = "needs_input" ->
            {[row EXCEPT !.status = "needs_input", !.paused = FALSE]}
      [] outcome = "branch_paused" ->
            {[row EXCEPT !.status = "needs_input", !.paused = TRUE]}
      [] outcome = "retryable" ->
            {IF row.retries < MaxSafeRetries
             THEN [row EXCEPT !.status = "retry_wait", !.retries = @ + 1]
             ELSE [row EXCEPT !.status = "failed"]}
      [] outcome = "waiting" ->
            {[row EXCEPT !.status = "needs_input", !.paused = FALSE]} \cup
            (IF row.polls < MaxPolls
             THEN {[row EXCEPT !.status = "waiting_provider", !.polls = @ + 1]}
             ELSE {})

(* Mutant: the guard compares the stage but not the lease epoch.           *)
HoldsAnyEpoch(w, s) ==
    /\ workers[w].pc # "idle"
    /\ workers[w].stage = s
    /\ stage[s].status = "running"

Holds(w, s) ==
    /\ workers[w].pc # "idle"
    /\ workers[w].stage = s
    /\ workers[w].epoch = stage[s].epoch
    /\ stage[s].status = "running"

(* apply, second half: the guarded advance and the job's new status in one *)
(* transaction.  Without the lease nothing moves.                          *)
Checkpoint(w) ==
    LET s == workers[w].stage
    IN /\ workers[w].pc = "checkpoint"
       /\ \/ /\ Holds(w, s)
             /\ \E row \in Advanced(stage[s], workers[w].outcome) :
                   stage' = [stage EXCEPT ![s] = row]
             /\ job' = Recompute(job, stage', JobOf[s])
          \/ /\ ~Holds(w, s)
             /\ UNCHANGED <<stage, job>>
       /\ workers' = [workers EXCEPT ![w] = Idle(NoStage)]
       /\ UNCHANGED <<attempts, ledger, draft, bills, allowance, crashes, lapses>>

-----------------------------------------------------------------------------
(* Crashes and recovery.  Nobody renews the lease of a stage whose task is *)
(* gone, so it runs out; a live task loses its lease only when renewing    *)
(* fails or its process is suspended (MaxLapses).                          *)

Crash ==
    /\ crashes < MaxCrashes
    /\ \E w \in Workers : workers[w].pc # "idle"
    /\ workers' = [w \in Workers |-> Idle(NoStage)]
    /\ crashes' = crashes + 1
    /\ UNCHANGED <<job, stage, attempts, ledger, draft, bills, allowance, lapses>>

(* recover_one, one transaction: take the lease over, decide from the      *)
(* recorded facts, advance.  The attempt and the job are read in it, the   *)
(* result is the one the scan has seen; a stage cannot name a result whose *)
(* asset is gone, the foreign key of the rows forbids it.  A row it cannot *)
(* mark unknown is left for the next scan.                                 *)
TakeOver(s, result) ==
    LET e    == LatestEpoch(attempts, s)
        plan == RecoveryPlan(Kind[s], result, Latest(attempts, s), job[JobOf[s]])
    IN /\ stage[s].status = "running"
       /\ \/ /\ plan = "submission_unknown"
             /\ ~MarkUnknownFails(attempts, s, e)
             /\ attempts' = SetState(attempts, s, e, "unknown")
          \/ /\ plan # "submission_unknown"
             /\ UNCHANGED attempts
       /\ stage' = [stage EXCEPT ![s] = [Leased(@, plan) EXCEPT !.paused = FALSE]]
       /\ job' = Recompute(job, stage', JobOf[s])
       /\ UNCHANGED <<ledger, draft, workers, bills, allowance, crashes>>

(* Mutant: a lease without a task never runs out.                          *)
HeldForever(s) == stage[s].status = "running"

HeldByTask(s) == \E w \in Workers : Holds(w, s)

(* The lease of a stage whose task is gone has run out: nobody writes the  *)
(* row between the scan and the takeover.                                  *)
RecoverAbandoned(s) ==
    /\ ~HeldByTask(s)
    /\ TakeOver(s, stage[s].result)
    /\ UNCHANGED lapses

(* The lease ran out although its task is still running: expired_running   *)
(* reads the row ...                                                       *)
ScanLapsed(w) ==
    LET s == workers[w].stage
    IN /\ Holds(w, s)
       /\ lapses < MaxLapses
       /\ lapses' = lapses + 1
       /\ workers' = [workers EXCEPT ![w].scan = stage[s].result]
       /\ UNCHANGED <<job, stage, attempts, ledger, draft, bills, allowance, crashes>>

(* ... and takes it over later, unless its holder was done in between.     *)
RecoverLapsed(s) ==
    \E w \in Workers :
        /\ Holds(w, s)
        /\ workers[w].scan # "unseen"
        /\ TakeOver(s, workers[w].scan)
        /\ UNCHANGED lapses

-----------------------------------------------------------------------------
WorkerStep(w) ==
    \/ CheckInputs(w) \/ BeginIntent(w) \/ MarkSubmitting(w) \/ ResetFact(w)
    \/ Post(w) \/ HandleSubmitReply(w) \/ HandleExtractReply(w)
    \/ LedgerStep(w) \/ Poll(w) \/ Fetch(w) \/ Merge(w) \/ Assemble(w)
    \/ SaveDraft(w) \/ Fact(w) \/ Checkpoint(w)

ClaimAny == \E w \in Workers, s \in Stages : Claim(w, s)

RecoverAny == \E s \in Stages : RecoverAbandoned(s) \/ RecoverLapsed(s)

ScanAny == \E w \in Workers : ScanLapsed(w)

ExecutorStep ==
    ClaimAny \/ (\E w \in Workers : WorkerStep(w)) \/ RecoverAny \/ ScanAny

Next == ExecutorStep \/ Crash

(* The run loop claims and scans on every round, a spawned task is         *)
(* scheduled until it ends, and a lease nobody renews runs out.            *)
Fairness ==
    /\ WF_vars(ClaimAny)
    /\ \A w \in Workers : WF_vars(WorkerStep(w))
    /\ WF_vars(\E s \in Stages : RecoverAbandoned(s))

Spec == Init /\ [][Next]_vars

FairSpec == Spec /\ Fairness

-----------------------------------------------------------------------------
(* Properties.                                                             *)

(* Every row, execution task and provider record has its type.             *)
TypeOK ==
    /\ job \in [Jobs -> JobStatuses]
    /\ stage \in [Stages -> Row]
    /\ AttemptsTyped(attempts)
    /\ ledger \in [Jobs -> [Providers -> LedgerStates]]
    /\ draft \in [Jobs -> SUBSET Stages]
    /\ workers \in [Workers -> Worker]
    /\ bills \in [Stages -> SUBSET Nat]
    /\ allowance \in [Stages -> BOOLEAN]
    /\ crashes \in Nat /\ lapses \in Nat

(* Two execution tasks never hold the lease of the same stage: a claim or  *)
(* a takeover always moves the epoch past every guard handed out before.   *)
LeaseIsExclusive ==
    \A v, w \in Workers : \A s \in Stages : Holds(v, s) /\ Holds(w, s) => v = w

(* The epochs behind it, and behind the attempts' names: no guard and no   *)
(* attempt is ahead of its row, no two guards of a stage are equal, and a  *)
(* task about to record an intent names no attempt that exists.            *)
EpochsAreFresh ==
    /\ \A w \in Workers : workers[w].pc # "idle" =>
          workers[w].epoch <= stage[workers[w].stage].epoch
    /\ \A v, w \in Workers :
          /\ workers[v].pc # "idle" /\ workers[w].pc # "idle"
          /\ workers[v].stage = workers[w].stage
          /\ workers[v].epoch = workers[w].epoch
          => v = w
    /\ \A s \in Stages : \A e \in DOMAIN attempts[s] : e <= stage[s].epoch
    /\ \A w \in Workers : workers[w].pc \in {"inputs", "intent"} =>
          workers[w].epoch \notin DOMAIN attempts[workers[w].stage]

(* A stage reports success only over a recorded receipt: a submission with *)
(* the task of a request that was billed, a batch with its knowledge.      *)
SuccessHasReceipt ==
    \A s \in Stages : stage[s].status = "succeeded" =>
        /\ Kind[s] = "tripo_submit" =>
             \E e \in DOMAIN attempts[s] : /\ attempts[s][e].state = "accepted"
                                          /\ attempts[s][e].task \in bills[s]
        /\ Kind[s] = "manual_extract" =>
             /\ stage[s].result = "knowledge"
             /\ \E e \in DOMAIN attempts[s] : /\ attempts[s][e].state = "accepted"
                                             /\ e \in bills[s]

(* A payment in doubt is never behind the executor's back: its stage is    *)
(* running, waits for reconciliation, or at least waits for a person.      *)
DoubtIsParked ==
    \A s \in Stages : \A e \in DOMAIN attempts[s] :
        attempts[s][e].state \in InDoubt =>
            stage[s].status \in {"running", "submission_unknown", "needs_input"}

(* A reservation is given back only while the provider has charged for     *)
(* nothing it covers.                                                      *)
Charged(j, p) ==
    \E s \in StagesOf(j) : BranchProvider(Kind[s]) = p /\ bills[s] # {}

ReleaseIsUnbilled ==
    [][\A j \in Jobs : \A p \in Providers :
          ledger[j][p] # "released" /\ ledger'[j][p] = "released"
             => ~Charged(j, p)]_vars

(* No request is charged whose reservation was already given back.         *)
PurchaseIsReserved ==
    [][\A s \in Stages : bills'[s] # bills[s] =>
          HoldsBudget(ledger[JobOf[s]][BranchProvider(Kind[s])])]_vars

(* The executor keeps the promise about money, step by step.               *)
Promise == INSTANCE Purchases
              WITH Paid <- {s \in Stages : Kind[s] \in PaidKinds},
                   bought <- [s \in Stages |-> Cardinality(bills[s])]

PurchasesArePromised == Promise!Spec

(* A recorded remote task id is never erased or replaced.                  *)
TaskIdWriteOnce ==
    [][\A s \in Stages : \A e \in DOMAIN attempts[s] :
          attempts[s][e].task # NoTask =>
             /\ e \in DOMAIN attempts'[s]
             /\ attempts'[s][e].task = attempts[s][e].task]_vars

(* What was merged stays complete: past its claim a stage other than the   *)
(* assembly never runs ahead of a dependency.                              *)
DependenciesHold ==
    \A s \in Stages :
        /\ Kind[s] # "assemble_draft"
        /\ stage[s].status \in {"running", "retry_wait", "waiting_provider", "succeeded"}
        => \A d \in DependsOn(s) : stage[d].status = "succeeded"

(* A running stage is moved on only by the task that holds its lease, by   *)
(* the scan that takes the lease away, or by the cancellation of its job;  *)
(* a task that lost its lease while it worked moves nothing.               *)
OnlyHolderAdvances ==
    [][\A s \in Stages :
          stage[s].status = "running" /\ stage'[s].status # "running" =>
             \/ stage'[s].epoch > stage[s].epoch
             \/ job'[JobOf[s]] = "cancelled"
             \/ \E w \in Workers : /\ workers[w].pc = "checkpoint"
                                   /\ workers[w].stage = s
                                   /\ workers[w].epoch = stage[s].epoch
                                   /\ workers'[w].pc = "idle"]_vars

(* A finished assembly has built the draft from exactly the branches that  *)
(* have a result: none of them finishes after it looked.                   *)
DraftIsCurrent ==
    \A s \in Stages :
        Kind[s] = "assemble_draft" /\ stage[s].status = "succeeded" =>
            draft[JobOf[s]] = {d \in DependsOn(s) : stage[d].status = "succeeded"}

(* Every job comes to rest and says why: no stage stays running or         *)
(* claimable for ever, and no job looks busy when nothing is left to do,   *)
(* whatever the provider answers and wherever the server crashed.          *)
Settled == {"submission_unknown", "needs_input", "failed", "succeeded"}

AtRest ==
    /\ \A s \in Stages : stage[s].status # "running" /\ ~Claimable(s)
    /\ \A j \in Jobs : job[j] \in Settled \cup {"cancelled"}

EventuallyAtRest == <>[]AtRest
=============================================================================
