------------------------- MODULE JobExecutorProofs -------------------------
(***************************************************************************)
(* What holds of the executor for every set of jobs, stages and workers,   *)
(* any number of crashes and of lapsed leases: its types, the exclusion of *)
(* leases, and what is never undone.                                       *)
(***************************************************************************)
EXTENDS JobExecutor, FiniteSetTheorems, WellFoundedInduction, TLAPS

-----------------------------------------------------------------------------
(* The pure rules.                                                         *)

(* A job's status is always one of the statuses.                           *)
LEMMA AggregateType ==
    ASSUME NEW current \in JobStatuses, NEW statuses
    PROVE  AggregateJobStatus(current, statuses) \in JobStatuses
  BY DEF AggregateJobStatus, JobStatuses, Terminal

(* Recovery moves a stage to a status, whatever was recorded.              *)
LEMMA PlanType ==
    ASSUME NEW kind \in HandledKinds, NEW result \in Results, NEW jobStatus,
           NEW a, a.state \in SubmitStates \cup {"absent"}
    PROVE  RecoveryPlan(kind, result, a, jobStatus) \in JobStatuses
<1>1. PlanByAttempt(kind, a) \in JobStatuses
  BY DEF PlanByAttempt, JobStatuses, SubmitStates, InDoubt
<1> QED
  BY <1>1 DEF RecoveryPlan, Results, JobStatuses

(* The ledger keeps to its states.                                         *)
LEMMA LedgerType ==
    ASSUME NEW state \in LedgerStates, NEW event \in {"settle", "release", "mark_unknown"}
    PROVE  /\ NextLedgerState(state, event) \in LedgerStates
           /\ ReleaseNotBilled(state) \in LedgerStates
  BY DEF NextLedgerState, ReleaseNotBilled, LedgerStates, HoldsBudget

(* A bounded, non-empty set of naturals has a greatest element: the        *)
(* intervals above its elements are ordered by strict inclusion, which is  *)
(* well-founded, and the least of them starts at the greatest element.     *)
LEMMA BoundedHasGreatest ==
    ASSUME NEW n \in Nat, NEW S \in SUBSET (0..n), S # {}
    PROVE  \E x \in S : \A y \in S : y <= x
<1> DEFINE above(x) == x..n
           T == {above(x) : x \in S}
<1>1. T \subseteq SUBSET (0..n) /\ T # {}
  <2>1. \A x \in S : x..n \in SUBSET (0..n)
    OBVIOUS
  <2>2. PICK x \in S : TRUE
    OBVIOUS
  <2>3. above(x) \in T
    BY <2>2
  <2> QED
    BY <2>1, <2>3
<1>2. IsWellFoundedOn(StrictSubsetOrdering(0..n), SUBSET (0..n))
  <2>1. IsFiniteSet(0..n)
    BY FS_Interval
  <2> QED
    BY <2>1, FS_StrictSubsetOrderingWellFounded, FS_FiniteSubsetsOfFinite, ZenonT(20)
<1>3. \E X \in T : \A Y \in T : ~(<<Y, X>> \in StrictSubsetOrdering(0..n))
  <2> HIDE DEF T
  <2> QED
    BY <1>1, <1>2, WFMin
<1>4. PICK X \in T : \A Y \in T : ~(<<Y, X>> \in StrictSubsetOrdering(0..n))
  BY <1>3
<1>5. PICK x \in S : X = above(x)
  OBVIOUS
<1>6. ASSUME NEW y \in S, y > x PROVE FALSE
  <2>1. above(y) \subseteq above(x) /\ x \in above(x) /\ x \notin above(y)
    BY <1>6
  <2>2. <<above(y), above(x)>> \in StrictSubsetOrdering(0..n)
    BY <2>1 DEF StrictSubsetOrdering
  <2> QED
    BY <1>4, <1>5, <2>2
<1> QED
  BY <1>6

-----------------------------------------------------------------------------
(* The attempts of a stage.                                                *)

(* The latest attempt exists when there is any, and no other is later.     *)
LEMMA LatestInDomain ==
    ASSUME TypeOK, EpochsAreFresh, NEW s \in Stages, DOMAIN attempts[s] # {}
    PROVE  /\ LatestEpoch(attempts, s) \in DOMAIN attempts[s]
           /\ \A f \in DOMAIN attempts[s] : f <= LatestEpoch(attempts, s)
<1> DEFINE n == stage[s].epoch
           D == DOMAIN attempts[s]
<1>1. n \in Nat /\ D \in SUBSET (0..n) /\ D # {}
  BY DEF TypeOK, AttemptsTyped, EpochsAreFresh, Row
<1>2. \E e \in D : \A f \in D : f <= e
  <2> HIDE DEF n, D
  <2> QED BY <1>1, BoundedHasGreatest
<1> QED BY <1>2 DEF LatestEpoch

(* So its state is one.                                                    *)
LEMMA LatestType ==
    ASSUME TypeOK, EpochsAreFresh, NEW s \in Stages
    PROVE  Latest(attempts, s).state \in SubmitStates \cup {"absent"}
<1>1. CASE DOMAIN attempts[s] = {}
  BY <1>1 DEF Latest, NoAttempt
<1>2. CASE DOMAIN attempts[s] # {}
  <2>1. attempts[s][LatestEpoch(attempts, s)] \in Attempt
    BY <1>2, LatestInDomain DEF TypeOK, AttemptsTyped
  <2> QED
    BY <1>2, <2>1 DEF Latest, Attempt
<1> QED
  BY <1>1, <1>2

(* No attempt of a batch ever has a task: its receipt is the response.      *)
BatchesHaveNoTask ==
    \A s \in Stages : Kind[s] = "manual_extract" =>
        \A e \in DOMAIN attempts[s] : attempts[s][e].task = NoTask

(* The attempts at come from the present ones by a write that creates none,*)
(* forgets no task and gives none to a batch.                              *)
AttemptsKept(at) ==
    /\ AttemptsTyped(at)
    /\ \A s \in Stages :
          /\ DOMAIN at[s] = DOMAIN attempts[s]
          /\ \A e \in DOMAIN attempts[s] :
                /\ attempts[s][e].task # NoTask => at[s][e].task = attempts[s][e].task
                /\ Kind[s] = "manual_extract" => at[s][e].task = NoTask

(* An action that leaves the attempts alone keeps them.                    *)
LEMMA UnchangedKept ==
    ASSUME TypeOK, BatchesHaveNoTask
    PROVE  AttemptsKept(attempts)
  BY DEF TypeOK, BatchesHaveNoTask, AttemptsKept

(* Any row written over attempt e of s, if it keeps the task.              *)
LEMMA WriteKept ==
    ASSUME TypeOK, BatchesHaveNoTask, NEW s \in Stages, NEW e, NEW a,
           e \in DOMAIN attempts[s] =>
              /\ a \in Attempt
              /\ attempts[s][e].task # NoTask => a.task = attempts[s][e].task
              /\ Kind[s] = "manual_extract" => a.task = NoTask
    PROVE  AttemptsKept([attempts EXCEPT ![s][e] = a])
<1> DEFINE at == [attempts EXCEPT ![s][e] = a]
<1>1. AttemptsTyped(at)
  BY DEF TypeOK, AttemptsTyped
<1>2. ASSUME NEW r \in Stages
      PROVE  /\ DOMAIN at[r] = DOMAIN attempts[r]
             /\ \A f \in DOMAIN attempts[r] :
                   at[r][f] = IF r = s /\ f = e THEN a ELSE attempts[r][f]
  BY DEF TypeOK, AttemptsTyped
<1> HIDE DEF at
<1>3. AttemptsKept(at)
  BY <1>1, <1>2 DEF BatchesHaveNoTask, AttemptsKept
<1> QED
  BY <1>3 DEF at

(* A submit state is written over what the attempt had recorded.           *)
LEMMA SetStateKept ==
    ASSUME TypeOK, BatchesHaveNoTask, NEW s \in Stages, NEW e,
           NEW state \in SubmitStates
    PROVE  AttemptsKept(SetState(attempts, s, e, state))
<1> DEFINE a == [attempts[s][e] EXCEPT !.state = state]
<1>1. SetState(attempts, s, e, state) = [attempts EXCEPT ![s][e] = a]
  BY DEF SetState
<1>2. ASSUME e \in DOMAIN attempts[s]
      PROVE  a \in Attempt /\ a.task = attempts[s][e].task
  <2>1. attempts[s][e] \in Attempt
    BY <1>2 DEF TypeOK, AttemptsTyped
  <2> QED
    BY <2>1 DEF Attempt
<1> HIDE DEF a
<1>3. e \in DOMAIN attempts[s] /\ Kind[s] = "manual_extract" => a.task = NoTask
  BY <1>2 DEF BatchesHaveNoTask
<1>4. AttemptsKept([attempts EXCEPT ![s][e] = a])
  <2>1. e \in DOMAIN attempts[s] =>
           /\ a \in Attempt
           /\ attempts[s][e].task # NoTask => a.task = attempts[s][e].task
           /\ Kind[s] = "manual_extract" => a.task = NoTask
    BY <1>2, <1>3
  <2> QED
    BY <2>1, WriteKept
<1> QED
  BY <1>1, <1>4

(* A task is recorded only over none, or over itself.                      *)
LEMMA RecordTaskKept ==
    ASSUME TypeOK, BatchesHaveNoTask, NEW s \in Stages, NEW e, NEW task \in Nat,
           ~TaskConflict(attempts, s, e, task), Kind[s] # "manual_extract"
    PROVE  AttemptsKept(RecordTask(attempts, s, e, task))
<1> DEFINE a == [state |-> "accepted", task |-> task]
<1>1. a \in Attempt /\ a.task = task
  BY DEF Attempt, SubmitStates
<1>2. attempts[s][e].task \in {NoTask, task}
  BY DEF TaskConflict
<1> HIDE DEF a
<1>3. AttemptsKept([attempts EXCEPT ![s][e] = a])
  BY <1>1, <1>2, WriteKept
<1> QED
  BY <1>3 DEF RecordTask, a

-----------------------------------------------------------------------------
(* The execution tasks.                                                    *)

ProgramCounters ==
    {"idle", "inputs", "intent", "mark", "reset", "armed", "reply", "run",
     "save", "ledger", "fact", "checkpoint"}

(* Task w moved to pc with an outcome, under the lease it had.             *)
Moved(w, pc, outcome) ==
    /\ workers' \in [Workers -> Worker]
    /\ \A v \in Workers \ {w} : workers'[v] = workers[v]
    /\ workers'[w].pc = pc
    /\ workers'[w].outcome = outcome
    /\ workers'[w].stage = workers[w].stage
    /\ workers'[w].epoch = workers[w].epoch

(* Goto moves a task on with the outcome it had.                           *)
LEMMA GotoMoves ==
    ASSUME TypeOK, NEW w \in Workers, NEW pc \in ProgramCounters, Goto(w, pc)
    PROVE  Moved(w, pc, workers[w].outcome)
<1> DEFINE moved == [workers[w] EXCEPT !.pc = pc, !.reply = "none"]
<1>1. workers[w] \in Worker /\ "none" \in Replies
  BY DEF TypeOK, Replies
<1>2. /\ moved \in Worker
      /\ moved.pc = pc /\ moved.outcome = workers[w].outcome
      /\ moved.stage = workers[w].stage /\ moved.epoch = workers[w].epoch
  BY <1>1, Zenon DEF Worker, ProgramCounters
<1>3. workers' = [workers EXCEPT ![w] = moved]
  BY DEF Goto
<1> HIDE DEF moved
<1> QED
  BY <1>2, <1>3 DEF TypeOK, Moved

(* Conclude moves a task on with a new outcome.                            *)
LEMMA ConcludeMoves ==
    ASSUME TypeOK, NEW w \in Workers, NEW pc \in ProgramCounters,
           NEW outcome \in Outcomes, Conclude(w, pc, outcome)
    PROVE  Moved(w, pc, outcome)
<1> DEFINE concluded == [workers[w] EXCEPT !.pc = pc, !.outcome = outcome,
                                           !.reply = "none"]
<1>1. workers[w] \in Worker /\ "none" \in Replies
  BY DEF TypeOK, Replies
<1>2. /\ concluded \in Worker
      /\ concluded.pc = pc /\ concluded.outcome = outcome
      /\ concluded.stage = workers[w].stage /\ concluded.epoch = workers[w].epoch
  BY <1>1, Zenon DEF Worker, ProgramCounters
<1>3. workers' = [workers EXCEPT ![w] = concluded]
  BY DEF Conclude
<1> HIDE DEF concluded
<1> QED
  BY <1>2, <1>3 DEF TypeOK, Moved

(* A task that comes to write its outcome back has one, and the ledger     *)
(* step is taken for three of them only.                                   *)
OutcomeIsDecided ==
    \A w \in Workers :
        /\ workers[w].pc \in {"checkpoint", "fact"} => workers[w].outcome # "none"
        /\ workers[w].pc = "ledger" =>
              workers[w].outcome \in {"succeeded", "submission_unknown", "failed"}

(* How a task may be moved without spoiling the two.                       *)
Decided(pc, outcome) ==
    /\ pc \in {"checkpoint", "fact"} => outcome # "none"
    /\ pc = "ledger" => outcome \in {"succeeded", "submission_unknown", "failed"}

(* A move to a decided place leaves every task decided.                    *)
LEMMA MovedIsDecided ==
    ASSUME OutcomeIsDecided, NEW w \in Workers, NEW pc, NEW outcome,
           Moved(w, pc, outcome), Decided(pc, outcome)
    PROVE  OutcomeIsDecided'
  BY DEF OutcomeIsDecided, Decided, Moved

(* The facts a claim reads lead to an execution that is decided or begins. *)
LEMMA FirstStepType ==
    ASSUME NEW s \in Stages,
           NEW first \in {FirstStep(s), [pc |-> "checkpoint", outcome |-> "needs_input"]}
    PROVE  /\ first.pc \in {"checkpoint", "inputs", "run"}
           /\ first.outcome \in Outcomes
           /\ Decided(first.pc, first.outcome)
  BY DEF FirstStep, Decided, Outcomes

(* Taking the lease moves the epoch on by one.                             *)
LEMMA LeasedType ==
    ASSUME NEW row \in Row, NEW status \in JobStatuses
    PROVE  /\ Leased(row, status) \in Row
           /\ Leased(row, status).epoch = row.epoch + 1
           /\ [Leased(row, status) EXCEPT !.paused = FALSE] \in Row
           /\ [Leased(row, status) EXCEPT !.paused = FALSE].epoch = row.epoch + 1
<1>1. row.epoch \in Nat
  BY Zenon DEF Row
<1>2. row.epoch + 1 \in Nat
  BY <1>1
<1>3. Leased(row, status) \in Row
  BY <1>2, Zenon DEF Leased, Row
<1>4. /\ Leased(row, status).epoch = row.epoch + 1
      /\ [Leased(row, status) EXCEPT !.paused = FALSE].epoch = row.epoch + 1
  BY Zenon DEF Leased, Row
<1> QED
  BY <1>3, <1>4, Zenon DEF Row

(* The row a finished execution leaves is a row, under the same lease.     *)
LEMMA AdvancedType ==
    ASSUME NEW row \in Row, NEW outcome \in Outcomes \ {"none"},
           NEW next \in Advanced(row, outcome)
    PROVE  next \in Row /\ next.epoch = row.epoch
<1>1. row.retries + 1 \in Nat /\ row.polls + 1 \in Nat
  <2>1. row.retries \in Nat /\ row.polls \in Nat
    BY Zenon DEF Row
  <2> QED
    BY <2>1
<1>2. {"succeeded", "submission_unknown", "failed"} \subseteq JobStatuses
  BY DEF JobStatuses
<1>3. CASE outcome \in {"succeeded", "submission_unknown", "failed"}
  <2>1. next = [row EXCEPT !.status = outcome]
    BY <1>3, Zenon DEF Advanced
  <2> QED
    BY <1>2, <1>3, <2>1, Zenon DEF Row
<1>4. CASE outcome \in {"needs_input", "branch_paused"}
  <2>1. PICK b \in BOOLEAN :
           next = [row EXCEPT !.status = "needs_input", !.paused = b]
    BY <1>4, Zenon DEF Advanced
  <2>2. "needs_input" \in JobStatuses
    BY DEF JobStatuses
  <2> QED
    BY <2>1, <2>2, Zenon DEF Row
<1>5. CASE outcome = "retryable"
  <2>1. \/ next = [row EXCEPT !.status = "retry_wait", !.retries = row.retries + 1]
        \/ next = [row EXCEPT !.status = "failed"]
    BY <1>5, Zenon DEF Advanced
  <2>2. "retry_wait" \in JobStatuses /\ "failed" \in JobStatuses
    BY DEF JobStatuses
  <2> QED
    BY <1>1, <2>1, <2>2, Zenon DEF Row
<1>6. CASE outcome = "waiting"
  <2>1. \/ next = [row EXCEPT !.status = "needs_input", !.paused = FALSE]
        \/ next = [row EXCEPT !.status = "waiting_provider", !.polls = row.polls + 1]
    BY <1>6, Zenon DEF Advanced
  <2>2. "needs_input" \in JobStatuses /\ "waiting_provider" \in JobStatuses
    BY DEF JobStatuses
  <2> QED
    BY <1>1, <2>1, <2>2, Zenon DEF Row
<1> QED
  BY <1>3, <1>4, <1>5, <1>6 DEF Outcomes

(* A job's status stays one whatever rows it is recomputed from.           *)
LEMMA RecomputeType ==
    ASSUME NEW jb \in [Jobs -> JobStatuses], NEW st, NEW j \in Jobs
    PROVE  Recompute(jb, st, j) \in [Jobs -> JobStatuses]
  BY AggregateType DEF Recompute

-----------------------------------------------------------------------------
(* The inductive invariant.                                                *)

IInv ==
    /\ TypeOK
    /\ OutcomeIsDecided
    /\ EpochsAreFresh
    /\ BatchesHaveNoTask

(* No recorded task is forgotten by a step.                                *)
TasksKept ==
    \A s \in Stages : \A e \in DOMAIN attempts[s] :
        attempts[s][e].task # NoTask =>
           /\ e \in DOMAIN attempts'[s]
           /\ attempts'[s][e].task = attempts[s][e].task

(* The tables no lease and no attempt depends on.                          *)
TablesTyped ==
    /\ job \in [Jobs -> JobStatuses]
    /\ ledger \in [Jobs -> [Providers -> LedgerStates]]
    /\ draft \in [Jobs -> SUBSET Stages]
    /\ bills \in [Stages -> SUBSET Nat]
    /\ allowance \in [Stages -> BOOLEAN]
    /\ crashes \in Nat /\ lapses \in Nat

(* Types, split into the tables that steps seldom touch and the rest.      *)
LEMMA TypeOKParts ==
    TypeOK <=> /\ TablesTyped
               /\ stage \in [Stages -> Row]
               /\ AttemptsTyped(attempts)
               /\ workers \in [Workers -> Worker]
  BY DEF TypeOK, TablesTyped

(* The same for the next state.                                            *)
LEMMA TypeOKPartsNext ==
    TypeOK' <=> /\ TablesTyped'
                /\ stage' \in [Stages -> Row]
                /\ AttemptsTyped(attempts')
                /\ workers' \in [Workers -> Worker]
  BY DEF TypeOK, TablesTyped, AttemptsTyped

(* The rows keep their leases.                                             *)
LeasesKept ==
    /\ stage' \in [Stages -> Row]
    /\ \A s \in Stages : stage'[s].epoch = stage[s].epoch

(* Rows that do not change keep their epochs.                              *)
LEMMA KeptStage ==
    ASSUME TypeOK, UNCHANGED stage
    PROVE  LeasesKept
  BY DEF TypeOK, LeasesKept

(* Kept attempts keep their tasks, and batches stay without.               *)
LEMMA KeptAttempts ==
    ASSUME AttemptsKept(attempts')
    PROVE  TasksKept /\ BatchesHaveNoTask'
  BY DEF AttemptsKept, AttemptsTyped, TasksKept, BatchesHaveNoTask

(* What all steps of an execution between its first and its last have in   *)
(* common: the task moves on under its lease, other tables stay typed.     *)
LEMMA MoveKeeps ==
    ASSUME IInv, NEW w \in Workers, NEW pc, NEW outcome,
           workers[w].pc # "idle", Moved(w, pc, outcome), Decided(pc, outcome),
           pc \in {"inputs", "intent"} => workers[w].pc \in {"inputs", "intent"},
           TablesTyped', LeasesKept, AttemptsKept(attempts')
    PROVE  IInv' /\ TasksKept
<1>1. TypeOK'
  BY TypeOKPartsNext DEF Moved, LeasesKept, AttemptsKept
<1>2. OutcomeIsDecided'
  BY MovedIsDecided DEF IInv
<1>3. EpochsAreFresh'
  <2>1. \A v \in Workers : /\ workers'[v].stage = workers[v].stage
                           /\ workers'[v].epoch = workers[v].epoch
                           /\ workers'[v].pc # "idle" => workers[v].pc # "idle"
                           /\ workers'[v].pc \in {"inputs", "intent"} =>
                                 workers[v].pc \in {"inputs", "intent"}
                           /\ workers[v].stage \in Stages
    BY DEF Moved, IInv, TypeOK, Worker
  <2>2. \A s \in Stages : /\ stage'[s].epoch = stage[s].epoch
                          /\ DOMAIN attempts'[s] = DOMAIN attempts[s]
    BY DEF LeasesKept, AttemptsKept
  <2> QED
    BY <2>1, <2>2 DEF IInv, EpochsAreFresh
<1> QED
  BY <1>1, <1>2, <1>3, KeptAttempts DEF IInv

-----------------------------------------------------------------------------
(* One step of an execution each.                                          *)

(* Reading the inputs of a paid stage keeps the invariant.                 *)
LEMMA CheckInputsKeeps ==
    ASSUME IInv, NEW w \in Workers, CheckInputs(w)
    PROVE  IInv' /\ TasksKept
<1>1. \/ Moved(w, "checkpoint", "needs_input")
      \/ Moved(w, "checkpoint", "branch_paused")
      \/ Moved(w, "intent", workers[w].outcome)
  BY ConcludeMoves, GotoMoves DEF CheckInputs, IInv, ProgramCounters, Outcomes
<1>2. /\ TablesTyped' /\ LeasesKept /\ AttemptsKept(attempts')
      /\ workers[w].pc = "inputs"
  BY TypeOKParts, KeptStage, UnchangedKept DEF CheckInputs, IInv, TablesTyped
<1> QED
  BY <1>1, <1>2, MoveKeeps DEF Decided

(* Marking an attempt submitting keeps the invariant.                      *)
LEMMA MarkSubmittingKeeps ==
    ASSUME IInv, NEW w \in Workers, MarkSubmitting(w)
    PROVE  IInv' /\ TasksKept
<1> DEFINE s == workers[w].stage
           e == workers[w].epoch
           error == ErrorOutcome(s, e)
<1>1. s \in Stages /\ workers[w].pc = "mark"
  BY DEF MarkSubmitting, IInv, TypeOK, Worker
<1>2. error \in Outcomes \ {"none"}
  BY DEF ErrorOutcome, Outcomes
<1>3. \/ Moved(w, "reset", workers[w].outcome)
      \/ Moved(w, "armed", workers[w].outcome)
      \/ Moved(w, "checkpoint", error)
  BY <1>2, ConcludeMoves, GotoMoves DEF MarkSubmitting, IInv, ProgramCounters
<1>4. AttemptsKept(attempts')
  <2>1. AttemptsKept(SetState(attempts, s, e, "submitting"))
    BY <1>1, SetStateKept DEF IInv, SubmitStates
  <2>2. AttemptsKept(attempts)
    BY UnchangedKept DEF IInv
  <2> QED
    BY <2>1, <2>2 DEF MarkSubmitting
<1>5. TablesTyped' /\ LeasesKept
  BY TypeOKParts, KeptStage DEF MarkSubmitting, IInv, TablesTyped
<1> HIDE DEF error
<1> QED
  BY <1>1, <1>2, <1>3, <1>4, <1>5, MoveKeeps DEF Decided

(* Resetting the result of a batch keeps the invariant.                    *)
LEMMA ResetFactKeeps ==
    ASSUME IInv, NEW w \in Workers, ResetFact(w)
    PROVE  IInv' /\ TasksKept
<1> DEFINE s == workers[w].stage
           row == [stage[s] EXCEPT !.result = "none"]
<1>1. s \in Stages /\ workers[w].pc = "reset"
  BY DEF ResetFact, IInv, TypeOK, Worker
<1>2. Moved(w, "armed", workers[w].outcome)
  BY GotoMoves DEF ResetFact, IInv, ProgramCounters
<1>3. LeasesKept
  <2>1. stage[s] \in Row /\ "none" \in Results
    BY <1>1 DEF IInv, TypeOK, Results
  <2>2. row \in Row /\ row.epoch = stage[s].epoch
    BY <2>1, Zenon DEF Row
  <2>3. stage' \in {stage, [stage EXCEPT ![s] = row]}
    BY DEF ResetFact
  <2> HIDE DEF row
  <2> QED
    BY <1>1, <2>2, <2>3 DEF IInv, TypeOK, LeasesKept
<1>4. TablesTyped' /\ AttemptsKept(attempts')
  BY TypeOKParts, UnchangedKept DEF ResetFact, IInv, TablesTyped
<1> QED
  BY <1>1, <1>2, <1>3, <1>4, MoveKeeps DEF Decided

(* The POST keeps the invariant: it writes only what the provider sees.    *)
LEMMA PostKeeps ==
    ASSUME IInv, NEW w \in Workers, Post(w)
    PROVE  IInv' /\ TasksKept
<1> DEFINE s == workers[w].stage
           e == workers[w].epoch
<1>1. s \in Stages /\ e \in Nat /\ workers[w].pc = "armed"
  BY DEF Post, IInv, TypeOK, Worker
<1>2. PICK r \in Replies : workers' = [workers EXCEPT ![w].pc = "reply", ![w].reply = r]
  BY DEF Post, Replies
<1>3. Moved(w, "reply", workers[w].outcome)
  BY <1>2 DEF IInv, TypeOK, Worker, Moved
<1>4. TablesTyped'
  <2>1. \/ UNCHANGED <<bills, allowance>>
        \/ /\ bills' = [bills EXCEPT ![s] = @ \cup {e}]
           /\ allowance' = [allowance EXCEPT ![s] = FALSE]
    BY DEF Post
  <2>2. bills' \in [Stages -> SUBSET Nat]
    BY <1>1, <2>1 DEF IInv, TypeOK
  <2>3. allowance' \in [Stages -> BOOLEAN]
    BY <1>1, <2>1, Zenon DEF IInv, TypeOK
  <2> QED
    BY <2>2, <2>3, Zenon DEF Post, IInv, TypeOK, TablesTyped
<1>5. LeasesKept /\ AttemptsKept(attempts')
  BY KeptStage, UnchangedKept DEF Post, IInv
<1> QED
  BY <1>1, <1>3, <1>4, <1>5, MoveKeeps DEF Decided

(* A reply to tripo_submit keeps the invariant, receipt or doubt.          *)
LEMMA HandleSubmitReplyKeeps ==
    ASSUME IInv, NEW w \in Workers, HandleSubmitReply(w)
    PROVE  IInv' /\ TasksKept
<1> DEFINE s == workers[w].stage
           e == workers[w].epoch
           error == ErrorOutcome(s, e)
<1>1. /\ s \in Stages /\ e \in Nat /\ workers[w].pc = "reply"
      /\ Kind[s] = "tripo_submit"
  BY DEF HandleSubmitReply, IInv, TypeOK, Worker
<1>2. error \in Outcomes \ {"none"}
  BY DEF ErrorOutcome, Outcomes
<1>3. \E pc \in {"checkpoint", "ledger"} :
        \E outcome \in {"succeeded", "submission_unknown", "failed", "retryable", error} :
           /\ pc = "ledger" => outcome \in {"submission_unknown", "failed"}
           /\ Conclude(w, pc, outcome)
  BY DEF HandleSubmitReply
<1>4. PICK pc \in {"checkpoint", "ledger"},
           outcome \in {"succeeded", "submission_unknown", "failed", "retryable", error} :
           /\ pc = "ledger" => outcome \in {"submission_unknown", "failed"}
           /\ Conclude(w, pc, outcome)
  BY <1>3
<1>5. outcome \in Outcomes \ {"none"} /\ pc \in ProgramCounters
  BY <1>2 DEF Outcomes, ProgramCounters
<1>6. Moved(w, pc, outcome) /\ Decided(pc, outcome)
  BY <1>4, <1>5, ConcludeMoves DEF IInv, Decided
<1>7. AttemptsKept(attempts')
  <2>1. \/ attempts' = attempts
        \/ attempts' = SetState(attempts, s, e, "unknown")
        \/ attempts' = SetState(attempts, s, e, "failed")
        \/ /\ ~TaskConflict(attempts, s, e, e)
           /\ attempts' = RecordTask(attempts, s, e, e)
    BY DEF HandleSubmitReply
  <2>2. AttemptsKept(attempts)
    BY UnchangedKept DEF IInv
  <2>3. AttemptsKept(SetState(attempts, s, e, "unknown"))
    BY <1>1, SetStateKept DEF IInv, SubmitStates
  <2>4. AttemptsKept(SetState(attempts, s, e, "failed"))
    BY <1>1, SetStateKept DEF IInv, SubmitStates
  <2>5. ASSUME ~TaskConflict(attempts, s, e, e)
        PROVE  AttemptsKept(RecordTask(attempts, s, e, e))
    BY <1>1, <2>5, RecordTaskKept DEF IInv
  <2> QED
    BY <2>1, <2>2, <2>3, <2>4, <2>5
<1>8. TablesTyped' /\ LeasesKept
  BY TypeOKParts, KeptStage DEF HandleSubmitReply, IInv, TablesTyped
<1> QED
  BY <1>1, <1>4, <1>6, <1>7, <1>8, MoveKeeps

(* A reply to a batch keeps the invariant and gives it no task.            *)
LEMMA HandleExtractReplyKeeps ==
    ASSUME IInv, NEW w \in Workers, HandleExtractReply(w)
    PROVE  IInv' /\ TasksKept
<1> DEFINE s == workers[w].stage
           e == workers[w].epoch
           receipt == [state |-> "accepted", task |-> NoTask]
           written(result) == [stage[s] EXCEPT !.result = result]
<1>1. /\ s \in Stages /\ e \in Nat /\ workers[w].pc = "reply"
      /\ Kind[s] = "manual_extract"
  BY DEF HandleExtractReply, IInv, TypeOK, Worker
<1>2. \E pc \in {"checkpoint", "fact", "ledger"} :
        \E outcome \in {"succeeded", "submission_unknown", "failed", "retryable",
                        "needs_input"} :
           /\ pc = "ledger" => outcome = "submission_unknown"
           /\ Conclude(w, pc, outcome)
  BY DEF HandleExtractReply
<1>3. PICK pc \in {"checkpoint", "fact", "ledger"},
           outcome \in {"succeeded", "submission_unknown", "failed", "retryable",
                        "needs_input"} :
           /\ pc = "ledger" => outcome = "submission_unknown"
           /\ Conclude(w, pc, outcome)
  BY <1>2
<1>4. outcome \in Outcomes \ {"none"} /\ pc \in ProgramCounters
  BY DEF Outcomes, ProgramCounters
<1>5. Moved(w, pc, outcome) /\ Decided(pc, outcome)
  BY <1>3, <1>4, ConcludeMoves DEF IInv, Decided
<1>6. AttemptsKept(attempts')
  <2>1. \/ attempts' = attempts
        \/ attempts' = SetState(attempts, s, e, "unknown")
        \/ attempts' = SetState(attempts, s, e, "failed")
        \/ attempts' = [attempts EXCEPT ![s][e] = receipt]
    BY DEF HandleExtractReply
  <2>2. AttemptsKept(attempts)
    BY UnchangedKept DEF IInv
  <2>3. AttemptsKept(SetState(attempts, s, e, "unknown"))
    BY <1>1, SetStateKept DEF IInv, SubmitStates
  <2>4. AttemptsKept(SetState(attempts, s, e, "failed"))
    BY <1>1, SetStateKept DEF IInv, SubmitStates
  <2>5. AttemptsKept([attempts EXCEPT ![s][e] = receipt])
    <3>1. receipt \in Attempt /\ receipt.task = NoTask
      BY DEF Attempt, SubmitStates, NoTask
    <3>2. e \in DOMAIN attempts[s] => attempts[s][e].task = NoTask
      BY <1>1 DEF IInv, BatchesHaveNoTask
    <3> HIDE DEF receipt
    <3> QED
      BY <1>1, <3>1, <3>2, WriteKept DEF IInv
  <2> QED
    BY <2>1, <2>2, <2>3, <2>4, <2>5
<1>7. LeasesKept
  <2>1. \/ stage' = stage
        \/ \E result \in {"knowledge", "no_knowledge"} :
              stage' = [stage EXCEPT ![s] = written(result)]
    BY DEF HandleExtractReply
  <2>2. \A result \in {"knowledge", "no_knowledge"} :
           written(result) \in Row /\ written(result).epoch = stage[s].epoch
    <3>1. stage[s] \in Row /\ {"knowledge", "no_knowledge"} \subseteq Results
      BY <1>1 DEF IInv, TypeOK, Results
    <3> QED
      BY <3>1, Zenon DEF Row
  <2> HIDE DEF written
  <2> QED
    BY <1>1, <2>1, <2>2 DEF IInv, TypeOK, LeasesKept
<1>8. TablesTyped'
  BY TypeOKParts DEF HandleExtractReply, IInv, TablesTyped
<1> QED
  BY <1>1, <1>3, <1>5, <1>6, <1>7, <1>8, MoveKeeps

(* The ledger transaction keeps the invariant: its outcome is decided.     *)
LEMMA LedgerStepKeeps ==
    ASSUME IInv, NEW w \in Workers, LedgerStep(w)
    PROVE  IInv' /\ TasksKept
<1> DEFINE s == workers[w].stage
           j == JobOf[s]
           p == BranchProvider(Kind[s])
           entry == ledger[j][p]
<1>1. s \in Stages /\ j \in Jobs /\ p \in Providers /\ workers[w].pc = "ledger"
  BY JobOfAssumption DEF LedgerStep, IInv, TypeOK, Worker, BranchProvider, Providers
<1>2. entry \in LedgerStates
  BY <1>1 DEF IInv, TypeOK
<1>3. workers[w].outcome \in {"succeeded", "submission_unknown", "failed"}
  BY <1>1 DEF IInv, OutcomeIsDecided
<1>4. PICK next \in LedgerStates : ledger' = [ledger EXCEPT ![j][p] = next]
  <2>1. CASE workers[w].outcome = "failed"
    BY <1>2, <2>1, LedgerType, Zenon DEF LedgerStep
  <2>2. CASE workers[w].outcome = "submission_unknown"
    BY <1>2, <2>2, LedgerType, Zenon DEF LedgerStep
  <2>3. CASE workers[w].outcome = "succeeded"
    BY <1>2, <2>3, LedgerType, Zenon DEF LedgerStep
  <2> QED
    BY <1>3, <2>1, <2>2, <2>3
<1>5. TablesTyped'
  <2>1. ledger' \in [Jobs -> [Providers -> LedgerStates]]
    BY <1>1, <1>4 DEF IInv, TypeOK
  <2> QED
    BY <2>1, Zenon DEF LedgerStep, IInv, TypeOK, TablesTyped
<1>6. Moved(w, "checkpoint", workers[w].outcome)
  BY GotoMoves DEF LedgerStep, IInv, ProgramCounters
<1>7. LeasesKept /\ AttemptsKept(attempts')
  BY KeptStage, UnchangedKept DEF LedgerStep, IInv
<1> QED
  BY <1>1, <1>3, <1>5, <1>6, <1>7, MoveKeeps DEF Decided

(* Poll, upload, download, validation and merge only conclude.             *)
LEMMA HandlersKeep ==
    ASSUME IInv, NEW w \in Workers, Poll(w) \/ Fetch(w) \/ Merge(w)
    PROVE  IInv' /\ TasksKept
<1> DEFINE Concluded(pc, outcome) ==
              /\ Conclude(w, pc, outcome)
              /\ pc = "ledger" => outcome = "succeeded"
<1>1. \E pc \in {"checkpoint", "fact", "ledger"} :
        \E outcome \in {"succeeded", "waiting", "retryable", "needs_input", "failed"} :
           Concluded(pc, outcome)
  BY DEF Poll, Fetch, Merge
<1>2. PICK pc \in {"checkpoint", "fact", "ledger"},
           outcome \in {"succeeded", "waiting", "retryable", "needs_input", "failed"} :
           Concluded(pc, outcome)
  BY <1>1
<1>3. outcome \in Outcomes \ {"none"} /\ pc \in ProgramCounters
  BY DEF Outcomes, ProgramCounters
<1>4. Moved(w, pc, outcome) /\ Decided(pc, outcome)
  BY <1>2, <1>3, ConcludeMoves DEF IInv, Decided
<1>5. /\ TablesTyped' /\ LeasesKept /\ AttemptsKept(attempts')
      /\ workers[w].pc = "run"
  BY TypeOKParts, KeptStage, UnchangedKept
     DEF Poll, Fetch, Merge, IInv, TablesTyped
<1> QED
  BY <1>4, <1>5, MoveKeeps

(* Reading the branches for the assembly keeps the invariant.              *)
LEMMA AssembleKeeps ==
    ASSUME IInv, NEW w \in Workers, Assemble(w)
    PROVE  IInv' /\ TasksKept
<1> DEFINE usable == {d \in DependsOn(workers[w].stage) : stage[d].status = "succeeded"}
<1>1. \/ Moved(w, "checkpoint", "needs_input")
      \/ Moved(w, "save", workers[w].outcome)
  <2>1. CASE Conclude(w, "checkpoint", "needs_input")
    BY <2>1, ConcludeMoves DEF IInv, ProgramCounters, Outcomes
  <2>2. CASE workers' = [workers EXCEPT ![w].pc = "save", ![w].seen = usable]
    <3>1. usable \in SUBSET Stages
      BY DEF DependsOn, StagesOf
    <3> HIDE DEF usable
    <3> QED
      BY <2>2, <3>1 DEF IInv, TypeOK, Worker, Moved
  <2> QED
    BY <2>1, <2>2 DEF Assemble
<1>2. /\ TablesTyped' /\ LeasesKept /\ AttemptsKept(attempts')
      /\ workers[w].pc = "run"
  BY TypeOKParts, KeptStage, UnchangedKept DEF Assemble, IInv, TablesTyped
<1> QED
  BY <1>1, <1>2, MoveKeeps DEF Decided

(* Saving the draft keeps the invariant.                                   *)
LEMMA SaveDraftKeeps ==
    ASSUME IInv, NEW w \in Workers, SaveDraft(w)
    PROVE  IInv' /\ TasksKept
<1> DEFINE s == workers[w].stage
<1>1. /\ s \in Stages /\ JobOf[s] \in Jobs /\ workers[w].seen \in SUBSET Stages
      /\ workers[w].pc = "save"
  BY JobOfAssumption DEF SaveDraft, IInv, TypeOK, Worker
<1>2. Moved(w, "checkpoint", "succeeded")
  BY ConcludeMoves DEF SaveDraft, IInv, ProgramCounters, Outcomes
<1>3. TablesTyped'
  <2>1. draft' \in [Jobs -> SUBSET Stages]
    BY <1>1 DEF SaveDraft, IInv, TypeOK
  <2> QED
    BY <2>1, Zenon DEF SaveDraft, IInv, TypeOK, TablesTyped
<1>4. LeasesKept /\ AttemptsKept(attempts')
  BY KeptStage, UnchangedKept DEF SaveDraft, IInv
<1> QED
  BY <1>1, <1>2, <1>3, <1>4, MoveKeeps DEF Decided

(* Writing the result fact without the lease keeps the invariant.          *)
LEMMA FactKeeps ==
    ASSUME IInv, NEW w \in Workers, Fact(w)
    PROVE  IInv' /\ TasksKept
<1> DEFINE s == workers[w].stage
           row == [stage[s] EXCEPT !.result = "knowledge"]
<1>1. s \in Stages /\ workers[w].pc = "fact" /\ workers[w].outcome # "none"
  BY DEF Fact, IInv, TypeOK, Worker, OutcomeIsDecided
<1>2. Moved(w, "checkpoint", workers[w].outcome)
  BY GotoMoves DEF Fact, IInv, ProgramCounters
<1>3. LeasesKept
  <2>1. stage[s] \in Row /\ "knowledge" \in Results
    BY <1>1 DEF IInv, TypeOK, Results
  <2>2. row \in Row /\ row.epoch = stage[s].epoch
    BY <2>1, Zenon DEF Row
  <2>3. stage' = [stage EXCEPT ![s] = row]
    BY DEF Fact
  <2> HIDE DEF row
  <2> QED
    BY <1>1, <2>2, <2>3 DEF IInv, TypeOK, LeasesKept
<1>4. TablesTyped' /\ AttemptsKept(attempts')
  BY TypeOKParts, UnchangedKept DEF Fact, IInv, TablesTyped
<1> QED
  BY <1>1, <1>2, <1>3, <1>4, MoveKeeps DEF Decided

(* A new attempt takes the name of its claim, which no attempt has yet.    *)
LEMMA BeginIntentKeeps ==
    ASSUME IInv, NEW w \in Workers, BeginIntent(w)
    PROVE  IInv' /\ TasksKept
<1> DEFINE s == workers[w].stage
           e == workers[w].epoch
           fresh == [state |-> "intent", task |-> NoTask]
           closed(f) == IF attempts[s][f].state = "intent"
                        THEN [attempts[s][f] EXCEPT !.state = "failed"]
                        ELSE attempts[s][f]
           rows == [f \in DOMAIN attempts[s] \cup {e} |->
                        IF f = e THEN fresh ELSE closed(f)]
<1>1. /\ s \in Stages /\ e \in Nat /\ workers[w].pc = "intent"
      /\ e \notin DOMAIN attempts[s] /\ e <= stage[s].epoch
  BY DEF BeginIntent, IInv, TypeOK, Worker, EpochsAreFresh
<1>2. TablesTyped' /\ LeasesKept
  BY TypeOKParts, KeptStage DEF BeginIntent, IInv, TablesTyped
<1>3. CASE UNCHANGED attempts /\ Conclude(w, "checkpoint", "retryable")
  <2>1. Moved(w, "checkpoint", "retryable") /\ AttemptsKept(attempts')
    BY <1>3, ConcludeMoves, UnchangedKept DEF IInv, ProgramCounters, Outcomes
  <2> QED
    BY <1>1, <1>2, <2>1, MoveKeeps DEF Decided
<1>4. CASE /\ attempts' = [attempts EXCEPT ![s] = rows]
           /\ Goto(w, "mark")
  <2>1. \A f \in DOMAIN attempts[s] :
           closed(f) \in Attempt /\ closed(f).task = attempts[s][f].task
    <3>1. ASSUME NEW f \in DOMAIN attempts[s]
          PROVE  closed(f) \in Attempt /\ closed(f).task = attempts[s][f].task
      <4>1. attempts[s][f] \in Attempt
        BY <1>1 DEF IInv, TypeOK, AttemptsTyped
      <4> QED
        BY <4>1 DEF Attempt, SubmitStates
    <3> QED
      BY <3>1
  <2>2. fresh \in Attempt /\ fresh.task = NoTask
    BY DEF Attempt, SubmitStates, NoTask
  <2> HIDE DEF fresh, closed
  <2>3. /\ attempts'[s] = rows
        /\ \A r \in Stages \ {s} : attempts'[r] = attempts[r]
        /\ DOMAIN attempts' = Stages
    BY <1>1, <1>4 DEF IInv, TypeOK, AttemptsTyped
  <2>4. /\ DOMAIN rows = DOMAIN attempts[s] \cup {e}
        /\ rows \in [DOMAIN rows -> Attempt]
        /\ \A f \in DOMAIN attempts[s] : rows[f].task = attempts[s][f].task
        /\ rows[e].task = NoTask
    BY <1>1, <2>1, <2>2
  <2> HIDE DEF rows
  <2>5. AttemptsTyped(attempts')
    BY <1>1, <2>3, <2>4 DEF IInv, TypeOK, AttemptsTyped
  <2>6. BatchesHaveNoTask'
    BY <1>1, <2>3, <2>4 DEF IInv, BatchesHaveNoTask
  <2>7. TasksKept
    BY <1>1, <2>3, <2>4 DEF TasksKept
  <2>8. Moved(w, "mark", workers[w].outcome)
    BY <1>4, GotoMoves DEF IInv, ProgramCounters
  <2>9. TypeOK'
    BY <1>2, <2>5, <2>8, TypeOKPartsNext DEF Moved, LeasesKept
  <2>10. OutcomeIsDecided'
    BY <2>8, MovedIsDecided DEF IInv, Decided
  <2>11. EpochsAreFresh'
    <3>1. \A v \in Workers : /\ workers'[v].stage = workers[v].stage
                             /\ workers'[v].epoch = workers[v].epoch
                             /\ v # w => workers'[v].pc = workers[v].pc
                             /\ workers[v].stage \in Stages
      BY <2>8 DEF Moved, IInv, TypeOK, Worker
    <3>2. workers'[w].pc = "mark" /\ workers[w].pc = "intent"
      BY <1>1, <2>8 DEF Moved
    <3>3. \A r \in Stages : stage'[r].epoch = stage[r].epoch
      BY <1>2 DEF LeasesKept
    <3>4. \A r \in Stages :
             DOMAIN attempts'[r] = IF r = s THEN DOMAIN attempts[s] \cup {e}
                                            ELSE DOMAIN attempts[r]
      BY <2>3, <2>4
    <3>5. \A v \in Workers :
             v # w /\ workers[v].pc # "idle" /\ workers[v].stage = s
                => workers[v].epoch # e
      BY <3>2 DEF IInv, EpochsAreFresh
    <3> QED
      BY <1>1, <3>1, <3>2, <3>3, <3>4, <3>5 DEF IInv, EpochsAreFresh
  <2> QED
    BY <2>6, <2>7, <2>9, <2>10, <2>11 DEF IInv
<1> QED
  BY <1>3, <1>4 DEF BeginIntent

-----------------------------------------------------------------------------
(* The first and the last step of an execution, takeover and crash.        *)

(* An idle task is well-formed.                                            *)
LEMMA IdleType ==
    ASSUME NEW s \in Stages
    PROVE  Idle(s) \in Worker /\ Idle(s).pc = "idle"
  BY DEF Idle, Worker, Replies, Outcomes, Scans, Results

(* There is a stage for an idle task to name.                              *)
LEMMA NoStageType == NoStage \in Stages
  BY StagesAssumption DEF NoStage

(* A claim keeps the invariant: the epoch it hands out is new.             *)
LEMMA ClaimKeeps ==
    ASSUME IInv, NEW w \in Workers, NEW s \in Stages, Claim(w, s)
    PROVE  IInv' /\ TasksKept
<1> DEFINE n == stage[s].epoch
           row == Leased(stage[s], "running")
<1>1. PICK first \in {FirstStep(s), [pc |-> "checkpoint", outcome |-> "needs_input"]} :
         workers' = [workers EXCEPT ![w] =
            [Idle(s) EXCEPT !.pc = first.pc, !.outcome = first.outcome,
                            !.epoch = stage'[s].epoch]]
  BY DEF Claim
<1>2. /\ n \in Nat /\ row \in Row /\ row.epoch = n + 1
      /\ stage' = [stage EXCEPT ![s] = row]
  <2>1. stage[s] \in Row /\ "running" \in JobStatuses
    BY DEF IInv, TypeOK, JobStatuses
  <2>2. row \in Row /\ row.epoch = n + 1
    BY <2>1, LeasedType
  <2>3. n \in Nat
    BY <2>1, Zenon DEF Row
  <2> QED
    BY <2>2, <2>3 DEF Claim
<1> HIDE DEF row
<1>3. /\ stage' \in [Stages -> Row]
      /\ \A r \in Stages : stage'[r].epoch = IF r = s THEN n + 1 ELSE stage[r].epoch
  BY <1>2 DEF IInv, TypeOK
<1> DEFINE task == [Idle(s) EXCEPT !.pc = first.pc, !.outcome = first.outcome,
                                   !.epoch = n + 1]
<1>4. /\ task \in Worker /\ task.pc = first.pc /\ task.outcome = first.outcome
      /\ task.stage = s /\ task.epoch = n + 1
  <2>1. first.outcome \in Outcomes /\ first.pc \in {"checkpoint", "inputs", "run"}
    BY FirstStepType
  <2>2. n + 1 \in Nat /\ "none" \in Replies
    BY <1>2 DEF Replies
  <2> QED
    BY <2>1, <2>2 DEF Idle, Worker, Scans, Results
<1>5. workers' = [workers EXCEPT ![w] = task]
  BY <1>1, <1>3
<1> HIDE DEF task
<1>6. /\ workers' \in [Workers -> Worker]
      /\ workers'[w] = task
      /\ \A v \in Workers \ {w} : workers'[v] = workers[v]
  BY <1>4, <1>5 DEF IInv, TypeOK
<1>7. TablesTyped' /\ AttemptsKept(attempts')
  BY TypeOKParts, UnchangedKept DEF Claim, IInv, TablesTyped
<1>8. TypeOK'
  BY <1>3, <1>6, <1>7, TypeOKPartsNext DEF AttemptsKept
<1>9. OutcomeIsDecided'
  <2>1. Decided(first.pc, first.outcome)
    BY FirstStepType
  <2> QED
    BY <1>4, <1>6, <2>1 DEF IInv, OutcomeIsDecided, Decided
<1>10. EpochsAreFresh'
  <2>1. \A v \in Workers \ {w} :
           /\ workers'[v] = workers[v]
           /\ workers[v].stage \in Stages /\ workers[v].epoch \in Nat
           /\ workers[v].pc # "idle" =>
                 workers[v].epoch <= stage[workers[v].stage].epoch
    BY <1>6 DEF IInv, TypeOK, Worker, EpochsAreFresh
  <2>2. workers'[w].stage = s /\ workers'[w].epoch = n + 1
    BY <1>4, <1>6
  <2>3. \A r \in Stages :
           /\ DOMAIN attempts'[r] = DOMAIN attempts[r]
           /\ DOMAIN attempts[r] \subseteq Nat
           /\ stage[r].epoch \in Nat
           /\ stage'[r].epoch = IF r = s THEN n + 1 ELSE stage[r].epoch
    BY <1>3, <1>7 DEF IInv, TypeOK, AttemptsTyped, AttemptsKept, Row
  <2>4. \A v \in Workers : workers'[v].pc # "idle" =>
           workers'[v].epoch <= stage'[workers'[v].stage].epoch
    BY <1>2, <2>1, <2>2, <2>3
  <2>5. \A v \in Workers \ {w} :
           workers[v].pc # "idle" /\ workers[v].stage = s => workers[v].epoch # n + 1
    BY <1>2, <2>1
  <2>6. \A v, u \in Workers :
           /\ workers'[v].pc # "idle" /\ workers'[u].pc # "idle"
           /\ workers'[v].stage = workers'[u].stage
           /\ workers'[v].epoch = workers'[u].epoch
           => v = u
    BY <2>1, <2>2, <2>5 DEF IInv, EpochsAreFresh
  <2>7. \A r \in Stages : \A e \in DOMAIN attempts'[r] : e <= stage'[r].epoch
    BY <1>2, <2>3 DEF IInv, EpochsAreFresh
  <2>8. n + 1 \notin DOMAIN attempts[s]
    BY <1>2 DEF IInv, EpochsAreFresh
  <2>9. \A v \in Workers : workers'[v].pc \in {"inputs", "intent"} =>
           workers'[v].epoch \notin DOMAIN attempts'[workers'[v].stage]
    BY <2>1, <2>2, <2>3, <2>8 DEF IInv, EpochsAreFresh
  <2> QED
    BY <2>4, <2>6, <2>7, <2>9 DEF EpochsAreFresh
<1> QED
  BY <1>7, <1>8, <1>9, <1>10, KeptAttempts DEF IInv

(* A task that ends, or dies, gives its guard up.                          *)
LEMMA RetiredKeeps ==
    ASSUME IInv, NEW W \in SUBSET Workers,
           workers' = [w \in Workers |-> IF w \in W THEN Idle(NoStage) ELSE workers[w]],
           TablesTyped', LeasesKept, AttemptsKept(attempts')
    PROVE  IInv' /\ TasksKept
<1>1. \A w \in Workers : IF w \in W
                         THEN workers'[w] \in Worker /\ workers'[w].pc = "idle"
                         ELSE workers'[w] = workers[w]
  BY IdleType, NoStageType
<1>2. workers' \in [Workers -> Worker]
  BY <1>1 DEF IInv, TypeOK
<1>3. TypeOK'
  BY <1>2, TypeOKPartsNext DEF LeasesKept, AttemptsKept
<1>4. OutcomeIsDecided'
  BY <1>1 DEF IInv, OutcomeIsDecided
<1>5. EpochsAreFresh'
  <2>1. \A s \in Stages : /\ stage'[s].epoch = stage[s].epoch
                          /\ DOMAIN attempts'[s] = DOMAIN attempts[s]
    BY DEF LeasesKept, AttemptsKept
  <2>2. \A w \in Workers : workers[w].stage \in Stages
    BY DEF IInv, TypeOK, Worker
  <2> QED
    BY <1>1, <2>1, <2>2 DEF IInv, EpochsAreFresh
<1> QED
  BY <1>3, <1>4, <1>5, KeptAttempts DEF IInv

(* Ending an execution keeps the invariant, with the lease or without.     *)
LEMMA CheckpointKeeps ==
    ASSUME IInv, NEW w \in Workers, Checkpoint(w)
    PROVE  IInv' /\ TasksKept
<1> DEFINE s == workers[w].stage
<1>1. /\ s \in Stages /\ JobOf[s] \in Jobs
      /\ workers[w].outcome \in Outcomes \ {"none"}
  BY JobOfAssumption DEF Checkpoint, IInv, TypeOK, Worker, OutcomeIsDecided
<1>2. LeasesKept /\ job' \in [Jobs -> JobStatuses]
  <2>1. CASE Holds(w, s)
    <3>1. PICK row \in Advanced(stage[s], workers[w].outcome) :
             stage' = [stage EXCEPT ![s] = row]
      BY <2>1 DEF Checkpoint
    <3>2. row \in Row /\ row.epoch = stage[s].epoch
      BY <1>1, AdvancedType DEF IInv, TypeOK
    <3>3. LeasesKept
      BY <1>1, <3>1, <3>2 DEF IInv, TypeOK, LeasesKept
    <3>4. job' \in [Jobs -> JobStatuses]
      BY <1>1, <2>1, RecomputeType DEF Checkpoint, IInv, TypeOK
    <3> QED
      BY <3>3, <3>4
  <2>2. CASE ~Holds(w, s)
    BY <2>2, KeptStage DEF Checkpoint, IInv, TypeOK
  <2> QED
    BY <2>1, <2>2
<1>3. TablesTyped' /\ AttemptsKept(attempts')
  BY <1>2, TypeOKParts, UnchangedKept DEF Checkpoint, IInv, TablesTyped
<1>4. workers' = [v \in Workers |-> IF v \in {w} THEN Idle(NoStage) ELSE workers[v]]
  BY DEF Checkpoint, IInv, TypeOK
<1> QED
  BY <1>2, <1>3, <1>4, RetiredKeeps

(* A crash keeps the invariant: guards only disappear.                     *)
LEMMA CrashKeeps ==
    ASSUME IInv, Crash
    PROVE  IInv' /\ TasksKept
<1>1. TablesTyped'
  <2>1. crashes' \in Nat
    BY DEF Crash, IInv, TypeOK
  <2> QED
    BY <2>1, Zenon DEF Crash, IInv, TypeOK, TablesTyped
<1>2. LeasesKept /\ AttemptsKept(attempts')
  BY KeptStage, UnchangedKept DEF Crash, IInv
<1>3. workers' = [v \in Workers |-> IF v \in Workers THEN Idle(NoStage) ELSE workers[v]]
  BY DEF Crash
<1> QED
  BY <1>1, <1>2, <1>3, RetiredKeeps

(* The takeover decides from the latest attempt and moves the epoch on.    *)
LEMMA TakeOverKeeps ==
    ASSUME IInv, NEW s \in Stages, NEW result \in Results, TakeOver(s, result),
           lapses' \in Nat
    PROVE  IInv' /\ TasksKept
<1> DEFINE n == stage[s].epoch
           e == LatestEpoch(attempts, s)
           plan == RecoveryPlan(Kind[s], result, Latest(attempts, s), job[JobOf[s]])
           row == [Leased(stage[s], plan) EXCEPT !.paused = FALSE]
<1>1. stage[s] \in Row /\ Kind[s] \in HandledKinds /\ JobOf[s] \in Jobs
  BY KindsAssumption, JobOfAssumption DEF IInv, TypeOK
<1>2. plan \in JobStatuses
  BY <1>1, LatestType, PlanType DEF IInv
<1>3. AttemptsKept(attempts')
  <2>1. AttemptsKept(SetState(attempts, s, e, "unknown"))
    BY SetStateKept DEF IInv, SubmitStates
  <2>2. AttemptsKept(attempts)
    BY UnchangedKept DEF IInv
  <2> QED
    BY <2>1, <2>2 DEF TakeOver
<1> HIDE DEF plan
<1>4. row \in Row /\ row.epoch = n + 1 /\ n \in Nat
  <2>1. n \in Nat
    BY <1>1, Zenon DEF Row
  <2> QED
    BY <1>1, <1>2, <2>1, LeasedType
<1>5. stage' = [stage EXCEPT ![s] = row]
  BY DEF TakeOver, plan
<1> HIDE DEF row
<1>6. /\ stage' \in [Stages -> Row]
      /\ \A r \in Stages : stage'[r].epoch = IF r = s THEN n + 1 ELSE stage[r].epoch
  BY <1>4, <1>5 DEF IInv, TypeOK
<1>7. TablesTyped'
  <2>1. job' \in [Jobs -> JobStatuses]
    BY <1>1, RecomputeType DEF TakeOver, IInv, TypeOK
  <2> QED
    BY <2>1, Zenon DEF TakeOver, IInv, TypeOK, TablesTyped
<1>8. TypeOK' /\ OutcomeIsDecided'
  BY <1>3, <1>6, <1>7, TypeOKPartsNext
     DEF TakeOver, IInv, TypeOK, AttemptsKept, OutcomeIsDecided
<1>9. EpochsAreFresh'
  <2>1. \A r \in Stages :
           /\ DOMAIN attempts'[r] = DOMAIN attempts[r]
           /\ DOMAIN attempts[r] \subseteq Nat
           /\ stage[r].epoch \in Nat
           /\ stage[r].epoch <= stage'[r].epoch
    BY <1>3, <1>4, <1>6 DEF IInv, TypeOK, AttemptsTyped, AttemptsKept, Row
  <2>2. \A r \in Stages : stage'[r].epoch \in Nat
    BY <1>4, <1>6, <2>1
  <2>3. \A v \in Workers : workers[v].stage \in Stages /\ workers[v].epoch \in Nat
    BY DEF IInv, TypeOK, Worker
  <2>4. workers' = workers
    BY DEF TakeOver
  <2> QED
    BY <2>1, <2>2, <2>3, <2>4 DEF IInv, EpochsAreFresh
<1> QED
  BY <1>3, <1>8, <1>9, KeptAttempts DEF IInv

(* What a scan remembers is a result, and the task goes on undisturbed.    *)
LEMMA ScanKeepsRows ==
    ASSUME IInv, NEW w \in Workers, ScanLapsed(w)
    PROVE  IInv' /\ TasksKept
<1> DEFINE s == workers[w].stage
           task == [workers[w] EXCEPT !.scan = stage[s].result]
<1>1. /\ workers[w] \in Worker /\ workers[w].pc # "idle"
      /\ workers' = [workers EXCEPT ![w] = task]
  BY DEF ScanLapsed, Holds, IInv, TypeOK
<1>2. stage[s].result \in Scans
  BY <1>1 DEF IInv, TypeOK, Row, Worker, Scans
<1>3. /\ task \in Worker
      /\ task.pc = workers[w].pc /\ task.outcome = workers[w].outcome
      /\ task.stage = workers[w].stage /\ task.epoch = workers[w].epoch
  BY <1>1, <1>2, Zenon DEF Worker
<1> HIDE DEF task
<1>4. Moved(w, workers[w].pc, workers[w].outcome)
  BY <1>1, <1>3 DEF Moved, IInv, TypeOK
<1>5. Decided(workers[w].pc, workers[w].outcome)
  BY DEF Decided, IInv, OutcomeIsDecided
<1>6. TablesTyped' /\ LeasesKept /\ AttemptsKept(attempts')
  BY TypeOKParts, KeptStage, UnchangedKept DEF ScanLapsed, IInv, TablesTyped
<1> QED
  BY <1>1, <1>4, <1>5, <1>6, MoveKeeps

(* A takeover decides from a result, whoever read it.                      *)
LEMMA RecoverTakesOver ==
    ASSUME IInv, NEW s \in Stages, RecoverAbandoned(s) \/ RecoverLapsed(s)
    PROVE  (\E result \in Results : TakeOver(s, result)) /\ lapses' = lapses
<1>1. CASE RecoverAbandoned(s)
  BY <1>1 DEF RecoverAbandoned, IInv, TypeOK, Row
<1>2. CASE RecoverLapsed(s)
  BY <1>2 DEF RecoverLapsed, IInv, TypeOK, Worker, Scans
<1> QED BY <1>1, <1>2

-----------------------------------------------------------------------------
(* What the recovery scan remembers.                                       *)

ScanKept(task, new) ==
    \/ new.scan = "unseen"
    \/ new.scan = task.scan /\ new.stage = task.stage

(* A task's own steps leave what a scan has seen of its stage, or end it.  *)
LEMMA TaskKeepsScan ==
    ASSUME IInv, NEW w \in Workers, WorkerStep(w)
    PROVE  lapses' = lapses /\ \A v \in Workers : ScanKept(workers[v], workers'[v])
<1>1. workers \in [Workers -> Worker]
  BY DEF IInv, TypeOK
<1>2. ASSUME NEW task, workers' = [workers EXCEPT ![w] = task], ScanKept(workers[w], task)
      PROVE  \A v \in Workers : ScanKept(workers[v], workers'[v])
  BY <1>1, <1>2 DEF ScanKept
<1>3. ASSUME NEW pc, NEW outcome,
             \/ Goto(w, pc) \/ Conclude(w, pc, outcome)
             \/ workers' = [workers EXCEPT ![w].pc = pc, ![w].reply = outcome]
             \/ workers' = [workers EXCEPT ![w].pc = pc, ![w].seen = outcome]
      PROVE  \A v \in Workers : ScanKept(workers[v], workers'[v])
  <2> DEFINE gone == [workers[w] EXCEPT !.pc = pc, !.reply = "none"]
             concluded == [workers[w] EXCEPT !.pc = pc, !.outcome = outcome,
                                             !.reply = "none"]
             answered == [workers[w] EXCEPT !.pc = pc, !.reply = outcome]
             read == [workers[w] EXCEPT !.pc = pc, !.seen = outcome]
  <2>1. workers[w] \in Worker
    BY <1>1
  <2>2. /\ gone.scan = workers[w].scan /\ gone.stage = workers[w].stage
        /\ concluded.scan = workers[w].scan /\ concluded.stage = workers[w].stage
        /\ answered.scan = workers[w].scan /\ answered.stage = workers[w].stage
        /\ read.scan = workers[w].scan /\ read.stage = workers[w].stage
    BY <2>1, Zenon DEF Worker
  <2>3. \/ workers' = [workers EXCEPT ![w] = gone]
        \/ workers' = [workers EXCEPT ![w] = concluded]
        \/ workers' = [workers EXCEPT ![w] = answered]
        \/ workers' = [workers EXCEPT ![w] = read]
    BY <1>3 DEF Goto, Conclude
  <2> HIDE DEF gone, concluded, answered, read
  <2> QED BY <1>2, <2>2, <2>3 DEF ScanKept
<1>4. CASE Checkpoint(w)
  <2>1. workers' = [workers EXCEPT ![w] = Idle(NoStage)]
    BY <1>4 DEF Checkpoint
  <2>2. Idle(NoStage).scan = "unseen"
    BY DEF Idle
  <2> QED BY <1>2, <1>4, <2>1, <2>2 DEF ScanKept, Checkpoint
<1>5. CASE \/ CheckInputs(w) \/ BeginIntent(w) \/ MarkSubmitting(w) \/ ResetFact(w)
           \/ HandleSubmitReply(w) \/ HandleExtractReply(w) \/ LedgerStep(w)
           \/ Poll(w) \/ Fetch(w) \/ Merge(w) \/ SaveDraft(w) \/ Fact(w)
  <2>1. lapses' = lapses /\ \E pc, outcome : Goto(w, pc) \/ Conclude(w, pc, outcome)
    BY <1>5 DEF CheckInputs, BeginIntent, MarkSubmitting, ResetFact, HandleSubmitReply,
       HandleExtractReply, LedgerStep, Poll, Fetch, Merge, SaveDraft, Fact
  <2> QED BY <1>3, <2>1
<1>6. CASE Post(w)
  BY <1>3, <1>6 DEF Post
<1>7. CASE Assemble(w)
  BY <1>3, <1>7 DEF Assemble
<1> QED BY <1>4, <1>5, <1>6, <1>7 DEF WorkerStep

(* Only a scan that finds a lapsed lease remembers anything.               *)
LEMMA ScansStay ==
    IInv /\ [Next]_vars =>
       ScanAny \/ /\ lapses' = lapses
                  /\ \A v \in Workers : ScanKept(workers[v], workers'[v])
<1> SUFFICES ASSUME IInv, [Next]_vars, ~ScanAny
             PROVE  /\ lapses' = lapses
                    /\ \A v \in Workers : ScanKept(workers[v], workers'[v])
  OBVIOUS
<1>1. ASSUME NEW w \in Workers, NEW s \in Stages, Claim(w, s)
      PROVE  lapses' = lapses /\ \A v \in Workers : ScanKept(workers[v], workers'[v])
  <2>1. PICK first : workers' = [workers EXCEPT ![w] =
              [Idle(s) EXCEPT !.pc = first.pc, !.outcome = first.outcome,
                              !.epoch = stage'[s].epoch]]
    BY <1>1 DEF Claim
  <2> DEFINE task == [Idle(s) EXCEPT !.pc = first.pc, !.outcome = first.outcome,
                                     !.epoch = stage'[s].epoch]
  <2>2. task.scan = "unseen"
    BY Zenon DEF Idle
  <2>3. \A v \in Workers : workers'[v] = IF v = w THEN task ELSE workers[v]
    BY <2>1 DEF IInv, TypeOK
  <2> HIDE DEF task
  <2> QED BY <1>1, <2>2, <2>3 DEF Claim, ScanKept
<1>2. CASE Crash
  BY <1>2 DEF Crash, Idle, ScanKept
<1>3. CASE UNCHANGED vars
  BY <1>3 DEF vars, ScanKept
<1>4. ASSUME NEW s \in Stages, RecoverAbandoned(s) \/ RecoverLapsed(s)
      PROVE  lapses' = lapses /\ \A v \in Workers : ScanKept(workers[v], workers'[v])
  BY <1>4, RecoverTakesOver DEF TakeOver, ScanKept
<1> QED
  BY <1>1, <1>2, <1>3, <1>4, TaskKeepsScan DEF Next, ExecutorStep, ClaimAny, RecoverAny

(* A scan has seen something only if a lease has lapsed.                   *)
NothingScanned == \A w \in Workers : workers[w].scan = "unseen"

ScannedAfterLapse == lapses = 0 => NothingScanned

LEMMA StepScansAfterLapse ==
    IInv /\ ScannedAfterLapse /\ [Next]_vars => ScannedAfterLapse'
<1> SUFFICES ASSUME IInv, ScannedAfterLapse, [Next]_vars, lapses' = 0
             PROVE  NothingScanned'
  BY DEF ScannedAfterLapse
<1>1. ~ScanAny
  BY DEF ScanAny, ScanLapsed, IInv, TypeOK
<1> QED BY <1>1, ScansStay DEF ScannedAfterLapse, NothingScanned, ScanKept

-----------------------------------------------------------------------------
(* The theorems.                                                           *)

(* The invariant holds when the jobs enter.                                *)
LEMMA InitEstablishes == Init => IInv
<1> SUFFICES ASSUME Init PROVE IInv
  OBVIOUS
<1>1. QueuedRow \in Row
  BY DEF QueuedRow, Row, JobStatuses, Results
<1>2. stage \in [Stages -> Row] /\ workers \in [Workers -> Worker]
  BY <1>1, IdleType, NoStageType DEF Init
<1>3. AttemptsTyped(attempts) /\ \A s \in Stages : DOMAIN attempts[s] = {}
  BY DEF Init, AttemptsTyped
<1>4. TablesTyped
  <2>1. /\ job \in [Jobs -> JobStatuses]
        /\ ledger \in [Jobs -> [Providers -> LedgerStates]]
        /\ draft \in [Jobs -> SUBSET Stages]
        /\ bills \in [Stages -> SUBSET Nat]
        /\ crashes \in Nat /\ lapses \in Nat
    BY DEF Init, JobStatuses, LedgerStates
  <2>2. allowance \in [Stages -> BOOLEAN]
    <3> DEFINE paid(s) == Kind[s] \in PaidKinds
    <3>1. \A s \in Stages : paid(s) \in BOOLEAN
      OBVIOUS
    <3>2. allowance = [s \in Stages |-> paid(s)]
      BY DEF Init
    <3> HIDE DEF paid
    <3> QED
      BY <3>1, <3>2
  <2> QED
    BY <2>1, <2>2, Zenon DEF TablesTyped
<1>5. \A w \in Workers : workers[w].pc = "idle"
  BY IdleType, NoStageType DEF Init
<1> QED
  BY <1>2, <1>3, <1>4, <1>5, TypeOKParts
     DEF IInv, OutcomeIsDecided, EpochsAreFresh, BatchesHaveNoTask

(* Every step keeps the invariant and every recorded task.                 *)
LEMMA StepKeeps == IInv /\ [Next]_vars => IInv' /\ TasksKept
<1> SUFFICES ASSUME IInv, [Next]_vars PROVE IInv' /\ TasksKept
  OBVIOUS
<1>1. CASE ClaimAny
  BY <1>1, ClaimKeeps DEF ClaimAny
<1>2. ASSUME NEW w \in Workers, WorkerStep(w) PROVE IInv' /\ TasksKept
  BY <1>2, CheckInputsKeeps, BeginIntentKeeps, MarkSubmittingKeeps, ResetFactKeeps,
     PostKeeps, HandleSubmitReplyKeeps, HandleExtractReplyKeeps, LedgerStepKeeps,
     HandlersKeep, AssembleKeeps, SaveDraftKeeps, FactKeeps, CheckpointKeeps
     DEF WorkerStep
<1>3. ASSUME NEW s \in Stages, RecoverAbandoned(s) \/ RecoverLapsed(s)
      PROVE  IInv' /\ TasksKept
  BY <1>3, RecoverTakesOver, TakeOverKeeps DEF IInv, TypeOK
<1>4. CASE ScanAny
  BY <1>4, ScanKeepsRows DEF ScanAny
<1>5. CASE Crash
  BY <1>5, CrashKeeps
<1>6. CASE UNCHANGED vars
  <2>1. UNCHANGED <<job, stage, attempts, ledger, draft, workers, bills, allowance,
                    crashes, lapses>>
    BY <1>6 DEF vars
  <2>2. TablesTyped' /\ LeasesKept /\ AttemptsKept(attempts')
    BY <2>1, TypeOKParts, KeptStage, UnchangedKept DEF IInv, TablesTyped
  <2>3. workers' = [w \in Workers |-> IF w \in {} THEN Idle(NoStage) ELSE workers[w]]
    BY <2>1 DEF IInv, TypeOK
  <2>4. {} \in SUBSET Workers
    OBVIOUS
  <2> QED
    BY <2>2, <2>3, <2>4, RetiredKeeps
<1> QED
  BY <1>1, <1>2, <1>3, <1>4, <1>5, <1>6 DEF Next, ExecutorStep, RecoverAny

(* The invariant holds throughout.                                         *)
LEMMA InductiveInvariant == Spec => []IInv
<1>1. IInv /\ [Next]_vars => IInv'
  BY StepKeeps
<1> QED
  BY <1>1, InitEstablishes, PTL DEF Spec

(* Every row, execution task and provider record keeps its type, however   *)
(* many stages, tasks, crashes and lapsed leases there are.                *)
THEOREM TypeCorrect == Spec => []TypeOK
<1>1. IInv => TypeOK
  BY DEF IInv
<1> QED
  BY <1>1, InductiveInvariant, PTL

(* The epochs of guards and attempts stay fresh through every claim,       *)
(* takeover and crash.                                                     *)
THEOREM EpochsStayFresh == Spec => []EpochsAreFresh
<1>1. IInv => EpochsAreFresh
  BY DEF IInv
<1> QED
  BY <1>1, InductiveInvariant, PTL

(* No two execution tasks ever hold the lease of one stage, although a     *)
(* task that lost its lease goes on working.                               *)
THEOREM LeasesExclude == Spec => []LeaseIsExclusive
<1>1. IInv => LeaseIsExclusive
  BY DEF IInv, EpochsAreFresh, LeaseIsExclusive, Holds
<1> QED
  BY <1>1, InductiveInvariant, PTL

(* The executor never erases or replaces the task id of an attempt, which  *)
(* is all that is left of a paid request once its reply is gone.           *)
THEOREM TaskIdsAreKept == Spec => TaskIdWriteOnce
<1>1. IInv /\ [Next]_vars => [TasksKept]_vars
  BY StepKeeps
<1>2. [TasksKept]_vars <=>
         [\A s \in Stages : \A e \in DOMAIN attempts[s] :
             attempts[s][e].task # NoTask =>
                /\ e \in DOMAIN attempts'[s]
                /\ attempts'[s][e].task = attempts[s][e].task]_vars
  BY DEF TasksKept
<1> QED
  BY <1>1, <1>2, InductiveInvariant, PTL DEF Spec, TaskIdWriteOnce

-----------------------------------------------------------------------------
(* Who moves a running stage on.                                           *)

(* The step leaves the status of every running stage.                      *)
RunningKept ==
    \A s \in Stages : stage[s].status = "running" => stage'[s].status = "running"

(* OnlyHolderAdvances of one step, without the cancellation that only      *)
(* JobControl has.                                                         *)
OnlyHolderMoves ==
    \A s \in Stages :
        stage[s].status = "running" /\ stage'[s].status # "running" =>
           \/ stage'[s].epoch > stage[s].epoch
           \/ \E w \in Workers : /\ workers[w].pc = "checkpoint"
                                 /\ workers[w].stage = s
                                 /\ workers[w].epoch = stage[s].epoch
                                 /\ workers'[w].pc = "idle"

(* Writing a result leaves the status.                                     *)
LEMMA ResultKeepsStatus ==
    ASSUME TypeOK, NEW s \in Stages, NEW result,
           stage' = [stage EXCEPT ![s].result = result]
    PROVE  RunningKept
<1> DEFINE row == [stage[s] EXCEPT !.result = result]
<1>1. stage[s] \in Row
  BY DEF TypeOK
<1>2. row.status = stage[s].status
  BY <1>1, Zenon DEF Row
<1>3. stage' = [stage EXCEPT ![s] = row]
  OBVIOUS
<1> HIDE DEF row
<1> QED
  BY <1>2, <1>3 DEF TypeOK, RunningKept

(* A step of an execution task moves a running row only as its holder.     *)
LEMMA WorkerStepMoves ==
    ASSUME IInv, NEW w \in Workers, WorkerStep(w)
    PROVE  OnlyHolderMoves
<1> DEFINE s == workers[w].stage
<1>1. s \in Stages
  BY DEF IInv, TypeOK, Worker
<1>2. CASE UNCHANGED stage
  BY <1>2 DEF OnlyHolderMoves
<1>3. CASE RunningKept
  BY <1>3 DEF RunningKept, OnlyHolderMoves
<1>4. CASE Checkpoint(w)
  <2>1. CASE Holds(w, s)
    <3>1. \A r \in Stages \ {s} : stage'[r] = stage[r]
      BY <1>4, <2>1 DEF Checkpoint, IInv, TypeOK
    <3>2. workers'[w].pc = "idle" /\ workers[w].pc = "checkpoint"
      BY <1>4, IdleType, NoStageType DEF Checkpoint, IInv, TypeOK
    <3> QED
      BY <2>1, <3>1, <3>2 DEF Holds, OnlyHolderMoves
  <2>2. CASE ~Holds(w, s)
    BY <1>2, <1>4, <2>2 DEF Checkpoint
  <2> QED
    BY <2>1, <2>2
<1>5. CASE ResetFact(w) \/ HandleExtractReply(w) \/ Fact(w)
  <2>1. \/ UNCHANGED stage
        \/ \E result \in Results : stage' = [stage EXCEPT ![s].result = result]
    BY <1>5 DEF ResetFact, HandleExtractReply, Fact, Results
  <2> QED
    BY <1>1, <1>2, <1>3, <2>1, ResultKeepsStatus DEF IInv
<1>6. CASE \/ CheckInputs(w) \/ BeginIntent(w) \/ MarkSubmitting(w) \/ Post(w)
           \/ HandleSubmitReply(w) \/ LedgerStep(w) \/ Poll(w) \/ Fetch(w)
           \/ Merge(w) \/ Assemble(w) \/ SaveDraft(w)
  BY <1>2, <1>6 DEF CheckInputs, BeginIntent, MarkSubmitting, Post,
     HandleSubmitReply, LedgerStep, Poll, Fetch, Merge, Assemble, SaveDraft
<1> QED
  BY <1>4, <1>5, <1>6 DEF WorkerStep

(* So does every other step, by a new epoch or not at all.                 *)
LEMMA StepMoves == IInv /\ [Next]_vars => OnlyHolderMoves
<1> SUFFICES ASSUME IInv, [Next]_vars PROVE OnlyHolderMoves
  OBVIOUS
<1>1. ASSUME NEW w \in Workers, NEW s \in Stages, Claim(w, s) PROVE OnlyHolderMoves
  <2>1. stage[s].status # "running"
    BY <1>1 DEF Claim, Claimable
  <2>2. \A r \in Stages \ {s} : stage'[r] = stage[r]
    BY <1>1 DEF Claim, IInv, TypeOK
  <2> QED
    BY <2>1, <2>2 DEF OnlyHolderMoves
<1>2. ASSUME NEW s \in Stages, NEW result \in Results, TakeOver(s, result)
      PROVE  OnlyHolderMoves
  <2> DEFINE plan == RecoveryPlan(Kind[s], result, Latest(attempts, s), job[JobOf[s]])
             row == [Leased(stage[s], plan) EXCEPT !.paused = FALSE]
  <2>1. stage' = [stage EXCEPT ![s] = row]
    BY <1>2 DEF TakeOver
  <2>2. stage[s] \in Row /\ Kind[s] \in HandledKinds
    BY KindsAssumption DEF IInv, TypeOK
  <2>3. plan \in JobStatuses
    BY <2>2, LatestType, PlanType DEF IInv
  <2> HIDE DEF plan
  <2>4. row.epoch = stage[s].epoch + 1 /\ stage[s].epoch \in Nat
    <3>1. stage[s].epoch \in Nat
      BY <2>2, Zenon DEF Row
    <3> QED
      BY <2>2, <2>3, <3>1, LeasedType
  <2> HIDE DEF row
  <2>5. /\ stage'[s].epoch > stage[s].epoch
        /\ \A r \in Stages \ {s} : stage'[r] = stage[r]
    BY <2>1, <2>4 DEF IInv, TypeOK
  <2> QED
    BY <2>5 DEF OnlyHolderMoves
<1>3. CASE UNCHANGED stage
  BY <1>3 DEF OnlyHolderMoves
<1>4. ScanAny => UNCHANGED stage
  BY DEF ScanAny, ScanLapsed
<1> QED
  BY <1>1, <1>2, <1>3, <1>4, WorkerStepMoves, RecoverTakesOver
     DEF Next, ExecutorStep, ClaimAny, RecoverAny, Crash, vars

(* A running stage moves on only by the task that holds its lease or by    *)
(* the takeover of that lease: a task that lost its lease moves nothing,   *)
(* whenever it lost it.                                                    *)
THEOREM StaleTasksMoveNothing == Spec => OnlyHolderAdvances
<1>1. IInv /\ [Next]_vars =>
         [\A s \in Stages :
             stage[s].status = "running" /\ stage'[s].status # "running" =>
                \/ stage'[s].epoch > stage[s].epoch
                \/ job'[JobOf[s]] = "cancelled"
                \/ \E w \in Workers : /\ workers[w].pc = "checkpoint"
                                      /\ workers[w].stage = s
                                      /\ workers[w].epoch = stage[s].epoch
                                      /\ workers'[w].pc = "idle"]_vars
  BY StepMoves DEF OnlyHolderMoves
<1> QED
  BY <1>1, InductiveInvariant, PTL DEF Spec, OnlyHolderAdvances

-----------------------------------------------------------------------------
(* What a step may do to the status of a row.                             *)

(* A cancelled job stays cancelled.                                        *)
CancelledJobsStay == \A j \in Jobs : job[j] = "cancelled" => job'[j] = "cancelled"

(* A cancelled job is cancelled whatever its stages say.                   *)
LEMMA AggregatesKeepCancelled ==
    ASSUME NEW statuses
    PROVE  /\ AggregateJobStatus("cancelled", statuses) = "cancelled"
           /\ AggregateAfterRetry("cancelled", statuses) = "cancelled"
  BY DEF AggregateJobStatus, AggregateAfterRetry, Terminal

(* The two ways a job's status is computed anew.                           *)
LEMMA RecomputedJob ==
    ASSUME IInv, NEW st, NEW j \in Jobs,
           \/ job' = Recompute(job, st, j)
           \/ job' = [job EXCEPT ![j] = AggregateAfterRetry(@, StatusesOf(st, j))]
    PROVE  job' \in [Jobs -> JobStatuses] /\ CancelledJobsStay
<1>1. job \in [Jobs -> JobStatuses]
  BY DEF IInv, TypeOK
<1>2. /\ AggregateJobStatus(job[j], StatusesOf(st, j)) \in JobStatuses
      /\ AggregateAfterRetry(job[j], StatusesOf(st, j)) \in JobStatuses
  <2>1. "running" \in JobStatuses /\ job[j] \in JobStatuses
    BY <1>1 DEF JobStatuses
  <2> QED BY <2>1, AggregateType DEF AggregateAfterRetry
<1>3. job[j] = "cancelled" =>
        /\ AggregateJobStatus(job[j], StatusesOf(st, j)) = "cancelled"
        /\ AggregateAfterRetry(job[j], StatusesOf(st, j)) = "cancelled"
  BY AggregatesKeepCancelled
<1> QED BY <1>1, <1>2, <1>3 DEF Recompute, CancelledJobsStay

(* What a step of the executor may do to a row: claim it, advance it or    *)
(* take it over.                                                           *)
RowsExecuted ==
    \A s \in Stages :
        \/ stage'[s].status = stage[s].status /\ stage'[s].epoch = stage[s].epoch
        \/ Claimable(s) /\ stage'[s].status = "running"
        \/ stage[s].status = "running" /\ stage'[s].epoch = stage[s].epoch
        \/ /\ stage[s].status = "running"
           /\ job[JobOf[s]] = "cancelled" => stage'[s].status = "cancelled"

(* Writing a result leaves status and lease.                               *)
LEMMA ResultKeepsRow ==
    ASSUME TypeOK, NEW s \in Stages, NEW result,
           stage' = [stage EXCEPT ![s].result = result]
    PROVE  RowsExecuted
<1> DEFINE row == [stage[s] EXCEPT !.result = result]
<1>1. stage[s] \in Row
  BY DEF TypeOK
<1>2. row.status = stage[s].status /\ row.epoch = stage[s].epoch
  BY <1>1, Zenon DEF Row
<1>3. stage' = [stage EXCEPT ![s] = row]
  OBVIOUS
<1> HIDE DEF row
<1> QED BY <1>2, <1>3 DEF TypeOK, RowsExecuted

(* A task that ends advances the row it holds.                             *)
LEMMA CheckpointExecutes ==
    ASSUME IInv, NEW w \in Workers, Checkpoint(w)
    PROVE  RowsExecuted /\ CancelledJobsStay
<1> DEFINE s == workers[w].stage
<1>1. /\ s \in Stages /\ JobOf[s] \in Jobs /\ stage \in [Stages -> Row]
      /\ workers[w].outcome \in Outcomes \ {"none"}
  BY JobOfAssumption DEF Checkpoint, IInv, TypeOK, Worker, OutcomeIsDecided
<1>2. CASE Holds(w, s)
  <2>1. PICK row \in Advanced(stage[s], workers[w].outcome) :
           stage' = [stage EXCEPT ![s] = row]
    BY <1>2 DEF Checkpoint
  <2>2. row.epoch = stage[s].epoch
    BY <1>1, AdvancedType
  <2>3. stage[s].status = "running"
    BY <1>2 DEF Holds
  <2>4. \A r \in Stages : stage'[r] = IF r = s THEN row ELSE stage[r]
    BY <1>1, <2>1
  <2>5. RowsExecuted
    BY <2>2, <2>3, <2>4 DEF RowsExecuted
  <2>6. CancelledJobsStay
    BY <1>1, <1>2, RecomputedJob DEF Checkpoint
  <2> QED BY <2>5, <2>6
<1>3. CASE ~Holds(w, s)
  BY <1>3 DEF Checkpoint, RowsExecuted, CancelledJobsStay
<1> QED BY <1>2, <1>3

(* A takeover cancels the stage of a cancelled job.                        *)
LEMMA TakeOverExecutes ==
    ASSUME IInv, NEW s \in Stages, NEW result \in Results, TakeOver(s, result)
    PROVE  RowsExecuted /\ CancelledJobsStay
<1> DEFINE plan == RecoveryPlan(Kind[s], result, Latest(attempts, s), job[JobOf[s]])
           row == [Leased(stage[s], plan) EXCEPT !.paused = FALSE]
<1>1. /\ stage[s] \in Row /\ stage[s].status = "running" /\ JobOf[s] \in Jobs
      /\ stage \in [Stages -> Row]
  BY JobOfAssumption DEF TakeOver, IInv, TypeOK
<1>2. job[JobOf[s]] = "cancelled" => plan = "cancelled"
  BY DEF RecoveryPlan
<1>3. stage' = [stage EXCEPT ![s] = row]
  BY DEF TakeOver
<1> HIDE DEF plan
<1>4. row.status = plan
  BY <1>1, Zenon DEF Leased, Row
<1> HIDE DEF row
<1>5. \A r \in Stages : stage'[r] = IF r = s THEN row ELSE stage[r]
  BY <1>1, <1>3
<1>6. RowsExecuted
  BY <1>1, <1>2, <1>4, <1>5 DEF RowsExecuted
<1>7. CancelledJobsStay
  BY <1>1, RecomputedJob DEF TakeOver
<1> QED BY <1>6, <1>7

(* Every step of the executor.                                             *)
LEMMA StepExecutes == IInv /\ [Next]_vars => RowsExecuted /\ CancelledJobsStay
<1> SUFFICES ASSUME IInv, [Next]_vars PROVE RowsExecuted /\ CancelledJobsStay
  OBVIOUS
<1>1. CASE UNCHANGED <<stage, job>>
  BY <1>1 DEF RowsExecuted, CancelledJobsStay
<1>2. ASSUME NEW w \in Workers, NEW s \in Stages, Claim(w, s)
      PROVE  RowsExecuted /\ CancelledJobsStay
  <2> DEFINE row == Leased(stage[s], "running")
  <2>1. Claimable(s) /\ job' = job /\ stage' = [stage EXCEPT ![s] = row]
    BY <1>2 DEF Claim
  <2>2. row.status = "running"
    <3>1. stage[s] \in Row
      BY DEF IInv, TypeOK
    <3> QED BY <3>1, Zenon DEF Leased, Row
  <2> HIDE DEF row
  <2>3. \A r \in Stages : stage'[r] = IF r = s THEN row ELSE stage[r]
    BY <2>1 DEF IInv, TypeOK
  <2> QED BY <2>1, <2>2, <2>3 DEF RowsExecuted, CancelledJobsStay
<1>3. ASSUME NEW w \in Workers, ResetFact(w) \/ HandleExtractReply(w) \/ Fact(w)
      PROVE  RowsExecuted /\ CancelledJobsStay
  <2>1. workers[w].stage \in Stages
    BY DEF IInv, TypeOK, Worker
  <2>2. \/ UNCHANGED stage
        \/ \E result \in Results :
              stage' = [stage EXCEPT ![workers[w].stage].result = result]
    BY <1>3 DEF ResetFact, HandleExtractReply, Fact, Results
  <2>3. job' = job
    BY <1>3 DEF ResetFact, HandleExtractReply, Fact
  <2>4. CancelledJobsStay
    BY <2>3 DEF CancelledJobsStay
  <2>5. CASE UNCHANGED stage
    BY <1>1, <2>3, <2>5
  <2>6. CASE \E result \in Results :
               stage' = [stage EXCEPT ![workers[w].stage].result = result]
    BY <2>1, <2>4, <2>6, ResultKeepsRow DEF IInv
  <2> QED BY <2>2, <2>5, <2>6
<1>4. ASSUME NEW w \in Workers,
             \/ CheckInputs(w) \/ BeginIntent(w) \/ MarkSubmitting(w) \/ Post(w)
             \/ HandleSubmitReply(w) \/ LedgerStep(w) \/ Poll(w) \/ Fetch(w)
             \/ Merge(w) \/ Assemble(w) \/ SaveDraft(w)
      PROVE  UNCHANGED <<stage, job>>
  BY <1>4 DEF CheckInputs, BeginIntent, MarkSubmitting, Post,
     HandleSubmitReply, LedgerStep, Poll, Fetch, Merge, Assemble, SaveDraft
<1>5. CASE Crash \/ ScanAny \/ UNCHANGED vars
  BY <1>1, <1>5 DEF Crash, ScanAny, ScanLapsed, vars
<1> QED
  BY <1>1, <1>2, <1>3, <1>4, <1>5, CheckpointExecutes, TakeOverExecutes, RecoverTakesOver
     DEF Next, ExecutorStep, ClaimAny, WorkerStep, RecoverAny

(* What is succeeded stays so, and what is claimed waited for it.          *)
LEMMA StepDepends ==
    DependenciesHold /\ RowsExecuted => DependenciesHold'
<1> SUFFICES ASSUME DependenciesHold, RowsExecuted,
                    NEW s \in Stages, Kind[s] # "assemble_draft",
                    stage'[s].status \in {"running", "retry_wait", "waiting_provider",
                                         "succeeded"},
                    NEW d \in DependsOn(s)
             PROVE  stage'[d].status = "succeeded"
  BY DEF DependenciesHold, DependsOn
<1>1. d \in Stages
  BY DEF DependsOn, StagesOf
<1>2. stage[d].status = "succeeded" => stage'[d].status = "succeeded"
  BY <1>1 DEF RowsExecuted, Claimable
<1>3. stage[d].status = "succeeded"
  <2>1. CASE stage'[s].status = stage[s].status \/ stage[s].status = "running"
    BY <2>1 DEF DependenciesHold
  <2>2. CASE Claimable(s)
    BY <2>2 DEF Claimable, Unlocked
  <2> QED BY <2>1, <2>2 DEF RowsExecuted
<1> QED BY <1>2, <1>3

(* A merge never runs ahead of a batch, nor any stage but the assembly     *)
(* ahead of what it depends on, although only the claim looks at the       *)
(* dependencies: nothing takes a success back while no one retries.        *)
THEOREM DependenciesStay == Spec => []DependenciesHold
<1>1. Init => DependenciesHold
  BY DEF Init, DependenciesHold, QueuedRow
<1>2. IInv /\ DependenciesHold /\ [Next]_vars => DependenciesHold'
  BY StepDepends, StepExecutes
<1> QED BY <1>1, <1>2, InductiveInvariant, PTL DEF Spec
-----------------------------------------------------------------------------
(* The draft of a finished assembly.                                       *)

(* In the rows st, what an assembly depends on has come to rest, and has   *)
(* these results.                                                          *)
AtRestBelow(st, s) ==
    \A d \in DependsOn(s) : st[d].status \notin
        {"queued", "retry_wait", "running", "waiting_provider"}

Usable(st, s) == {d \in DependsOn(s) : st[d].status = "succeeded"}

(* An assembly that was ever claimed waited, and never has a result fact.  *)
AssembliesWaited ==
    \A s \in Stages : Kind[s] = "assemble_draft" =>
        /\ stage[s].result = "none"
        /\ stage[s].status # "queued" => AtRestBelow(stage, s)

(* A task that assembles has seen, and written, what is there.             *)
Assembled(task, st, dr) ==
    /\ task.pc \in {"run", "save", "checkpoint"}
    /\ AtRestBelow(st, task.stage)
    /\ task.pc = "save" => task.seen = Usable(st, task.stage)
    /\ task.pc = "checkpoint" /\ task.outcome = "succeeded" =>
          dr[JobOf[task.stage]] = Usable(st, task.stage)

Fits(task, st, dr) ==
    \/ task.pc = "idle"
    \/ Kind[task.stage] # "assemble_draft" /\ task.pc # "save"
    \/ Kind[task.stage] = "assemble_draft" /\ Assembled(task, st, dr)

TasksFit == \A w \in Workers : Fits(workers[w], stage, draft)

DraftInv == AssembliesWaited /\ TasksFit /\ DraftIsCurrent

(* What has come to rest stays where it is.                                *)
LEMMA RestStays ==
    ASSUME RowsExecuted, NEW s \in Stages, AtRestBelow(stage, s)
    PROVE  AtRestBelow(stage', s) /\ Usable(stage', s) = Usable(stage, s)
<1>1. \A d \in DependsOn(s) : stage'[d].status = stage[d].status
  BY DEF RowsExecuted, Claimable, AtRestBelow, DependsOn, StagesOf
<1> QED BY <1>1 DEF AtRestBelow, Usable

(* Assemblies of one job wait for the same stages.                         *)
LEMMA SameBelow ==
    ASSUME NEW r \in Stages, NEW s \in Stages, Kind[r] = Kind[s], JobOf[r] = JobOf[s]
    PROVE  Usable(stage, r) = Usable(stage, s)
  BY DEF Usable, DependsOn, StagesOf

(* The row of an assembly becomes succeeded only by a task that saved.     *)
AssembliesExecuted ==
    \A s \in Stages : Kind[s] = "assemble_draft" =>
        /\ stage'[s].result = stage[s].result
        /\ stage'[s].status = "succeeded" /\ stage[s].status # "succeeded" =>
             \E w \in Workers : /\ workers[w].stage = s
                                /\ workers[w].pc = "checkpoint"
                                /\ workers[w].outcome = "succeeded"

(* An assembly that is not queued has waited before and after the step.    *)
LEMMA AssembliesStay ==
    ASSUME DraftInv, RowsExecuted, AssembliesExecuted
    PROVE  AssembliesWaited'
<1> SUFFICES ASSUME NEW s \in Stages, Kind[s] = "assemble_draft"
             PROVE  /\ stage'[s].result = "none"
                    /\ stage'[s].status # "queued" => AtRestBelow(stage', s)
  BY DEF AssembliesWaited, AtRestBelow
<1>1. stage'[s].result = "none"
  BY DEF AssembliesExecuted, DraftInv, AssembliesWaited
<1>2. ASSUME stage'[s].status # "queued" PROVE AtRestBelow(stage, s)
  <2>1. CASE Claimable(s)
    BY <2>1 DEF Claimable, Unlocked, AtRestBelow
  <2>2. CASE stage[s].status # "queued"
    BY <2>2 DEF DraftInv, AssembliesWaited
  <2> QED BY <1>2, <2>1, <2>2 DEF RowsExecuted
<1> QED BY <1>1, <1>2, RestStays

(* A draft that is written anew by a task that assembles is the same one.  *)
LEMMA DraftStays ==
    ASSUME IInv, DraftInv, RowsExecuted, AssembliesExecuted,
           \/ draft' = draft
           \/ \E w \in Workers : /\ workers[w].pc = "save"
                                 /\ draft' = [draft EXCEPT ![JobOf[workers[w].stage]] =
                                                 workers[w].seen]
    PROVE  /\ \A s \in Stages :
                 Kind[s] = "assemble_draft" /\ AtRestBelow(stage, s)
                 /\ draft[JobOf[s]] = Usable(stage, s)
                 => draft'[JobOf[s]] = Usable(stage', s)
           /\ DraftIsCurrent'
<1>1. ASSUME NEW s \in Stages, Kind[s] = "assemble_draft", AtRestBelow(stage, s),
             draft[JobOf[s]] = Usable(stage, s)
      PROVE  draft'[JobOf[s]] = Usable(stage', s)
  <2>1. Usable(stage', s) = Usable(stage, s)
    BY <1>1, RestStays
  <2>2. ASSUME NEW w \in Workers, workers[w].pc = "save",
               draft' = [draft EXCEPT ![JobOf[workers[w].stage]] = workers[w].seen]
        PROVE  draft'[JobOf[s]] = Usable(stage, s)
    <3> DEFINE r == workers[w].stage
    <3>1. r \in Stages /\ JobOf[r] \in Jobs
      BY JobOfAssumption DEF IInv, TypeOK, Worker
    <3>2. Kind[r] = "assemble_draft" /\ workers[w].seen = Usable(stage, r)
      BY <2>2 DEF DraftInv, TasksFit, Fits, Assembled
    <3>3. JobOf[r] = JobOf[s] => Usable(stage, r) = Usable(stage, s)
      BY <1>1, <3>1, <3>2, SameBelow
    <3> QED BY <1>1, <2>2, <3>1, <3>2, <3>3 DEF IInv, TypeOK
  <2> QED BY <1>1, <2>1, <2>2
<1>2. ASSUME NEW s \in Stages, Kind[s] = "assemble_draft", stage'[s].status = "succeeded"
      PROVE  draft'[JobOf[s]] = Usable(stage', s)
  <2>1. AtRestBelow(stage, s) /\ draft[JobOf[s]] = Usable(stage, s)
    <3>1. CASE stage[s].status = "succeeded"
      BY <1>2, <3>1 DEF DraftInv, AssembliesWaited, DraftIsCurrent, Usable
    <3>2. CASE stage[s].status # "succeeded"
      BY <1>2, <3>2 DEF AssembliesExecuted, DraftInv, TasksFit, Fits, Assembled
    <3> QED BY <3>1, <3>2
  <2> QED BY <1>1, <1>2, <2>1
<1> QED BY <1>1, <1>2 DEF DraftIsCurrent, Usable

(* Where a task may go: on, to its end, or as far as an assembly may.      *)
Follows(task, new) ==
    \/ new = task
    \/ Fits(new, stage, draft) /\ new.stage \in Stages

(* Tasks that were right stay right.                                       *)
LEMMA TasksStay ==
    ASSUME IInv, DraftInv, RowsExecuted, AssembliesExecuted, draft' = draft,
           \A w \in Workers : Follows(workers[w], workers'[w])
    PROVE  DraftInv'
<1>1. AssembliesWaited' /\ DraftIsCurrent'
  BY AssembliesStay, DraftStays
<1>2. ASSUME NEW w \in Workers
      PROVE  Fits(workers'[w], stage', draft')
  <2> DEFINE task == workers'[w]
  <2>1. task.stage \in Stages /\ Fits(task, stage, draft)
    BY DEF Follows, IInv, TypeOK, Worker, DraftInv, TasksFit
  <2> HIDE DEF task
  <2>2. CASE Kind[task.stage] = "assemble_draft" /\ Assembled(task, stage, draft)
    <3>1. /\ AtRestBelow(stage', task.stage)
          /\ Usable(stage', task.stage) = Usable(stage, task.stage)
      BY <2>1, <2>2, RestStays DEF Assembled
    <3> QED BY <2>2, <3>1 DEF Fits, Assembled, task
  <2>3. CASE task.pc = "idle" \/ (Kind[task.stage] # "assemble_draft" /\ task.pc # "save")
    BY <2>3 DEF Fits, task
  <2> QED BY <2>1, <2>2, <2>3 DEF Fits, task
<1> QED BY <1>1, <1>2 DEF DraftInv, TasksFit

(* Advancing or leasing a row leaves its result, and only a successful     *)
(* outcome makes it succeed.                                               *)
LEMMA AdvancedResult ==
    ASSUME NEW row \in Row, NEW outcome \in Outcomes \ {"none"},
           NEW next \in Advanced(row, outcome)
    PROVE  next.result = row.result /\ (next.status = "succeeded" => outcome = "succeeded")
<1>1. CASE outcome \in {"succeeded", "submission_unknown", "failed"}
  <2>1. next = [row EXCEPT !.status = outcome]
    BY <1>1, Zenon DEF Advanced
  <2> QED BY <2>1, Zenon DEF Row
<1>2. CASE outcome \in {"needs_input", "branch_paused"}
  <2>1. PICK b \in BOOLEAN : next = [row EXCEPT !.status = "needs_input", !.paused = b]
    BY <1>2, Zenon DEF Advanced
  <2>2. next.result = row.result /\ next.status = "needs_input"
    BY <2>1, Zenon DEF Row
  <2> QED BY <2>2
<1>3. CASE outcome = "retryable"
  <2>1. \/ next = [row EXCEPT !.status = "retry_wait", !.retries = row.retries + 1]
        \/ next = [row EXCEPT !.status = "failed"]
    BY <1>3, Zenon DEF Advanced
  <2>2. next.result = row.result /\ next.status \in {"retry_wait", "failed"}
    BY <2>1, Zenon DEF Row
  <2> QED BY <2>2
<1>4. CASE outcome = "waiting"
  <2>1. \/ next = [row EXCEPT !.status = "needs_input", !.paused = FALSE]
        \/ next = [row EXCEPT !.status = "waiting_provider", !.polls = row.polls + 1]
    BY <1>4, Zenon DEF Advanced
  <2>2. next.result = row.result /\ next.status \in {"needs_input", "waiting_provider"}
    BY <2>1, Zenon DEF Row
  <2> QED BY <2>2
<1> QED BY <1>1, <1>2, <1>3, <1>4 DEF Outcomes

(* A lease changes status and epoch only.                                   *)
LEMMA LeasedResult ==
    ASSUME NEW row \in Row, NEW status
    PROVE  /\ Leased(row, status).result = row.result
           /\ Leased(row, status).status = status
           /\ [Leased(row, status) EXCEPT !.paused = FALSE].result = row.result
           /\ [Leased(row, status) EXCEPT !.paused = FALSE].status = status
  BY Zenon DEF Leased, Row

(* One row was written.                                                    *)
LEMMA OneRow ==
    ASSUME IInv, NEW s \in Stages, NEW row, stage' = [stage EXCEPT ![s] = row],
           Kind[s] = "assemble_draft" =>
              /\ row.result = stage[s].result
              /\ row.status = "succeeded" /\ stage[s].status # "succeeded" =>
                   \E w \in Workers : /\ workers[w].stage = s
                                      /\ workers[w].pc = "checkpoint"
                                      /\ workers[w].outcome = "succeeded"
    PROVE  AssembliesExecuted
<1>1. \A r \in Stages : stage'[r] = IF r = s THEN row ELSE stage[r]
  BY DEF IInv, TypeOK
<1> QED BY <1>1 DEF AssembliesExecuted

(* A step of a task at work, but for those of the assembly, leads on.      *)
LEMMA TaskMoves ==
    ASSUME IInv, NEW w \in Workers,
           \/ CheckInputs(w) \/ BeginIntent(w) \/ MarkSubmitting(w) \/ ResetFact(w)
           \/ Post(w) \/ HandleSubmitReply(w) \/ HandleExtractReply(w)
           \/ LedgerStep(w) \/ Poll(w) \/ Fetch(w) \/ Merge(w) \/ Fact(w)
    PROVE  \E pc \in ProgramCounters \ {"save"} : \E outcome : Moved(w, pc, outcome)
<1>1. ASSUME NEW pc \in {"intent", "mark", "reset", "armed", "checkpoint"}, Goto(w, pc)
      PROVE  \E q \in ProgramCounters \ {"save"} : \E outcome : Moved(w, q, outcome)
  <2>1. pc \in ProgramCounters \ {"save"}
    BY DEF ProgramCounters
  <2> QED BY <1>1, <2>1, GotoMoves DEF IInv
<1>2. ASSUME NEW pc \in {"checkpoint", "fact", "ledger"}, NEW outcome \in Outcomes,
             Conclude(w, pc, outcome)
      PROVE  \E q \in ProgramCounters \ {"save"} : \E out : Moved(w, q, out)
  <2>1. pc \in ProgramCounters \ {"save"}
    BY DEF ProgramCounters
  <2> QED BY <1>2, <2>1, ConcludeMoves DEF IInv
<1>3. CASE Post(w)
  <2>1. PICK r \in Replies : workers' = [workers EXCEPT ![w].pc = "reply", ![w].reply = r]
    BY <1>3 DEF Post, Replies
  <2>2. Moved(w, "reply", workers[w].outcome)
    BY <2>1 DEF IInv, TypeOK, Worker, Moved
  <2> QED BY <2>2 DEF ProgramCounters
<1>4. CASE CheckInputs(w) \/ BeginIntent(w)
  <2>1. \/ Goto(w, "intent") \/ Goto(w, "mark")
        \/ \E outcome \in {"needs_input", "branch_paused", "retryable"} :
              Conclude(w, "checkpoint", outcome)
    BY <1>4 DEF CheckInputs, BeginIntent
  <2>2. {"needs_input", "branch_paused", "retryable"} \subseteq Outcomes
    BY DEF Outcomes
  <2> QED BY <1>1, <1>2, <2>1, <2>2
<1>5. CASE MarkSubmitting(w)
  <2> DEFINE error == ErrorOutcome(workers[w].stage, workers[w].epoch)
  <2>1. error \in Outcomes
    BY DEF ErrorOutcome, Outcomes
  <2>2. Goto(w, "reset") \/ Goto(w, "armed") \/ Conclude(w, "checkpoint", error)
    BY <1>5 DEF MarkSubmitting
  <2> HIDE DEF error
  <2> QED BY <1>1, <1>2, <2>1, <2>2
<1>6. CASE ResetFact(w) \/ LedgerStep(w) \/ Fact(w)
  BY <1>1, <1>6 DEF ResetFact, LedgerStep, Fact
<1>7. CASE HandleSubmitReply(w)
  <2> DEFINE error == ErrorOutcome(workers[w].stage, workers[w].epoch)
             outs == {"succeeded", "submission_unknown", "failed", "retryable", error}
  <2>1. outs \subseteq Outcomes
    BY DEF ErrorOutcome, Outcomes
  <2>2. \E pc \in {"checkpoint", "ledger"} : \E outcome \in outs : Conclude(w, pc, outcome)
    BY <1>7 DEF HandleSubmitReply
  <2> HIDE DEF outs
  <2> QED BY <1>2, <2>1, <2>2
<1>8. CASE HandleExtractReply(w) \/ Poll(w) \/ Fetch(w) \/ Merge(w)
  <2> DEFINE outs == {"succeeded", "submission_unknown", "failed", "retryable",
                      "needs_input", "waiting"}
  <2>1. outs \subseteq Outcomes
    BY DEF Outcomes
  <2>2. \E pc \in {"checkpoint", "fact", "ledger"} :
           \E outcome \in outs : Conclude(w, pc, outcome)
    BY <1>8 DEF HandleExtractReply, Poll, Fetch, Merge
  <2> HIDE DEF outs
  <2> QED BY <1>2, <2>1, <2>2
<1> QED BY <1>3, <1>4, <1>5, <1>6, <1>7, <1>8

(* What a task does while it works, whatever its stage, is not the draft's *)
(* business.                                                               *)
LEMMA TaskMovesDraft ==
    ASSUME IInv, DraftInv, RowsExecuted, NEW w \in Workers,
           \/ CheckInputs(w) \/ BeginIntent(w) \/ MarkSubmitting(w) \/ ResetFact(w)
           \/ Post(w) \/ HandleSubmitReply(w) \/ HandleExtractReply(w)
           \/ LedgerStep(w) \/ Poll(w) \/ Fetch(w) \/ Merge(w) \/ Fact(w)
    PROVE  DraftInv'
<1> DEFINE s == workers[w].stage
<1>1. s \in Stages /\ stage[s] \in Row
  BY DEF IInv, TypeOK, Worker
<1>2. Kind[s] # "assemble_draft"
  <2>1. \/ workers[w].pc \in {"inputs", "intent", "mark", "reset", "armed", "reply",
                              "ledger", "fact"}
        \/ workers[w].pc = "run" /\ Kind[s] # "assemble_draft"
    BY DEF CheckInputs, BeginIntent, MarkSubmitting, ResetFact, Post, HandleSubmitReply,
           HandleExtractReply, LedgerStep, Poll, Fetch, Merge, Fact
  <2> QED BY <2>1 DEF DraftInv, TasksFit, Fits, Assembled
<1>3. AssembliesExecuted
  <2>1. \/ UNCHANGED stage
        \/ \E result \in Results : stage' = [stage EXCEPT ![s].result = result]
    BY DEF CheckInputs, BeginIntent, MarkSubmitting, ResetFact, Post, HandleSubmitReply,
           HandleExtractReply, LedgerStep, Poll, Fetch, Merge, Fact, Results
  <2>2. CASE UNCHANGED stage
    BY <2>2 DEF AssembliesExecuted
  <2>3. ASSUME NEW result \in Results, stage' = [stage EXCEPT ![s].result = result]
        PROVE  AssembliesExecuted
    <3> DEFINE row == [stage[s] EXCEPT !.result = result]
    <3>1. stage' = [stage EXCEPT ![s] = row]
      BY <2>3
    <3> HIDE DEF row
    <3> QED BY <1>1, <1>2, <3>1, OneRow
  <2> QED BY <2>1, <2>2, <2>3
<1>4. draft' = draft
  BY DEF CheckInputs, BeginIntent, MarkSubmitting, ResetFact, Post, HandleSubmitReply,
         HandleExtractReply, LedgerStep, Poll, Fetch, Merge, Fact
<1>5. PICK pc \in ProgramCounters \ {"save"} : \E outcome : Moved(w, pc, outcome)
  BY TaskMoves
<1>6. \A v \in Workers : Follows(workers[v], workers'[v])
  BY <1>1, <1>2, <1>5 DEF Moved, Follows, Fits
<1> QED BY <1>3, <1>4, <1>6, TasksStay

(* A claimed assembly has waited, and begins at its beginning.             *)
LEMMA ClaimDraft ==
    ASSUME IInv, DraftInv, RowsExecuted, NEW w \in Workers, NEW s \in Stages, Claim(w, s)
    PROVE  DraftInv'
<1> DEFINE row == Leased(stage[s], "running")
<1>1. stage[s] \in Row /\ stage' = [stage EXCEPT ![s] = row] /\ draft' = draft
  BY DEF Claim, IInv, TypeOK
<1>2. row.result = stage[s].result /\ row.status = "running"
  BY <1>1, LeasedResult
<1> HIDE DEF row
<1>3. AssembliesExecuted
  BY <1>1, <1>2, OneRow
<1>4. PICK first \in {FirstStep(s), [pc |-> "checkpoint", outcome |-> "needs_input"]} :
         workers' = [workers EXCEPT ![w] =
            [Idle(s) EXCEPT !.pc = first.pc, !.outcome = first.outcome,
                            !.epoch = stage'[s].epoch]]
  BY DEF Claim
<1> DEFINE task == [Idle(s) EXCEPT !.pc = first.pc, !.outcome = first.outcome,
                                   !.epoch = stage'[s].epoch]
<1>5. task.pc = first.pc /\ task.outcome = first.outcome /\ task.stage = s
  BY Zenon DEF Idle
<1>6. \A v \in Workers : workers'[v] = IF v = w THEN task ELSE workers[v]
  BY <1>4 DEF IInv, TypeOK
<1> HIDE DEF task
<1>7. Fits(task, stage, draft)
  <2>1. first.pc \in {"checkpoint", "inputs", "run"}
    BY FirstStepType
  <2>2. CASE Kind[s] # "assemble_draft"
    BY <1>5, <2>1, <2>2 DEF Fits
  <2>3. CASE Kind[s] = "assemble_draft"
    <3>1. AtRestBelow(stage, s)
      BY <2>3 DEF Claim, Claimable, Unlocked, AtRestBelow
    <3>2. first.pc \in {"run", "checkpoint"} /\ first.outcome # "succeeded"
      BY <2>3 DEF FirstStep, PaidKinds, AsyncKinds, SyncKinds
    <3> QED BY <1>5, <2>3, <3>1, <3>2 DEF Fits, Assembled
  <2> QED BY <2>2, <2>3
<1>8. \A v \in Workers : Follows(workers[v], workers'[v])
  BY <1>5, <1>6, <1>7 DEF Follows
<1> QED BY <1>1, <1>3, <1>8, TasksStay

(* Reading the branches: all of them are at rest.                          *)
LEMMA AssembleDraft ==
    ASSUME IInv, DraftInv, RowsExecuted, NEW w \in Workers, Assemble(w)
    PROVE  DraftInv'
<1> DEFINE s == workers[w].stage
           usable == {d \in DependsOn(s) : stage[d].status = "succeeded"}
<1>1. s \in Stages /\ Kind[s] = "assemble_draft" /\ stage' = stage /\ draft' = draft
  BY DEF Assemble, IInv, TypeOK, Worker
<1>2. AssembliesExecuted
  BY <1>1 DEF AssembliesExecuted
<1>3. AtRestBelow(stage, s)
  BY <1>1 DEF Assemble, DraftInv, TasksFit, Fits, Assembled
<1>4. \A v \in Workers : Follows(workers[v], workers'[v])
  <2>1. CASE Conclude(w, "checkpoint", "needs_input")
    <3>1. Moved(w, "checkpoint", "needs_input")
      BY <2>1, ConcludeMoves DEF IInv, ProgramCounters, Outcomes
    <3> QED BY <1>1, <1>3, <3>1 DEF Moved, Follows, Fits, Assembled
  <2>2. CASE workers' = [workers EXCEPT ![w].pc = "save", ![w].seen = usable]
    <3> DEFINE task == [workers[w] EXCEPT !.pc = "save", !.seen = usable]
    <3>1. workers[w] \in Worker
      BY DEF IInv, TypeOK
    <3>2. usable = Usable(stage, s)
      BY DEF Usable
    <3> HIDE DEF usable
    <3>3. task.pc = "save" /\ task.seen = usable /\ task.stage = s
      BY <3>1, Zenon DEF Worker
    <3>4. \A v \in Workers : workers'[v] = IF v = w THEN task ELSE workers[v]
      BY <2>2 DEF IInv, TypeOK
    <3> HIDE DEF task
    <3> QED BY <1>1, <1>3, <3>2, <3>3, <3>4 DEF Follows, Fits, Assembled
  <2> QED BY <2>1, <2>2 DEF Assemble
<1> QED BY <1>1, <1>2, <1>4, TasksStay

(* Saving what was read: it is still there, and what others saved of the   *)
(* job is the same.                                                        *)
LEMMA SaveDraftDraft ==
    ASSUME IInv, DraftInv, RowsExecuted, NEW w \in Workers, SaveDraft(w)
    PROVE  DraftInv'
<1> DEFINE s == workers[w].stage
<1>1. /\ s \in Stages /\ JobOf[s] \in Jobs /\ stage' = stage
      /\ workers[w].pc = "save" /\ draft' = [draft EXCEPT ![JobOf[s]] = workers[w].seen]
  BY JobOfAssumption DEF SaveDraft, IInv, TypeOK, Worker
<1>2. AssembliesExecuted
  BY <1>1 DEF AssembliesExecuted
<1>3. Moved(w, "checkpoint", "succeeded")
  BY ConcludeMoves DEF SaveDraft, IInv, ProgramCounters, Outcomes
<1>4. /\ DraftIsCurrent'
      /\ \A r \in Stages :
            Kind[r] = "assemble_draft" /\ AtRestBelow(stage, r)
            /\ draft[JobOf[r]] = Usable(stage, r)
            => draft'[JobOf[r]] = Usable(stage', r)
  BY <1>1, <1>2, DraftStays
<1>5. /\ Kind[s] = "assemble_draft" /\ AtRestBelow(stage, s)
      /\ workers[w].seen = Usable(stage, s)
  BY <1>1 DEF DraftInv, TasksFit, Fits, Assembled
<1>6. draft'[JobOf[s]] = Usable(stage', s)
  BY <1>1, <1>5 DEF IInv, TypeOK
<1>7. ASSUME NEW v \in Workers PROVE Fits(workers'[v], stage', draft')
  <2>1. CASE v = w
    BY <1>1, <1>3, <1>5, <1>6, <2>1 DEF Moved, Fits, Assembled
  <2>2. CASE v # w
    <3>1. workers'[v] = workers[v] /\ workers[v].stage \in Stages
      BY <1>3, <2>2 DEF Moved, IInv, TypeOK, Worker
    <3>2. Fits(workers[v], stage, draft)
      BY DEF DraftInv, TasksFit
    <3> QED BY <1>1, <1>4, <3>1, <3>2 DEF Fits, Assembled
  <2> QED BY <2>1, <2>2
<1>8. AssembliesWaited'
  BY <1>2, AssembliesStay
<1> QED BY <1>4, <1>7, <1>8 DEF DraftInv, TasksFit

(* An execution that ends, with the lease or without.                      *)
LEMMA CheckpointDraft ==
    ASSUME IInv, DraftInv, RowsExecuted, NEW w \in Workers, Checkpoint(w)
    PROVE  DraftInv'
<1> DEFINE s == workers[w].stage
<1>1. /\ s \in Stages /\ stage[s] \in Row /\ draft' = draft
      /\ workers[w].pc = "checkpoint" /\ workers[w].outcome \in Outcomes \ {"none"}
  BY DEF Checkpoint, IInv, TypeOK, Worker, OutcomeIsDecided
<1>2. AssembliesExecuted
  <2>1. CASE Holds(w, s)
    <3>1. PICK row \in Advanced(stage[s], workers[w].outcome) :
             stage' = [stage EXCEPT ![s] = row]
      BY <2>1 DEF Checkpoint
    <3>2. /\ row.result = stage[s].result
          /\ row.status = "succeeded" => workers[w].outcome = "succeeded"
      BY <1>1, AdvancedResult
    <3> QED BY <1>1, <3>1, <3>2, OneRow
  <2>2. CASE ~Holds(w, s)
    BY <2>2 DEF Checkpoint, AssembliesExecuted
  <2> QED BY <2>1, <2>2
<1>3. \A v \in Workers : Follows(workers[v], workers'[v])
  <2>1. /\ \A v \in Workers : workers'[v] = IF v = w THEN Idle(NoStage) ELSE workers[v]
        /\ Idle(NoStage).pc = "idle" /\ Idle(NoStage).stage \in Stages
    BY IdleType, NoStageType DEF Checkpoint, IInv, TypeOK, Idle
  <2> QED BY <2>1 DEF Follows, Fits
<1> QED BY <1>1, <1>2, <1>3, TasksStay

(* A takeover never finds an assembly done.                                *)
LEMMA TakeOverDraft ==
    ASSUME IInv, DraftInv, RowsExecuted, NEW s \in Stages, NEW result \in Results,
           TakeOver(s, result), Kind[s] = "assemble_draft" => result = "none"
    PROVE  DraftInv'
<1> DEFINE a == Latest(attempts, s)
           plan == RecoveryPlan(Kind[s], result, a, job[JobOf[s]])
           row == [Leased(stage[s], plan) EXCEPT !.paused = FALSE]
<1>1. stage[s] \in Row /\ workers' = workers /\ draft' = draft
  BY DEF TakeOver, IInv, TypeOK
<1>2. stage' = [stage EXCEPT ![s] = row]
  BY DEF TakeOver
<1>3. Kind[s] = "assemble_draft" => plan # "succeeded"
  <2> SUFFICES ASSUME Kind[s] = "assemble_draft" PROVE plan # "succeeded"
    OBVIOUS
  <2>1. result = "none"
    OBVIOUS
  <2>2. a.state \in {"absent", "intent", "failed"} \cup InDoubt \cup {"accepted"}
    BY LatestType DEF IInv, SubmitStates, InDoubt
  <2> HIDE DEF a
  <2>3. PlanByAttempt("assemble_draft", a) # "succeeded"
    BY <2>2 DEF PlanByAttempt, InDoubt, AsyncKinds, SyncKinds
  <2> QED BY <2>1, <2>3 DEF RecoveryPlan
<1> HIDE DEF plan
<1>4. row.result = stage[s].result /\ row.status = plan
  BY <1>1, LeasedResult
<1> HIDE DEF row
<1>5. AssembliesExecuted
  BY <1>2, <1>3, <1>4, OneRow
<1>6. \A v \in Workers : Follows(workers[v], workers'[v])
  BY <1>1 DEF Follows
<1> QED BY <1>1, <1>5, <1>6, TasksStay

(* What a scan has seen of an assembly: it has no result.                  *)
AssembliesScanned ==
    \A w \in Workers :
        Kind[workers[w].stage] = "assemble_draft" => workers[w].scan \in {"unseen", "none"}

LEMMA StepScans ==
    IInv /\ DraftInv /\ AssembliesScanned /\ [Next]_vars => AssembliesScanned'
<1> SUFFICES ASSUME IInv, DraftInv, AssembliesScanned, [Next]_vars
             PROVE  AssembliesScanned'
  OBVIOUS
<1>1. CASE \A v \in Workers : ScanKept(workers[v], workers'[v])
  BY <1>1 DEF AssembliesScanned, ScanKept
<1>2. ASSUME NEW w \in Workers, ScanLapsed(w) PROVE AssembliesScanned'
  <2> DEFINE task == [workers[w] EXCEPT !.scan = stage[workers[w].stage].result]
  <2>1. /\ workers[w] \in Worker
        /\ \A v \in Workers : workers'[v] = IF v = w THEN task ELSE workers[v]
    BY <1>2 DEF ScanLapsed, IInv, TypeOK
  <2>2. task.stage = workers[w].stage /\ task.scan = stage[workers[w].stage].result
    BY <2>1, Zenon DEF Worker
  <2> HIDE DEF task
  <2>3. Kind[workers[w].stage] = "assemble_draft" => task.scan = "none"
    BY <2>1, <2>2 DEF DraftInv, AssembliesWaited, Worker
  <2> QED BY <2>1, <2>2, <2>3 DEF AssembliesScanned
<1> QED BY <1>1, <1>2, ScansStay DEF ScanAny

(* Every step of the executor.                                             *)
LEMMA StepKeepsDraft ==
    IInv /\ DraftInv /\ AssembliesScanned /\ [Next]_vars => DraftInv'
<1> SUFFICES ASSUME IInv, DraftInv, AssembliesScanned, [Next]_vars PROVE DraftInv'
  OBVIOUS
<1>1. RowsExecuted
  BY StepExecutes
<1>2. CASE Crash
  <2>1. /\ \A v \in Workers : workers'[v] = Idle(NoStage)
        /\ Idle(NoStage).pc = "idle" /\ Idle(NoStage).stage \in Stages
        /\ stage' = stage /\ draft' = draft
    BY <1>2, IdleType, NoStageType DEF Crash, Idle
  <2>2. \A v \in Workers : Follows(workers[v], workers'[v])
    BY <2>1 DEF Follows, Fits
  <2>3. AssembliesExecuted
    BY <2>1 DEF AssembliesExecuted
  <2> QED BY <1>1, <2>1, <2>2, <2>3, TasksStay
<1>3. CASE UNCHANGED vars
  <2>1. stage' = stage /\ draft' = draft /\ workers' = workers
    BY <1>3 DEF vars
  <2>2. AssembliesExecuted /\ \A v \in Workers : Follows(workers[v], workers'[v])
    BY <2>1 DEF AssembliesExecuted, Follows
  <2> QED BY <1>1, <2>1, <2>2, TasksStay
<1>4. ASSUME NEW w \in Workers, WorkerStep(w) PROVE DraftInv'
  BY <1>1, <1>4, TaskMovesDraft, AssembleDraft, SaveDraftDraft, CheckpointDraft
     DEF WorkerStep
<1>5. ASSUME NEW s \in Stages, RecoverAbandoned(s) \/ RecoverLapsed(s)
      PROVE  DraftInv'
  <2>1. CASE RecoverAbandoned(s)
    <3>1. stage[s].result \in Results
      BY DEF IInv, TypeOK, Row
    <3>2. Kind[s] = "assemble_draft" => stage[s].result = "none"
      BY DEF DraftInv, AssembliesWaited
    <3> QED BY <1>1, <2>1, <3>1, <3>2, TakeOverDraft DEF RecoverAbandoned
  <2>2. CASE RecoverLapsed(s)
    <3>1. PICK w \in Workers : /\ workers[w].stage = s /\ workers[w].scan # "unseen"
                               /\ TakeOver(s, workers[w].scan)
      BY <2>2 DEF RecoverLapsed, Holds
    <3>2. workers[w].scan \in Results
      BY <3>1 DEF IInv, TypeOK, Worker, Scans
    <3>3. Kind[s] = "assemble_draft" => workers[w].scan = "none"
      BY <3>1 DEF AssembliesScanned
    <3> QED BY <1>1, <3>1, <3>2, <3>3, TakeOverDraft
  <2> QED BY <1>5, <2>1, <2>2
<1>6. ASSUME NEW w \in Workers, ScanLapsed(w) PROVE DraftInv'
  <2> DEFINE task == [workers[w] EXCEPT !.scan = stage[workers[w].stage].result]
  <2>1. /\ workers[w] \in Worker /\ UNCHANGED <<stage, draft>>
        /\ \A v \in Workers : workers'[v] = IF v = w THEN task ELSE workers[v]
    BY <1>6 DEF ScanLapsed, IInv, TypeOK
  <2>2. /\ task.pc = workers[w].pc /\ task.outcome = workers[w].outcome
        /\ task.stage = workers[w].stage /\ task.seen = workers[w].seen
    BY <2>1, Zenon DEF Worker
  <2> HIDE DEF task
  <2>3. Fits(workers[w], stage, draft) /\ workers[w].stage \in Stages
    BY <2>1 DEF DraftInv, TasksFit, Worker
  <2>4. Fits(task, stage, draft) /\ task.stage \in Stages
    BY <2>2, <2>3 DEF Fits, Assembled
  <2>5. AssembliesExecuted /\ \A v \in Workers : Follows(workers[v], workers'[v])
    BY <2>1, <2>4 DEF AssembliesExecuted, Follows
  <2> QED BY <1>1, <2>1, <2>5, TasksStay
<1> QED
  BY <1>1, <1>2, <1>3, <1>4, <1>5, <1>6, ClaimDraft
     DEF Next, ExecutorStep, ClaimAny, RecoverAny, ScanAny

(* The draft of a finished assembly was built from exactly the branches    *)
(* that have a result, although it is read in one transaction, written in  *)
(* another and finished in a third: the claim waits until all are at rest, *)
(* and without a retry they stay there.                                    *)
THEOREM DraftStaysCurrent == Spec => []DraftIsCurrent
<1>1. Init => DraftInv
  <2> SUFFICES ASSUME Init PROVE DraftInv
    OBVIOUS
  <2>1. AssembliesWaited /\ DraftIsCurrent
    BY DEF Init, AssembliesWaited, DraftIsCurrent, QueuedRow
  <2>2. TasksFit
    BY IdleType, NoStageType DEF Init, TasksFit, Fits
  <2> QED BY <2>1, <2>2 DEF DraftInv
<1>2. Init => AssembliesScanned
  BY DEF Init, AssembliesScanned, Idle
<1>3. DraftInv => DraftIsCurrent
  BY DEF DraftInv
<1> QED
  BY <1>1, <1>2, <1>3, StepKeepsDraft, StepScans, InductiveInvariant, PTL DEF Spec
=============================================================================
