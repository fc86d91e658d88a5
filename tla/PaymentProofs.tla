---------------------------- MODULE PaymentProofs ----------------------------
(***************************************************************************)
(* What the submission window is for: while no lease has lapsed under a    *)
(* live task, no crash and no lost reply hides a payment in doubt, buys    *)
(* twice, reports a success without its receipt or gives a reservation     *)
(* back that was charged.  For any number of jobs, stages, tasks, crashes  *)
(* and retries of the executor.                                            *)
(***************************************************************************)
EXTENDS JobExecutorProofs

(* The states of an attempt that was not charged for and never will be.    *)
Unsent == {"intent", "failed"}

(* The attempts of a stage: none of them was sent; one has its receipt.    *)
Unspent(at) == \A e \in DOMAIN at : at[e].state \in Unsent

Accepted(at) == \E e \in DOMAIN at : at[e].state = "accepted"

Receipted(kind, result, at) ==
    kind \in PaidKinds =>
        Accepted(at) /\ (kind = "manual_extract" => result = "knowledge")

(* A charge leaves an attempt that says so or is in doubt, only the latest *)
(* attempt can be either, and a receipt names what was charged.            *)
AttemptsFit(kind, at, bill, allowed) ==
    /\ kind \notin PaidKinds => DOMAIN at = {}
    /\ \A e \in DOMAIN at :
          /\ at[e].state # "accepted" => at[e].task = NoTask
          /\ at[e].state \notin Unsent => \A f \in DOMAIN at : f <= e
          /\ at[e].state = "accepted" =>
                (IF kind = "manual_extract" THEN e ELSE at[e].task) \in bill
    /\ bill # {} => ~Unspent(at)
    /\ kind \in PaidKinds => (allowed <=> bill = {})

(* What may be claimed, or has failed, was not charged for; what succeeded *)
(* has its receipt.                                                        *)
RowFits(kind, status, result, at) ==
    /\ kind \in PaidKinds /\ result # "none" => kind = "manual_extract" /\ Accepted(at)
    /\ status \in {"queued", "retry_wait", "waiting_provider", "failed"} => Unspent(at)
    /\ status = "succeeded" => Receipted(kind, result, at)
    /\ status # "cancelled"

(* A task works under the current lease, and its place in the window says  *)
(* what its attempt and the provider's books say.                          *)
TaskFits(task, kind, result, at, bill) ==
    LET e == task.epoch
    IN /\ task.pc \in {"inputs", "intent", "mark", "reset", "armed", "reply"} =>
             kind \in PaidKinds
       /\ task.pc \in {"run", "save"} => kind \notin PaidKinds
       /\ task.pc \in {"inputs", "intent", "mark"} => Unspent(at)
       /\ task.pc = "mark" => e \in DOMAIN at /\ at[e].state = "intent"
       /\ task.pc \in {"reset", "armed", "reply"} =>
             e \in DOMAIN at /\ at[e].state = "submitting"
       /\ task.pc \in {"reset", "armed"} => bill = {}
       /\ task.pc = "reset" => kind = "manual_extract"
       /\ task.pc = "reply" =>
             /\ task.reply \in {"throttled", "refused"} => bill = {}
             /\ task.reply \in {"task", "result", "diagnosis"} => e \in bill
       /\ task.pc = "fact" =>
             /\ task.outcome = "succeeded"
             /\ kind \in PaidKinds => kind = "manual_extract" /\ Accepted(at)
       /\ task.pc \in {"ledger", "checkpoint"} =>
             /\ task.outcome \in {"retryable", "failed", "waiting"} => Unspent(at)
             /\ task.outcome = "succeeded" => Receipted(kind, result, at)
       /\ task.pc = "ledger" /\ task.outcome = "failed" => kind = "tripo_submit"

StageFits(s) ==
    /\ AttemptsFit(Kind[s], attempts[s], bills[s], allowance[s])
    /\ RowFits(Kind[s], stage[s].status, stage[s].result, attempts[s])

WorkerFits(w) ==
    LET s == workers[w].stage
    IN /\ Holds(w, s)
       /\ TaskFits(workers[w], Kind[s], stage[s].result, attempts[s], bills[s])

PayInv ==
    /\ \A s \in Stages : StageFits(s)
    /\ \A w \in Workers : workers[w].pc # "idle" => WorkerFits(w)
    /\ \A j \in Jobs : job[j] # "cancelled"
-----------------------------------------------------------------------------
(* One stage at a time.                                                    *)

(* The tables of the other stages stay.                                    *)
Elsewhere(s) ==
    \A r \in Stages \ {s} : /\ stage'[r] = stage[r] /\ attempts'[r] = attempts[r]
                            /\ bills'[r] = bills[r] /\ allowance'[r] = allowance[r]

(* What a task at work knows.                                              *)
LEMMA AtWork ==
    ASSUME IInv, PayInv, NEW w \in Workers, workers[w].pc # "idle",
           NEW s, s = workers[w].stage
    PROVE  /\ s \in Stages /\ stage[s] \in Row /\ stage[s].status = "running"
           /\ workers[w].epoch = stage[s].epoch /\ stage[s].epoch \in Nat
           /\ \A f \in DOMAIN attempts[s] : f \in Nat /\ f <= workers[w].epoch
           /\ AttemptsFit(Kind[s], attempts[s], bills[s], allowance[s])
           /\ RowFits(Kind[s], "running", stage[s].result, attempts[s])
           /\ TaskFits(workers[w], Kind[s], stage[s].result, attempts[s], bills[s])
<1>1. s \in Stages /\ stage[s] \in Row
  BY DEF IInv, TypeOK, Worker
<1>2. stage[s].epoch \in Nat
  BY <1>1, Zenon DEF Row
<1>3. WorkerFits(w) /\ StageFits(s)
  BY <1>1 DEF PayInv
<1>4. /\ stage[s].status = "running" /\ workers[w].epoch = stage[s].epoch
      /\ TaskFits(workers[w], Kind[s], stage[s].result, attempts[s], bills[s])
  BY <1>3 DEF WorkerFits, Holds
<1>5. \A f \in DOMAIN attempts[s] : f \in Nat /\ f <= stage[s].epoch
  BY <1>1 DEF IInv, TypeOK, AttemptsTyped, EpochsAreFresh
<1> QED BY <1>1, <1>2, <1>3, <1>4, <1>5 DEF StageFits

(* A step of one task on its own stage leaves the others as they are: no   *)
(* other task holds that stage.                                            *)
LEMMA TaskPays ==
    ASSUME IInv, PayInv, NEW w \in Workers, workers[w].pc # "idle",
           NEW s, s = workers[w].stage,
           \A v \in Workers \ {w} : workers'[v] = workers[v],
           Elsewhere(s), StageFits(s)',
           workers'[w].pc # "idle" => WorkerFits(w)',
           \A j \in Jobs : job'[j] # "cancelled"
    PROVE  PayInv'
<1>1. ASSUME NEW r \in Stages PROVE StageFits(r)'
  BY <1>1 DEF Elsewhere, StageFits, PayInv
<1>2. ASSUME NEW v \in Workers, workers'[v].pc # "idle" PROVE WorkerFits(v)'
  <2>1. CASE v = w
    BY <1>2, <2>1
  <2>2. CASE v # w
    <3> DEFINE r == workers[v].stage
    <3>1. workers'[v] = workers[v] /\ WorkerFits(v) /\ WorkerFits(w)
      BY <1>2, <2>2 DEF PayInv
    <3>2. r \in Stages
      BY DEF IInv, TypeOK, Worker
    <3>3. r # s
      BY <2>2, <3>1 DEF WorkerFits, Holds, IInv, EpochsAreFresh
    <3>4. stage'[r] = stage[r] /\ attempts'[r] = attempts[r] /\ bills'[r] = bills[r]
      BY <3>2, <3>3 DEF Elsewhere
    <3> QED BY <3>1, <3>4 DEF WorkerFits, Holds
  <2> QED BY <2>1, <2>2
<1> QED BY <1>1, <1>2 DEF PayInv

(* A task goes on, its lease and its row's status as before.               *)
LEMMA MovePays ==
    ASSUME IInv, PayInv, NEW w \in Workers, workers[w].pc # "idle",
           NEW s, s = workers[w].stage,
           NEW pc \in ProgramCounters \ {"idle"}, NEW outcome, Moved(w, pc, outcome),
           job' = job, Elsewhere(s),
           stage'[s].epoch = stage[s].epoch, stage'[s].status = "running",
           AttemptsFit(Kind[s], attempts'[s], bills'[s], allowance'[s]),
           RowFits(Kind[s], "running", stage'[s].result, attempts'[s]),
           TaskFits(workers'[w], Kind[s], stage'[s].result, attempts'[s], bills'[s])
    PROVE  PayInv'
<1>1. /\ workers'[w].stage = s /\ workers'[w].epoch = workers[w].epoch
      /\ workers'[w].pc = pc /\ \A v \in Workers \ {w} : workers'[v] = workers[v]
  BY DEF Moved
<1>2. workers[w].epoch = stage[s].epoch
  BY AtWork
<1>3. StageFits(s)'
  BY DEF StageFits
<1>4. WorkerFits(w)'
  BY <1>1, <1>2 DEF WorkerFits, Holds
<1>5. \A j \in Jobs : job'[j] # "cancelled"
  BY DEF PayInv
<1> QED BY <1>1, <1>3, <1>4, <1>5, TaskPays

(* A task goes on and nothing of its stage changes.                        *)
LEMMA StepPays ==
    ASSUME IInv, PayInv, NEW w \in Workers, workers[w].pc # "idle",
           NEW s, s = workers[w].stage,
           NEW pc \in ProgramCounters \ {"idle"}, NEW outcome, Moved(w, pc, outcome),
           UNCHANGED <<job, stage, attempts, bills, allowance>>,
           TaskFits(workers'[w], Kind[s], stage[s].result, attempts[s], bills[s])
    PROVE  PayInv'
<1>1. /\ stage[s].status = "running"
      /\ AttemptsFit(Kind[s], attempts[s], bills[s], allowance[s])
      /\ RowFits(Kind[s], "running", stage[s].result, attempts[s])
  BY AtWork
<1>2. Elsewhere(s)
  BY DEF Elsewhere
<1> QED BY <1>1, <1>2, MovePays

-----------------------------------------------------------------------------
(* Writes to an attempt.                                                   *)

Written(at, new, e, state, task) ==
    /\ DOMAIN new = DOMAIN at
    /\ \A f \in DOMAIN at : f # e => new[f] = at[f]
    /\ new[e].state = state /\ new[e].task = task

(* Over a request under way nothing was accepted.                          *)
LEMMA NothingAccepted ==
    ASSUME NEW kind, NEW at, NEW bill, NEW allowed, AttemptsFit(kind, at, bill, allowed),
           NEW e \in DOMAIN at, at[e].state = "submitting",
           \A f \in DOMAIN at : f \in Nat
    PROVE  ~Accepted(at) /\ \A f \in DOMAIN at : f # e => at[f].state \in Unsent
<1>1. \A f \in DOMAIN at : at[f].state \notin Unsent => f = e
  BY DEF AttemptsFit, Unsent
<1> QED BY <1>1 DEF Accepted, Unsent

(* A request that was refused leaves the stage unspent.                    *)
LEMMA RefusedFits ==
    ASSUME NEW kind, NEW at, NEW new, NEW bill, NEW allowed,
           AttemptsFit(kind, at, bill, allowed), bill = {},
           NEW e \in DOMAIN at, at[e].state = "submitting",
           \A f \in DOMAIN at : f \in Nat,
           Written(at, new, e, "failed", at[e].task)
    PROVE  AttemptsFit(kind, new, bill, allowed) /\ Unspent(new)
<1>1. Unspent(new)
  BY NothingAccepted DEF Written, Unspent, Unsent
<1>2. \A f \in DOMAIN new : new[f].task = NoTask
  <2>1. \A f \in DOMAIN at : at[f].task = NoTask
    BY NothingAccepted DEF AttemptsFit, Accepted
  <2> QED BY <2>1 DEF Written
<1>3. \A f \in DOMAIN new : new[f].state \in Unsent /\ new[f].state # "accepted"
  BY <1>1 DEF Unspent, Unsent
<1>4. kind \in PaidKinds
  BY DEF AttemptsFit
<1> QED BY <1>1, <1>2, <1>3, <1>4 DEF AttemptsFit

(* The latest attempt comes into doubt, or stays there.                    *)
LEMMA DoubtFits ==
    ASSUME NEW kind, NEW at, NEW new, NEW bill, NEW allowed, NEW state \in InDoubt,
           AttemptsFit(kind, at, bill, allowed), NEW e \in DOMAIN at,
           \A f \in DOMAIN at : f <= e,
           Written(at, new, e, state, NoTask)
    PROVE  AttemptsFit(kind, new, bill, allowed)
<1>1. state \notin Unsent /\ state # "accepted"
  BY DEF InDoubt, Unsent
<1>2. ~Unspent(new)
  BY <1>1 DEF Written, Unspent
<1>3. \A f \in DOMAIN new :
          /\ new[f].state # "accepted" => new[f].task = NoTask
          /\ new[f].state \notin Unsent => \A g \in DOMAIN new : g <= f
          /\ new[f].state = "accepted" =>
                (IF kind = "manual_extract" THEN f ELSE new[f].task) \in bill
  <2> TAKE f \in DOMAIN new
  <2>1. CASE f = e
    BY <1>1, <2>1 DEF Written
  <2>2. CASE f # e
    BY <2>2 DEF Written, AttemptsFit
  <2> QED BY <2>1, <2>2
<1>4. kind \in PaidKinds
  BY DEF AttemptsFit
<1> QED BY <1>2, <1>3, <1>4 DEF AttemptsFit

(* The latest attempt has its receipt.                                     *)
LEMMA AcceptedFits ==
    ASSUME NEW kind, NEW at, NEW new, NEW bill, NEW allowed, NEW task,
           AttemptsFit(kind, at, bill, allowed), NEW e \in DOMAIN at,
           \A f \in DOMAIN at : f <= e,
           Written(at, new, e, "accepted", task),
           kind = "manual_extract" => e \in bill,
           kind # "manual_extract" => task \in bill
    PROVE  AttemptsFit(kind, new, bill, allowed) /\ Accepted(new)
<1>1. Accepted(new) /\ ~Unspent(new)
  BY DEF Written, Accepted, Unspent, Unsent
<1>2. \A f \in DOMAIN new :
          /\ new[f].state # "accepted" => new[f].task = NoTask
          /\ new[f].state \notin Unsent => \A g \in DOMAIN new : g <= f
          /\ new[f].state = "accepted" =>
                (IF kind = "manual_extract" THEN f ELSE new[f].task) \in bill
  <2> TAKE f \in DOMAIN new
  <2>1. CASE f = e
    BY <2>1 DEF Written
  <2>2. CASE f # e
    BY <2>2 DEF Written, AttemptsFit
  <2> QED BY <2>1, <2>2
<1>3. kind \in PaidKinds
  BY DEF AttemptsFit
<1> QED BY <1>1, <1>2, <1>3 DEF AttemptsFit

(* For a batch the attempt is the receipt.                                 *)
LEMMA BatchAccepted ==
    ASSUME NEW at, NEW new, NEW bill, NEW allowed,
           AttemptsFit("manual_extract", at, bill, allowed), NEW e \in bill,
           e \in DOMAIN at, \A f \in DOMAIN at : f <= e,
           Written(at, new, e, "accepted", NoTask)
    PROVE  AttemptsFit("manual_extract", new, bill, allowed) /\ Accepted(new)
  BY AcceptedFits

(* SetState and RecordTask write one attempt.                              *)
LEMMA WritesOne ==
    ASSUME IInv, NEW s \in Stages, NEW e \in DOMAIN attempts[s]
    PROVE  /\ \A state : attempts' = SetState(attempts, s, e, state) =>
                 /\ Written(attempts[s], attempts'[s], e, state, attempts[s][e].task)
                 /\ \A r \in Stages \ {s} : attempts'[r] = attempts[r]
           /\ \A a \in Attempt : attempts' = [attempts EXCEPT ![s][e] = a] =>
                 /\ Written(attempts[s], attempts'[s], e, a.state, a.task)
                 /\ \A r \in Stages \ {s} : attempts'[r] = attempts[r]
<1>1. DOMAIN attempts = Stages /\ attempts[s] \in [DOMAIN attempts[s] -> Attempt]
      /\ attempts[s][e] \in Attempt
  BY DEF IInv, TypeOK, AttemptsTyped
<1>2. ASSUME NEW a, attempts' = [attempts EXCEPT ![s][e] = a]
      PROVE  /\ DOMAIN attempts'[s] = DOMAIN attempts[s] /\ attempts'[s][e] = a
             /\ \A f \in DOMAIN attempts[s] : f # e => attempts'[s][f] = attempts[s][f]
             /\ \A r \in Stages \ {s} : attempts'[r] = attempts[r]
  BY <1>1, <1>2 DEF IInv, TypeOK, AttemptsTyped
<1>3. ASSUME NEW state, attempts' = SetState(attempts, s, e, state)
      PROVE  /\ Written(attempts[s], attempts'[s], e, state, attempts[s][e].task)
             /\ \A r \in Stages \ {s} : attempts'[r] = attempts[r]
  <2> DEFINE a == [attempts[s][e] EXCEPT !.state = state]
  <2>1. a.state = state /\ a.task = attempts[s][e].task
    BY <1>1, Zenon DEF Attempt
  <2>2. attempts' = [attempts EXCEPT ![s][e] = a]
    BY <1>3 DEF SetState
  <2> HIDE DEF a
  <2> QED BY <1>2, <2>1, <2>2 DEF Written
<1> QED BY <1>2, <1>3 DEF Written

-----------------------------------------------------------------------------
(* The submission window.                                                  *)

(* Nothing was sent, so nothing was charged for or accepted.               *)
LEMMA UnspentIsFree ==
    ASSUME NEW kind, NEW at, NEW bill, NEW allowed, AttemptsFit(kind, at, bill, allowed),
           Unspent(at)
    PROVE  bill = {} /\ ~Accepted(at)
  BY DEF AttemptsFit, Unspent, Unsent, Accepted

(* Inputs that cannot be used end the execution, others open the window.   *)
LEMMA CheckInputsPays ==
    ASSUME IInv, PayInv, NEW w \in Workers, CheckInputs(w)
    PROVE  PayInv'
<1> DEFINE s == workers[w].stage
<1>1. /\ workers[w].pc = "inputs" /\ TypeOK
      /\ UNCHANGED <<job, stage, attempts, bills, allowance>>
  BY DEF CheckInputs, IInv
<1>2. TaskFits(workers[w], Kind[s], stage[s].result, attempts[s], bills[s])
  BY <1>1, AtWork
<1>3. \/ Moved(w, "intent", workers[w].outcome)
      \/ \E outcome \in {"needs_input", "branch_paused"} : Moved(w, "checkpoint", outcome)
  BY <1>1, GotoMoves, ConcludeMoves DEF CheckInputs, ProgramCounters, Outcomes
<1>4. CASE Moved(w, "intent", workers[w].outcome)
  <2>1. TaskFits(workers'[w], Kind[s], stage[s].result, attempts[s], bills[s])
    BY <1>1, <1>2, <1>4 DEF TaskFits, Moved
  <2> QED BY <1>1, <1>4, <2>1, StepPays DEF ProgramCounters
<1>5. ASSUME NEW outcome \in {"needs_input", "branch_paused"}, Moved(w, "checkpoint", outcome)
      PROVE  PayInv'
  <2>1. TaskFits(workers'[w], Kind[s], stage[s].result, attempts[s], bills[s])
    BY <1>5 DEF TaskFits, Moved
  <2> QED BY <1>1, <1>5, <2>1, StepPays DEF ProgramCounters
<1> QED BY <1>3, <1>4, <1>5

(* An intent is recorded where nothing was sent.                           *)
LEMMA BeginIntentPays ==
    ASSUME IInv, PayInv, NEW w \in Workers, BeginIntent(w)
    PROVE  PayInv'
<1> DEFINE s == workers[w].stage
           e == workers[w].epoch
<1>1. /\ workers[w].pc = "intent" /\ TypeOK
      /\ UNCHANGED <<job, stage, bills, allowance>>
  BY DEF BeginIntent, IInv
<1>2. /\ s \in Stages /\ stage[s].status = "running"
      /\ AttemptsFit(Kind[s], attempts[s], bills[s], allowance[s])
      /\ RowFits(Kind[s], "running", stage[s].result, attempts[s])
      /\ Kind[s] \in PaidKinds /\ Unspent(attempts[s])
  BY <1>1, AtWork DEF TaskFits
<1>3. ~\E f \in DOMAIN attempts[s] : attempts[s][f].state \in InDoubt
  BY <1>2 DEF Unspent, Unsent, InDoubt
<1>4. /\ attempts' = [attempts EXCEPT ![s] =
             [f \in DOMAIN attempts[s] \cup {e} |->
                 IF f = e THEN [state |-> "intent", task |-> NoTask]
                 ELSE IF attempts[s][f].state = "intent"
                      THEN [attempts[s][f] EXCEPT !.state = "failed"]
                      ELSE attempts[s][f]]]
      /\ Goto(w, "mark")
  BY <1>3 DEF BeginIntent
<1>5. /\ \A r \in Stages \ {s} : attempts'[r] = attempts[r]
      /\ attempts'[s] =
             [f \in DOMAIN attempts[s] \cup {e} |->
                 IF f = e THEN [state |-> "intent", task |-> NoTask]
                 ELSE IF attempts[s][f].state = "intent"
                      THEN [attempts[s][f] EXCEPT !.state = "failed"]
                      ELSE attempts[s][f]]
  BY <1>2, <1>4 DEF IInv, TypeOK, AttemptsTyped
<1>6. /\ e \in DOMAIN attempts'[s] /\ attempts'[s][e].state = "intent"
      /\ \A f \in DOMAIN attempts'[s] :
            attempts'[s][f].state \in Unsent /\ attempts'[s][f].task = NoTask
  <2>1. e \in DOMAIN attempts'[s]
        /\ attempts'[s][e] = [state |-> "intent", task |-> NoTask]
    BY <1>5
  <2>2. ASSUME NEW f \in DOMAIN attempts[s], f # e
        PROVE  attempts'[s][f].state \in Unsent /\ attempts'[s][f].task = NoTask
    <3> DEFINE closed == [attempts[s][f] EXCEPT !.state = "failed"]
    <3>1. /\ attempts[s][f].state \in Unsent /\ attempts[s][f].task = NoTask
          /\ attempts[s][f] \in Attempt
      BY <1>2 DEF Unspent, Unsent, AttemptsFit, IInv, TypeOK, AttemptsTyped
    <3>2. closed.state = "failed" /\ closed.task = attempts[s][f].task
      BY <3>1, Zenon DEF Attempt
    <3>3. attempts'[s][f] = closed \/ attempts'[s][f] = attempts[s][f]
      BY <1>5, <2>2
    <3> HIDE DEF closed
    <3> QED BY <3>1, <3>2, <3>3 DEF Unsent
  <2>3. DOMAIN attempts'[s] = DOMAIN attempts[s] \cup {e}
    BY <1>5
  <2> QED BY <2>1, <2>2, <2>3 DEF Unsent
<1>7. Unspent(attempts'[s])
  BY <1>6 DEF Unspent
<1>8. AttemptsFit(Kind[s], attempts'[s], bills'[s], allowance'[s])
  <2>1. bills[s] = {} /\ (allowance[s] <=> bills[s] = {})
    BY <1>2, UnspentIsFree DEF AttemptsFit
  <2>2. \A f \in DOMAIN attempts'[s] : attempts'[s][f].state # "accepted"
    BY <1>6 DEF Unsent
  <2> QED BY <1>1, <1>2, <1>6, <2>1, <2>2 DEF AttemptsFit
<1>9. RowFits(Kind[s], "running", stage'[s].result, attempts'[s])
  <2>1. stage[s].result = "none"
    BY <1>2, UnspentIsFree DEF RowFits
  <2> QED BY <1>1, <2>1 DEF RowFits
<1>10. Moved(w, "mark", workers[w].outcome)
  BY <1>1, <1>4, GotoMoves DEF ProgramCounters
<1>11. TaskFits(workers'[w], Kind[s], stage'[s].result, attempts'[s], bills'[s])
  BY <1>2, <1>6, <1>7, <1>10 DEF TaskFits, Moved
<1>12. Elsewhere(s)
  BY <1>1, <1>5 DEF Elsewhere
<1> HIDE DEF s, e
<1> QED BY <1>1, <1>2, <1>8, <1>9, <1>10, <1>11, <1>12, MovePays DEF ProgramCounters, s

(* The request is announced before it is made.                             *)
LEMMA MarkSubmittingPays ==
    ASSUME IInv, PayInv, NEW w \in Workers, MarkSubmitting(w)
    PROVE  PayInv'
<1> DEFINE s == workers[w].stage
           e == workers[w].epoch
<1>1. /\ workers[w].pc = "mark" /\ TypeOK
      /\ UNCHANGED <<job, stage, bills, allowance>>
  BY DEF MarkSubmitting, IInv
<1>2. /\ s \in Stages /\ stage[s].status = "running"
      /\ \A f \in DOMAIN attempts[s] : f <= e
      /\ AttemptsFit(Kind[s], attempts[s], bills[s], allowance[s])
      /\ RowFits(Kind[s], "running", stage[s].result, attempts[s])
      /\ Kind[s] \in PaidKinds /\ Unspent(attempts[s])
      /\ e \in DOMAIN attempts[s] /\ attempts[s][e].state = "intent"
  BY <1>1, AtWork DEF TaskFits
<1> DEFINE pc == IF Kind[s] = "manual_extract" THEN "reset" ELSE "armed"
<1>3. attempts' = SetState(attempts, s, e, "submitting") /\ Goto(w, pc)
  BY <1>2 DEF MarkSubmitting
<1>4. /\ Written(attempts[s], attempts'[s], e, "submitting", NoTask)
      /\ \A r \in Stages \ {s} : attempts'[r] = attempts[r]
  <2>1. attempts[s][e].task = NoTask
    BY <1>2 DEF AttemptsFit
  <2> QED BY <1>2, <1>3, <2>1, WritesOne
<1>5. bills[s] = {} /\ ~Accepted(attempts[s])
  BY <1>2, UnspentIsFree
<1>6. AttemptsFit(Kind[s], attempts'[s], bills'[s], allowance'[s])
  <2>1. "submitting" \in InDoubt
    BY DEF InDoubt
  <2> HIDE DEF s, e
  <2> QED BY <1>1, <1>2, <1>4, <2>1, DoubtFits
<1>7. RowFits(Kind[s], "running", stage'[s].result, attempts'[s])
  BY <1>1, <1>2, <1>5 DEF RowFits
<1>8. Moved(w, pc, workers[w].outcome)
  BY <1>1, <1>3, GotoMoves DEF ProgramCounters
<1>9. TaskFits(workers'[w], Kind[s], stage'[s].result, attempts'[s], bills'[s])
  BY <1>1, <1>2, <1>4, <1>5, <1>8 DEF TaskFits, Moved, Written
<1>10. Elsewhere(s)
  BY <1>1, <1>4 DEF Elsewhere
<1>11. pc \in ProgramCounters \ {"idle"}
  BY DEF ProgramCounters
<1> HIDE DEF e, pc
<1> QED BY <1>1, <1>2, <1>6, <1>7, <1>8, <1>9, <1>10, <1>11, MovePays

(* A result is written over one row.                                       *)
LEMMA ResultRow ==
    ASSUME IInv, NEW s \in Stages, NEW result, stage' = [stage EXCEPT ![s].result = result]
    PROVE  /\ stage'[s].result = result /\ stage'[s].status = stage[s].status
           /\ stage'[s].epoch = stage[s].epoch
           /\ \A r \in Stages \ {s} : stage'[r] = stage[r]
<1> DEFINE row == [stage[s] EXCEPT !.result = result]
<1>1. stage[s] \in Row /\ stage' = [stage EXCEPT ![s] = row] /\ DOMAIN stage = Stages
  BY DEF IInv, TypeOK
<1>2. row.result = result /\ row.status = stage[s].status /\ row.epoch = stage[s].epoch
  BY <1>1, Zenon DEF Row
<1> HIDE DEF row
<1> QED BY <1>1, <1>2

(* A batch forgets an earlier result before it asks again.                 *)
LEMMA ResetFactPays ==
    ASSUME IInv, PayInv, NEW w \in Workers, ResetFact(w)
    PROVE  PayInv'
<1> DEFINE s == workers[w].stage
<1>1. /\ workers[w].pc = "reset" /\ TypeOK
      /\ UNCHANGED <<job, attempts, bills, allowance>>
  BY DEF ResetFact, IInv
<1>2. /\ s \in Stages /\ stage[s].status = "running"
      /\ AttemptsFit(Kind[s], attempts[s], bills[s], allowance[s])
      /\ TaskFits(workers[w], Kind[s], stage[s].result, attempts[s], bills[s])
  BY <1>1, AtWork
<1>3. stage' = [stage EXCEPT ![s].result = "none"] /\ Goto(w, "armed")
  BY <1>2 DEF ResetFact
<1>4. /\ stage'[s].result = "none" /\ stage'[s].status = "running"
      /\ stage'[s].epoch = stage[s].epoch
      /\ \A r \in Stages \ {s} : stage'[r] = stage[r]
  BY <1>2, <1>3, ResultRow
<1>5. Moved(w, "armed", workers[w].outcome)
  BY <1>1, <1>3, GotoMoves DEF ProgramCounters
<1>6. TaskFits(workers'[w], Kind[s], stage'[s].result, attempts'[s], bills'[s])
  BY <1>1, <1>2, <1>5 DEF TaskFits, Moved
<1>7. RowFits(Kind[s], "running", stage'[s].result, attempts'[s])
  BY <1>4 DEF RowFits
<1>8. Elsewhere(s)
  BY <1>1, <1>4 DEF Elsewhere
<1> QED BY <1>1, <1>2, <1>4, <1>5, <1>6, <1>7, <1>8, MovePays DEF ProgramCounters

(* One request, one charge, and the confirmation is used up.               *)
LEMMA PostPays ==
    ASSUME IInv, PayInv, NEW w \in Workers, Post(w)
    PROVE  PayInv'
<1> DEFINE s == workers[w].stage
           e == workers[w].epoch
<1>1. /\ workers[w].pc = "armed" /\ TypeOK
      /\ UNCHANGED <<job, stage, attempts>>
  BY DEF Post, IInv
<1>2. /\ s \in Stages /\ stage[s].status = "running"
      /\ AttemptsFit(Kind[s], attempts[s], bills[s], allowance[s])
      /\ RowFits(Kind[s], "running", stage[s].result, attempts[s])
      /\ Kind[s] \in PaidKinds /\ bills[s] = {}
      /\ e \in DOMAIN attempts[s] /\ attempts[s][e].state = "submitting"
  BY <1>1, AtWork DEF TaskFits
<1>3. PICK r \in Replies :
        /\ workers' = [workers EXCEPT ![w].pc = "reply", ![w].reply = r]
        /\ \/ /\ r \notin {"throttled", "refused"}
              /\ bills' = [bills EXCEPT ![s] = @ \cup {e}]
              /\ allowance' = [allowance EXCEPT ![s] = FALSE]
           \/ /\ r \in {"throttled", "refused", "lost"}
              /\ UNCHANGED <<bills, allowance>>
  BY DEF Post, Replies
<1>4. workers'[w].reply = r /\ Moved(w, "reply", workers[w].outcome)
  BY <1>1, <1>3 DEF TypeOK, Worker, Moved
<1>5. /\ \A q \in Stages \ {s} : bills'[q] = bills[q] /\ allowance'[q] = allowance[q]
      /\ \/ /\ r \notin {"throttled", "refused"}
            /\ bills'[s] = {e} /\ allowance'[s] = FALSE
         \/ /\ r \in {"throttled", "refused", "lost"}
            /\ bills'[s] = {} /\ allowance'[s] = allowance[s]
  BY <1>1, <1>2, <1>3 DEF TypeOK
<1>6. AttemptsFit(Kind[s], attempts'[s], bills'[s], allowance'[s])
  <2>1. ~Unspent(attempts[s]) /\ ~Accepted(attempts[s])
    <3>1. \A f \in DOMAIN attempts[s] : f \in Nat
      BY <1>1, AtWork
    <3>2. ~Accepted(attempts[s])
      BY <1>2, <3>1, NothingAccepted
    <3> QED BY <1>2, <3>2 DEF Unspent, Unsent
  <2>2. \A f \in DOMAIN attempts[s] : attempts[s][f].state # "accepted"
    BY <2>1 DEF Accepted
  <2> QED BY <1>1, <1>2, <1>5, <2>1, <2>2 DEF AttemptsFit
<1>7. TaskFits(workers'[w], Kind[s], stage'[s].result, attempts'[s], bills'[s])
  BY <1>1, <1>2, <1>4, <1>5 DEF TaskFits, Moved
<1>8. Elsewhere(s)
  BY <1>1, <1>5 DEF Elsewhere
<1> HIDE DEF e
<1> QED BY <1>1, <1>2, <1>4, <1>6, <1>7, <1>8, MovePays DEF ProgramCounters

(* What the reply finds: a request under way, and no other.                *)
LEMMA AtReply ==
    ASSUME IInv, PayInv, NEW w \in Workers, workers[w].pc = "reply",
           NEW s, s = workers[w].stage, NEW e, e = workers[w].epoch
    PROVE  /\ s \in Stages /\ e \in DOMAIN attempts[s] /\ e \in Nat
           /\ \A f \in DOMAIN attempts[s] : f \in Nat /\ f <= e
           /\ attempts[s][e].state = "submitting" /\ attempts[s][e].task = NoTask
           /\ AttemptsFit(Kind[s], attempts[s], bills[s], allowance[s])
           /\ Kind[s] \in PaidKinds /\ stage[s].result = "none"
           /\ stage[s].status = "running"
           /\ ~MarkUnknownFails(attempts, s, e)
           /\ workers[w].reply \in {"throttled", "refused"} => bills[s] = {}
           /\ workers[w].reply \in {"task", "result", "diagnosis"} => e \in bills[s]
<1>1. /\ s \in Stages /\ stage[s].status = "running"
      /\ \A f \in DOMAIN attempts[s] : f \in Nat /\ f <= e
      /\ AttemptsFit(Kind[s], attempts[s], bills[s], allowance[s])
      /\ RowFits(Kind[s], "running", stage[s].result, attempts[s])
      /\ TaskFits(workers[w], Kind[s], stage[s].result, attempts[s], bills[s])
  BY AtWork
<1>2. /\ Kind[s] \in PaidKinds
      /\ e \in DOMAIN attempts[s] /\ attempts[s][e].state = "submitting"
      /\ workers[w].reply \in {"throttled", "refused"} => bills[s] = {}
      /\ workers[w].reply \in {"task", "result", "diagnosis"} => e \in bills[s]
  BY <1>1 DEF TaskFits
<1>3. attempts[s][e].task = NoTask
  BY <1>1, <1>2 DEF AttemptsFit
<1>4. ~Accepted(attempts[s])
  BY <1>1, <1>2, NothingAccepted
<1>5. stage[s].result = "none"
  BY <1>1, <1>2, <1>4 DEF RowFits
<1>6. ~MarkUnknownFails(attempts, s, e)
  BY <1>2 DEF MarkUnknownFails, Unresolved, InDoubt
<1> QED BY <1>1, <1>2, <1>3, <1>5, <1>6

(* What a reply can make of an attempt: refused, in doubt, or accepted with *)
(* the task or the response as its receipt.                                *)
Refused(w, s, pc, outcome) ==
    /\ workers[w].reply \in {"throttled", "refused"}
    /\ Written(attempts[s], attempts'[s], workers[w].epoch, "failed", NoTask)
    /\ stage'[s].result = stage[s].result
    /\ pc # "fact" /\ outcome \in Outcomes \ {"succeeded"}
    /\ pc = "ledger" => Kind[s] = "tripo_submit"

Doubted(w, s, pc, outcome) ==
    /\ \E state \in InDoubt :
          Written(attempts[s], attempts'[s], workers[w].epoch, state, NoTask)
    /\ stage'[s].result = stage[s].result
    /\ pc # "fact" /\ outcome \in {"needs_input", "submission_unknown"}

Ordered(w, s, pc, outcome) ==
    /\ workers[w].reply = "task" /\ Kind[s] = "tripo_submit"
    /\ Written(attempts[s], attempts'[s], workers[w].epoch, "accepted", workers[w].epoch)
    /\ stage'[s].result = stage[s].result
    /\ pc # "fact" /\ outcome = "succeeded"

Answered(w, s, pc, outcome) ==
    /\ workers[w].reply \in {"result", "diagnosis"} /\ Kind[s] = "manual_extract"
    /\ Written(attempts[s], attempts'[s], workers[w].epoch, "accepted", NoTask)
    /\ \/ pc = "fact" /\ outcome = "succeeded"
       \/ pc # "fact" /\ outcome = "needs_input"

(* Each of them keeps stage and task in order.                             *)
LEMMA ReplyPays ==
    ASSUME IInv, PayInv, NEW w \in Workers, workers[w].pc = "reply",
           NEW s, s = workers[w].stage,
           NEW pc \in {"ledger", "checkpoint", "fact"}, NEW outcome,
           Moved(w, pc, outcome), UNCHANGED <<job, bills, allowance>>,
           \A r \in Stages \ {s} : attempts'[r] = attempts[r] /\ stage'[r] = stage[r],
           stage'[s].status = stage[s].status, stage'[s].epoch = stage[s].epoch,
           \/ Refused(w, s, pc, outcome) \/ Doubted(w, s, pc, outcome)
           \/ Ordered(w, s, pc, outcome) \/ Answered(w, s, pc, outcome)
    PROVE  PayInv'
<1> DEFINE e == workers[w].epoch
<1>1. /\ s \in Stages /\ e \in DOMAIN attempts[s] /\ e \in Nat
      /\ \A f \in DOMAIN attempts[s] : f \in Nat /\ f <= e
      /\ attempts[s][e].state = "submitting" /\ attempts[s][e].task = NoTask
      /\ AttemptsFit(Kind[s], attempts[s], bills[s], allowance[s])
      /\ Kind[s] \in PaidKinds /\ stage[s].result = "none"
      /\ stage[s].status = "running"
      /\ workers[w].reply \in {"throttled", "refused"} => bills[s] = {}
      /\ workers[w].reply \in {"task", "result", "diagnosis"} => e \in bills[s]
  BY AtReply
<1>2. Elsewhere(s) /\ bills'[s] = bills[s] /\ allowance'[s] = allowance[s]
  BY DEF Elsewhere
<1>3. workers'[w].pc = pc /\ workers'[w].outcome = outcome
  BY DEF Moved
<1>4. /\ AttemptsFit(Kind[s], attempts'[s], bills[s], allowance[s])
      /\ RowFits(Kind[s], "running", stage'[s].result, attempts'[s])
      /\ TaskFits(workers'[w], Kind[s], stage'[s].result, attempts'[s], bills[s])
  <2>1. CASE Refused(w, s, pc, outcome)
    <3>1. Written(attempts[s], attempts'[s], e, "failed", attempts[s][e].task)
          /\ bills[s] = {}
      BY <1>1, <2>1 DEF Refused
    <3>2. AttemptsFit(Kind[s], attempts'[s], bills[s], allowance[s]) /\ Unspent(attempts'[s])
      BY <1>1, <3>1, RefusedFits
    <3> QED BY <1>1, <1>3, <2>1, <3>2 DEF RowFits, TaskFits, Refused
  <2>2. CASE Doubted(w, s, pc, outcome)
    <3>1. PICK state \in InDoubt : Written(attempts[s], attempts'[s], e, state, NoTask)
      BY <2>2 DEF Doubted
    <3>2. AttemptsFit(Kind[s], attempts'[s], bills[s], allowance[s])
      BY <1>1, <3>1, DoubtFits
    <3> QED BY <1>1, <1>3, <2>2, <3>2 DEF RowFits, TaskFits, Doubted
  <2>3. CASE Ordered(w, s, pc, outcome)
    <3>1. /\ Written(attempts[s], attempts'[s], e, "accepted", e)
          /\ Kind[s] = "tripo_submit" /\ e \in bills[s]
      BY <1>1, <2>3 DEF Ordered
    <3>2. /\ AttemptsFit(Kind[s], attempts'[s], bills[s], allowance[s])
          /\ Accepted(attempts'[s])
      BY <1>1, <3>1, AcceptedFits
    <3> QED BY <1>1, <1>3, <2>3, <3>2 DEF RowFits, TaskFits, Receipted, Ordered
  <2>4. CASE Answered(w, s, pc, outcome)
    <3>1. /\ Kind[s] = "manual_extract" /\ e \in bills[s]
          /\ Written(attempts[s], attempts'[s], e, "accepted", NoTask)
      BY <1>1, <2>4 DEF Answered
    <3>2. AttemptsFit(Kind[s], attempts'[s], bills[s], allowance[s]) /\ Accepted(attempts'[s])
      BY <1>1, <3>1, BatchAccepted
    <3> QED BY <1>1, <1>3, <2>4, <3>1, <3>2 DEF RowFits, TaskFits, Answered
  <2> QED BY <2>1, <2>2, <2>3, <2>4
<1>5. pc \in ProgramCounters \ {"idle"}
  BY DEF ProgramCounters
<1> QED BY <1>1, <1>2, <1>4, <1>5, MovePays

(* The reply to a submission.                                              *)
LEMMA HandleSubmitReplyPays ==
    ASSUME IInv, PayInv, NEW w \in Workers, HandleSubmitReply(w)
    PROVE  PayInv'
<1> DEFINE s == workers[w].stage
           e == workers[w].epoch
<1>1. /\ workers[w].pc = "reply" /\ Kind[s] = "tripo_submit" /\ TypeOK
      /\ UNCHANGED <<job, stage, bills, allowance>>
  BY DEF HandleSubmitReply, IInv
<1>2. /\ s \in Stages /\ e \in DOMAIN attempts[s] /\ e \in Nat
      /\ attempts[s][e].task = NoTask
      /\ ~MarkUnknownFails(attempts, s, e)
  BY <1>1, AtReply
<1>3. ~TaskConflict(attempts, s, e, e)
  BY <1>2 DEF TaskConflict
<1>4. \/ /\ workers[w].reply = "task"
         /\ attempts' = RecordTask(attempts, s, e, e)
         /\ Conclude(w, "checkpoint", "succeeded")
      \/ /\ workers[w].reply \in {"throttled", "refused"}
         /\ attempts' = SetState(attempts, s, e, "failed")
         /\ \/ Conclude(w, "checkpoint", "retryable")
            \/ Conclude(w, "ledger", "failed")
      \/ /\ attempts' = SetState(attempts, s, e, "unknown")
         /\ Conclude(w, "ledger", "submission_unknown")
  BY <1>2, <1>3 DEF HandleSubmitReply
<1>5. CASE /\ workers[w].reply = "task"
           /\ attempts' = RecordTask(attempts, s, e, e)
           /\ Conclude(w, "checkpoint", "succeeded")
  <2>1. /\ Written(attempts[s], attempts'[s], e, "accepted", e)
        /\ \A r \in Stages \ {s} : attempts'[r] = attempts[r]
    <3> DEFINE a == [state |-> "accepted", task |-> e]
    <3>1. a \in Attempt /\ a.state = "accepted" /\ a.task = e
      BY <1>2 DEF Attempt, SubmitStates
    <3>2. attempts' = [attempts EXCEPT ![s][e] = a]
      BY <1>5 DEF RecordTask
    <3> HIDE DEF a, s, e
    <3> QED BY <1>2, <3>1, <3>2, WritesOne
  <2>2. Moved(w, "checkpoint", "succeeded")
    BY <1>1, <1>5, ConcludeMoves DEF ProgramCounters, Outcomes
  <2> QED BY <1>1, <1>5, <2>1, <2>2, ReplyPays DEF Ordered
<1>6. CASE /\ workers[w].reply \in {"throttled", "refused"}
           /\ attempts' = SetState(attempts, s, e, "failed")
           /\ \/ Conclude(w, "checkpoint", "retryable")
              \/ Conclude(w, "ledger", "failed")
  <2>1. /\ Written(attempts[s], attempts'[s], e, "failed", NoTask)
        /\ \A r \in Stages \ {s} : attempts'[r] = attempts[r]
    BY <1>2, <1>6, WritesOne
  <2>2. Moved(w, "checkpoint", "retryable") \/ Moved(w, "ledger", "failed")
    BY <1>1, <1>6, ConcludeMoves DEF ProgramCounters, Outcomes
  <2>3. {"retryable", "failed"} \subseteq Outcomes \ {"succeeded"}
    BY DEF Outcomes
  <2> QED BY <1>1, <1>6, <2>1, <2>2, <2>3, ReplyPays DEF Refused
<1>7. CASE /\ attempts' = SetState(attempts, s, e, "unknown")
           /\ Conclude(w, "ledger", "submission_unknown")
  <2>1. /\ Written(attempts[s], attempts'[s], e, "unknown", NoTask)
        /\ \A r \in Stages \ {s} : attempts'[r] = attempts[r]
    BY <1>2, <1>7, WritesOne
  <2>2. Moved(w, "ledger", "submission_unknown")
    BY <1>1, <1>7, ConcludeMoves DEF ProgramCounters, Outcomes
  <2>3. "unknown" \in InDoubt
    BY DEF InDoubt
  <2> QED BY <1>1, <2>1, <2>2, <2>3, ReplyPays DEF Doubted
<1> QED BY <1>4, <1>5, <1>6, <1>7

(* The reply to a batch: what was answered but not stored stays in doubt.  *)
LEMMA HandleExtractReplyPays ==
    ASSUME IInv, PayInv, NEW w \in Workers, HandleExtractReply(w)
    PROVE  PayInv'
<1> DEFINE s == workers[w].stage
           e == workers[w].epoch
<1>1. /\ workers[w].pc = "reply" /\ Kind[s] = "manual_extract" /\ TypeOK
      /\ UNCHANGED <<job, bills, allowance>>
  BY DEF HandleExtractReply, IInv
<1>2. /\ s \in Stages /\ e \in DOMAIN attempts[s]
      /\ attempts[s][e].task = NoTask /\ attempts[s][e].state = "submitting"
      /\ ~MarkUnknownFails(attempts, s, e)
  BY <1>1, AtReply
<1>3. \/ /\ UNCHANGED <<attempts, stage>>
         /\ Conclude(w, "checkpoint", "needs_input")
      \/ /\ workers[w].reply \in {"result", "diagnosis"}
         /\ attempts' = [attempts EXCEPT ![s][e] = [state |-> "accepted", task |-> NoTask]]
         /\ \E result \in Results : stage' = [stage EXCEPT ![s].result = result]
         /\ \/ Conclude(w, "fact", "succeeded")
            \/ Conclude(w, "checkpoint", "needs_input")
      \/ /\ workers[w].reply \in {"throttled", "refused"}
         /\ attempts' = SetState(attempts, s, e, "failed")
         /\ \E outcome \in {"retryable", "needs_input"} : Conclude(w, "checkpoint", outcome)
         /\ UNCHANGED stage
      \/ /\ attempts' = SetState(attempts, s, e, "unknown")
         /\ Conclude(w, "ledger", "submission_unknown")
         /\ UNCHANGED stage
  BY <1>2 DEF HandleExtractReply, Results
<1>4. CASE /\ UNCHANGED <<attempts, stage>>
           /\ Conclude(w, "checkpoint", "needs_input")
  <2>1. Written(attempts[s], attempts'[s], e, "submitting", NoTask) /\ "submitting" \in InDoubt
    BY <1>2, <1>4 DEF Written, InDoubt
  <2>2. Moved(w, "checkpoint", "needs_input")
    BY <1>1, <1>4, ConcludeMoves DEF ProgramCounters, Outcomes
  <2> QED BY <1>1, <1>4, <2>1, <2>2, ReplyPays DEF Doubted
<1>5. CASE /\ workers[w].reply \in {"result", "diagnosis"}
           /\ attempts' = [attempts EXCEPT ![s][e] = [state |-> "accepted", task |-> NoTask]]
           /\ \E result \in Results : stage' = [stage EXCEPT ![s].result = result]
           /\ \/ Conclude(w, "fact", "succeeded")
              \/ Conclude(w, "checkpoint", "needs_input")
  <2>1. /\ Written(attempts[s], attempts'[s], e, "accepted", NoTask)
        /\ \A r \in Stages \ {s} : attempts'[r] = attempts[r]
    <3> DEFINE a == [state |-> "accepted", task |-> NoTask]
    <3>1. a \in Attempt /\ a.state = "accepted" /\ a.task = NoTask
      BY DEF Attempt, SubmitStates, NoTask
    <3>2. attempts' = [attempts EXCEPT ![s][e] = a]
      BY <1>5
    <3> HIDE DEF a, s, e
    <3> QED BY <1>2, <3>1, <3>2, WritesOne
  <2>2. Moved(w, "fact", "succeeded") \/ Moved(w, "checkpoint", "needs_input")
    BY <1>1, <1>5, ConcludeMoves DEF ProgramCounters, Outcomes
  <2>3. /\ stage'[s].status = stage[s].status /\ stage'[s].epoch = stage[s].epoch
        /\ \A r \in Stages \ {s} : stage'[r] = stage[r]
    BY <1>2, <1>5, ResultRow
  <2> QED BY <1>1, <1>5, <2>1, <2>2, <2>3, ReplyPays DEF Answered
<1>6. CASE /\ workers[w].reply \in {"throttled", "refused"}
           /\ attempts' = SetState(attempts, s, e, "failed")
           /\ \E outcome \in {"retryable", "needs_input"} : Conclude(w, "checkpoint", outcome)
           /\ UNCHANGED stage
  <2>1. /\ Written(attempts[s], attempts'[s], e, "failed", NoTask)
        /\ \A r \in Stages \ {s} : attempts'[r] = attempts[r]
    BY <1>2, <1>6, WritesOne
  <2>2. \E outcome \in {"retryable", "needs_input"} : Moved(w, "checkpoint", outcome)
    BY <1>1, <1>6, ConcludeMoves DEF ProgramCounters, Outcomes
  <2>3. {"retryable", "needs_input"} \subseteq Outcomes \ {"succeeded"}
    BY DEF Outcomes
  <2> QED BY <1>1, <1>6, <2>1, <2>2, <2>3, ReplyPays DEF Refused
<1>7. CASE /\ attempts' = SetState(attempts, s, e, "unknown")
           /\ Conclude(w, "ledger", "submission_unknown")
           /\ UNCHANGED stage
  <2>1. /\ Written(attempts[s], attempts'[s], e, "unknown", NoTask)
        /\ \A r \in Stages \ {s} : attempts'[r] = attempts[r]
    BY <1>2, <1>7, WritesOne
  <2>2. Moved(w, "ledger", "submission_unknown")
    BY <1>1, <1>7, ConcludeMoves DEF ProgramCounters, Outcomes
  <2>3. "unknown" \in InDoubt
    BY DEF InDoubt
  <2> QED BY <1>1, <1>7, <2>1, <2>2, <2>3, ReplyPays DEF Doubted
<1> QED BY <1>3, <1>4, <1>5, <1>6, <1>7

-----------------------------------------------------------------------------
(* The steps that buy nothing.                                             *)

(* Where nothing is bought there is nothing to account for.                *)
LEMMA FreePays ==
    ASSUME IInv, PayInv, NEW w \in Workers, workers[w].pc \in {"run", "save"},
           NEW pc \in {"save", "ledger", "fact", "checkpoint"}, NEW outcome,
           Moved(w, pc, outcome),
           pc \in {"ledger", "fact"} => outcome = "succeeded",
           UNCHANGED <<job, stage, attempts, bills, allowance>>
    PROVE  PayInv'
<1> DEFINE s == workers[w].stage
<1>1. /\ AttemptsFit(Kind[s], attempts[s], bills[s], allowance[s])
      /\ Kind[s] \notin PaidKinds
  BY AtWork DEF TaskFits
<1>2. Unspent(attempts[s]) /\ Receipted(Kind[s], stage[s].result, attempts[s])
  BY <1>1 DEF AttemptsFit, Unspent, Receipted
<1>3. workers'[w].pc = pc /\ workers'[w].outcome = outcome
  BY DEF Moved
<1>4. TaskFits(workers'[w], Kind[s], stage[s].result, attempts[s], bills[s])
  BY <1>1, <1>2, <1>3 DEF TaskFits
<1> HIDE DEF s
<1> QED BY <1>4, StepPays DEF ProgramCounters, s

LEMMA HandlersPay ==
    ASSUME IInv, PayInv, NEW w \in Workers, Poll(w) \/ Fetch(w) \/ Merge(w)
    PROVE  PayInv'
<1> DEFINE Concluded(pc, outcome) ==
              /\ Conclude(w, pc, outcome)
              /\ pc \in {"ledger", "fact"} => outcome = "succeeded"
<1>1. \E pc \in {"checkpoint", "fact", "ledger"} :
        \E outcome \in {"succeeded", "waiting", "retryable", "needs_input", "failed"} :
           Concluded(pc, outcome)
  BY DEF Poll, Fetch, Merge
<1>2. PICK pc \in {"checkpoint", "fact", "ledger"},
           outcome \in {"succeeded", "waiting", "retryable", "needs_input", "failed"} :
           Concluded(pc, outcome)
  BY <1>1
<1>3. Moved(w, pc, outcome)
  BY <1>2, ConcludeMoves DEF IInv, Outcomes, ProgramCounters
<1>4. workers[w].pc = "run" /\ UNCHANGED <<job, stage, attempts, bills, allowance>>
  BY DEF Poll, Fetch, Merge
<1> QED BY <1>2, <1>3, <1>4, FreePays

LEMMA AssemblyPays ==
    ASSUME IInv, PayInv, NEW w \in Workers, Assemble(w) \/ SaveDraft(w)
    PROVE  PayInv'
<1> DEFINE s == workers[w].stage
           usable == {d \in DependsOn(s) : stage[d].status = "succeeded"}
<1>1. /\ workers[w].pc \in {"run", "save"}
      /\ UNCHANGED <<job, stage, attempts, bills, allowance>>
  BY DEF Assemble, SaveDraft
<1>2. CASE \E outcome \in {"needs_input", "succeeded"} : Conclude(w, "checkpoint", outcome)
  BY <1>1, <1>2, ConcludeMoves, FreePays DEF IInv, ProgramCounters, Outcomes
<1>3. CASE workers' = [workers EXCEPT ![w].pc = "save", ![w].seen = usable]
  <2> DEFINE task == [workers[w] EXCEPT !.pc = "save", !.seen = usable]
  <2>1. workers[w] \in Worker /\ usable \in SUBSET Stages
    BY DEF IInv, TypeOK, DependsOn, StagesOf
  <2> HIDE DEF usable
  <2>2. /\ task \in Worker /\ task.pc = "save" /\ task.outcome = workers[w].outcome
        /\ task.stage = workers[w].stage /\ task.epoch = workers[w].epoch
    BY <2>1, Zenon DEF Worker
  <2>3. workers' = [workers EXCEPT ![w] = task]
    BY <1>3
  <2> HIDE DEF task
  <2>4. Moved(w, "save", workers[w].outcome)
    BY <2>2, <2>3 DEF IInv, TypeOK, Moved
  <2> QED BY <1>1, <2>4, FreePays
<1> QED BY <1>2, <1>3 DEF Assemble, SaveDraft

(* The ledger step leaves outcome and stage.                               *)
LEMMA LedgerStepPays ==
    ASSUME IInv, PayInv, NEW w \in Workers, LedgerStep(w)
    PROVE  PayInv'
<1> DEFINE s == workers[w].stage
<1>1. /\ workers[w].pc = "ledger"
      /\ UNCHANGED <<job, stage, attempts, bills, allowance>>
  BY DEF LedgerStep
<1>2. Moved(w, "checkpoint", workers[w].outcome)
  BY GotoMoves DEF LedgerStep, IInv, ProgramCounters
<1>3. TaskFits(workers[w], Kind[s], stage[s].result, attempts[s], bills[s])
  BY <1>1, AtWork
<1>4. TaskFits(workers'[w], Kind[s], stage[s].result, attempts[s], bills[s])
  BY <1>1, <1>2, <1>3 DEF TaskFits, Moved
<1> HIDE DEF s
<1> QED BY <1>1, <1>2, <1>4, StepPays DEF ProgramCounters, s

(* A result is written only over what was bought or cost nothing.          *)
LEMMA FactPays ==
    ASSUME IInv, PayInv, NEW w \in Workers, Fact(w)
    PROVE  PayInv'
<1> DEFINE s == workers[w].stage
<1>1. /\ workers[w].pc = "fact" /\ UNCHANGED <<job, attempts, bills, allowance>>
      /\ stage' = [stage EXCEPT ![s].result = "knowledge"]
  BY DEF Fact
<1>2. Moved(w, "checkpoint", workers[w].outcome)
  BY GotoMoves DEF Fact, IInv, ProgramCounters
<1>3. /\ s \in Stages /\ stage[s].status = "running"
      /\ AttemptsFit(Kind[s], attempts[s], bills[s], allowance[s])
      /\ TaskFits(workers[w], Kind[s], stage[s].result, attempts[s], bills[s])
  BY <1>1, AtWork
<1>4. /\ stage'[s].result = "knowledge" /\ stage'[s].status = "running"
      /\ stage'[s].epoch = stage[s].epoch
      /\ \A r \in Stages \ {s} : stage'[r] = stage[r]
  BY <1>1, <1>3, ResultRow
<1>5. /\ workers[w].outcome = "succeeded"
      /\ Kind[s] \in PaidKinds => Kind[s] = "manual_extract" /\ Accepted(attempts[s])
  BY <1>1, <1>3 DEF TaskFits
<1>6. Receipted(Kind[s], stage'[s].result, attempts[s])
  BY <1>4, <1>5 DEF Receipted
<1>7. TaskFits(workers'[w], Kind[s], stage'[s].result, attempts[s], bills[s])
  BY <1>2, <1>5, <1>6 DEF TaskFits, Moved
<1>8. RowFits(Kind[s], "running", stage'[s].result, attempts[s])
  BY <1>5 DEF RowFits
<1>9. Elsewhere(s)
  BY <1>1, <1>4 DEF Elsewhere
<1> HIDE DEF s
<1> QED BY <1>1, <1>2, <1>3, <1>4, <1>7, <1>8, <1>9, MovePays DEF ProgramCounters, s

-----------------------------------------------------------------------------
(* The steps that begin, end or take over an execution.                    *)

(* The row an execution leaves: claimable or failed only after an outcome  *)
(* that nothing was sent for.                                              *)
LEMMA AdvancedPays ==
    ASSUME NEW row \in Row, NEW outcome \in Outcomes \ {"none"},
           NEW next \in Advanced(row, outcome)
    PROVE  /\ next.status \in {"queued", "retry_wait", "waiting_provider", "failed"} =>
                 outcome \in {"retryable", "failed", "waiting"}
           /\ next.status # "cancelled"
<1>1. CASE outcome \in {"succeeded", "submission_unknown", "failed"}
  <2>1. next = [row EXCEPT !.status = outcome]
    BY <1>1, Zenon DEF Advanced
  <2>2. next.status = outcome
    BY <2>1, Zenon DEF Row
  <2> QED BY <1>1, <2>2
<1>2. CASE outcome \in {"needs_input", "branch_paused"}
  <2>1. PICK b \in BOOLEAN : next = [row EXCEPT !.status = "needs_input", !.paused = b]
    BY <1>2, Zenon DEF Advanced
  <2>2. next.status = "needs_input"
    BY <2>1, Zenon DEF Row
  <2> QED BY <2>2
<1>3. CASE outcome = "retryable"
  <2>1. \/ next = [row EXCEPT !.status = "retry_wait", !.retries = row.retries + 1]
        \/ next = [row EXCEPT !.status = "failed"]
    BY <1>3, Zenon DEF Advanced
  <2>2. next.status \in {"retry_wait", "failed"}
    BY <2>1, Zenon DEF Row
  <2> QED BY <1>3, <2>2
<1>4. CASE outcome = "waiting"
  <2>1. \/ next = [row EXCEPT !.status = "needs_input", !.paused = FALSE]
        \/ next = [row EXCEPT !.status = "waiting_provider", !.polls = row.polls + 1]
    BY <1>4, Zenon DEF Advanced
  <2>2. next.status \in {"needs_input", "waiting_provider"}
    BY <2>1, Zenon DEF Row
  <2> QED BY <1>4, <2>2
<1> QED BY <1>1, <1>2, <1>3, <1>4 DEF Outcomes

(* No job is cancelled by what its stages say.                             *)
LEMMA RecomputeCancelsNone ==
    ASSUME IInv, PayInv, NEW st, NEW j \in Jobs, job' = Recompute(job, st, j)
    PROVE  \A k \in Jobs : job'[k] # "cancelled"
<1> DEFINE statuses == StatusesOf(st, j)
           next == AggregateJobStatus(job[j], statuses)
<1>1. job[j] # "cancelled" /\ job \in [Jobs -> JobStatuses]
  BY DEF PayInv, IInv, TypeOK
<1>2. job' = [job EXCEPT ![j] = next]
  BY DEF Recompute
<1> HIDE DEF statuses
<1>3. next # "cancelled"
  BY <1>1 DEF AggregateJobStatus
<1> HIDE DEF next
<1> QED BY <1>1, <1>2, <1>3 DEF PayInv

(* The end of an execution.                                                *)
LEMMA CheckpointPays ==
    ASSUME IInv, PayInv, NEW w \in Workers, Checkpoint(w), NEW s, s = workers[w].stage
    PROVE  PayInv'
<1> DEFINE outcome == workers[w].outcome
<1>1. /\ workers[w].pc = "checkpoint" /\ outcome \in Outcomes \ {"none"}
      /\ UNCHANGED <<attempts, bills, allowance>>
  BY DEF Checkpoint, IInv, TypeOK, Worker, OutcomeIsDecided
<1>2. /\ s \in Stages /\ JobOf[s] \in Jobs /\ stage[s] \in Row
      /\ AttemptsFit(Kind[s], attempts[s], bills[s], allowance[s])
      /\ RowFits(Kind[s], "running", stage[s].result, attempts[s])
      /\ TaskFits(workers[w], Kind[s], stage[s].result, attempts[s], bills[s])
  BY <1>1, AtWork, JobOfAssumption
<1>3. PICK row \in Advanced(stage[s], outcome) : stage' = [stage EXCEPT ![s] = row]
  <2>1. Holds(w, s)
    BY <1>1 DEF PayInv, WorkerFits
  <2> QED BY <2>1 DEF Checkpoint
<1>4. \A j \in Jobs : job'[j] # "cancelled"
  <2>1. job' = Recompute(job, stage', JobOf[s]) \/ job' = job
    BY DEF Checkpoint
  <2> QED BY <1>2, <2>1, RecomputeCancelsNone DEF PayInv
<1>5. stage'[s] = row /\ \A r \in Stages \ {s} : stage'[r] = stage[r]
  BY <1>2, <1>3 DEF IInv, TypeOK
<1>6. /\ row.result = stage[s].result
      /\ row.status = "succeeded" => outcome = "succeeded"
      /\ row.status \in {"queued", "retry_wait", "waiting_provider", "failed"} =>
            outcome \in {"retryable", "failed", "waiting"}
      /\ row.status # "cancelled"
  BY <1>1, <1>2, AdvancedResult, AdvancedPays
<1>7. /\ outcome \in {"retryable", "failed", "waiting"} => Unspent(attempts[s])
      /\ outcome = "succeeded" => Receipted(Kind[s], stage[s].result, attempts[s])
  BY <1>1, <1>2 DEF TaskFits
<1>8. RowFits(Kind[s], row.status, row.result, attempts[s])
  BY <1>2, <1>6, <1>7 DEF RowFits
<1>9. StageFits(s)'
  BY <1>1, <1>2, <1>5, <1>8 DEF StageFits
<1>10. workers'[w].pc = "idle" /\ \A v \in Workers \ {w} : workers'[v] = workers[v]
  BY DEF Checkpoint, IInv, TypeOK, Idle
<1>11. Elsewhere(s)
  BY <1>1, <1>5 DEF Elsewhere
<1> QED BY <1>1, <1>4, <1>9, <1>10, <1>11, TaskPays

(* What may be claimed was not paid for, so its execution begins at the    *)
(* beginning.                                                              *)
LEMMA UnspentIsFresh ==
    ASSUME IInv, NEW s \in Stages, Unspent(attempts[s])
    PROVE  Latest(attempts, s).state \in {"absent"} \cup Unsent
           /\ ResumeHint(Latest(attempts, s)) = "fresh"
<1> DEFINE a == Latest(attempts, s)
<1>1. a.state \in {"absent"} \cup Unsent
  <2>1. CASE DOMAIN attempts[s] = {}
    BY <2>1 DEF Latest, NoAttempt
  <2>2. CASE DOMAIN attempts[s] # {}
    BY <2>2, LatestInDomain DEF IInv, Latest, Unspent
  <2> QED BY <2>1, <2>2
<1> HIDE DEF a
<1>2. ResumeHint(a) = "fresh"
  BY <1>1, Zenon DEF ResumeHint, Unsent, InDoubt
<1> QED BY <1>1, <1>2 DEF a

(* A stage is running and nobody works on it, or it is at rest: what       *)
(* happens to it concerns no task.                                         *)
LEMMA AlonePays ==
    ASSUME IInv, PayInv, NEW s \in Stages, Elsewhere(s), StageFits(s)',
           \A w \in Workers : workers[w].pc # "idle" => workers[w].stage # s,
           \A w \in Workers : \/ workers'[w] = workers[w]
                              \/ workers'[w].pc # "idle" => WorkerFits(w)',
           \A j \in Jobs : job'[j] # "cancelled"
    PROVE  PayInv'
<1>1. ASSUME NEW r \in Stages PROVE StageFits(r)'
  BY <1>1 DEF Elsewhere, StageFits, PayInv
<1>2. ASSUME NEW v \in Workers, workers'[v].pc # "idle", workers'[v] = workers[v]
      PROVE  WorkerFits(v)'
  <2> DEFINE r == workers[v].stage
  <2>1. WorkerFits(v) /\ r \in Stages /\ r # s
    BY <1>2 DEF PayInv, IInv, TypeOK, Worker
  <2>2. stage'[r] = stage[r] /\ attempts'[r] = attempts[r] /\ bills'[r] = bills[r]
    BY <2>1 DEF Elsewhere
  <2> QED BY <1>2, <2>1, <2>2 DEF WorkerFits, Holds
<1> QED BY <1>1, <1>2 DEF PayInv

(* A claim finds a stage nothing was sent for.                             *)
LEMMA ClaimPays ==
    ASSUME IInv, PayInv, NEW w \in Workers, NEW s \in Stages, Claim(w, s)
    PROVE  PayInv'
<1> DEFINE row == Leased(stage[s], "running")
<1>1. /\ stage[s] \in Row /\ stage' = [stage EXCEPT ![s] = row]
      /\ stage[s].status \in {"queued", "retry_wait", "waiting_provider"}
      /\ UNCHANGED <<job, attempts, bills, allowance>>
  BY DEF Claim, Claimable, IInv, TypeOK
<1>2. row.result = stage[s].result /\ row.status = "running"
  BY <1>1, LeasedResult
<1> HIDE DEF row
<1>3. stage'[s] = row /\ \A r \in Stages \ {s} : stage'[r] = stage[r]
  BY <1>1 DEF IInv, TypeOK
<1>4. StageFits(s) /\ Unspent(attempts[s])
  BY <1>1 DEF PayInv, StageFits, RowFits
<1>5. StageFits(s)'
  BY <1>1, <1>2, <1>3, <1>4 DEF StageFits, RowFits
<1>6. \A v \in Workers : workers[v].pc # "idle" => workers[v].stage # s
  BY <1>1 DEF PayInv, WorkerFits, Holds
<1>7. PICK first \in {FirstStep(s), [pc |-> "checkpoint", outcome |-> "needs_input"]} :
         workers' = [workers EXCEPT ![w] =
            [Idle(s) EXCEPT !.pc = first.pc, !.outcome = first.outcome,
                            !.epoch = stage'[s].epoch]]
  BY DEF Claim
<1> DEFINE task == [Idle(s) EXCEPT !.pc = first.pc, !.outcome = first.outcome,
                                   !.epoch = stage'[s].epoch]
<1>8. /\ task.pc = first.pc /\ task.outcome = first.outcome /\ task.stage = s
      /\ task.epoch = stage'[s].epoch
  BY Zenon DEF Idle
<1>9. \A v \in Workers : workers'[v] = IF v = w THEN task ELSE workers[v]
  BY <1>7 DEF IInv, TypeOK
<1> HIDE DEF task
<1>10. \/ first.pc = "checkpoint" /\ first.outcome = "needs_input"
       \/ first.pc = "inputs" /\ Kind[s] \in PaidKinds
       \/ first.pc = "run" /\ Kind[s] \notin PaidKinds
  <2>1. ResumeHint(Latest(attempts, s)) = "fresh"
    BY <1>4, UnspentIsFresh
  <2> QED BY <2>1 DEF FirstStep
<1>11. TaskFits(task, Kind[s], stage'[s].result, attempts'[s], bills'[s])
  BY <1>1, <1>4, <1>8, <1>10 DEF TaskFits
<1>12. workers'[w].pc # "idle" => WorkerFits(w)'
  BY <1>2, <1>3, <1>8, <1>9, <1>11 DEF WorkerFits, Holds
<1>13. Elsewhere(s) /\ \A j \in Jobs : job'[j] # "cancelled"
  BY <1>1, <1>3 DEF Elsewhere, PayInv
<1> QED BY <1>5, <1>6, <1>9, <1>12, <1>13, AlonePays

(* What a takeover may find of a stage nobody works on.                    *)
LEMMA LatestTells ==
    ASSUME IInv, PayInv, NEW s \in Stages, NEW a, a = Latest(attempts, s),
           NEW e, e = LatestEpoch(attempts, s)
    PROVE  \/ a.state \in {"absent", "intent", "failed"} /\ Unspent(attempts[s])
           \/ /\ a.state \in InDoubt \cup {"accepted"} /\ Kind[s] \in PaidKinds
              /\ e \in DOMAIN attempts[s] /\ attempts[s][e] = a
              /\ \A f \in DOMAIN attempts[s] : f <= e
              /\ a.state \in InDoubt => a.task = NoTask
<1>1. AttemptsFit(Kind[s], attempts[s], bills[s], allowance[s])
  BY DEF PayInv, StageFits
<1>2. CASE DOMAIN attempts[s] = {}
  BY <1>2 DEF Latest, NoAttempt, Unspent
<1>3. CASE DOMAIN attempts[s] # {}
  <2>1. /\ e \in DOMAIN attempts[s] /\ attempts[s][e] = a
        /\ a.state \in SubmitStates /\ Kind[s] \in PaidKinds
        /\ \A f \in DOMAIN attempts[s] : f \in Nat
    <3>1. e \in DOMAIN attempts[s] /\ a = attempts[s][e]
      BY <1>3, LatestInDomain DEF IInv, Latest
    <3>2. attempts[s][e] \in Attempt /\ \A f \in DOMAIN attempts[s] : f \in Nat
      BY <3>1 DEF IInv, TypeOK, AttemptsTyped
    <3>3. a.state \in SubmitStates
      BY <3>1, <3>2 DEF Attempt
    <3> QED BY <1>1, <3>1, <3>2, <3>3 DEF AttemptsFit
  <2>2. \A f \in DOMAIN attempts[s] : f <= e
    BY <1>3, LatestInDomain DEF IInv
  <2>3. CASE a.state \in Unsent
    <3>1. \A f \in DOMAIN attempts[s] : attempts[s][f].state \notin Unsent => f = e
      BY <1>1, <2>1, <2>2 DEF AttemptsFit
    <3>2. Unspent(attempts[s])
      BY <2>1, <2>3, <3>1 DEF Unspent
    <3> QED BY <2>3, <3>2 DEF Unsent
  <2>4. CASE a.state \notin Unsent
    <3>1. a.state \in InDoubt \cup {"accepted"}
      BY <2>1, <2>4 DEF SubmitStates, InDoubt, Unsent
    <3>2. a.state \in InDoubt => a.task = NoTask
      BY <1>1, <2>1 DEF AttemptsFit, InDoubt
    <3> QED BY <2>1, <2>2, <3>1, <3>2
  <2> QED BY <2>3, <2>4
<1> QED BY <1>2, <1>3

(* What a takeover concludes: to ask again only what was never sent, to    *)
(* succeed only over a receipt, and to park what is in doubt.              *)
LEMMA PlanPays ==
    ASSUME IInv, PayInv, NEW s \in Stages, NEW a, a = Latest(attempts, s),
           NEW e, e = LatestEpoch(attempts, s),
           NEW plan, plan = RecoveryPlan(Kind[s], stage[s].result, a, job[JobOf[s]])
    PROVE  \/ plan = "needs_input"
           \/ plan = "succeeded" /\ Receipted(Kind[s], stage[s].result, attempts[s])
           \/ plan = "queued" /\ Unspent(attempts[s])
           \/ /\ plan = "submission_unknown"
              /\ e \in DOMAIN attempts[s] /\ attempts[s][e].task = NoTask
              /\ \A f \in DOMAIN attempts[s] : f <= e
              /\ stage[s].result = "none"
<1>1. /\ job[JobOf[s]] # "cancelled" /\ stage[s].result \in Results
      /\ Kind[s] \in HandledKinds /\ stage[s] \in Row
      /\ RowFits(Kind[s], stage[s].status, stage[s].result, attempts[s])
  BY KindsAssumption, JobOfAssumption DEF PayInv, StageFits, IInv, TypeOK, Row
<1>2. CASE stage[s].result = "no_knowledge"
  BY <1>1, <1>2, Zenon DEF RecoveryPlan
<1>3. CASE stage[s].result = "knowledge"
  <2>1. plan = "succeeded"
    BY <1>1, <1>3, Zenon DEF RecoveryPlan
  <2>2. Receipted(Kind[s], stage[s].result, attempts[s])
    BY <1>1, <1>3 DEF RowFits, Receipted
  <2> QED BY <2>1, <2>2
<1>4. CASE stage[s].result = "none"
  <2>1. plan = PlanByAttempt(Kind[s], a)
    BY <1>1, <1>4, Zenon DEF RecoveryPlan
  <2>2. CASE a.state \in {"absent", "intent", "failed"} /\ Unspent(attempts[s])
    <3>1. PlanByAttempt(Kind[s], a) = "queued"
      BY <2>2, Zenon DEF PlanByAttempt, InDoubt
    <3> QED BY <2>1, <2>2, <3>1
  <2>3. CASE /\ a.state \in InDoubt \cup {"accepted"} /\ Kind[s] \in PaidKinds
             /\ e \in DOMAIN attempts[s] /\ attempts[s][e] = a
             /\ \A f \in DOMAIN attempts[s] : f <= e
             /\ a.state \in InDoubt => a.task = NoTask
    <3>1. Kind[s] \in {"manual_extract", "tripo_submit"}
      BY <1>1, <2>3 DEF HandledKinds, PaidKinds, AsyncKinds, SyncKinds
    <3>2. CASE a.state \in InDoubt
      <4>1. PlanByAttempt(Kind[s], a) = "submission_unknown"
        BY <2>3, <3>2, Zenon DEF PlanByAttempt, InDoubt
      <4> QED BY <1>4, <2>1, <2>3, <3>2, <4>1
    <3>3. CASE a.state = "accepted" /\ Kind[s] = "manual_extract"
      <4>1. PlanByAttempt(Kind[s], a) = "needs_input"
        BY <3>3, Zenon DEF PlanByAttempt, InDoubt, SyncKinds, AsyncKinds
      <4> QED BY <2>1, <4>1
    <3>4. CASE a.state = "accepted" /\ Kind[s] = "tripo_submit" /\ a.task # NoTask
      <4>1. PlanByAttempt(Kind[s], a) = "succeeded"
        BY <3>4, Zenon DEF PlanByAttempt, InDoubt, SyncKinds, AsyncKinds
      <4>2. Accepted(attempts[s])
        BY <2>3, <3>4 DEF Accepted
      <4> QED BY <2>1, <3>4, <4>1, <4>2 DEF Receipted
    <3>5. CASE a.state = "accepted" /\ Kind[s] = "tripo_submit" /\ a.task = NoTask
      <4>1. PlanByAttempt(Kind[s], a) = "submission_unknown"
        BY <3>5, Zenon DEF PlanByAttempt, InDoubt, SyncKinds, AsyncKinds
      <4> QED BY <1>4, <2>1, <2>3, <3>5, <4>1
    <3> QED BY <2>3, <3>1, <3>2, <3>3, <3>4, <3>5
  <2> QED BY <2>2, <2>3, LatestTells
<1> QED BY <1>1, <1>2, <1>3, <1>4 DEF Results

(* A takeover of a stage whose task is gone.                               *)
LEMMA RecoverPays ==
    ASSUME IInv, PayInv, NEW s \in Stages, RecoverAbandoned(s)
    PROVE  PayInv'
<1> DEFINE a == Latest(attempts, s)
           e == LatestEpoch(attempts, s)
           plan == RecoveryPlan(Kind[s], stage[s].result, a, job[JobOf[s]])
           row == [Leased(stage[s], plan) EXCEPT !.paused = FALSE]
<1>1. /\ stage[s] \in Row /\ stage[s].status = "running" /\ JobOf[s] \in Jobs
      /\ UNCHANGED <<workers, bills, allowance>> /\ job' = Recompute(job, stage', JobOf[s])
      /\ StageFits(s)
  BY JobOfAssumption DEF RecoverAbandoned, TakeOver, IInv, TypeOK, PayInv
<1>2. stage' = [stage EXCEPT ![s] = row]
  BY DEF RecoverAbandoned, TakeOver
<1>3. \/ plan = "submission_unknown" /\ attempts' = SetState(attempts, s, e, "unknown")
      \/ plan # "submission_unknown" /\ attempts' = attempts
  BY DEF RecoverAbandoned, TakeOver
<1>4. \/ plan = "needs_input"
      \/ plan = "succeeded" /\ Receipted(Kind[s], stage[s].result, attempts[s])
      \/ plan = "queued" /\ Unspent(attempts[s])
      \/ /\ plan = "submission_unknown"
         /\ e \in DOMAIN attempts[s] /\ attempts[s][e].task = NoTask
         /\ \A f \in DOMAIN attempts[s] : f <= e
         /\ stage[s].result = "none"
  BY PlanPays
<1> HIDE DEF plan, e
<1>5. row.result = stage[s].result /\ row.status = plan
  BY <1>1, LeasedResult
<1> HIDE DEF row
<1>6. stage'[s] = row /\ \A r \in Stages \ {s} : stage'[r] = stage[r]
  BY <1>1, <1>2 DEF IInv, TypeOK
<1>7. StageFits(s)' /\ \A r \in Stages \ {s} : attempts'[r] = attempts[r]
  <2>1. CASE plan = "submission_unknown"
    <3>1. /\ Written(attempts[s], attempts'[s], e, "unknown", NoTask)
          /\ \A r \in Stages \ {s} : attempts'[r] = attempts[r]
      BY <1>3, <1>4, <2>1, WritesOne
    <3>2. "unknown" \in InDoubt
      BY DEF InDoubt
    <3>3. AttemptsFit(Kind[s], attempts'[s], bills[s], allowance[s])
      BY <1>1, <1>4, <2>1, <3>1, <3>2, DoubtFits DEF StageFits
    <3> QED BY <1>1, <1>5, <1>4, <1>6, <2>1, <3>1, <3>3 DEF StageFits, RowFits
  <2>2. CASE plan # "submission_unknown"
    BY <1>1, <1>3, <1>4, <1>5, <1>6, <2>2 DEF StageFits, RowFits
  <2> QED BY <2>1, <2>2
<1>8. \A v \in Workers : workers[v].pc # "idle" => workers[v].stage # s
  BY DEF RecoverAbandoned, HeldByTask, PayInv, WorkerFits
<1>9. \A j \in Jobs : job'[j] # "cancelled"
  BY <1>1, RecomputeCancelsNone
<1>10. Elsewhere(s)
  BY <1>1, <1>6, <1>7 DEF Elsewhere
<1> QED BY <1>1, <1>7, <1>8, <1>9, <1>10, AlonePays

-----------------------------------------------------------------------------
(* Every step of the executor but a lapse.                                 *)

(* A crash forgets the tasks.                                              *)
LEMMA CrashPays ==
    ASSUME IInv, PayInv, Crash
    PROVE  PayInv'
<1>1. /\ \A w \in Workers : workers'[w].pc = "idle"
      /\ UNCHANGED <<job, stage, attempts, bills, allowance>>
  BY DEF Crash, Idle
<1> QED BY <1>1 DEF PayInv, StageFits

LEMMA StandsPays ==
    ASSUME PayInv, UNCHANGED vars
    PROVE  PayInv'
  BY DEF vars, PayInv, StageFits, WorkerFits, Holds

LEMMA WorkerStepPays ==
    ASSUME IInv, PayInv, NEW w \in Workers, WorkerStep(w)
    PROVE  PayInv'
  BY CheckInputsPays, BeginIntentPays, MarkSubmittingPays, ResetFactPays, PostPays,
     HandleSubmitReplyPays, HandleExtractReplyPays, LedgerStepPays, HandlersPay,
     AssemblyPays, FactPays, CheckpointPays DEF WorkerStep

(* The books are in order until a lease lapses under a live task.          *)
PayUntilLapse == lapses = 0 => PayInv

LEMMA StepPaysOrLapses ==
    IInv /\ ScannedAfterLapse /\ PayUntilLapse /\ [Next]_vars => PayUntilLapse'
<1> SUFFICES ASSUME IInv, ScannedAfterLapse, lapses = 0 => PayInv, [Next]_vars,
                    lapses' = 0
             PROVE  PayInv'
  BY DEF PayUntilLapse
<1>1. CASE ScanAny \/ \E s \in Stages : RecoverLapsed(s)
  BY <1>1 DEF ScanAny, ScanLapsed, RecoverLapsed, ScannedAfterLapse, NothingScanned,
     IInv, TypeOK
<1>2. CASE UNCHANGED vars
  BY <1>2, StandsPays DEF vars
<1>3. CASE Crash
  BY <1>3, CrashPays DEF Crash
<1>4. ASSUME NEW w \in Workers, WorkerStep(w) PROVE PayInv'
  <2>1. lapses' = lapses
    BY <1>4 DEF WorkerStep, CheckInputs, BeginIntent, MarkSubmitting, ResetFact, Post,
                HandleSubmitReply, HandleExtractReply, LedgerStep, Poll, Fetch, Merge,
                Assemble, SaveDraft, Fact, Checkpoint
  <2> QED BY <1>4, <2>1, WorkerStepPays
<1>5. ASSUME NEW w \in Workers, NEW s \in Stages, Claim(w, s) PROVE PayInv'
  BY <1>5, ClaimPays DEF Claim
<1>6. ASSUME NEW s \in Stages, RecoverAbandoned(s) PROVE PayInv'
  BY <1>6, RecoverPays DEF RecoverAbandoned
<1> QED
  BY <1>1, <1>2, <1>3, <1>4, <1>5, <1>6 DEF Next, ExecutorStep, ClaimAny, RecoverAny

LEMMA InitPays == Init => PayInv
<1> SUFFICES ASSUME Init PROVE PayInv
  OBVIOUS
<1>1. ASSUME NEW s \in Stages PROVE StageFits(s)
  <2>1. /\ stage[s].status = "queued" /\ stage[s].result = "none"
        /\ DOMAIN attempts[s] = {} /\ bills[s] = {} /\ allowance[s] = (Kind[s] \in PaidKinds)
    BY DEF Init, QueuedRow
  <2> QED BY <2>1 DEF StageFits, AttemptsFit, RowFits, Unspent
<1>2. \A w \in Workers : workers[w].pc = "idle"
  BY DEF Init, Idle
<1>3. \A j \in Jobs : job[j] # "cancelled"
  BY DEF Init
<1> QED BY <1>1, <1>2, <1>3 DEF PayInv

LEMMA PaysUnlessLapsed == Spec => [](PayUntilLapse /\ ScannedAfterLapse)
<1>1. Init => PayUntilLapse /\ ScannedAfterLapse
  BY InitPays DEF PayUntilLapse, Init, ScannedAfterLapse, NothingScanned, Idle
<1> QED
  BY <1>1, StepPaysOrLapses, StepScansAfterLapse, InductiveInvariant, PTL DEF Spec

-----------------------------------------------------------------------------
(* The theorems.                                                           *)

(* A payment in doubt is never behind the executor's back: not after a     *)
(* crash at any point of the submission window, not after a lost reply and *)
(* not after any number of executions, its stage is claimed again or       *)
(* reported as failed or done.                                             *)
THEOREM DoubtStaysParked == Spec => [](lapses = 0 => DoubtIsParked)
<1>1. IInv /\ PayUntilLapse => (lapses = 0 => DoubtIsParked)
  <2> SUFFICES ASSUME IInv, PayInv, NEW s \in Stages, NEW e \in DOMAIN attempts[s],
                      attempts[s][e].state \in InDoubt
               PROVE  stage[s].status \in {"running", "submission_unknown", "needs_input"}
    BY DEF DoubtIsParked, PayUntilLapse
  <2>1. /\ AttemptsFit(Kind[s], attempts[s], bills[s], allowance[s])
        /\ RowFits(Kind[s], stage[s].status, stage[s].result, attempts[s])
        /\ stage[s].status \in JobStatuses
        /\ \A f \in DOMAIN attempts[s] : f \in Nat
    BY DEF PayInv, StageFits, IInv, TypeOK, Row, AttemptsTyped
  <2>2. ~Unspent(attempts[s]) /\ Kind[s] \in PaidKinds
    BY <2>1 DEF Unspent, Unsent, InDoubt, AttemptsFit
  <2>3. ~Accepted(attempts[s])
    BY <2>1 DEF Accepted, AttemptsFit, Unsent, InDoubt
  <2>4. stage[s].status \notin {"queued", "retry_wait", "waiting_provider", "failed",
                                "succeeded", "cancelled"}
    BY <2>1, <2>2, <2>3 DEF RowFits, Receipted
  <2> QED BY <2>1, <2>4 DEF JobStatuses
<1> QED BY <1>1, PaysUnlessLapsed, InductiveInvariant, PTL

(* A stage reports success only over a recorded receipt of what was        *)
(* charged, whoever concluded it: the task, or a takeover after a crash.   *)
THEOREM SuccessesHaveReceipts == Spec => [](lapses = 0 => SuccessHasReceipt)
<1>1. PayUntilLapse => (lapses = 0 => SuccessHasReceipt)
  <2> SUFFICES ASSUME PayInv, NEW s \in Stages, stage[s].status = "succeeded"
               PROVE  /\ Kind[s] = "tripo_submit" =>
                           \E e \in DOMAIN attempts[s] : /\ attempts[s][e].state = "accepted"
                                                        /\ attempts[s][e].task \in bills[s]
                      /\ Kind[s] = "manual_extract" =>
                           /\ stage[s].result = "knowledge"
                           /\ \E e \in DOMAIN attempts[s] : /\ attempts[s][e].state = "accepted"
                                                           /\ e \in bills[s]
    BY DEF SuccessHasReceipt, PayUntilLapse
  <2>1. /\ AttemptsFit(Kind[s], attempts[s], bills[s], allowance[s])
        /\ Receipted(Kind[s], stage[s].result, attempts[s])
    BY DEF PayInv, StageFits, RowFits
  <2> QED BY <2>1 DEF Receipted, Accepted, AttemptsFit, PaidKinds, AsyncKinds, SyncKinds
<1> QED BY <1>1, PaysUnlessLapsed, PTL

-----------------------------------------------------------------------------
(* What is bought, and what is given back.                                 *)

(* Without lapses the books are always in order.                           *)
Orderly == IInv /\ PayInv /\ lapses = 0

LEMMA OrderlyWithoutLapses ==
    ASSUME MaxLapses = 0
    PROVE  Spec => []Orderly
<1>1. Init => lapses = 0
  BY DEF Init
<1>2. IInv /\ lapses = 0 /\ [Next]_vars => (lapses = 0)'
  <2> SUFFICES ASSUME IInv, lapses = 0, [Next]_vars PROVE lapses' = 0
    OBVIOUS
  <2>1. ~ScanAny
    BY DEF ScanAny, ScanLapsed
  <2> QED BY <2>1, ScansStay
<1>3. IInv /\ PayUntilLapse /\ lapses = 0 => Orderly
  BY DEF PayUntilLapse, Orderly
<1> QED BY <1>1, <1>2, <1>3, InductiveInvariant, PaysUnlessLapsed, PTL DEF Spec

(* The provider's books move only by a request, which finds them empty and *)
(* the confirmation still open.                                            *)
Bought(s) ==
    /\ allowance[s] /\ bills[s] = {}
    /\ \E e \in Nat : bills' = [bills EXCEPT ![s] = {e}]
    /\ allowance' = [allowance EXCEPT ![s] = FALSE]

LEMMA StepBuys ==
    Orderly /\ [Next]_vars =>
       UNCHANGED <<bills, allowance>> \/ \E s \in Stages : Bought(s)
<1> SUFFICES ASSUME IInv, PayInv, [Next]_vars
             PROVE  UNCHANGED <<bills, allowance>> \/ \E s \in Stages : Bought(s)
  BY DEF Orderly
<1>1. ASSUME NEW w \in Workers, Post(w)
      PROVE  UNCHANGED <<bills, allowance>> \/ \E s \in Stages : Bought(s)
  <2> DEFINE s == workers[w].stage
             e == workers[w].epoch
  <2>1. workers[w].pc = "armed" /\ e \in Nat
    BY <1>1 DEF Post, IInv, TypeOK, Worker
  <2>2. s \in Stages /\ bills[s] = {} /\ allowance[s]
    <3>1. /\ s \in Stages /\ AttemptsFit(Kind[s], attempts[s], bills[s], allowance[s])
          /\ TaskFits(workers[w], Kind[s], stage[s].result, attempts[s], bills[s])
      BY <2>1, AtWork
    <3>2. Kind[s] \in PaidKinds /\ bills[s] = {}
      BY <2>1, <3>1 DEF TaskFits
    <3> QED BY <3>1, <3>2 DEF AttemptsFit
  <2>3. \/ UNCHANGED <<bills, allowance>>
        \/ /\ bills' = [bills EXCEPT ![s] = bills[s] \cup {e}]
           /\ allowance' = [allowance EXCEPT ![s] = FALSE]
    BY <1>1 DEF Post
  <2>4. bills[s] \cup {e} = {e}
    BY <2>2
  <2> HIDE DEF s, e
  <2> QED BY <2>1, <2>2, <2>3, <2>4 DEF Bought
<1>2. ASSUME NEW w \in Workers, WorkerStep(w), ~Post(w)
      PROVE  UNCHANGED <<bills, allowance>>
  BY <1>2 DEF WorkerStep, CheckInputs, BeginIntent, MarkSubmitting, ResetFact,
              HandleSubmitReply, HandleExtractReply, LedgerStep, Poll, Fetch, Merge,
              Assemble, SaveDraft, Fact, Checkpoint
<1>3. ClaimAny \/ Crash \/ RecoverAny \/ ScanAny \/ UNCHANGED vars
        => UNCHANGED <<bills, allowance>>
  BY DEF ClaimAny, Claim, Crash, RecoverAny, RecoverAbandoned, RecoverLapsed, TakeOver,
         ScanAny, ScanLapsed, vars
<1> QED BY <1>1, <1>2, <1>3 DEF Next, ExecutorStep

(* A paid stage is bought once for every time a person confirmed it,       *)
(* whatever crashes, whatever reply is lost and however often the stage is *)
(* executed: the executor implements the promise about money.              *)
THEOREM PurchasesKeepThePromise ==
    ASSUME MaxLapses = 0
    PROVE  Spec => PurchasesArePromised
<1>1. Init => Promise!Init
  <2> SUFFICES ASSUME Init PROVE Promise!Init
    OBVIOUS
  <2>1. \A s \in Stages : Cardinality(bills[s]) = 0
    BY FS_EmptySet DEF Init
  <2> QED BY <2>1 DEF Init, Promise!Init
<1>2. Orderly /\ [Next]_vars =>
         [Promise!Next]_<<allowance, [s \in Stages |-> Cardinality(bills[s])]>>
  <2> SUFFICES ASSUME Orderly, [Next]_vars
               PROVE  [Promise!Next]_<<allowance, [s \in Stages |-> Cardinality(bills[s])]>>
    OBVIOUS
  <2>1. ASSUME NEW s \in Stages, Bought(s) PROVE Promise!Buy(s)
    <3>1. PICK e \in Nat : bills' = [bills EXCEPT ![s] = {e}]
      BY <2>1 DEF Bought
    <3>2. Cardinality({}) = 0 /\ Cardinality({e}) = 1
      BY FS_EmptySet, FS_Singleton
    <3>3. \A r \in Stages : bills'[r] = IF r = s THEN {e} ELSE bills[r]
      BY <3>1 DEF Orderly, IInv, TypeOK
    <3>4. [r \in Stages |-> Cardinality(bills[r])]' =
             [[r \in Stages |-> Cardinality(bills[r])] EXCEPT ![s] = @ + 1]
      <4>1. Cardinality(bills'[s]) = Cardinality(bills[s]) + 1
        BY <2>1, <3>2, <3>3 DEF Bought
      <4>2. \A r \in Stages \ {s} : Cardinality(bills'[r]) = Cardinality(bills[r])
        BY <3>3
      <4> QED BY <4>1, <4>2
    <3> QED BY <2>1, <3>4 DEF Bought, Promise!Buy
  <2>2. UNCHANGED <<bills, allowance>> =>
           UNCHANGED <<allowance, [s \in Stages |-> Cardinality(bills[s])]>>
    OBVIOUS
  <2>3. UNCHANGED <<bills, allowance>> \/ \E s \in Stages : Bought(s)
    BY StepBuys
  <2>4. CASE UNCHANGED <<bills, allowance>>
    BY <2>2, <2>4
  <2>5. ASSUME NEW s \in Stages, Bought(s) PROVE Promise!Next
    BY <2>1, <2>5 DEF Promise!Next
  <2> QED BY <2>3, <2>4, <2>5
<1> QED BY <1>1, <1>2, OrderlyWithoutLapses, PTL DEF Spec, PurchasesArePromised, Promise!Spec

(* A reservation is given back only by the one submission of its job, for  *)
(* a request the provider refused.                                         *)
OneSubmission ==
    \A r, s \in Stages :
        Kind[r] = "tripo_submit" /\ Kind[s] = "tripo_submit" /\ JobOf[r] = JobOf[s] => r = s

LEMMA ReleasesOnlyRefused ==
    ASSUME IInv, NEW w \in Workers, LedgerStep(w), NEW j \in Jobs, NEW p \in Providers,
           ledger[j][p] # "released", ledger'[j][p] = "released"
    PROVE  /\ workers[w].outcome = "failed"
           /\ j = JobOf[workers[w].stage] /\ p = BranchProvider(Kind[workers[w].stage])
<1> DEFINE k == JobOf[workers[w].stage]
           q == BranchProvider(Kind[workers[w].stage])
           entry == ledger[k][q]
<1>1. workers[w].outcome \in {"succeeded", "submission_unknown", "failed"}
      /\ ledger \in [Jobs -> [Providers -> LedgerStates]]
  BY DEF LedgerStep, IInv, TypeOK, OutcomeIsDecided
<1>2. \E next : /\ ledger' = [ledger EXCEPT ![k][q] = next]
                /\ workers[w].outcome = "submission_unknown" =>
                      next = NextLedgerState(entry, "mark_unknown")
                /\ workers[w].outcome = "succeeded" =>
                      next = NextLedgerState(entry, "settle")
  BY <1>1, Zenon DEF LedgerStep
<1>3. PICK next : /\ ledger' = [ledger EXCEPT ![k][q] = next]
                  /\ workers[w].outcome = "submission_unknown" =>
                        next = NextLedgerState(entry, "mark_unknown")
                  /\ workers[w].outcome = "succeeded" =>
                        next = NextLedgerState(entry, "settle")
  BY <1>2
<1> HIDE DEF k, q
<1>4. j = k /\ p = q /\ next = "released" /\ entry # "released"
  BY <1>1, <1>3
<1>5. NextLedgerState(entry, "mark_unknown") # "released"
      /\ NextLedgerState(entry, "settle") # "released"
  BY <1>4, Zenon DEF NextLedgerState
<1> QED BY <1>1, <1>3, <1>4, <1>5 DEF k, q

(* A stage that was charged for is one that buys.                          *)
LEMMA ChargedIsPaid ==
    ASSUME PayInv, NEW s \in Stages, bills[s] # {}
    PROVE  Kind[s] \in {"manual_extract", "tripo_submit"} /\ ~Unspent(attempts[s])
<1>1. AttemptsFit(Kind[s], attempts[s], bills[s], allowance[s]) /\ Kind[s] \in HandledKinds
  BY KindsAssumption DEF PayInv, StageFits
<1>2. ~Unspent(attempts[s]) /\ Kind[s] \in PaidKinds
  BY <1>1 DEF AttemptsFit, Unspent
<1> QED BY <1>1, <1>2 DEF HandledKinds, PaidKinds, AsyncKinds, SyncKinds

(* A reservation is given back only while nothing it covers was charged,   *)
(* although the refusal is recorded in one transaction and the release is  *)
(* made in a later one.                                                    *)
THEOREM ReleasesAreUnbilled ==
    ASSUME MaxLapses = 0, OneSubmission
    PROVE  Spec => ReleaseIsUnbilled
<1>1. Orderly /\ [Next]_vars =>
         [\A j \in Jobs : \A p \in Providers :
             ledger[j][p] # "released" /\ ledger'[j][p] = "released"
                => ~Charged(j, p)]_vars
  <2> SUFFICES ASSUME Orderly, [Next]_vars, NEW j \in Jobs, NEW p \in Providers,
                      ledger[j][p] # "released", ledger'[j][p] = "released"
               PROVE  ~Charged(j, p)
    OBVIOUS
  <2>1. PICK w \in Workers : LedgerStep(w)
    <3>1. ledger' # ledger
      OBVIOUS
    <3> QED BY <3>1 DEF Next, ExecutorStep, ClaimAny, Claim, RecoverAny, RecoverAbandoned,
              RecoverLapsed, TakeOver, ScanAny, ScanLapsed, Crash, vars, WorkerStep,
              CheckInputs, BeginIntent, MarkSubmitting, ResetFact, Post, HandleSubmitReply, HandleExtractReply, Poll,
              Fetch, Merge, Assemble, SaveDraft, Fact, Checkpoint
  <2> DEFINE s == workers[w].stage
  <2>2. workers[w].outcome = "failed" /\ j = JobOf[s] /\ p = BranchProvider(Kind[s])
    BY <2>1, ReleasesOnlyRefused DEF Orderly
  <2>3. s \in Stages /\ Kind[s] = "tripo_submit" /\ Unspent(attempts[s])
    <3>1. workers[w].pc = "ledger"
      BY <2>1 DEF LedgerStep
    <3> QED BY <2>2, <3>1, AtWork DEF Orderly, TaskFits
  <2>4. BranchProvider("manual_extract") # BranchProvider("tripo_submit")
    <3>1. BranchOf("manual_extract") = "knowledge" /\ BranchOf("tripo_submit") # "knowledge"
      BY Zenon DEF BranchOf
    <3> QED BY <3>1 DEF BranchProvider
  <2>5. ASSUME NEW r \in StagesOf(j), BranchProvider(Kind[r]) = p, bills[r] # {}
        PROVE  FALSE
    <3>1. /\ r \in Stages /\ JobOf[r] = JobOf[s]
          /\ Kind[r] \in {"manual_extract", "tripo_submit"} /\ ~Unspent(attempts[r])
      BY <2>2, <2>5, ChargedIsPaid DEF StagesOf, Orderly
    <3>2. Kind[r] = "tripo_submit"
      BY <2>2, <2>3, <2>4, <2>5, <3>1
    <3>3. r = s
      BY <2>3, <3>1, <3>2 DEF OneSubmission
    <3> QED BY <2>3, <3>1, <3>3
  <2> QED BY <2>5 DEF Charged
<1> QED BY <1>1, OrderlyWithoutLapses, PTL DEF Spec, ReleaseIsUnbilled
=============================================================================
