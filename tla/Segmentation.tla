---------------------------- MODULE Segmentation ----------------------------
(***************************************************************************)
(* The tripo_segment stage and the reservation it shares with the model's  *)
(* purchase.  One handler submits, polls and attaches; the ledger entry is *)
(* settled only when both actual bills are known, and never while a        *)
(* request for which somebody may yet send a bill is unaccounted for.      *)
(* The submission window itself is JobExecutor's; here it is one step.     *)
(***************************************************************************)
EXTENDS Naturals

CONSTANTS Charges,      \* what the provider may charge for a segmentation
          ModelBill,    \* the model's bill, 0 when the provider gave none
          Authorized,   \* the confirmed upper bound of both
          Estimate,     \* the quoted price of a segmentation
          MaxSubmits    \* bound on submissions

ASSUME SegmentationAssumption ==
    /\ Charges \subseteq Nat
    /\ ModelBill \in Nat /\ Authorized \in Nat /\ Estimate \in Nat
    /\ MaxSubmits \in Nat \ {0}

VARIABLES seg,      \* the stage: its status and its handler's position
          submits,  \* its attempts, in order
          remote,   \* attempt -> the task it created at the provider
          entry     \* the Tripo entry of the cost ledger

segVars == <<seg, submits, remote, entry>>

Epochs == 1..MaxSubmits
SubmitRow == [state : {"absent", "submitting", "accepted", "unknown", "failed"},
              task : BOOLEAN]
NoRemote == [state |-> "none", charge |-> 0, reported |-> FALSE]
RemoteRow == [state : {"none", "running", "success", "failed"},
              charge : Charges \cup {0}, reported : BOOLEAN]
SegStatuses == {"queued", "running", "waiting_provider", "submission_unknown",
                "needs_input", "failed", "succeeded"}
Positions == {"idle", "start", "sent", "refused", "lost", "doubt", "park",
              "poll", "settle", "attach"}

SegInit ==
    /\ seg = [status |-> "queued", at |-> "idle"]
    /\ submits = [e \in Epochs |-> [state |-> "absent", task |-> FALSE]]
    /\ remote = [e \in Epochs |-> NoRemote]
    /\ entry = [state |-> "reserved", attempt |-> 0, actual |-> 0]

Used == {e \in Epochs : submits[e].state # "absent"}
Last == IF Used = {} THEN 0 ELSE CHOOSE e \in Used : \A f \in Used : f <= e
Holding == entry.state \in {"reserved", "unknown"}

Go(at) == seg' = [seg EXCEPT !.at = at]
Rest(status) == seg' = [status |-> status, at |-> "idle"]
Sets(e, state) == submits' = [submits EXCEPT ![e].state = state]

\* Mutant: names the attempt after the one in doubt.
MarkedNext(e) == IF Holding THEN [entry EXCEPT !.state = "unknown", !.attempt = e + 1]
                 ELSE entry

\* Mutant: the latest doubt replaces an earlier one.
MarkedLatest(e) == IF Holding THEN [entry EXCEPT !.state = "unknown", !.attempt = e]
                   ELSE entry

\* mark_submission_unknown: the first attempt in doubt stays on the entry.
MarkedUnknown(e) ==
    IF ~Holding THEN entry
    ELSE [entry EXCEPT !.state = "unknown",
                       !.attempt = IF @ = 0 THEN e ELSE @]

\* Mutant: settles over the doubt of any attempt.
SettledForAny(e, charge) ==
    IF ModelBill = 0 \/ ~Holding THEN entry
    ELSE [entry EXCEPT !.state = "settled", !.actual = ModelBill + charge]

\* settle_segment_ledger: nothing without both bills, and not over the doubt
\* of another attempt.  A settled entry keeps its amount.
SettledFor(e, charge) ==
    IF \/ ModelBill = 0 \/ ~Holding
       \/ entry.state = "unknown" /\ entry.attempt # e
    THEN entry
    ELSE [entry EXCEPT !.state = "settled", !.actual = ModelBill + charge]

-----------------------------------------------------------------------------
(* The handler.                                                            *)

ClaimSegment ==
    /\ seg.at = "idle" /\ seg.status \in {"queued", "waiting_provider"}
    /\ seg' = [status |-> "running",
               at |-> IF Last # 0 /\ submits[Last].task THEN "poll" ELSE "start"]
    /\ UNCHANGED <<submits, remote, entry>>

\* Without a reservation, or with a model bill that leaves too little of it,
\* nothing is sent.
StartSubmit ==
    /\ seg.at = "start"
    /\ IF ~Holding \/ (ModelBill # 0 /\ ModelBill + Estimate > Authorized)
       THEN Rest("needs_input") /\ UNCHANGED submits
       ELSE Last < MaxSubmits /\ Sets(Last + 1, "submitting") /\ Go("sent")
    /\ UNCHANGED <<remote, entry>>

NewTask(e) == remote' = [remote EXCEPT ![e].state = "running"]

\* The POST and what comes back: a task, a refusal, a throttle, or nothing -
\* with or without a task at the provider.
Send ==
    /\ seg.at = "sent"
    /\ \/ /\ NewTask(Last)
          /\ submits' = [submits EXCEPT ![Last] = [state |-> "accepted", task |-> TRUE]]
          /\ Rest("waiting_provider")
       \/ UNCHANGED remote /\ Sets(Last, "failed") /\ Rest("queued")
       \/ UNCHANGED remote /\ Sets(Last, "failed") /\ Go("refused")
       \/ /\ NewTask(Last) \/ UNCHANGED remote
          /\ UNCHANGED submits /\ Go("lost")
    /\ UNCHANGED entry

SettleRefused ==
    /\ seg.at = "refused"
    /\ entry' = SettledFor(Last, 0)
    /\ Rest("failed")
    /\ UNCHANGED <<submits, remote>>

\* No answer: the attempt is marked, then the entry, then the stage.
MarkLost ==
    \/ /\ seg.at = "lost" /\ Sets(Last, "unknown") /\ Go("doubt")
       /\ UNCHANGED <<remote, entry>>
    \/ /\ seg.at = "doubt" /\ entry' = MarkedUnknown(Last) /\ Go("park")
       /\ UNCHANGED <<submits, remote>>
    \/ /\ seg.at = "park" /\ Rest("submission_unknown")
       /\ UNCHANGED <<submits, remote, entry>>

\* A known task is only asked about; a failed query tries again.
PollTask ==
    /\ seg.at = "poll"
    /\ \/ remote[Last].state = "running" /\ Rest("waiting_provider")
       \/ remote[Last].state \in {"success", "failed"} /\ Go("settle")
       \/ Rest("queued")
    /\ UNCHANGED <<submits, remote, entry>>

SettlePolled ==
    /\ seg.at = "settle"
    /\ entry' = IF remote[Last].reported
                THEN SettledFor(Last, remote[Last].charge) ELSE entry
    /\ IF remote[Last].state = "failed" THEN Rest("failed") ELSE Go("attach")
    /\ UNCHANGED <<submits, remote>>

\* Download and attachment: done, to be tried again, or stopped by an edit.
AttachModel ==
    /\ seg.at = "attach"
    /\ \E status \in {"succeeded", "queued", "needs_input"} : Rest(status)
    /\ UNCHANGED <<submits, remote, entry>>

-----------------------------------------------------------------------------
(* The world around it.                                                    *)

\* The task ends; a charge is reported with the task or it is not.
TaskEnds(e) ==
    /\ remote[e].state = "running"
    /\ \E outcome \in {"success", "failed"}, c \in Charges \cup {0}, b \in BOOLEAN :
         /\ outcome = "success" => c # 0
         /\ remote' = [remote EXCEPT ![e] =
                          [state |-> outcome, charge |-> c, reported |-> b]]
    /\ UNCHANGED <<seg, submits, entry>>

\* The process dies and recovery decides by the latest attempt: a task is
\* asked about again, a request without an answer is parked and its
\* reservation marked.
SegCrash ==
    /\ seg.status = "running"
    /\ IF Last # 0 /\ ~submits[Last].task /\ submits[Last].state \in {"submitting", "unknown"}
       THEN entry' = MarkedUnknown(Last) /\ Rest("submission_unknown")
       ELSE UNCHANGED entry /\ Rest("queued")
    /\ UNCHANGED <<submits, remote>>

\* The administrator: retry, or reconcile an unknown submission - with the
\* task found at the provider, with the word that there is none, or with a
\* confirmed replacement.
RetryStage ==
    /\ seg.status \in {"failed", "needs_input"}
    /\ Rest("queued")
    /\ UNCHANGED <<submits, remote, entry>>

ReconcileStage ==
    /\ seg.status = "submission_unknown"
    /\ \/ /\ remote[Last].state # "none"
          /\ submits' = [submits EXCEPT ![Last] = [state |-> "accepted", task |-> TRUE]]
          /\ Rest("queued")
       \/ Sets(Last, "failed") /\ Rest("needs_input")
       \/ Sets(Last, "failed") /\ Rest("queued")
    /\ UNCHANGED <<remote, entry>>

SegNext ==
    \/ ClaimSegment \/ StartSubmit \/ Send \/ SettleRefused \/ MarkLost
    \/ PollTask \/ SettlePolled \/ AttachModel
    \/ \E e \in Epochs : TaskEnds(e)
    \/ SegCrash \/ RetryStage \/ ReconcileStage

SegSpec == SegInit /\ [][SegNext]_segVars

-----------------------------------------------------------------------------
SegTypeOK ==
    /\ seg \in [status : SegStatuses, at : Positions]
    /\ submits \in [Epochs -> SubmitRow]
    /\ remote \in [Epochs -> RemoteRow]
    /\ entry.state \in {"reserved", "unknown", "settled"}
    /\ entry.attempt \in 0..MaxSubmits

TotalCharge ==
    LET sum[e \in 0..MaxSubmits] ==
            IF e = 0 THEN 0 ELSE sum[e - 1] + remote[e].charge
    IN  sum[MaxSubmits]

\* A settled reservation shows the whole bill: the model's and that of every
\* segmentation task the provider ever accepted for it, those included that
\* nobody here heard of when the amount was settled.
SettledIsTheWholeBill ==
    entry.state = "settled" =>
        /\ entry.actual = ModelBill + TotalCharge
        /\ \A e \in Epochs : remote[e].state # "running"

\* A task whose acceptance was never recorded keeps the reservation held,
\* whatever is retried, replaced or settled after it.
UnknownTaskHoldsReserve ==
    \A e \in Epochs :
        remote[e].state # "none" /\ ~submits[e].task => Holding

=============================================================================
