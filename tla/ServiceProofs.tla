--------------------------- MODULE ServiceProofs ----------------------------
(***************************************************************************)
(* What happens around the jobs of an item, for any number of photos, tabs, *)
(* requests, pipelines and attempts: the bill of a segmentation is settled *)
(* whole; edits are not lost; the first verdict stays; bindings fit their  *)
(* model and a release freezes its draft.                                  *)
(***************************************************************************)
EXTENDS MCService, QuotesProofs, Sums

-----------------------------------------------------------------------------
(* The segmentation purchase.                                              *)

LastIsLast ==
    /\ Last \in 0 .. MaxSubmits
    /\ \A e \in Epochs : submits[e].state # "absent" <=> e <= Last
    /\ \A e \in Epochs : submits[e].task =>
          e = Last /\ submits[e].state = "accepted" /\ remote[e].state # "none"

\* What nobody asked for does not exist.
TasksWereSent ==
    \A e \in Epochs :
        /\ e > Last => remote[e].state = "none"
        /\ remote[e].state = "none" => remote[e].charge = 0

\* Whether the entry names e or an earlier attempt as one in doubt.
DoubtsUpTo(e) == entry.state = "unknown" /\ entry.attempt \in 1 .. e

LatestOpen ==
    seg.status = "running" /\ seg.at \in {"sent", "lost", "doubt"}

HiddenTasksAreDoubted ==
    \A e \in Epochs :
        remote[e].state # "none" /\ ~submits[e].task =>
            \/ DoubtsUpTo(e)
            \/ e = Last /\ LatestOpen

EntryRow == [state : {"reserved", "unknown", "settled"},
             attempt : 0 .. MaxSubmits, actual : Nat]

EntryFits ==
    /\ entry \in EntryRow
    /\ entry.state = "reserved" => entry.attempt = 0
    /\ entry.state = "unknown" => entry.attempt \in 1 .. Last
    /\ entry.state = "settled" =>
          /\ Last # 0
          /\ \A e \in Epochs : e # Last => remote[e].state = "none"
          /\ remote[Last].state # "running"
          /\ entry.actual = ModelBill + remote[Last].charge

PlaceFits ==
    LET bought == Last # 0 /\ submits[Last].task
        refused == submits[Last].state = "failed"
        unsent == Last # 0 /\ remote[Last].state = "none"
    IN  /\ seg.at = "idle" =>
              /\ seg.status # "running"
              /\ seg.status = "waiting_provider" => bought
              /\ seg.status = "submission_unknown" =>
                    Last # 0 /\ ~submits[Last].task /\ DoubtsUpTo(Last)
              /\ seg.status # "submission_unknown" => Last = 0 \/ refused \/ bought
        /\ seg.at = "start" => Last = 0 \/ refused
        /\ seg.at = "sent" =>
              unsent /\ submits[Last].state = "submitting" /\ Holding
        /\ seg.at = "refused" => unsent /\ refused
        /\ seg.at = "lost" =>
              Last # 0 /\ submits[Last].state = "submitting" /\ Holding
        /\ seg.at = "doubt" =>
              Last # 0 /\ submits[Last].state = "unknown" /\ Holding
        /\ seg.at = "park" =>
              Last # 0 /\ submits[Last].state = "unknown" /\ DoubtsUpTo(Last)
        /\ seg.at \in {"poll", "attach", "settle"} => bought
        /\ seg.at = "settle" => remote[Last].state \in {"success", "failed"}

SegInv ==
    /\ SegTypeOK
    /\ seg.at # "idle" => seg.status = "running"
    /\ LastIsLast
    /\ TasksWereSent
    /\ HiddenTasksAreDoubted
    /\ EntryFits
    /\ PlaceFits

-----------------------------------------------------------------------------
(* The latest attempt.                                                     *)

\* The greatest of the first n numbers is n.
LEMMA GreatestIs ==
    ASSUME NEW n \in Nat, NEW U, U = 1 .. n, n # 0
    PROVE  (CHOOSE e \in U : \A f \in U : f <= e) = n
<1>1. n \in U /\ \A f \in U : f <= n
  OBVIOUS
<1>2. \A e \in U : (\A f \in U : f <= e) => e = n
  BY <1>1
<1> QED
  BY <1>1, <1>2

\* The attempts used are the first ones.
LEMMA LastIs ==
    ASSUME NEW n \in 0 .. MaxSubmits, MaxSubmits \in Nat,
           \A e \in Epochs : submits[e].state # "absent" <=> e <= n
    PROVE  Last = n
<1>1. Used = 1 .. n
  BY DEF Used, Epochs
<1>2. CASE n = 0
  BY <1>1, <1>2 DEF Last
<1>3. CASE n # 0
  <2>1. Used # {}
    BY <1>1, <1>3
  <2> QED
    BY <1>1, <1>3, <2>1, GreatestIs DEF Last
<1> QED
  BY <1>2, <1>3

\* The latest attempt after a step.
LEMMA NextLastIs ==
    ASSUME NEW n \in 0 .. MaxSubmits, MaxSubmits \in Nat,
           \A e \in Epochs : submits'[e].state # "absent" <=> e <= n
    PROVE  Last' = n
<1>1. Used' = 1 .. n
  BY DEF Used, Epochs
<1>2. CASE n = 0
  BY <1>1, <1>2 DEF Last
<1>3. CASE n # 0
  <2>1. Used' # {}
    BY <1>1, <1>3
  <2> QED
    BY <1>1, <1>3, <2>1, GreatestIs DEF Last
<1> QED
  BY <1>2, <1>3

\* No attempt, and the reservation held.
LEMMA SegBegins == SegInit => SegInv
<1> SUFFICES ASSUME SegInit PROVE SegInv
  OBVIOUS
<1>1. Last = 0
  BY LastIs, SegmentationAssumption DEF SegInit, Epochs
<1>2. SegTypeOK
  BY SegmentationAssumption DEF SegInit, SegTypeOK, SegStatuses, Positions, SubmitRow, RemoteRow,
     NoRemote, Epochs
<1>3. LastIsLast /\ TasksWereSent /\ HiddenTasksAreDoubted
  BY <1>1, SegmentationAssumption
  DEF SegInit, NoRemote, Epochs, LastIsLast, TasksWereSent, HiddenTasksAreDoubted
<1>4. EntryFits /\ PlaceFits
  BY <1>1, SegmentationAssumption DEF SegInit, EntryFits, EntryRow, PlaceFits
<1> QED
  BY <1>2, <1>3, <1>4 DEF SegInv, SegInit

\* The handler only moves on: no attempt, no task and no entry changes.
LEMMA PlaceMoves ==
    ASSUME SegInv, UNCHANGED <<submits, remote, entry>>,
           seg' \in [status : SegStatuses, at : Positions],
           seg'.at # "idle" => seg'.status = "running",
           LatestOpen => LatestOpen' \/ DoubtsUpTo(Last),
           Last' = Last => PlaceFits'
    PROVE  SegInv'
<1>1. Last' = Last
  BY DEF Last, Used, Epochs
<1>2. (SegTypeOK /\ LastIsLast /\ TasksWereSent /\ EntryFits)'
  BY <1>1 DEF SegInv, SegTypeOK, LastIsLast, TasksWereSent, EntryFits
<1>3. HiddenTasksAreDoubted'
  BY <1>1 DEF SegInv, HiddenTasksAreDoubted, DoubtsUpTo
<1> QED
  BY <1>1, <1>2, <1>3 DEF SegInv

\* A worker claims the stage.
LEMMA ClaimKeeps == ASSUME SegInv, ClaimSegment PROVE SegInv'
<1>1. UNCHANGED <<submits, remote, entry>> /\ ~LatestOpen
  BY DEF ClaimSegment, LatestOpen
<1>2. Last' = Last => PlaceFits'
  BY <1>1 DEF SegInv, ClaimSegment, PlaceFits
<1> QED
  BY <1>1, <1>2, PlaceMoves DEF ClaimSegment, SegStatuses, Positions

\* A poll finds the task still running.
LEMMA PollKeeps == ASSUME SegInv, PollTask PROVE SegInv'
<1>1. UNCHANGED <<submits, remote, entry>> /\ ~LatestOpen
  BY DEF PollTask, LatestOpen
<1>2. seg.at = "poll" /\ seg.status = "running"
  BY DEF PollTask, SegInv
<1>3. seg' \in [status : SegStatuses, at : Positions]
      /\ (seg'.at # "idle" => seg'.status = "running")
  BY <1>2 DEF PollTask, SegInv, SegTypeOK, Go, Rest, SegStatuses, Positions
<1>4. Last' = Last => PlaceFits'
  BY <1>1, <1>2, <1>3 DEF SegInv, SegTypeOK, PollTask, PlaceFits, Go, Rest
<1> QED
  BY <1>1, <1>3, <1>4, PlaceMoves

\* The parts are attached, to be tried again, or stopped by an edit.
LEMMA AttachModelKeeps == ASSUME SegInv, AttachModel PROVE SegInv'
<1>1. UNCHANGED <<submits, remote, entry>> /\ ~LatestOpen
  BY DEF AttachModel, LatestOpen
<1>2. Last' = Last => PlaceFits'
  BY <1>1 DEF SegInv, AttachModel, PlaceFits, Rest
<1> QED
  BY <1>1, <1>2, PlaceMoves DEF AttachModel, Rest, SegStatuses, Positions

\* A person retries the stage.
LEMMA RetryKeeps == ASSUME SegInv, RetryStage PROVE SegInv'
<1>1. UNCHANGED <<submits, remote, entry>> /\ ~LatestOpen /\ seg.at = "idle"
  BY DEF RetryStage, LatestOpen, SegInv
<1>2. Last' = Last => PlaceFits'
  BY <1>1 DEF SegInv, RetryStage, PlaceFits, Rest
<1> QED
  BY <1>1, <1>2, PlaceMoves DEF RetryStage, Rest, SegStatuses, Positions

\* What the invariant says of the attempts in a step that writes none.
LEMMA SameAttempts ==
    ASSUME SegInv, UNCHANGED submits
    PROVE  Last' = Last /\ Last \in 0 .. MaxSubmits
BY DEF SegInv, LastIsLast, Last, Used, Epochs

\* The entry is marked for the latest attempt, the handler goes on or rests.
LEMMA MarkedFits ==
    ASSUME SegInv, Last # 0, Holding, entry' = MarkedUnknown(Last), UNCHANGED submits
    PROVE  /\ EntryFits' /\ (DoubtsUpTo(Last))' /\ Holding'
           /\ entry'.state = "unknown" /\ entry'.attempt \in 1 .. Last
           /\ \A e \in Epochs : DoubtsUpTo(e) => (DoubtsUpTo(e))'
<1>1. Last' = Last /\ Last \in 0 .. MaxSubmits
  BY SameAttempts
<1> DEFINE first == IF entry.attempt = 0 THEN Last ELSE entry.attempt
<1>2. first \in 1 .. Last /\ (entry.state = "unknown" => first = entry.attempt)
  BY <1>1 DEF SegInv, EntryFits, EntryRow, Holding
<1> DEFINE marked == [entry EXCEPT !.state = "unknown"]
<1>3. entry' = [marked EXCEPT !.attempt = first]
  BY DEF MarkedUnknown
<1> HIDE DEF first
<1>4. marked \in EntryRow /\ marked.state = "unknown"
  BY DEF SegInv, EntryFits, EntryRow
<1> HIDE DEF marked
<1>5. first \in 0 .. MaxSubmits
  BY <1>1, <1>2, SegmentationAssumption
<1>6. /\ entry' \in EntryRow
      /\ entry'.state = "unknown" /\ entry'.attempt = first
  BY <1>3, <1>4, <1>5 DEF EntryRow
<1> QED
  BY <1>1, <1>2, <1>6 DEF EntryFits, DoubtsUpTo, Holding

\* A new attempt: the one before it has failed, so nothing of it is open.
LEMMA StartKeeps == ASSUME SegInv, StartSubmit PROVE SegInv'
<1>1. CASE UNCHANGED submits /\ Rest("needs_input")
  <2>1. UNCHANGED <<submits, remote, entry>> /\ ~LatestOpen
    BY <1>1 DEF StartSubmit, LatestOpen
  <2>2. Last' = Last => PlaceFits'
    BY <1>1, <2>1 DEF SegInv, StartSubmit, PlaceFits, Rest
  <2> QED
    BY <1>1, <2>1, <2>2, PlaceMoves DEF Rest, SegStatuses, Positions
<1>2. CASE /\ Holding /\ Last < MaxSubmits
           /\ Sets(Last + 1, "submitting") /\ Go("sent")
  <2> DEFINE n == Last + 1
  <2>1. /\ Last \in 0 .. MaxSubmits /\ n \in Epochs /\ MaxSubmits \in Nat
        /\ seg.at = "start" /\ seg.status = "running"
        /\ Last = 0 \/ submits[Last].state = "failed"
        /\ UNCHANGED <<remote, entry>>
    BY <1>2, SegmentationAssumption DEF SegInv, LastIsLast, StartSubmit, PlaceFits, Epochs
  <2>2. /\ submits' \in [Epochs -> SubmitRow]
        /\ submits'[n] = [state |-> "submitting", task |-> FALSE]
        /\ \A e \in Epochs \ {n} : submits'[e] = submits[e]
    <3>1. ~submits[n].task
      BY <2>1 DEF SegInv, LastIsLast
    <3> QED
      BY <1>2, <2>1, <3>1 DEF SegInv, SegTypeOK, Sets, SubmitRow
  <2>3. Last' = n
    <3> HIDE DEF n
    <3>1. \A e \in Epochs : submits'[e].state # "absent" <=> e <= n
      BY <2>1, <2>2 DEF SegInv, LastIsLast, Epochs, n
    <3> QED
      BY <2>1, <3>1, NextLastIs DEF Epochs
  <2>4. seg' = [status |-> "running", at |-> "sent"]
    BY <1>2, <2>1 DEF SegInv, SegTypeOK, Go
  <2>5. \A e \in Epochs : ~submits[e].task
    BY <2>1 DEF SegInv, LastIsLast, Epochs
  <2> HIDE DEF n
  <2>6. SegTypeOK' /\ LastIsLast' /\ TasksWereSent'
    BY <2>1, <2>2, <2>3, <2>4, <2>5
    DEF SegInv, SegTypeOK, LastIsLast, TasksWereSent, Epochs, SegStatuses, Positions, n
  <2>7. \A e \in Epochs : remote[e].state # "none" => DoubtsUpTo(e)
    BY <2>1, <2>5 DEF SegInv, HiddenTasksAreDoubted, LatestOpen
  <2>8. HiddenTasksAreDoubted'
    BY <2>1, <2>7 DEF HiddenTasksAreDoubted, DoubtsUpTo
  <2>9. EntryFits'
    BY <1>2, <2>1, <2>3 DEF SegInv, EntryFits, EntryRow, Holding, n
  <2>10. PlaceFits'
    <3>1. remote[n].state = "none"
      BY <2>1 DEF SegInv, TasksWereSent, n
    <3> QED
      BY <1>2, <2>1, <2>2, <2>3, <2>4, <3>1 DEF PlaceFits, Holding, Epochs
  <2> QED
    BY <2>4, <2>6, <2>8, <2>9, <2>10 DEF SegInv
<1> QED
  BY <1>1, <1>2 DEF StartSubmit

\* What is left to show when the latest attempt, its task or its entry changed.
LEMMA LatestMoves ==
    ASSUME SegInv, Last # 0, NEW row \in SubmitRow, NEW answer \in RemoteRow,
           submits' = [submits EXCEPT ![Last] = row], row.state # "absent",
           remote' = [remote EXCEPT ![Last] = answer],
           row.task => row.state = "accepted" /\ answer.state # "none",
           answer.state = "none" => answer.charge = 0,
           seg' \in [status : SegStatuses, at : Positions],
           seg'.at # "idle" => seg'.status = "running"
    PROVE  /\ Last' = Last /\ Last \in Epochs
           /\ submits'[Last] = row /\ remote'[Last] = answer
           /\ \A e \in Epochs : e # Last => submits'[e] = submits[e] /\ remote'[e] = remote[e]
           /\ LastIsLast' /\ TasksWereSent'
           /\ submits' \in [Epochs -> SubmitRow] /\ remote' \in [Epochs -> RemoteRow]
<1>1. Last \in Epochs /\ MaxSubmits \in Nat
  BY SegmentationAssumption DEF SegInv, LastIsLast, Epochs
<1>2. /\ submits' \in [Epochs -> SubmitRow] /\ submits'[Last] = row
      /\ remote' \in [Epochs -> RemoteRow] /\ remote'[Last] = answer
      /\ \A e \in Epochs : e # Last => submits'[e] = submits[e] /\ remote'[e] = remote[e]
  BY <1>1 DEF SegInv, SegTypeOK
<1>3. \A e \in Epochs : submits'[e].state # "absent" <=> e <= Last
  BY <1>1, <1>2 DEF SegInv, LastIsLast
<1>4. Last' = Last
  BY <1>1, <1>3, NextLastIs DEF Epochs
<1>5. LastIsLast' /\ TasksWereSent'
  BY <1>1, <1>2, <1>3, <1>4 DEF SegInv, LastIsLast, TasksWereSent, Epochs
<1> QED
  BY <1>1, <1>2, <1>4, <1>5

\* The answer to a request, or none.
LEMMA SendKeeps == ASSUME SegInv, Send PROVE SegInv'
<1> DEFINE old == submits[Last]
           there == [remote[Last] EXCEPT !.state = "running"]
<1>1. /\ seg.at = "sent" /\ seg.status = "running" /\ Last # 0 /\ Last \in Epochs
      /\ old.state = "submitting" /\ ~old.task /\ old \in SubmitRow
      /\ remote[Last].state = "none" /\ remote[Last].charge = 0
      /\ remote[Last] \in RemoteRow /\ Holding /\ UNCHANGED entry
  BY SegmentationAssumption DEF Send, SegInv, SegTypeOK, PlaceFits, LastIsLast, TasksWereSent, Epochs
<1>2. there \in RemoteRow /\ there.state = "running"
  BY <1>1 DEF RemoteRow
<1> DEFINE got == [state |-> "accepted", task |-> TRUE]
           failed == [old EXCEPT !.state = "failed"]
<1>3. /\ got \in SubmitRow /\ failed \in SubmitRow
      /\ failed.state = "failed" /\ ~failed.task
      /\ got.state = "accepted" /\ got.task
  BY <1>1 DEF SubmitRow
<1>4. PICK row \in {got, failed, old}, answer \in {there, remote[Last]} :
          /\ submits' = [submits EXCEPT ![Last] = row]
          /\ remote' = [remote EXCEPT ![Last] = answer]
          /\ \/ row = got /\ answer = there
                /\ seg' = [status |-> "waiting_provider", at |-> "idle"]
             \/ row = failed /\ answer = remote[Last]
                /\ seg' = [status |-> "queued", at |-> "idle"]
             \/ row = failed /\ answer = remote[Last]
                /\ seg' = [status |-> "running", at |-> "refused"]
             \/ row = old /\ seg' = [status |-> "running", at |-> "lost"]
  <2>1. submits = [submits EXCEPT ![Last] = old] /\ remote = [remote EXCEPT ![Last] = remote[Last]]
    BY DEF SegInv, SegTypeOK
  <2>2. \A at : Go(at) => seg' = [status |-> "running", at |-> at]
    BY <1>1 DEF Go, SegInv, SegTypeOK
  <2>3. Sets(Last, "failed") => submits' = [submits EXCEPT ![Last] = failed]
    BY DEF Sets
  <2>4. NewTask(Last) => remote' = [remote EXCEPT ![Last] = there]
    BY DEF NewTask
  <2> HIDE DEF old, there, failed, got
  <2>5. CASE NewTask(Last) /\ submits' = [submits EXCEPT ![Last] = got] /\ Rest("waiting_provider")
    BY <2>4, <2>5 DEF Rest
  <2>6. CASE UNCHANGED remote /\ Sets(Last, "failed") /\ Rest("queued")
    BY <2>1, <2>3, <2>6 DEF Rest
  <2>7. CASE UNCHANGED remote /\ Sets(Last, "failed") /\ Go("refused")
    BY <2>1, <2>2, <2>3, <2>7
  <2>8. CASE (NewTask(Last) \/ UNCHANGED remote) /\ UNCHANGED submits /\ Go("lost")
    BY <2>1, <2>2, <2>4, <2>8
  <2> QED
    BY <2>5, <2>6, <2>7, <2>8 DEF Send, got
<1> HIDE DEF old, there, failed, got
<1>5. /\ row \in SubmitRow /\ answer \in RemoteRow /\ row.state # "absent"
      /\ row.task => row.state = "accepted" /\ answer.state # "none"
      /\ answer.state = "none" => answer.charge = 0
      /\ seg' \in [status : SegStatuses, at : Positions]
      /\ seg'.at # "idle" => seg'.status = "running"
  <2>1. seg' \in [status : SegStatuses, at : Positions]
        /\ (seg'.at # "idle" => seg'.status = "running")
    BY <1>4 DEF SegStatuses, Positions
  <2>2. answer \in RemoteRow /\ (answer.state = "none" => answer.charge = 0)
        /\ (row.task => answer.state # "none")
    BY <1>1, <1>2, <1>3, <1>4
  <2>3. row \in SubmitRow /\ row.state # "absent"
    BY <1>1, <1>3, <1>4
  <2>4. row.task => row.state = "accepted"
    <3>1. row = got \/ ~row.task
      BY <1>1, <1>3, <1>4
    <3> QED
      BY <1>3, <3>1
  <2> QED
    BY <2>1, <2>2, <2>3, <2>4
<1>6. /\ Last' = Last /\ submits'[Last] = row /\ remote'[Last] = answer
      /\ \A e \in Epochs : e # Last => submits'[e] = submits[e] /\ remote'[e] = remote[e]
      /\ LastIsLast' /\ TasksWereSent'
      /\ submits' \in [Epochs -> SubmitRow] /\ remote' \in [Epochs -> RemoteRow]
  BY <1>1, <1>4, <1>5, LatestMoves
<1>7. SegTypeOK' /\ EntryFits'
  BY <1>1, <1>5, <1>6 DEF SegInv, SegTypeOK, EntryFits, Holding
<1>8. HiddenTasksAreDoubted'
  BY <1>1, <1>2, <1>3, <1>4, <1>6 DEF SegInv, HiddenTasksAreDoubted, DoubtsUpTo, LatestOpen
<1>9. PlaceFits'
  BY <1>1, <1>2, <1>3, <1>4, <1>6 DEF PlaceFits, Holding
<1> QED
  BY <1>5, <1>6, <1>7, <1>8, <1>9 DEF SegInv

\* Settling: only what is in doubt elsewhere prevents it.
LEMMA SettledFits ==
    ASSUME SegInv, Last # 0, NEW charge \in Nat,
           entry' = SettledFor(Last, charge), UNCHANGED <<submits, remote>>,
           remote[Last].charge = charge, remote[Last].state # "running",
           submits[Last].task \/ (submits[Last].state = "failed" /\ remote[Last].state = "none"),
           seg' \in [status : SegStatuses, at : Positions],
           seg'.at # "idle" => seg'.status = "running",
           ~LatestOpen, ~LatestOpen', Last' = Last => PlaceFits'
    PROVE  SegInv'
<1>1. Last' = Last /\ Last \in Epochs
  BY SameAttempts DEF Epochs
<1>2. CASE entry' = entry
  BY <1>2, PlaceMoves
<1>3. CASE entry' # entry
  <2> DEFINE bill == ModelBill + charge
  <2>1. /\ Holding /\ (entry.state = "unknown" => entry.attempt = Last)
        /\ entry' = [[entry EXCEPT !.state = "settled"] EXCEPT !.actual = bill]
    BY <1>3 DEF SettledFor
  <2>2. bill \in Nat
    BY SegmentationAssumption
  <2> HIDE DEF bill
  <2>3. [entry EXCEPT !.state = "settled"] \in EntryRow
    BY DEF SegInv, EntryFits, EntryRow
  <2>4. entry' \in EntryRow /\ entry'.state = "settled" /\ entry'.actual = bill
    BY <2>1, <2>2, <2>3, Zenon DEF EntryRow
  <2>5. \A e \in Epochs : remote[e].state # "none" /\ ~submits[e].task => e = Last
    BY <1>1, <2>1 DEF SegInv, HiddenTasksAreDoubted, TasksWereSent, DoubtsUpTo, EntryFits,
                      Holding, Epochs
  <2>6. \A e \in Epochs : e # Last => remote[e].state = "none"
    BY <2>5 DEF SegInv, LastIsLast
  <2>7. EntryFits'
    BY <1>1, <2>2, <2>4, <2>6 DEF EntryFits, bill
  <2>8. HiddenTasksAreDoubted'
    BY <1>1, <2>5 DEF HiddenTasksAreDoubted, SegInv
  <2>9. (SegTypeOK /\ LastIsLast /\ TasksWereSent)'
    BY <1>1, <2>4 DEF SegInv, SegTypeOK, LastIsLast, TasksWereSent, EntryRow
  <2> QED
    BY <1>1, <2>7, <2>8, <2>9 DEF SegInv
<1> QED
  BY <1>2, <1>3

\* A refusal before the request was processed is settled.
LEMMA RefusedKeeps == ASSUME SegInv, SettleRefused PROVE SegInv'
<1>1. /\ seg.at = "refused" /\ Last # 0 /\ Last \in Epochs /\ remote[Last].state = "none"
      /\ submits[Last].state = "failed" /\ remote[Last].charge = 0
      /\ seg' = [status |-> "failed", at |-> "idle"] /\ UNCHANGED <<submits, remote>>
      /\ entry' = SettledFor(Last, 0)
  <2>1. seg.at = "refused" /\ UNCHANGED <<submits, remote>>
    BY DEF SettleRefused
  <2>2. Last # 0 /\ Last \in Epochs
    BY <2>1, SameAttempts DEF SegInv, PlaceFits, Epochs
  <2> QED
    BY <2>1, <2>2 DEF SegInv, SettleRefused, PlaceFits, TasksWereSent, Rest
<1>2. ~LatestOpen /\ ~LatestOpen' /\ (Last' = Last => PlaceFits')
  BY <1>1 DEF LatestOpen, PlaceFits
<1>3. seg' \in [status : SegStatuses, at : Positions]
  BY <1>1 DEF SegStatuses, Positions
<1> QED
  BY <1>1, <1>2, <1>3, SettledFits

\* What the provider charges is a number.
LEMMA ChargeIsNat ==
    ASSUME remote \in [Epochs -> RemoteRow], NEW e \in Epochs
    PROVE  remote[e].charge \in Nat
<1>1. remote[e].charge \in Charges \cup {0}
  <2>1. remote[e] \in RemoteRow
    OBVIOUS
  <2> QED
    BY <2>1 DEF RemoteRow
<1>2. \A c \in Charges \cup {0} : c \in Nat
  <2>1. Charges \subseteq Nat
    BY SegmentationAssumption, Zenon
  <2> QED
    BY <2>1
<1> QED
  BY <1>1, <1>2

\* The end of the task is settled with its charge.
LEMMA PolledKeeps == ASSUME SegInv, SettlePolled PROVE SegInv'
<1>1. /\ seg.at = "settle" /\ seg.status = "running" /\ Last # 0 /\ Last \in Epochs
      /\ submits[Last].task /\ remote[Last].state \in {"success", "failed"}
      /\ remote[Last].charge \in Nat
      /\ UNCHANGED <<submits, remote>>
      /\ entry' = SettledFor(Last, remote[Last].charge) \/ entry' = entry
  <2>1. seg.at = "settle" /\ seg.status = "running" /\ UNCHANGED <<submits, remote>>
    BY DEF SettlePolled, SegInv
  <2>2. Last # 0 /\ Last \in Epochs
    BY <2>1, SameAttempts DEF SegInv, PlaceFits, Epochs
  <2>3. remote[Last].charge \in Nat
    BY <2>2, ChargeIsNat DEF SegInv, SegTypeOK
  <2> QED
    BY <2>1, <2>2, <2>3 DEF SegInv, SettlePolled, PlaceFits
<1>2. seg' \in {[status |-> "failed", at |-> "idle"], [status |-> "running", at |-> "attach"]}
  BY <1>1 DEF SegInv, SegTypeOK, SettlePolled, Rest, Go
<1>3. ~LatestOpen /\ ~LatestOpen' /\ (Last' = Last => PlaceFits')
  BY <1>1, <1>2 DEF LatestOpen, PlaceFits
<1>4. /\ seg' \in [status : SegStatuses, at : Positions]
      /\ seg'.at # "idle" => seg'.status = "running"
  BY <1>2 DEF SegStatuses, Positions
<1>5. CASE entry' = entry
  BY <1>1, <1>3, <1>4, <1>5, PlaceMoves
<1>6. CASE entry' = SettledFor(Last, remote[Last].charge)
  <2>1. PICK charge \in Nat : charge = remote[Last].charge
    BY <1>1
  <2>2. entry' = SettledFor(Last, charge) /\ remote[Last].charge = charge
    BY <1>6, <2>1
  <2>3. remote[Last].state # "running"
    BY <1>1
  <2>4. /\ submits[Last].task \/ (submits[Last].state = "failed" /\ remote[Last].state = "none")
        /\ Last # 0 /\ UNCHANGED <<submits, remote>>
    BY <1>1
  <2>5. ~LatestOpen /\ ~LatestOpen'
    BY <1>3
  <2>6. Last' = Last => PlaceFits'
    BY <1>3
  <2> QED
    BY <1>4, <2>2, <2>3, <2>4, <2>5, <2>6, SettledFits
<1> QED
  BY <1>1, <1>5, <1>6

\* An answer that never came: the attempt, then the entry, then the stage.
LEMMA LostKeeps == ASSUME SegInv, MarkLost PROVE SegInv'
<1>1. seg.status = "running" /\ seg.at \in {"lost", "doubt", "park"}
  BY DEF MarkLost, SegInv
<1>2. \A at : Go(at) => seg' = [status |-> "running", at |-> at]
  BY <1>1 DEF Go, SegInv, SegTypeOK
<1>3. Last # 0 /\ Last \in Epochs
  BY <1>1, SegmentationAssumption DEF SegInv, PlaceFits, LastIsLast, Epochs
<1>4. CASE seg.at = "lost"
  <2> DEFINE row == [submits[Last] EXCEPT !.state = "unknown"]
  <2>1. /\ Sets(Last, "unknown") /\ UNCHANGED <<remote, entry>> /\ Holding
        /\ seg' = [status |-> "running", at |-> "doubt"]
        /\ submits[Last].state = "submitting"
    BY <1>2, <1>4 DEF MarkLost, SegInv, PlaceFits
  <2>2. submits[Last] \in SubmitRow /\ remote[Last] \in RemoteRow /\ ~submits[Last].task
    BY <1>3, <2>1 DEF SegInv, SegTypeOK, LastIsLast
  <2>3. row \in SubmitRow /\ row.state = "unknown" /\ ~row.task
    BY <2>2 DEF SubmitRow
  <2>4. /\ submits' = [submits EXCEPT ![Last] = row]
        /\ remote' = [remote EXCEPT ![Last] = remote[Last]]
    BY <2>1 DEF Sets, SegInv, SegTypeOK
  <2>5. seg' \in [status : SegStatuses, at : Positions]
        /\ (seg'.at # "idle" => seg'.status = "running")
    BY <2>1 DEF SegStatuses, Positions
  <2>6. remote[Last].state = "none" => remote[Last].charge = 0
    BY <1>3 DEF SegInv, TasksWereSent
  <2> HIDE DEF row
  <2>7. /\ Last' = Last /\ submits'[Last] = row /\ remote' = remote
        /\ \A e \in Epochs : e # Last => submits'[e] = submits[e]
        /\ LastIsLast' /\ TasksWereSent' /\ submits' \in [Epochs -> SubmitRow]
    BY <1>3, <2>1, <2>2, <2>3, <2>4, <2>5, <2>6, LatestMoves
  <2>8. SegTypeOK' /\ EntryFits'
    BY <2>1, <2>5, <2>7 DEF SegInv, SegTypeOK, EntryFits
  <2>9. HiddenTasksAreDoubted'
    BY <1>3, <2>1, <2>7 DEF SegInv, HiddenTasksAreDoubted, DoubtsUpTo, LatestOpen
  <2>10. PlaceFits'
    BY <1>3, <2>1, <2>3, <2>7 DEF PlaceFits, Holding
  <2> QED
    BY <2>5, <2>7, <2>8, <2>9, <2>10 DEF SegInv
<1>5. CASE seg.at = "doubt"
  <2>1. /\ entry' = MarkedUnknown(Last) /\ UNCHANGED <<submits, remote>> /\ Holding
        /\ submits[Last].state = "unknown" /\ seg' = [status |-> "running", at |-> "park"]
    BY <1>2, <1>5 DEF MarkLost, SegInv, PlaceFits
  <2>2. Last' = Last
    BY <2>1, SameAttempts
  <2>3. /\ EntryFits' /\ (DoubtsUpTo(Last))' /\ entry'.state = "unknown"
        /\ entry'.attempt \in 1 .. Last
        /\ \A e \in Epochs : DoubtsUpTo(e) => (DoubtsUpTo(e))'
    BY <1>3, <2>1, MarkedFits
  <2>4. SegTypeOK' /\ (seg'.at # "idle" => seg'.status = "running")
    BY <2>1, <2>3 DEF SegInv, SegTypeOK, EntryFits, EntryRow, SegStatuses, Positions
  <2>5. HiddenTasksAreDoubted'
    BY <2>1, <2>2, <2>3 DEF SegInv, HiddenTasksAreDoubted, DoubtsUpTo
  <2>6. PlaceFits'
    BY <1>3, <2>1, <2>2, <2>3 DEF PlaceFits, DoubtsUpTo
  <2> QED
    BY <2>1, <2>2, <2>3, <2>4, <2>5, <2>6 DEF SegInv, LastIsLast, TasksWereSent
<1>6. CASE seg.at = "park"
  <2>1. /\ UNCHANGED <<submits, remote, entry>> /\ ~LatestOpen
        /\ seg' = [status |-> "submission_unknown", at |-> "idle"]
    BY <1>6 DEF MarkLost, LatestOpen, Rest
  <2>2. Last' = Last => PlaceFits'
    BY <1>3, <1>6, <2>1 DEF SegInv, PlaceFits, DoubtsUpTo, LastIsLast
  <2>3. seg' \in [status : SegStatuses, at : Positions] /\ seg'.at = "idle"
    BY <2>1 DEF SegStatuses, Positions
  <2> QED
    BY <2>1, <2>2, <2>3, PlaceMoves
<1> QED
  BY <1>1, <1>4, <1>5, <1>6

\* The provider ends a task: an ended one is never the one still running.
LEMMA TaskEndKeeps == ASSUME SegInv, NEW e \in Epochs, TaskEnds(e) PROVE SegInv'
<1>1. UNCHANGED <<seg, submits, entry>> /\ remote[e].state = "running"
  BY DEF TaskEnds
<1>2. Last' = Last /\ Last \in 0 .. MaxSubmits
  BY <1>1, SameAttempts
<1>3. /\ remote' \in [Epochs -> RemoteRow]
      /\ remote'[e].state \in {"success", "failed"}
      /\ \A f \in Epochs : f # e => remote'[f] = remote[f]
  BY DEF TaskEnds, SegInv, SegTypeOK, RemoteRow
<1>4. entry.state # "settled"
  BY <1>1 DEF SegInv, EntryFits
<1>5. SegTypeOK' /\ LastIsLast' /\ TasksWereSent'
  BY <1>1, <1>2, <1>3 DEF SegInv, SegTypeOK, LastIsLast, TasksWereSent
<1>6. HiddenTasksAreDoubted'
  BY <1>1, <1>2, <1>3 DEF SegInv, HiddenTasksAreDoubted, DoubtsUpTo, LatestOpen
<1>7. EntryFits'
  BY <1>1, <1>2, <1>4 DEF SegInv, EntryFits
<1>8. PlaceFits'
  <2>1. Last # 0 => Last \in Epochs
    BY <1>2, SegmentationAssumption DEF Epochs
  <2>2. Last = e => Last # 0 /\ remote'[Last].state \in {"success", "failed"}
    BY <1>3 DEF Epochs
  <2>3. Last # 0 /\ Last # e => remote'[Last] = remote[Last]
    BY <1>3, <2>1
  <2>4. /\ (Last # 0 /\ remote'[Last].state = "none") <=> (Last # 0 /\ remote[Last].state = "none")
        /\ seg.at = "settle" => remote'[Last].state \in {"success", "failed"}
    BY <1>1, <2>2, <2>3 DEF SegInv, PlaceFits
  <2> QED
    BY <1>1, <1>2, <2>4 DEF SegInv, PlaceFits, DoubtsUpTo, Holding
<1> QED
  BY <1>1, <1>5, <1>6, <1>7, <1>8 DEF SegInv

\* The process dies: a request without an answer is in doubt from now on.
LEMMA SegCrashKeeps == ASSUME SegInv, SegCrash PROVE SegInv'
<1>1. seg.status = "running" /\ seg.at # "idle" /\ UNCHANGED <<submits, remote>>
  BY DEF SegCrash, SegInv, PlaceFits
<1>2. Last' = Last /\ Last \in 0 .. MaxSubmits
  BY <1>1, SameAttempts
<1> DEFINE open == Last # 0 /\ ~submits[Last].task
                   /\ submits[Last].state \in {"submitting", "unknown"}
<1>3. CASE open
  <2>1. Last # 0 /\ Last \in Epochs /\ Holding
    BY <1>1, <1>2, <1>3, SegmentationAssumption
    DEF SegInv, SegTypeOK, PlaceFits, Positions, DoubtsUpTo, Holding, Epochs
  <2>2. entry' = MarkedUnknown(Last) /\ seg' = [status |-> "submission_unknown", at |-> "idle"]
    BY <1>3 DEF SegCrash, Rest
  <2>3. /\ EntryFits' /\ (DoubtsUpTo(Last))' /\ entry'.state = "unknown"
        /\ entry'.attempt \in 1 .. Last
        /\ \A e \in Epochs : DoubtsUpTo(e) => (DoubtsUpTo(e))'
    BY <1>1, <2>1, <2>2, MarkedFits
  <2>4. SegTypeOK' /\ seg'.at = "idle"
    BY <1>1, <2>2, <2>3 DEF SegInv, SegTypeOK, EntryFits, EntryRow, SegStatuses, Positions
  <2>5. HiddenTasksAreDoubted'
    BY <1>1, <1>2, <2>3 DEF SegInv, HiddenTasksAreDoubted, DoubtsUpTo
  <2>6. PlaceFits'
    BY <1>1, <1>2, <1>3, <2>1, <2>2, <2>3 DEF PlaceFits, DoubtsUpTo
  <2> QED
    BY <1>1, <1>2, <2>3, <2>4, <2>5, <2>6 DEF SegInv, LastIsLast, TasksWereSent
<1>4. CASE ~open
  <2>1. UNCHANGED entry /\ seg' = [status |-> "queued", at |-> "idle"]
    BY <1>4 DEF SegCrash, Rest
  <2>2. seg.at \notin {"sent", "lost", "doubt", "park"}
    <3>1. seg.at \in {"sent", "lost", "doubt", "park"} =>
              Last # 0 /\ submits[Last].state \in {"submitting", "unknown"}
      BY DEF SegInv, PlaceFits
    <3>2. Last # 0 /\ submits[Last].state \in {"submitting", "unknown"} => ~submits[Last].task
      BY <1>2, SegmentationAssumption DEF SegInv, LastIsLast, Epochs
    <3> QED
      BY <1>4, <3>1, <3>2
  <2>3. Last = 0 \/ submits[Last].state = "failed" \/ submits[Last].task
    BY <1>1, <2>2 DEF SegInv, SegTypeOK, Positions, PlaceFits
  <2>4. ~LatestOpen /\ (Last' = Last => PlaceFits')
    BY <1>1, <2>1, <2>2, <2>3 DEF LatestOpen, PlaceFits
  <2>5. seg' \in [status : SegStatuses, at : Positions] /\ seg'.at = "idle"
    BY <2>1 DEF SegStatuses, Positions
  <2> QED
    BY <1>1, <2>1, <2>4, <2>5, PlaceMoves
<1> QED
  BY <1>3, <1>4

\* An unknown submission is reconciled: with its task, or given up.
LEMMA ReconcileKeeps == ASSUME SegInv, ReconcileStage PROVE SegInv'
<1>1. /\ seg.status = "submission_unknown" /\ seg.at = "idle" /\ Last # 0
      /\ DoubtsUpTo(Last) /\ ~submits[Last].task /\ UNCHANGED <<remote, entry>>
  BY DEF ReconcileStage, SegInv, PlaceFits
<1>2. Last \in Epochs /\ submits[Last] \in SubmitRow /\ remote[Last] \in RemoteRow
  BY <1>1, SegmentationAssumption DEF SegInv, SegTypeOK, LastIsLast, Epochs
<1> DEFINE got == [state |-> "accepted", task |-> TRUE]
           failed == [submits[Last] EXCEPT !.state = "failed"]
<1>3. got \in SubmitRow /\ got.state = "accepted" /\ got.task
  BY DEF SubmitRow
<1>4. failed \in SubmitRow /\ failed.state = "failed" /\ ~failed.task
  BY <1>1, <1>2 DEF SubmitRow
<1>5. remote' = [remote EXCEPT ![Last] = remote[Last]]
  BY <1>1 DEF SegInv, SegTypeOK
<1>6. PICK row \in {got, failed} :
          /\ submits' = [submits EXCEPT ![Last] = row]
          /\ row = got => remote[Last].state # "none" /\ seg'.status = "queued"
          /\ seg' \in {[status |-> "queued", at |-> "idle"], [status |-> "needs_input", at |-> "idle"]}
  <2> HIDE DEF got
  <2>1. Sets(Last, "failed") => submits' = [submits EXCEPT ![Last] = failed]
    BY DEF Sets
  <2>2. got # failed
    BY <1>3, <1>4
  <2> HIDE DEF failed
  <2>3. CASE /\ remote[Last].state # "none" /\ Rest("queued")
             /\ submits' = [submits EXCEPT ![Last] = [state |-> "accepted", task |-> TRUE]]
    BY <2>3 DEF Rest, got
  <2>4. CASE Sets(Last, "failed") /\ (Rest("needs_input") \/ Rest("queued"))
    BY <2>1, <2>2, <2>4 DEF Rest
  <2> QED
    BY <2>3, <2>4 DEF ReconcileStage
<1> HIDE DEF got, failed
<1>7. /\ row \in SubmitRow /\ row.state # "absent"
      /\ row.task => row.state = "accepted" /\ remote[Last].state # "none"
      /\ row.state = "failed" \/ (row = got /\ row.task)
  <2>1. row = got \/ (row.state = "failed" /\ ~row.task /\ row \in SubmitRow)
    BY <1>4, <1>6
  <2>2. CASE row = got
    BY <1>3, <1>6, <2>2
  <2> QED
    BY <2>1, <2>2
<1>8. seg' \in [status : SegStatuses, at : Positions] /\ seg'.at = "idle"
  BY <1>6 DEF SegStatuses, Positions
<1>9. remote[Last].state = "none" => remote[Last].charge = 0
  BY <1>2 DEF SegInv, TasksWereSent
<1>10. /\ Last' = Last /\ submits'[Last] = row
       /\ \A e \in Epochs : e # Last => submits'[e] = submits[e]
       /\ LastIsLast' /\ TasksWereSent' /\ submits' \in [Epochs -> SubmitRow]
  BY <1>1, <1>2, <1>5, <1>6, <1>7, <1>8, <1>9, LatestMoves
<1>11. SegTypeOK' /\ EntryFits'
  BY <1>1, <1>8, <1>10 DEF SegInv, SegTypeOK, EntryFits
<1>12. HiddenTasksAreDoubted'
  BY <1>1, <1>10 DEF SegInv, HiddenTasksAreDoubted, DoubtsUpTo, LatestOpen
<1>13. PlaceFits'
  BY <1>1, <1>6, <1>7, <1>10 DEF PlaceFits
<1> QED
  BY <1>8, <1>10, <1>11, <1>12, <1>13 DEF SegInv

\* Every step of the stage keeps the invariant.
LEMMA SegStep == ASSUME SegInv, [SegNext]_segVars PROVE SegInv'
<1>1. CASE UNCHANGED segVars
  <2>1. UNCHANGED <<seg, submits, remote, entry>> /\ (LatestOpen => LatestOpen')
    BY <1>1 DEF segVars, LatestOpen
  <2>2. Last' = Last => PlaceFits'
    BY <2>1 DEF SegInv, PlaceFits, DoubtsUpTo, Holding
  <2> QED
    BY <2>1, <2>2, PlaceMoves DEF SegInv, SegTypeOK
<1> QED
  BY <1>1, ClaimKeeps, StartKeeps, SendKeeps, RefusedKeeps, LostKeeps, PollKeeps, PolledKeeps,
     AttachModelKeeps, TaskEndKeeps, SegCrashKeeps, RetryKeeps, ReconcileKeeps DEF SegNext

-----------------------------------------------------------------------------
(* What follows.                                                           *)

\* The stage, its attempts, the tasks and the entry keep their types.
THEOREM SegmentationTyped == SegSpec => []SegTypeOK
<1>1. SegInv => SegTypeOK
  BY DEF SegInv
<1> QED
  BY <1>1, SegBegins, SegStep, PTL DEF SegSpec

\* Whatever is retried, replaced or settled, a task whose acceptance was
\* never recorded keeps the reservation held.
THEOREM HiddenTaskHolds == SegSpec => []UnknownTaskHoldsReserve
<1>1. ASSUME SegInv PROVE UnknownTaskHoldsReserve
  <2>1. LatestOpen => Holding
    BY <1>1 DEF SegInv, LatestOpen, PlaceFits
  <2> QED
    BY <1>1, <2>1 DEF SegInv, UnknownTaskHoldsReserve, HiddenTasksAreDoubted, DoubtsUpTo, Holding
<1> QED
  BY <1>1, SegBegins, SegStep, PTL DEF SegSpec

\* The recursive sum is one.
LEMMA TotalChargeIs ==
    ASSUME MaxSubmits \in Nat
    PROVE  \E s : IsSum(s, [e \in Epochs |-> remote[e].charge], MaxSubmits)
                  /\ TotalCharge = s[MaxSubmits]
<1> DEFINE c == [e \in Epochs |-> remote[e].charge]
           Adds(s) == s = [e \in 0 .. MaxSubmits |->
                              IF e = 0 THEN 0 ELSE s[e - 1] + remote[e].charge]
<1>1. \A s : IsSum(s, c, MaxSubmits) <=> Adds(s)
  <2> SUFFICES ASSUME NEW s PROVE IsSum(s, c, MaxSubmits) <=> Adds(s)
    OBVIOUS
  <2>1. \A e \in 0 .. MaxSubmits : e # 0 => c[e] = remote[e].charge
    BY DEF Epochs
  <2> HIDE DEF c
  <2>2. [e \in 0 .. MaxSubmits |-> IF e = 0 THEN 0 ELSE s[e - 1] + c[e]]
        = [e \in 0 .. MaxSubmits |-> IF e = 0 THEN 0 ELSE s[e - 1] + remote[e].charge]
    BY <2>1
  <2> QED
    BY <2>2 DEF IsSum
<1>2. \E s : IsSum(s, c, MaxSubmits)
  <2> HIDE DEF c
  <2> QED
    BY SumExists
<1> HIDE DEF c
<1>3. Adds(CHOOSE s : Adds(s))
  <2>1. \E s : Adds(s)
    BY <1>1, <1>2
  <2> HIDE DEF Adds
  <2> QED
    BY <2>1
<1>4. TotalCharge = (CHOOSE s : Adds(s))[MaxSubmits]
  BY DEF TotalCharge
<1> HIDE DEF Adds
<1>5. IsSum(CHOOSE s : Adds(s), c, MaxSubmits)
  BY <1>1, <1>3
<1> QED
  BY <1>4, <1>5 DEF c

\* A settled reservation shows the model's bill and that of every task the
\* provider ever accepted, and none of these is still running.
THEOREM WholeBillIsSettled == SegSpec => []SettledIsTheWholeBill
<1>1. ASSUME SegInv PROVE SettledIsTheWholeBill
  <2> SUFFICES ASSUME entry.state = "settled"
               PROVE  /\ entry.actual = ModelBill + TotalCharge
                      /\ \A e \in Epochs : remote[e].state # "running"
    BY DEF SettledIsTheWholeBill
  <2>1. /\ Last \in Epochs /\ MaxSubmits \in Nat /\ remote[Last].charge \in Nat
        /\ \A e \in Epochs : e # Last => remote[e].state = "none" /\ remote[e].charge = 0
        /\ remote[Last].state # "running"
        /\ entry.actual = ModelBill + remote[Last].charge
    <3>1. Last \in Epochs /\ MaxSubmits \in Nat
      BY <1>1, SegmentationAssumption DEF SegInv, EntryFits, LastIsLast, Epochs
    <3>2. remote[Last].charge \in Nat
      BY <1>1, <3>1, ChargeIsNat DEF SegInv, SegTypeOK
    <3> QED
      BY <1>1, <3>1, <3>2 DEF SegInv, EntryFits, TasksWereSent
  <2> DEFINE c == [e \in Epochs |-> remote[e].charge]
  <2>2. PICK s : IsSum(s, c, MaxSubmits) /\ TotalCharge = s[MaxSubmits]
    BY <2>1, TotalChargeIs
  <2>3. c[Last] = remote[Last].charge /\ \A e \in Epochs : e # Last => c[e] = 0
    BY <2>1
  <2> HIDE DEF c
  <2>4. s[MaxSubmits] = c[Last]
    BY <2>1, <2>2, <2>3, SumOfOne DEF Epochs
  <2> QED
    BY <2>1, <2>2, <2>3, <2>4
<1> QED
  BY <1>1, SegBegins, SegStep, PTL DEF SegSpec

-----------------------------------------------------------------------------
(* The photos of an item.                                                  *)

Live(t) == t = 0 \/ Exists(t)
RowsOf(t) == IF t = 0 THEN ItemRow ELSE PhotoRow

\* What a tab knows: its row was there once, the handler read it later, and two
\* sights of one row under one revision are the same sight.
TabKnows(ed) ==
    /\ ed.step \in {"shown", "patching"}
    /\ ed.target \in 0 .. issued
    /\ ed.shown \in RowsOf(ed.target)
    /\ Live(ed.target) =>
          /\ ed.shown.rev <= Row(ed.target).rev
          /\ ed.shown.rev = Row(ed.target).rev => ed.shown = Row(ed.target)
    /\ ed.step = "patching" =>
          /\ ed.field \in Changes(ed.target) /\ ed.value \in Values(ed.field)
          /\ ed.read \in RowsOf(ed.target)
          /\ ed.shown.rev <= ed.read.rev
          /\ ed.shown.rev = ed.read.rev => ed.shown = ed.read
          /\ Live(ed.target) => ed.read.rev <= Row(ed.target).rev

IssuedOnly == \A p \in PhotoIds : Exists(p) => p <= issued

GalleryInv ==
    /\ GalleryTypeOK
    /\ IssuedOnly
    /\ OnePhotoPerView
    /\ editor = [e \in Editors |-> editor[e]]
    /\ \A e \in Editors : editor[e] # Absent => TabKnows(editor[e])

\* A row that is there either stays as it is or counts its revision on, and no
\* issued id comes back.
RowsGrow ==
    /\ issued \in Nat /\ issued' \in issued .. MaxPhotos
    /\ \A t \in 0 .. issued :
          (Live(t))' =>
              /\ Live(t)
              /\ Row(t)' = Row(t) \/ Row(t)'.rev > Row(t).rev

-----------------------------------------------------------------------------
(* Rows.                                                                   *)

\* A row that is there has the type of its kind.
LEMMA RowTyped ==
    ASSUME GalleryTypeOK, NEW t \in 0 .. issued, Live(t)
    PROVE  /\ Row(t) \in RowsOf(t)
           /\ Row(t).rev \in 1 .. MaxRevision
           /\ t # 0 => t \in PhotoIds
<1>1. t = 0 \/ (t \in PhotoIds /\ photos[t] \in PhotoRow)
  BY GalleryAssumption DEF GalleryTypeOK, Live, Exists, PhotoIds
<1>2. CASE t = 0
  BY <1>2 DEF Row, RowsOf, GalleryTypeOK, ItemRow
<1>3. CASE t # 0 /\ photos[t] \in PhotoRow
  BY <1>1, <1>3 DEF Row, RowsOf, PhotoRow
<1> QED
  BY <1>1, <1>2, <1>3

\* Every row counts its revisions.
LEMMA RowsCount == \A t : \A r \in RowsOf(t) : r.rev \in Nat
<1>1. \A r \in ItemRow : r.rev \in Nat
  BY DEF ItemRow
<1>2. \A r \in PhotoRow : r.rev \in Nat
  BY DEF PhotoRow
<1> QED
  BY <1>1, <1>2 DEF RowsOf

\* The row a target has after a step is a row.
LEMMA NextRowTyped ==
    ASSUME GalleryTypeOK', NEW t \in 0 .. issued', (Live(t))'
    PROVE  Row(t)' \in RowsOf(t) /\ Row(t)'.rev \in Nat
<1>1. t = 0 \/ (t \in PhotoIds /\ photos'[t] \in PhotoRow)
  BY GalleryAssumption DEF GalleryTypeOK, Live, Exists, PhotoIds
<1>2. CASE t = 0
  <2>1. Row(t)' = item' /\ item' \in ItemRow
    BY <1>2 DEF Row, GalleryTypeOK
  <2> QED
    BY <1>2, <2>1, RowsCount DEF RowsOf
<1>3. CASE t # 0 /\ photos'[t] \in PhotoRow
  <2>1. Row(t)' = photos'[t]
    BY <1>3 DEF Row
  <2> QED
    BY <1>3, <2>1, RowsCount DEF RowsOf
<1> QED
  BY <1>1, <1>2, <1>3

\* What a tab knows survives every step in which rows only grow.
LEMMA KnowledgeStays ==
    ASSUME GalleryTypeOK, GalleryTypeOK', RowsGrow, NEW ed, TabKnows(ed)
    PROVE  (TabKnows(ed))'
<1> DEFINE t == ed.target
<1>1. t \in 0 .. issued /\ t \in 0 .. issued'
  BY DEF TabKnows, RowsGrow
<1>2. CASE ~(Live(t))'
  BY <1>1, <1>2 DEF TabKnows
<1>3. CASE (Live(t))'
  <2>1. Live(t) /\ (Row(t)' = Row(t) \/ Row(t)'.rev > Row(t).rev)
    BY <1>1, <1>3 DEF RowsGrow
  <2>2. Row(t).rev \in Nat
    BY <1>1, <2>1, RowTyped
  <2>3. Row(t)'.rev \in Nat
    BY <1>1, <1>3, NextRowTyped
  <2>4. ed.shown.rev \in Nat /\ (ed.step = "patching" => ed.read.rev \in Nat)
    <3>1. ed.shown \in RowsOf(t) /\ (ed.step = "patching" => ed.read \in RowsOf(t))
      BY DEF TabKnows
    <3> HIDE DEF t
    <3> QED
      BY <3>1, RowsCount
  <2> QED
    BY <1>1, <2>1, <2>2, <2>3, <2>4 DEF TabKnows
<1> QED
  BY <1>2, <1>3

\* A step keeps the invariant that keeps the types and the views, in which rows
\* only grow and every tab it moves knows what it saw.
LEMMA GalleryKeeps ==
    ASSUME GalleryInv, GalleryTypeOK', IssuedOnly', OnePhotoPerView', RowsGrow,
           editor' = [e \in Editors |-> editor'[e]],
           \A e \in Editors : editor'[e] # Absent /\ editor'[e] # editor[e]
                                 => (TabKnows(editor[e]))'
    PROVE  GalleryInv'
<1>1. ASSUME NEW e \in Editors, editor'[e] # Absent PROVE (TabKnows(editor[e]))'
  <2>1. CASE editor'[e] = editor[e]
    <3>1. PICK ed : ed = editor[e]
      OBVIOUS
    <3>2. TabKnows(ed)
      BY <1>1, <2>1, <3>1 DEF GalleryInv
    <3>3. (TabKnows(ed))'
      BY <3>2, KnowledgeStays DEF GalleryInv
    <3> QED
      BY <2>1, <3>1, <3>3 DEF TabKnows
  <2> QED
    BY <1>1, <2>1
<1> QED
  BY <1>1 DEF GalleryInv

-----------------------------------------------------------------------------
(* Photos.                                                                 *)

\* A new photo takes the next id and a view that is free.
LEMMA CreateGrows ==
    ASSUME GalleryInv, NEW a \in Assets, NEW v \in Views, CreatePhoto(a, v)
    PROVE  GalleryTypeOK' /\ IssuedOnly' /\ OnePhotoPerView' /\ RowsGrow
<1> DEFINE new == [view |-> v, asset |-> a, rev |-> 1]
           p == issued + 1
<1>1. /\ issued \in Nat /\ p \in PhotoIds /\ issued' = p /\ UNCHANGED item
      /\ photos' = [photos EXCEPT ![p] = new]
      /\ MaxPhotos \in Nat /\ issued <= MaxPhotos
  BY GalleryAssumption DEF CreatePhoto, GalleryInv, GalleryTypeOK, PhotoIds
<1>2. new \in PhotoRow /\ new.view = v
  BY GalleryAssumption DEF PhotoRow
<1> HIDE DEF new
<1>3. /\ photos' \in [PhotoIds -> PhotoRow \cup {Absent}] /\ photos'[p] = new
      /\ \A q \in PhotoIds : q # p => photos'[q] = photos[q]
  BY <1>1, <1>2 DEF GalleryInv, GalleryTypeOK
<1>4. \A q \in PhotoIds : Exists(q) => photos[q].view # v
  BY DEF CreatePhoto, ViewOccupant, PhotoIds
<1>5. GalleryTypeOK' /\ IssuedOnly'
  BY <1>1, <1>3 DEF GalleryInv, GalleryTypeOK, IssuedOnly, Exists, PhotoIds
<1>6. OnePhotoPerView'
  BY <1>2, <1>3, <1>4 DEF GalleryInv, OnePhotoPerView, Exists
<1>7. RowsGrow
  <2>1. \A t \in 0 .. issued : t # 0 => t \in PhotoIds /\ t # p
    BY <1>1 DEF PhotoIds
  <2>2. \A t \in 0 .. issued : (Live(t))' => Live(t) /\ Row(t)' = Row(t)
    BY <1>1, <1>3, <2>1, Zenon DEF Live, Exists, Row
  <2>3. issued' \in issued .. MaxPhotos
    BY <1>1 DEF PhotoIds
  <2> HIDE DEF p
  <2> QED
    BY <1>1, <2>2, <2>3 DEF RowsGrow
<1> QED
  BY <1>5, <1>6, <1>7

\* There are as many numbers as fresh photos, so each gets one of its own.
LEMMA NumbersExist ==
    ASSUME NEW n \in Nat, NEW S, IsFiniteSet(S)
    PROVE  \E f \in [S -> n + 1 .. n + Cardinality(S)] : \A v, w \in S : v # w => f[v] # f[w]
<1>1. Cardinality(S) \in Nat
  BY FS_CardinalityType
<1> DEFINE T == n + 1 .. n + Cardinality(S)
<1>2. IsFiniteSet(T) /\ Cardinality(T) = Cardinality(S)
  <2>1. PICK m \in Nat : m = Cardinality(S)
    BY <1>1
  <2>2. IsFiniteSet(n + 1 .. n + m) /\ Cardinality(n + 1 .. n + m) = m
    <3>1. n + 1 \in Int /\ n + m \in Int
      BY <2>1
    <3>2. /\ IsFiniteSet(n + 1 .. n + m)
          /\ Cardinality(n + 1 .. n + m) = IF n + 1 > n + m THEN 0 ELSE n + m - (n + 1) + 1
      BY <3>1, FS_Interval
    <3> QED
      BY <3>2
  <2> QED
    BY <2>1, <2>2
<1> HIDE DEF T
<1>3. PICK f : f \in Bijection(S, T)
  BY <1>2, FS_SameCardinalityBij DEF ExistsBijection
<1>4. f \in [S -> T] /\ \A v, w \in S : v # w => f[v] # f[w]
  BY <1>3 DEF Bijection, Injection, IsInjective
<1> QED
  BY <1>4 DEF T

\* A photo on the page after an arrangement is a new one, or one that was there
\* before with its revision counted on; it is the only one of its view.
LEMMA ArrangedPhotos ==
    ASSUME GalleryInv, NEW s \in Arrangements, Arrange(s)
    PROVE  /\ photos' \in [PhotoIds -> PhotoRow \cup {Absent}]
           /\ issued \in Nat /\ issued' \in issued .. MaxPhotos /\ UNCHANGED <<item, editor>>
           /\ \A p \in PhotoIds : (Exists(p))' =>
                 \/ p \in issued + 1 .. issued'
                 \/ Exists(p) /\ photos'[p].rev > photos[p].rev
           /\ OnePhotoPerView'
<1> DEFINE used   == {v \in Views : s[v] # Absent}
           fresh  == {v \in used : Kept(s[v]) = {}}
           number == CHOOSE f \in [fresh -> issued + 1..issued + Cardinality(fresh)] :
                        \A v, w \in fresh : v # w => f[v] # f[w]
           idOf   == [v \in used |->
                        IF v \in fresh THEN number[v]
                        ELSE CHOOSE p \in Kept(s[v]) : TRUE]
           revOf  == [v \in used |->
                        IF v \in fresh THEN 1 ELSE Recount(idOf[v])]
           Slot(p) == CHOOSE v \in used : idOf[v] = p
           Placed(v) == [view |-> v, asset |-> s[v], rev |-> revOf[v]]
<1>1. /\ issued + Cardinality(fresh) <= MaxPhotos
      /\ \A v \in used : revOf[v] <= MaxRevision
      /\ issued' = issued + Cardinality(fresh)
      /\ photos' = [p \in PhotoIds |-> IF \E v \in used : idOf[v] = p
                                       THEN Placed(Slot(p)) ELSE Absent]
      /\ UNCHANGED <<item, editor>>
  BY Zenon DEF Arrange
<1>2. IsFiniteSet(fresh) /\ Cardinality(fresh) \in Nat
  <2>1. fresh \in SUBSET Views
    OBVIOUS
  <2> HIDE DEF fresh
  <2> QED
    BY <2>1, GalleryAssumption, FS_Subset, FS_CardinalityType
<1>3. issued \in Nat /\ MaxPhotos \in Nat
  BY GalleryAssumption DEF GalleryInv, GalleryTypeOK
<1>4. number \in [fresh -> issued + 1 .. issued']
  <2> HIDE DEF fresh
  <2> QED
    BY <1>1, <1>2, <1>3, NumbersExist
<1> HIDE DEF number
<1>5. \A v \in used : v \in fresh \/ (idOf[v] \in Kept(s[v]) /\ revOf[v] = photos[idOf[v]].rev + 1)
  <2>1. \A v \in used : v \notin fresh => Kept(s[v]) # {}
    OBVIOUS
  <2>2. \A v \in used : v \notin fresh => idOf[v] = CHOOSE p \in Kept(s[v]) : TRUE
    OBVIOUS
  <2>3. \A v \in used : v \notin fresh => revOf[v] = Recount(idOf[v])
    OBVIOUS
  <2> HIDE DEF used, fresh, idOf, revOf
  <2> QED
    BY <2>1, <2>2, <2>3 DEF Recount
<1>6. \A v \in used : v \in fresh => idOf[v] \in issued + 1 .. issued' /\ revOf[v] = 1
  <2>1. \A v \in used : v \in fresh => idOf[v] = number[v] /\ revOf[v] = 1
    OBVIOUS
  <2> HIDE DEF used, fresh, idOf, revOf
  <2> QED
    BY <1>4, <2>1
<1>7. \A v \in used : v \in Views /\ s[v] \in Assets
  BY DEF Arrangements
<1> HIDE DEF used, fresh, idOf, revOf
<1>8. \A p \in PhotoIds : (\E v \in used : idOf[v] = p) => Slot(p) \in used /\ idOf[Slot(p)] = p
  OBVIOUS
<1>9. ASSUME NEW p \in PhotoIds, \E v \in used : idOf[v] = p
      PROVE  /\ photos'[p] \in PhotoRow
             /\ idOf[photos'[p].view] = p
             /\ \/ p \in issued + 1 .. issued'
                \/ Exists(p) /\ photos'[p].rev > photos[p].rev
  <2> DEFINE v == Slot(p)
  <2>1. v \in used /\ idOf[v] = p /\ v \in Views /\ s[v] \in Assets /\ revOf[v] <= MaxRevision
    BY <1>1, <1>7, <1>8, <1>9
  <2>2. photos'[p] = Placed(v)
    BY <1>1, <1>9
  <2> HIDE DEF v, Slot
  <2>3. CASE v \in fresh
    <3>1. revOf[v] = 1 /\ 1 \in 1 .. MaxRevision /\ p \in issued + 1 .. issued'
      BY <1>6, <2>1, <2>3, GalleryAssumption
    <3> QED
      BY <2>1, <2>2, <3>1 DEF PhotoRow
  <2>4. CASE v \notin fresh
    <3>1. p \in Kept(s[v]) /\ revOf[v] = photos[p].rev + 1
      BY <1>5, <2>1, <2>4
    <3>2. Exists(p) /\ photos[p].rev \in Nat
      BY <3>1 DEF Kept, Exists, GalleryInv, GalleryTypeOK, PhotoRow
    <3>3. revOf[v] \in 1 .. MaxRevision
      BY <2>1, <3>1, <3>2, GalleryAssumption
    <3> QED
      BY <2>1, <2>2, <3>1, <3>2, <3>3 DEF PhotoRow
  <2> QED
    BY <2>3, <2>4
<1>10. \A p \in PhotoIds : photos'[p] = Absent \/ \E v \in used : idOf[v] = p
  BY <1>1
<1>11. photos' \in [PhotoIds -> PhotoRow \cup {Absent}]
  <2>1. photos' = [p \in PhotoIds |-> photos'[p]]
    BY <1>1
  <2> QED
    BY <1>9, <1>10, <2>1
<1>12. OnePhotoPerView'
  BY <1>9, <1>10 DEF OnePhotoPerView, Exists
<1> HIDE DEF Slot, Placed
<1>13. issued' \in issued .. MaxPhotos
  BY <1>1, <1>2, <1>3
<1> QED
  BY <1>1, <1>3, <1>9, <1>10, <1>11, <1>12, <1>13 DEF Exists

\* A new arrangement gives every view to one photo at most.
LEMMA ArrangeGrows ==
    ASSUME GalleryInv, NEW s \in Arrangements, Arrange(s)
    PROVE  GalleryTypeOK' /\ IssuedOnly' /\ OnePhotoPerView' /\ RowsGrow
<1>1. /\ photos' \in [PhotoIds -> PhotoRow \cup {Absent}]
      /\ issued \in Nat /\ issued' \in issued .. MaxPhotos /\ UNCHANGED <<item, editor>>
      /\ \A p \in PhotoIds : (Exists(p))' =>
            \/ p \in issued + 1 .. issued'
            \/ Exists(p) /\ photos'[p].rev > photos[p].rev
      /\ OnePhotoPerView'
  BY ArrangedPhotos
<1>2. GalleryTypeOK' /\ IssuedOnly'
  BY <1>1, GalleryAssumption DEF GalleryInv, GalleryTypeOK, IssuedOnly, PhotoIds
<1>3. RowsGrow
  <2>1. \A t \in 0 .. issued : t # 0 => t \in PhotoIds /\ t \notin issued + 1 .. issued'
    BY <1>1, GalleryAssumption DEF PhotoIds
  <2> QED
    BY <1>1, <2>1 DEF RowsGrow, Live, Row
<1> QED
  BY <1>1, <1>2, <1>3

-----------------------------------------------------------------------------
(* Tabs.                                                                   *)

\* Where no row changes, rows grow trivially.
LEMMA SameRowsGrow ==
    ASSUME GalleryInv, UNCHANGED <<photos, issued, item>>
    PROVE  GalleryTypeOK' /\ IssuedOnly' /\ OnePhotoPerView' /\ RowsGrow
<1>1. issued \in Nat /\ issued' \in issued .. MaxPhotos
  BY GalleryAssumption DEF GalleryInv, GalleryTypeOK
<1> QED
  BY <1>1 DEF GalleryInv, GalleryTypeOK, IssuedOnly, OnePhotoPerView, RowsGrow, Live, Row, Exists

\* A tab is shown a row that is there.
LEMMA ShowKeeps ==
    ASSUME GalleryInv, NEW e \in Editors, NEW t \in PhotoIds \cup {0}, Show(e, t)
    PROVE  GalleryInv'
<1> DEFINE ed == [step |-> "shown", target |-> t, shown |-> Row(t)]
<1>1. /\ UNCHANGED <<photos, issued, item>> /\ editor' = [editor EXCEPT ![e] = ed] /\ Live(t)
  BY DEF Show, Live
<1>2. GalleryTypeOK' /\ IssuedOnly' /\ OnePhotoPerView' /\ RowsGrow
  BY <1>1, SameRowsGrow
<1>3. t \in 0 .. issued
  BY <1>1, GalleryAssumption DEF GalleryInv, IssuedOnly, GalleryTypeOK, Live, PhotoIds
<1>4. TabKnows(ed)
  <2>1. Row(t) \in RowsOf(t) /\ Row(t).rev \in Nat
    BY <1>1, <1>3, RowTyped DEF GalleryInv
  <2> QED
    BY <1>3, <2>1 DEF TabKnows
<1> HIDE DEF ed
<1>5. PICK x : x = ed
  OBVIOUS
<1>6. (TabKnows(x))'
  BY <1>2, <1>4, <1>5, KnowledgeStays DEF GalleryInv
<1>7. /\ editor' = [f \in Editors |-> editor'[f]] /\ editor'[e] = x
      /\ \A f \in Editors : f # e => editor'[f] = editor[f]
  BY <1>1, <1>5 DEF GalleryInv
<1>8. \A f \in Editors : editor'[f] # Absent /\ editor'[f] # editor[f] => (TabKnows(editor[f]))'
  BY <1>6, <1>7 DEF TabKnows
<1> QED
  BY <1>2, <1>7, <1>8, GalleryKeeps

\* The handler of an edit reads the row.
LEMMA PatchReadKeeps ==
    ASSUME GalleryInv, NEW e \in Editors, editor[e] # Absent,
           NEW field \in Changes(editor[e].target), NEW value \in Values(field),
           PatchRead(e, field, value)
    PROVE  GalleryInv'
<1> DEFINE t == editor[e].target
           ed == [step |-> "patching", target |-> t, shown |-> editor[e].shown,
                  field |-> field, value |-> value, read |-> Row(t)]
<1>1. UNCHANGED <<photos, issued, item>> /\ TabKnows(editor[e])
  BY DEF PatchRead, GalleryInv
<1>2. GalleryTypeOK' /\ IssuedOnly' /\ OnePhotoPerView' /\ RowsGrow
  BY <1>1, SameRowsGrow
<1>3. \/ editor' = [editor EXCEPT ![e] = Absent]
      \/ Live(t) /\ editor' = [editor EXCEPT ![e] = ed]
  BY DEF PatchRead, Live
<1>4. Live(t) => TabKnows(ed)
  <2> SUFFICES ASSUME Live(t) PROVE TabKnows(ed)
    OBVIOUS
  <2>1. t \in 0 .. issued /\ editor[e].shown \in RowsOf(t)
        /\ editor[e].shown.rev <= Row(t).rev
        /\ (editor[e].shown.rev = Row(t).rev => editor[e].shown = Row(t))
    BY <1>1 DEF TabKnows
  <2>2. Row(t) \in RowsOf(t) /\ Row(t).rev \in Nat
    BY <2>1, RowTyped DEF GalleryInv
  <2> HIDE DEF t
  <2> QED
    BY <2>1, <2>2 DEF TabKnows, t
<1> HIDE DEF ed
<1>5. PICK x : x = ed
  OBVIOUS
<1>6. Live(t) => (TabKnows(x))'
  BY <1>2, <1>4, <1>5, KnowledgeStays DEF GalleryInv
<1> HIDE DEF t
<1>7. /\ editor' = [f \in Editors |-> editor'[f]]
      /\ editor'[e] = Absent \/ (Live(t) /\ editor'[e] = x)
      /\ \A f \in Editors : f # e => editor'[f] = editor[f]
  BY <1>3, <1>5 DEF GalleryInv
<1>8. \A f \in Editors : editor'[f] # Absent /\ editor'[f] # editor[f] => (TabKnows(editor[f]))'
  BY <1>6, <1>7 DEF TabKnows
<1> QED
  BY <1>2, <1>7, <1>8, GalleryKeeps

\* The row that a fresh PATCH writes: the one its tab was shown, with the field
\* it names and the next revision.
LEMMA MergedIs ==
    ASSUME GalleryTypeOK, NEW ed, TabKnows(ed), ed.step = "patching", Fresh(ed),
           ed.shown.rev < MaxRevision
    PROVE  /\ Merged(ed) = [[ed.shown EXCEPT ![ed.field] = ed.value] EXCEPT !.rev = ed.shown.rev + 1]
           /\ Merged(ed) = [ed.shown EXCEPT ![ed.field] = ed.value, !.rev = @ + 1]
           /\ Merged(ed) \in RowsOf(ed.target)
           /\ Merged(ed).rev = Row(ed.target).rev + 1 /\ Row(ed.target).rev \in Nat
           /\ Live(ed.target) /\ ed.target \in 0 .. issued
           /\ ed.target # 0 => ed.target \in PhotoIds
<1> DEFINE t == ed.target
           n == ed.shown.rev + 1
           set == [ed.shown EXCEPT ![ed.field] = ed.value]
<1>1. /\ t \in 0 .. issued /\ ed.shown \in RowsOf(t) /\ ed.read \in RowsOf(t)
      /\ ed.field \in Changes(t) /\ ed.value \in Values(ed.field)
      /\ Live(t) /\ Row(t).rev = ed.shown.rev
      /\ ed.shown.rev <= ed.read.rev /\ ed.read.rev <= Row(t).rev
      /\ ed.shown.rev = ed.read.rev => ed.shown = ed.read
  BY DEF TabKnows, Fresh, Live
<1>2. /\ Row(t).rev \in 1 .. MaxRevision /\ (t # 0 => t \in PhotoIds) /\ Row(t).rev \in Nat
  BY <1>1, RowTyped
<1>3. ed.read = ed.shown
  <2>1. ed.read.rev \in Nat
    BY <1>1, RowsCount
  <2> QED
    BY <1>1, <1>2, <2>1
<1>4. n \in 1 .. MaxRevision
  BY <1>1, <1>2, GalleryAssumption
<1>5. set \in RowsOf(t) /\ set.rev = ed.shown.rev
  <2>1. CASE t = 0
    <3>1. ed.shown \in ItemRow /\ ed.field \in {"name", "archived"}
      BY <1>1, <2>1 DEF RowsOf, Changes
    <3>2. CASE ed.field = "name"
      <4>1. ed.value \in Names
        BY <1>1, <3>2 DEF Values
      <4> QED
        BY <2>1, <3>1, <3>2, <4>1, Zenon DEF ItemRow, RowsOf
    <3>3. CASE ed.field = "archived"
      <4>1. ed.value \in BOOLEAN
        BY <1>1, <3>3 DEF Values
      <4> QED
        BY <2>1, <3>1, <3>3, <4>1, Zenon DEF ItemRow, RowsOf
    <3> QED
      BY <3>1, <3>2, <3>3
  <2>2. CASE t # 0
    <3>1. ed.shown \in PhotoRow /\ ed.field \in {"view", "asset"}
      BY <1>1, <2>2 DEF RowsOf, Changes
    <3>2. CASE ed.field = "view"
      <4>1. ed.value \in Views
        BY <1>1, <3>2 DEF Values
      <4> QED
        BY <2>2, <3>1, <3>2, <4>1, Zenon DEF PhotoRow, RowsOf
    <3>3. CASE ed.field = "asset"
      <4>1. ed.value \in Assets
        BY <1>1, <3>3 DEF Values
      <4> QED
        BY <2>2, <3>1, <3>3, <4>1, Zenon DEF PhotoRow, RowsOf
    <3> QED
      BY <3>1, <3>2, <3>3
  <2> QED
    BY <2>1, <2>2
<1>6. Merged(ed) = [set EXCEPT !.rev = n]
  BY <1>3 DEF Merged
<1>7. [ed.shown EXCEPT ![ed.field] = ed.value, !.rev = @ + 1] = [set EXCEPT !.rev = n]
  OBVIOUS
<1> HIDE DEF set, n, t
<1>8. [set EXCEPT !.rev = n] \in RowsOf(t) /\ [set EXCEPT !.rev = n].rev = n
  <2>1. CASE t = 0
    BY <1>4, <1>5, <2>1, Zenon DEF RowsOf, ItemRow
  <2>2. CASE t # 0
    BY <1>4, <1>5, <2>2, Zenon DEF RowsOf, PhotoRow
  <2> QED
    BY <2>1, <2>2
<1> QED
  BY <1>1, <1>2, <1>5, <1>6, <1>7, <1>8 DEF set, n, t

\* The edit is written under the revision the tab was shown, or not at all.
LEMMA PatchWriteGrows ==
    ASSUME GalleryInv, NEW e \in Editors, PatchWrite(e)
    PROVE  GalleryTypeOK' /\ IssuedOnly' /\ OnePhotoPerView' /\ RowsGrow
<1>1. CASE UNCHANGED <<photos, item>>
  <2>1. UNCHANGED <<photos, issued, item>>
    BY <1>1 DEF PatchWrite
  <2> QED
    BY <2>1, SameRowsGrow
<1>2. CASE ~UNCHANGED <<photos, item>>
  <2>1. PICK ed : ed = editor[e]
    OBVIOUS
  <2> DEFINE t == ed.target
             new == Merged(ed)
  <2>2. /\ TabKnows(ed) /\ ed.step = "patching" /\ Fresh(ed) /\ ed.shown.rev < MaxRevision
        /\ t = 0 => item' = new /\ UNCHANGED photos
        /\ t # 0 => /\ ViewOccupant(new.view, t) = {}
                    /\ photos' = [photos EXCEPT ![t] = new] /\ UNCHANGED item
        /\ UNCHANGED issued
    BY <1>2, <2>1 DEF PatchWrite, GalleryInv
  <2>3. /\ new \in RowsOf(t) /\ new.rev = Row(t).rev + 1 /\ Row(t).rev \in Nat
        /\ Live(t) /\ t \in 0 .. issued /\ (t # 0 => t \in PhotoIds)
    BY <2>2, MergedIs DEF GalleryInv
  <2>4. issued \in Nat /\ issued' \in issued .. MaxPhotos
    BY <2>2, GalleryAssumption DEF GalleryInv, GalleryTypeOK
  <2> HIDE DEF new, t
  <2>5. CASE t = 0
    <3>1. new \in ItemRow /\ Row(t) = item
      BY <2>3, <2>5 DEF RowsOf, Row
    <3>2. GalleryTypeOK' /\ IssuedOnly' /\ OnePhotoPerView'
      BY <2>2, <2>5, <3>1 DEF GalleryInv, GalleryTypeOK, IssuedOnly, OnePhotoPerView, Exists
    <3>3. new.rev > item.rev
      BY <2>3, <3>1
    <3>4. \A x \in 0 .. issued : (Live(x))' =>
              Live(x) /\ (Row(x)' = Row(x) \/ Row(x)'.rev > Row(x).rev)
      BY <2>2, <2>5, <3>3, Zenon DEF Live, Exists, Row
    <3> QED
      BY <2>4, <3>2, <3>4 DEF RowsGrow
  <2>6. CASE t # 0
    <3>1. new \in PhotoRow /\ Row(t) = photos[t] /\ t \in PhotoIds /\ Exists(t)
      BY <2>3, <2>6 DEF RowsOf, Row, Live
    <3>2. /\ photos' \in [PhotoIds -> PhotoRow \cup {Absent}] /\ photos'[t] = new
          /\ \A q \in PhotoIds : q # t => photos'[q] = photos[q]
      BY <2>2, <2>6, <3>1 DEF GalleryInv, GalleryTypeOK
    <3>3. \A q \in PhotoIds : q # t /\ Exists(q) => photos[q].view # new.view
      BY <2>2, <2>6 DEF ViewOccupant
    <3>4. GalleryTypeOK' /\ IssuedOnly'
      BY <2>2, <2>3, <2>6, <3>1, <3>2 DEF GalleryInv, GalleryTypeOK, IssuedOnly, Exists, PhotoIds
    <3>5. OnePhotoPerView'
      BY <3>2, <3>3 DEF GalleryInv, OnePhotoPerView, Exists
    <3>6. new.rev > photos[t].rev
      BY <2>3, <3>1
    <3>7. \A x \in 0 .. issued : x # 0 => x \in PhotoIds
      BY <2>4, GalleryAssumption DEF PhotoIds
    <3>8. \A x \in 0 .. issued : (Live(x))' =>
              Live(x) /\ (Row(x)' = Row(x) \/ Row(x)'.rev > Row(x).rev)
      BY <2>2, <2>6, <3>1, <3>2, <3>6, <3>7, Zenon DEF Live, Exists, Row
    <3> QED
      BY <2>4, <3>4, <3>5, <3>8 DEF RowsGrow
  <2> QED
    BY <2>5, <2>6
<1> QED
  BY <1>1, <1>2

-----------------------------------------------------------------------------
\* An item without photos.
LEMMA GalleryBegins == GalleryInit => GalleryInv
<1> SUFFICES ASSUME GalleryInit PROVE GalleryInv
  OBVIOUS
<1>1. GalleryTypeOK
  BY GalleryAssumption DEF GalleryInit, GalleryTypeOK, ItemRow, Names
<1>2. IssuedOnly /\ OnePhotoPerView
  BY DEF GalleryInit, IssuedOnly, OnePhotoPerView, Exists
<1>3. editor = [e \in Editors |-> Absent]
  BY DEF GalleryInit
<1> QED
  BY <1>1, <1>2, <1>3 DEF GalleryInv

\* In every step the types, the views and the rows behave.
LEMMA GalleryGrows ==
    ASSUME GalleryInv, [GalleryNext]_galleryVars
    PROVE  GalleryTypeOK' /\ IssuedOnly' /\ OnePhotoPerView' /\ RowsGrow
<1>1. CASE UNCHANGED <<photos, issued, item>>
  BY <1>1, SameRowsGrow
<1>2. CASE ~UNCHANGED <<photos, issued, item>>
  <2>1. PhotoNext \/ \E e \in Editors : PatchWrite(e)
    BY <1>2 DEF GalleryNext, EditNext, Show, PatchRead, galleryVars
  <2> QED
    BY <2>1, CreateGrows, ArrangeGrows, PatchWriteGrows DEF PhotoNext
<1> QED
  BY <1>1, <1>2

\* Every step keeps the invariant.
LEMMA GalleryStep == ASSUME GalleryInv, [GalleryNext]_galleryVars PROVE GalleryInv'
<1>1. GalleryTypeOK' /\ IssuedOnly' /\ OnePhotoPerView' /\ RowsGrow
  BY GalleryGrows
<1>2. CASE UNCHANGED editor
  BY <1>1, <1>2, GalleryKeeps DEF GalleryInv
<1>3. CASE PhotoNext
  BY <1>2, <1>3 DEF PhotoNext, CreatePhoto, Arrange
<1>4. ASSUME NEW e \in Editors, PatchWrite(e) PROVE GalleryInv'
  <2>1. /\ editor' = [f \in Editors |-> editor'[f]]
        /\ \A f \in Editors : editor'[f] # Absent => editor'[f] = editor[f]
    BY <1>4 DEF PatchWrite, GalleryInv
  <2> QED
    BY <1>1, <2>1, GalleryKeeps
<1> QED
  BY <1>2, <1>3, <1>4, ShowKeeps, PatchReadKeeps DEF GalleryNext, EditNext, galleryVars

-----------------------------------------------------------------------------
\* Photos and the item's row keep their types.
THEOREM GalleryTyped == GallerySpec => []GalleryTypeOK
<1>1. GalleryInv => GalleryTypeOK
  BY DEF GalleryInv
<1> QED
  BY <1>1, GalleryBegins, GalleryStep, PTL DEF GallerySpec

\* No mix of creations, stale edits and arrangements puts two photos into one view.
THEOREM ViewsHoldOnePhoto == GallerySpec => []OnePhotoPerView
<1>1. GalleryInv => OnePhotoPerView
  BY DEF GalleryInv
<1> QED
  BY <1>1, GalleryBegins, GalleryStep, PTL DEF GallerySpec

\* Whatever happened between the ETag a tab was shown and its PATCH: what goes
\* through changes the one field it names, and an ETag names one state for good.
THEOREM EditsAreNotLost == GallerySpec => NoLostEdit
<1> DEFINE NotLost ==
        \A e \in Editors :
            editor[e] # Absent /\ editor[e].step = "patching" /\ editor'[e] = Absent
            /\ <<photos, item>>' # <<photos, item>>
            => LET ed    == editor[e]
                   after == IF ed.target = 0 THEN item' ELSE photos'[ed.target]
               IN  after = [ed.shown EXCEPT ![ed.field] = ed.value,
                                            !.rev = @ + 1]
           Counted ==
        \A p \in PhotoIds :
            /\ Exists(p) /\ Exists(p)' /\ photos'[p] # photos[p]
                 => photos'[p].rev > photos[p].rev
            /\ ~Exists(p) /\ p <= issued => ~Exists(p)'
<1>1. ASSUME GalleryInv, [GalleryNext]_galleryVars PROVE Counted
  <2>1. RowsGrow
    BY <1>1, GalleryGrows
  <2> SUFFICES ASSUME NEW p \in PhotoIds
               PROVE  /\ Exists(p) /\ Exists(p)' /\ photos'[p] # photos[p]
                             => photos'[p].rev > photos[p].rev
                      /\ ~Exists(p) /\ p <= issued => ~Exists(p)'
    OBVIOUS
  <2>2. CASE p <= issued
    <3>1. p # 0 /\ p \in 0 .. issued
      BY <2>1, <2>2 DEF RowsGrow, PhotoIds
    <3> QED
      BY <2>1, <3>1 DEF RowsGrow, Live, Row
  <2>3. CASE ~(p <= issued)
    BY <1>1, <2>3 DEF GalleryInv, IssuedOnly
  <2> QED
    BY <2>2, <2>3
<1>2. ASSUME GalleryInv, GalleryNext PROVE NotLost
  <2> SUFFICES ASSUME NEW e \in Editors, editor[e] # Absent, editor[e].step = "patching",
                      editor'[e] = Absent, <<photos, item>>' # <<photos, item>>
               PROVE  (IF editor[e].target = 0 THEN item' ELSE photos'[editor[e].target])
                      = [editor[e].shown EXCEPT ![editor[e].field] = editor[e].value, !.rev = @ + 1]
    BY Zenon
  <2>1. PatchWrite(e)
    <3>1. ~UNCHANGED editor /\ ~UNCHANGED <<photos, item>>
      OBVIOUS
    <3>2. PICK f \in Editors : PatchWrite(f)
      BY <1>2, <3>1
      DEF GalleryNext, PhotoNext, EditNext, CreatePhoto, Arrange, Show, PatchRead
    <3>3. f = e
      BY <1>2, <3>2 DEF PatchWrite, GalleryInv
    <3> QED
      BY <3>2, <3>3
  <2>2. PICK ed : ed = editor[e]
    OBVIOUS
  <2>3. /\ TabKnows(ed) /\ ed.step = "patching" /\ Fresh(ed) /\ ed.shown.rev < MaxRevision
        /\ ed.target = 0 => item' = Merged(ed)
        /\ ed.target # 0 => photos' = [photos EXCEPT ![ed.target] = Merged(ed)]
    BY <1>2, <2>1, <2>2 DEF PatchWrite, GalleryInv
  <2>4. /\ Merged(ed) = [ed.shown EXCEPT ![ed.field] = ed.value, !.rev = @ + 1]
        /\ ed.target # 0 => ed.target \in PhotoIds
    BY <1>2, <2>3, MergedIs DEF GalleryInv
  <2>5. (IF ed.target = 0 THEN item' ELSE photos'[ed.target]) = Merged(ed)
    BY <1>2, <2>3, <2>4 DEF GalleryInv, GalleryTypeOK
  <2> QED
    BY <2>2, <2>4, <2>5
<1>3. ASSUME GalleryInv, [GalleryNext]_galleryVars PROVE [NotLost /\ Counted]_galleryVars
  BY <1>1, <1>2, <1>3
<1> QED
  BY <1>3, GalleryBegins, GalleryStep, PTL DEF GallerySpec, NoLostEdit

-----------------------------------------------------------------------------
(* View candidates.                                                        *)

Verdicts == Suggestions \cup {Unjudged}
CandidateRow == [state : RowStates, view : Verdicts]

\* Where a request may stand: done with the answer it gave, or on its way with
\* the verdict it will store.
Resting == [step : {"idle", "failed"}]
Answering == [step : {"answered"}, picture : Pictures, answer : CandidateRow]
Registering == [step : {"judging", "storing", "inserting"}, picture : Pictures, view : Verdicts]

CandidatesInv ==
    /\ candidate \in [Pictures -> CandidateRow]
    /\ register \in [Registrars -> Resting \cup Answering \cup Registering]
    /\ judged \in [Pictures -> 0 .. MaxJudged]

\* A request on its way has a picture and a verdict.
LEMMA OnItsWay ==
    ASSUME CandidatesInv, NEW r \in Registrars,
           register[r].step \in {"judging", "storing", "inserting"}
    PROVE  /\ register[r] \in Registering
           /\ register[r].picture \in Pictures /\ register[r].view \in Verdicts
BY Zenon DEF CandidatesInv, Resting, Answering, Registering

\* A handler that goes on leaves every other one where it was.
LEMMA HandlerMoves ==
    ASSUME CandidatesInv, NEW r \in Registrars, NEW next,
           next \in Resting \cup Answering \cup Registering, Handler(r, next)
    PROVE  register' \in [Registrars -> Resting \cup Answering \cup Registering]
BY DEF CandidatesInv, Handler

\* No row, and every request at rest.
LEMMA CandidatesBegin == CandidatesInit => CandidatesInv
<1> SUFFICES ASSUME CandidatesInit PROVE CandidatesInv
  OBVIOUS
<1>1. Idle \in Resting
  BY DEF Idle, Resting
<1>2. Unregistered \in CandidateRow
  BY DEF Unregistered, CandidateRow, RowStates, Verdicts
<1>3. 0 \in 0 .. MaxJudged
  BY CandidatesAssumption
<1> QED
  BY <1>1, <1>2, <1>3 DEF CandidatesInit, CandidatesInv

\* Every step keeps the types of the rows and of the requests.
LEMMA CandidatesStep ==
    ASSUME CandidatesInv, [CandidatesNext]_candidatesVars PROVE CandidatesInv'
<1>1. ASSUME NEW r \in Registrars, NEW p \in Pictures, FindActive(r, p) PROVE CandidatesInv'
  <2>1. [step |-> "answered", picture |-> p, answer |-> candidate[p]] \in Answering
    BY DEF CandidatesInv, Answering
  <2> QED
    BY <1>1, <2>1, HandlerMoves DEF FindActive, CandidatesInv
<1>2. ASSUME NEW r \in Registrars, NEW p \in Pictures, NEW classify \in BOOLEAN,
             StartRegister(r, p, classify)
      PROVE  CandidatesInv'
  <2> DEFINE next == [step |-> IF classify THEN "judging" ELSE "storing",
                      picture |-> p, view |-> Unjudged]
  <2>1. next \in Registering
    BY DEF Registering, Verdicts
  <2>2. judged' \in [Pictures -> 0 .. MaxJudged]
    BY <1>2, CandidatesAssumption DEF StartRegister, CandidatesInv
  <2>3. Handler(r, next) /\ UNCHANGED candidate
    BY <1>2 DEF StartRegister
  <2> HIDE DEF next
  <2> QED
    BY <2>1, <2>2, <2>3, HandlerMoves DEF CandidatesInv
<1>3. ASSUME NEW r \in Registrars, NEW view \in Verdicts, Judged(r, view) PROVE CandidatesInv'
  <2> DEFINE ended == [register[r] EXCEPT !.step = "storing"]
             next  == [ended EXCEPT !.view = view]
  <2>1. register[r] \in Registering
    BY <1>3, OnItsWay DEF Judged
  <2>2. ended \in Registering
    BY <2>1, Zenon DEF Registering
  <2>3. Handler(r, next) /\ UNCHANGED <<candidate, judged>>
    BY <1>3 DEF Judged
  <2> HIDE DEF ended
  <2>4. next \in Registering
    BY <2>2, Zenon DEF Registering
  <2> HIDE DEF next
  <2> QED
    BY <2>3, <2>4, HandlerMoves DEF CandidatesInv
<1>4. ASSUME NEW r \in Registrars, LookupRow(r) PROVE CandidatesInv'
  <2> DEFINE p == register[r].picture
             on == [register[r] EXCEPT !.step = "inserting"]
             back == [step |-> "answered", picture |-> p, answer |-> candidate[p]]
  <2>1. register[r] \in Registering /\ p \in Pictures
    BY <1>4, OnItsWay DEF LookupRow
  <2>2. on \in Registering
    BY <2>1, Zenon DEF Registering
  <2>3. back \in Answering
    BY <2>1 DEF Answering, CandidatesInv
  <2>4. (Handler(r, on) \/ Handler(r, back)) /\ UNCHANGED <<candidate, judged>>
    BY <1>4 DEF LookupRow
  <2> HIDE DEF on, back
  <2> QED
    BY <2>2, <2>3, <2>4, HandlerMoves DEF CandidatesInv
<1>5. ASSUME NEW r \in Registrars, InsertRow(r) PROVE CandidatesInv'
  <2> DEFINE p == register[r].picture
             new == [state |-> "active", view |-> register[r].view]
             back == [step |-> "answered", picture |-> p, answer |-> new]
             failed == [step |-> "failed"]
  <2>1. p \in Pictures /\ register[r].view \in Verdicts
    BY <1>5, OnItsWay DEF InsertRow
  <2>2. new \in CandidateRow
    BY <2>1 DEF CandidateRow, RowStates
  <2>3. /\ \/ Handler(r, back) /\ candidate' = [candidate EXCEPT ![p] = new]
           \/ Handler(r, failed) /\ UNCHANGED candidate
        /\ UNCHANGED judged
    BY <1>5 DEF InsertRow
  <2> HIDE DEF new
  <2>4. back \in Answering /\ failed \in Resting
    BY <2>1, <2>2 DEF Answering, Resting
  <2> HIDE DEF back, failed
  <2> QED
    BY <2>1, <2>2, <2>3, <2>4, HandlerMoves DEF CandidatesInv
<1>6. ASSUME NEW r \in Registrars, NextRequest(r) PROVE CandidatesInv'
  <2>1. Idle \in Resting
    BY DEF Idle, Resting
  <2> QED
    BY <1>6, <2>1, HandlerMoves DEF NextRequest, CandidatesInv
<1>7. ASSUME NEW p \in Pictures, NEW dismissed \in BOOLEAN, SetDismissed(p, dismissed)
      PROVE  CandidatesInv'
  BY <1>7 DEF SetDismissed, CandidatesInv, CandidateRow, RowStates
<1>8. CASE UNCHANGED candidatesVars
  BY <1>8 DEF candidatesVars, CandidatesInv
<1> QED
  BY <1>1, <1>2, <1>3, <1>4, <1>5, <1>6, <1>7, <1>8 DEF CandidatesNext, Verdicts

\* The rows of the candidates and the calls made for them keep their types.
THEOREM CandidatesTyped == CandidatesSpec => []CandidatesTypeOK
<1>1. ASSUME CandidatesInv PROVE CandidatesTypeOK
  <2>1. ASSUME NEW r \in Registrars
        PROVE  register[r].step \in {"idle", "judging", "storing", "inserting", "answered", "failed"}
    <3>1. register[r] \in Resting \cup Answering \cup Registering
      BY <1>1 DEF CandidatesInv
    <3> QED
      BY <3>1 DEF Resting, Answering, Registering
  <2> QED
    BY <1>1, <2>1 DEF CandidatesInv, CandidatesTypeOK, CandidateRow, Verdicts
<1> QED
  BY <1>1, CandidatesBegin, CandidatesStep, PTL DEF CandidatesSpec

\* A row keeps the suggestion it was registered with, whatever verdict comes
\* late, and only a person dismisses or restores it.
THEOREM FirstVerdictStays == CandidatesSpec => LateVerdictIsDropped
<1> DEFINE Stays == \A p \in Pictures :
             candidate[p].state # "none" =>
               /\ candidate'[p].view = candidate[p].view
               /\ candidate'[p].state # candidate[p].state => register' = register
<1>1. ASSUME CandidatesInv, CandidatesNext PROVE Stays
  <2> SUFFICES ASSUME NEW p \in Pictures, candidate[p].state # "none", candidate' # candidate
               PROVE  /\ candidate'[p].view = candidate[p].view
                      /\ candidate'[p].state # candidate[p].state => register' = register
    OBVIOUS
  <2>1. ASSUME NEW r \in Registrars, InsertRow(r) PROVE candidate'[p] = candidate[p]
    BY <1>1, <2>1 DEF InsertRow, Insertable, CandidatesInv
  <2>2. ASSUME NEW q \in Pictures, NEW dismissed \in BOOLEAN, SetDismissed(q, dismissed)
        PROVE  candidate'[p].view = candidate[p].view /\ register' = register
    BY <1>1, <2>2 DEF SetDismissed, CandidatesInv, CandidateRow
  <2> QED
    BY <1>1, <2>1, <2>2
    DEF CandidatesNext, FindActive, StartRegister, Judged, LookupRow, NextRequest
<1>2. ASSUME CandidatesInv, [CandidatesNext]_candidatesVars PROVE [Stays]_candidatesVars
  BY <1>1, <1>2
<1> QED
  BY <1>2, CandidatesBegin, CandidatesStep, PTL DEF CandidatesSpec, LateVerdictIsDropped

-----------------------------------------------------------------------------
(* Drafts and releases.                                                    *)

\* A row whose usable hotspots sit on its own model and on parts it has.
RowFits(row, j) ==
    /\ \A p \in PartIds :
         row.spots[p] # NoRow /\ row.spots[p].status # "stale" =>
             row.model /\ row.spots[p].on = j /\ p \in row.known
    /\ row.seen \/ row.segmented => row.model
    /\ row.reviewed \subseteq row.known

\* What a stage holds between its read and its write: a row that fits, or a
\* revision under which the draft still is what it saw.
SeenAt(j, rev) == rev \in Nat /\ rev <= draft[j].rev

TaskFits(j, t) ==
    /\ t.step \in Steps
    /\ t.step = "upsert" => t.row \in DraftRow /\ t.row.rev = 1 /\ RowFits(t.row, j)
    /\ t.step \in {"segment", "attach", "bind", "patch", "needs_input"} => Has(j)
    /\ t.step = "attach" =>
          SeenAt(j, t.rev) /\ (t.rev = draft[j].rev => draft[j].model)
    /\ t.step = "patch" =>
          /\ SeenAt(j, t.rev)
          /\ t.rev = draft[j].rev => draft[j].model /\ t.parts \subseteq draft[j].known

\* The same for a publication; what it froze is fit to be published.
CallFits(a, c) ==
    /\ c.step \in {"idle", "auto", "confirm", "shown", "publish", "commit"}
    /\ c.step \in {"auto", "confirm"} => a \in Pipelines /\ Has(a)
    /\ c.step = "confirm" => c.row \in DraftRow /\ RowFits(c.row, a) /\ c.row.model
    /\ c.step \in {"shown", "publish", "commit"} => c.job \in Pipelines /\ Has(c.job)
    /\ c.step = "commit" =>
          /\ c.frozen.rev = c.rev /\ Publishable(c.frozen, c.job)
          /\ SeenAt(c.job, c.rev)
          /\ c.rev = draft[c.job].rev => c.frozen = draft[c.job]

\* Publishing counts the revision on, so what was published is not current.
ReleaseIsPast(r) ==
    r.job \in Pipelines /\ Has(r.job) /\ r.rev \in Nat /\ r.rev < draft[r.job].rev

DraftsFit ==
    /\ facts \in [Pipelines -> [model : BOOLEAN, known : SUBSET PartIds]]
    /\ draft \in [Pipelines -> DraftRow \cup {NoRow}]
    /\ \A j \in Pipelines : Has(j) =>
          draft[j].rev \in 1 .. MaxDraftRev[j] /\ RowFits(draft[j], j)
    /\ newest \in Pipelines \cup {NoRow}
    /\ newest # NoRow => Has(newest)

DraftsInv ==
    /\ DraftsFit
    /\ task = [j \in Pipelines |-> task[j]]
    /\ \A j \in Pipelines : TaskFits(j, task[j])
    /\ call = [a \in Publishers |-> call[a]]
    /\ \A a \in Publishers : CallFits(a, call[a])
    /\ \A r \in releases : ReleaseIsPast(r)

\* A draft either stays as it is or counts its revision on, and never goes away.
DraftsGrow ==
    \A j \in Pipelines : Has(j) =>
        /\ (Has(j))'
        /\ draft[j].rev \in Nat /\ (draft[j].rev)' \in Nat
        /\ draft'[j] = draft[j] \/ (draft[j].rev)' > draft[j].rev

-----------------------------------------------------------------------------
(* Rows.                                                                   *)

\* Another revision is all that changes.
LEMMA RevSet ==
    ASSUME NEW row \in DraftRow, NEW n \in Nat, NEW j
    PROVE  /\ [row EXCEPT !.rev = n] \in DraftRow /\ [row EXCEPT !.rev = n].rev = n
           /\ RowFits(row, j) => RowFits([row EXCEPT !.rev = n], j)
<1> DEFINE new == [row EXCEPT !.rev = n]
<1>1. new \in DraftRow /\ new.rev = n
  BY Zenon DEF DraftRow
<1>2. /\ new.model = row.model /\ new.known = row.known /\ new.spots = row.spots
      /\ new.seen = row.seen /\ new.segmented = row.segmented /\ new.reviewed = row.reviewed
  BY Zenon DEF DraftRow
<1> HIDE DEF new
<1>3. RowFits(row, j) => RowFits(new, j)
  BY <1>2 DEF RowFits
<1> QED
  BY <1>1, <1>3 DEF new

\* Other hotspots: what else the row holds stays.
LEMMA SpotsSet ==
    ASSUME NEW row \in DraftRow, NEW spots \in [PartIds -> Spot \cup {NoRow}]
    PROVE  LET new == [row EXCEPT !.spots = spots]
           IN  /\ new \in DraftRow /\ new.spots = spots
               /\ new.rev = row.rev /\ new.model = row.model /\ new.known = row.known
               /\ new.seen = row.seen /\ new.segmented = row.segmented
               /\ new.reviewed = row.reviewed /\ new.textOnly = row.textOnly
BY Zenon DEF DraftRow

\* Normalizing makes every usable hotspot sit on the row's own model.
LEMMA NormalizeFits ==
    ASSUME NEW row \in DraftRow, NEW j \in Pipelines,
           \A p \in PartIds : row.spots[p] # NoRow => p \in row.known \/ row.spots[p].status = "stale",
           row.seen \/ row.segmented => row.model,
           row.reviewed \subseteq row.known
    PROVE  /\ NormalizeStale(row, j) \in DraftRow /\ RowFits(NormalizeStale(row, j), j)
           /\ NormalizeStale(row, j).rev = row.rev
<1> DEFINE old == row.spots
           spots == [p \in PartIds |->
                        IF old[p] # NoRow /\ ~(row.model /\ old[p].on = j)
                        THEN [old[p] EXCEPT !.status = "stale"] ELSE old[p]]
           new == [row EXCEPT !.spots = spots]
<1>1. NormalizeStale(row, j) = new
  BY DEF NormalizeStale
<1>2. old \in [PartIds -> Spot \cup {NoRow}]
  BY DEF DraftRow
<1>3. \A x \in Spot : [x EXCEPT !.status = "stale"] \in Spot /\ [x EXCEPT !.status = "stale"].status = "stale"
  BY Zenon DEF Spot
<1> HIDE DEF old
<1>4. \A p \in PartIds : /\ spots[p] \in Spot \cup {NoRow}
                         /\ \/ spots[p] = old[p] /\ (old[p] = NoRow \/ (row.model /\ old[p].on = j))
                            \/ spots[p].status = "stale"
  BY <1>2, <1>3
<1>5. spots \in [PartIds -> Spot \cup {NoRow}]
  BY <1>4
<1> HIDE DEF spots
<1>6. /\ new \in DraftRow /\ new.spots = spots
      /\ new.rev = row.rev /\ new.model = row.model /\ new.known = row.known
      /\ new.seen = row.seen /\ new.segmented = row.segmented /\ new.reviewed = row.reviewed
  BY <1>5, SpotsSet
<1> HIDE DEF new
<1>7. \A p \in PartIds : old[p] # NoRow => p \in row.known \/ old[p].status = "stale"
  BY DEF old
<1>8. RowFits(new, j)
  BY <1>4, <1>6, <1>7 DEF RowFits
<1> QED
  BY <1>1, <1>6, <1>8

\* What is carried over from any earlier draft fits the new one.
LEMMA CarryFits ==
    ASSUME NEW row \in DraftRow, NEW previous \in DraftRow, NEW j \in Pipelines,
           ~row.seen, ~row.segmented, row.reviewed = {}
    PROVE  /\ CarryForward(row, previous, j) \in DraftRow
           /\ RowFits(CarryForward(row, previous, j), j)
           /\ CarryForward(row, previous, j).rev = row.rev
<1> DEFINE spots == [p \in PartIds |-> IF p \in row.known THEN previous.spots[p] ELSE NoRow]
           new == [row EXCEPT !.spots = spots]
<1>1. spots \in [PartIds -> Spot \cup {NoRow}]
  BY DEF DraftRow
<1>2. \A p \in PartIds : spots[p] # NoRow => p \in row.known
  OBVIOUS
<1>3. CarryForward(row, previous, j) = NormalizeStale(new, j)
  BY DEF CarryForward
<1> HIDE DEF spots
<1>4. /\ new \in DraftRow /\ new.spots = spots
      /\ new.rev = row.rev /\ new.model = row.model /\ new.known = row.known
      /\ new.seen = row.seen /\ new.segmented = row.segmented /\ new.reviewed = row.reviewed
  BY <1>1, SpotsSet
<1> HIDE DEF new
<1>5. /\ \A p \in PartIds : new.spots[p] # NoRow => p \in new.known \/ new.spots[p].status = "stale"
      /\ new.seen \/ new.segmented => new.model
      /\ new.reviewed \subseteq new.known
  BY <1>2, <1>4
<1> QED
  BY <1>3, <1>4, <1>5, NormalizeFits

\* Confirming everything confirms only what is usable.
LEMMA ConfirmFits ==
    ASSUME NEW row \in DraftRow, NEW j \in Pipelines, RowFits(row, j), row.model
    PROVE  /\ ConfirmAll(row, j) \in DraftRow /\ RowFits(ConfirmAll(row, j), j)
           /\ ConfirmAll(row, j).rev = row.rev
<1> DEFINE usable(p) == row.spots[p] # NoRow /\ row.spots[p].status # "stale" /\ row.spots[p].on = j
           text == row.textOnly \cup {p \in row.known : ~usable(p)}
           reviewed == row.reviewed \cup row.known
           spots == [p \in PartIds |->
                        IF usable(p) THEN [status |-> "confirmed", on |-> j] ELSE row.spots[p]]
           one == [row EXCEPT !.seen = TRUE]
           two == [one EXCEPT !.reviewed = reviewed]
           three == [two EXCEPT !.textOnly = text]
           new == [three EXCEPT !.spots = spots]
<1>1. text \in SUBSET PartIds /\ reviewed \in SUBSET PartIds /\ reviewed \subseteq row.known
  BY DEF DraftRow, RowFits
<1>2. /\ spots \in [PartIds -> Spot \cup {NoRow}]
      /\ \A p \in PartIds : spots[p] # NoRow /\ spots[p].status # "stale" =>
            spots[p].on = j /\ p \in row.known
  <2>1. [status |-> "confirmed", on |-> j] \in Spot
    BY DEF Spot
  <2>2. \A p \in PartIds : row.spots[p] \in Spot \cup {NoRow}
    BY DEF DraftRow
  <2> QED
    BY <2>1, <2>2 DEF RowFits
<1>3. ConfirmAll(row, j) = new
  BY DEF ConfirmAll
<1> HIDE DEF text, reviewed, spots
<1>4. /\ one \in DraftRow /\ one.seen = TRUE /\ one.rev = row.rev /\ one.model = row.model
      /\ one.known = row.known /\ one.segmented = row.segmented
  BY Zenon DEF DraftRow
<1> HIDE DEF one
<1>5. /\ two \in DraftRow /\ two.rev = one.rev /\ two.model = one.model /\ two.known = one.known
      /\ two.reviewed = reviewed
  BY <1>1, <1>4, Zenon DEF DraftRow
<1> HIDE DEF two
<1>6. /\ three \in DraftRow /\ three.rev = two.rev /\ three.model = two.model /\ three.known = two.known
      /\ three.reviewed = two.reviewed
  BY <1>1, <1>5, Zenon DEF DraftRow
<1> HIDE DEF three
<1>7. /\ new \in DraftRow /\ new.spots = spots /\ new.rev = three.rev /\ new.model = three.model
      /\ new.known = three.known /\ new.reviewed = three.reviewed
  BY <1>2, <1>6, SpotsSet
<1> HIDE DEF new
<1>8. new.model = row.model /\ new.known = row.known /\ new.rev = row.rev /\ new.reviewed = reviewed
  BY <1>4, <1>5, <1>6, <1>7
<1>9. RowFits(new, j)
  BY <1>1, <1>2, <1>7, <1>8 DEF RowFits
<1> QED
  BY <1>3, <1>7, <1>8, <1>9

\* What a person may ask for fits after normalizing, under the same revision.
LEMMA EditFits ==
    ASSUME NEW row \in DraftRow, NEW j \in Pipelines, RowFits(row, j), NEW new \in Edits(row, j)
    PROVE  /\ NormalizeStale(new, j) \in DraftRow /\ RowFits(NormalizeStale(new, j), j)
           /\ NormalizeStale(new, j).rev = row.rev
<1> DEFINE Fine(x) ==
        /\ x \in DraftRow /\ x.rev = row.rev
        /\ \A p \in PartIds : x.spots[p] # NoRow => p \in x.known \/ x.spots[p].status = "stale"
        /\ x.seen \/ x.segmented => x.model
        /\ x.reviewed \subseteq x.known
<1>1. \A p \in row.known : p \in PartIds
  BY DEF DraftRow
<1>2. ASSUME NEW p \in row.known, new = [row EXCEPT !.reviewed = row.reviewed \cup {p}] PROVE Fine(new)
  <2> DEFINE reviewed == row.reviewed \cup {p}
  <2>1. reviewed \in SUBSET PartIds /\ reviewed \subseteq row.known
    BY DEF DraftRow, RowFits
  <2>2. new = [row EXCEPT !.reviewed = reviewed]
    BY <1>2
  <2> HIDE DEF reviewed
  <2>3. /\ new \in DraftRow /\ new.rev = row.rev /\ new.model = row.model /\ new.known = row.known
        /\ new.spots = row.spots /\ new.seen = row.seen /\ new.segmented = row.segmented
        /\ new.reviewed = reviewed
    BY <2>1, <2>2, Zenon DEF DraftRow
  <2> QED
    BY <2>1, <2>3 DEF RowFits
<1>3. ASSUME NEW p \in row.known, new = [row EXCEPT !.textOnly = row.textOnly \cup {p}] PROVE Fine(new)
  <2> DEFINE text == row.textOnly \cup {p}
  <2>1. text \in SUBSET PartIds
    BY DEF DraftRow
  <2>2. new = [row EXCEPT !.textOnly = text]
    BY <1>3
  <2> HIDE DEF text
  <2>3. /\ new \in DraftRow /\ new.rev = row.rev /\ new.model = row.model /\ new.known = row.known
        /\ new.spots = row.spots /\ new.seen = row.seen /\ new.segmented = row.segmented
        /\ new.reviewed = row.reviewed
    BY <2>1, <2>2, Zenon DEF DraftRow
  <2> QED
    BY <2>3 DEF RowFits
<1>4. ASSUME NEW p \in row.known, NEW x \in Spot \cup {NoRow},
             new = [row EXCEPT !.spots = [row.spots EXCEPT ![p] = x]]
      PROVE  Fine(new)
  <2> DEFINE spots == [row.spots EXCEPT ![p] = x]
  <2>1. spots \in [PartIds -> Spot \cup {NoRow}] /\ \A q \in PartIds : q # p => spots[q] = row.spots[q]
    BY <1>1 DEF DraftRow
  <2>2. new = [row EXCEPT !.spots = spots]
    BY <1>4
  <2> HIDE DEF spots
  <2>3. /\ new \in DraftRow /\ new.rev = row.rev /\ new.model = row.model /\ new.known = row.known
        /\ new.spots = spots /\ new.seen = row.seen /\ new.segmented = row.segmented
        /\ new.reviewed = row.reviewed
    BY <2>1, <2>2, SpotsSet
  <2> QED
    BY <2>1, <2>3 DEF RowFits
<1>5. ASSUME row.model, new = [row EXCEPT !.seen = TRUE] \/ new = [row EXCEPT !.segmented = TRUE]
      PROVE  Fine(new)
  <2>1. /\ new \in DraftRow /\ new.rev = row.rev /\ new.model = row.model /\ new.known = row.known
        /\ new.spots = row.spots /\ new.reviewed = row.reviewed
    BY <1>5, Zenon DEF DraftRow
  <2> QED
    BY <1>5, <2>1 DEF RowFits
<1>6. [status |-> "confirmed", on |-> j] \in Spot
  BY DEF Spot
<1>7. Fine(new)
  <2> HIDE DEF Fine
  <2>1. \/ \E p \in row.known : new = [row EXCEPT !.reviewed = row.reviewed \cup {p}]
        \/ \E p \in row.known : new = [row EXCEPT !.textOnly = row.textOnly \cup {p}]
        \/ \E p \in row.known : new = [row EXCEPT !.spots = [row.spots EXCEPT ![p] = NoRow]]
        \/ \E p \in row.known : new = [row EXCEPT !.spots = [row.spots EXCEPT ![p] =
                                          [status |-> "confirmed", on |-> j]]]
        \/ row.model /\ (new = [row EXCEPT !.seen = TRUE] \/ new = [row EXCEPT !.segmented = TRUE])
    BY DEF Edits
  <2> QED
    BY <1>2, <1>3, <1>4, <1>5, <1>6, <2>1
<1> QED
  BY <1>7, NormalizeFits

-----------------------------------------------------------------------------
(* Drafts.                                                                 *)

\* A write of a row that fits, under the same or a later revision.
LEMMA RowWritten ==
    ASSUME DraftsFit, NEW j \in Pipelines, NEW new \in DraftRow, RowFits(new, j),
           new.rev \in 1 .. MaxDraftRev[j],
           Has(j) => new = draft[j] \/ new.rev > draft[j].rev,
           draft' = [draft EXCEPT ![j] = new], UNCHANGED facts, newest' \in {newest, j}
    PROVE  DraftsFit' /\ DraftsGrow /\ draft'[j] = new /\ (Has(j))'
<1>1. /\ draft' \in [Pipelines -> DraftRow \cup {NoRow}] /\ draft'[j] = new
      /\ \A k \in Pipelines : k # j => draft'[k] = draft[k]
  BY DEF DraftsFit
<1>2. (Has(j))'
  BY <1>1, DraftsAssumption DEF Has
<1>3. \A k \in Pipelines : Has(k) => (Has(k))'
  BY <1>1, <1>2 DEF Has
<1>4. \A k \in Pipelines : (Has(k))' => (draft[k].rev)' \in 1 .. MaxDraftRev[k] /\ (RowFits(draft[k], k))'
  <2> SUFFICES ASSUME NEW k \in Pipelines, (Has(k))'
               PROVE  (draft[k].rev)' \in 1 .. MaxDraftRev[k] /\ (RowFits(draft[k], k))'
    OBVIOUS
  <2>1. CASE k = j
    BY <1>1, <2>1 DEF RowFits
  <2>2. CASE k # j
    BY <1>1, <2>2 DEF DraftsFit, Has, RowFits
  <2> QED
    BY <2>1, <2>2
<1>5. DraftsFit'
  BY <1>1, <1>2, <1>3, <1>4 DEF DraftsFit
<1>6. DraftsGrow
  <2> SUFFICES ASSUME NEW k \in Pipelines, Has(k)
               PROVE  /\ draft[k].rev \in Nat /\ (draft[k].rev)' \in Nat
                      /\ draft'[k] = draft[k] \/ (draft[k].rev)' > draft[k].rev
    BY <1>3 DEF DraftsGrow
  <2>1. draft[k].rev \in Nat /\ (draft[k].rev)' \in Nat
    BY <1>1, <1>3 DEF DraftsFit, Has, DraftRow
  <2> QED
    BY <1>1, <2>1
<1> QED
  BY <1>1, <1>2, <1>5, <1>6

\* Drafts that nobody touched still fit.
LEMMA SameDrafts ==
    ASSUME DraftsFit, UNCHANGED <<draft, newest>>,
           facts' \in [Pipelines -> [model : BOOLEAN, known : SUBSET PartIds]]
    PROVE  DraftsFit' /\ DraftsGrow
<1>1. \A j \in Pipelines : Has(j) => draft[j].rev \in Nat
  BY DEF DraftsFit, Has, DraftRow
<1> QED
  BY <1>1 DEF DraftsFit, DraftsGrow, Has, RowFits

\* Save: a row that fits, based on the current draft, where there is room.
LEMMA SavedFits ==
    ASSUME DraftsFit, NEW j \in Pipelines, Has(j), NEW row \in DraftRow, RowFits(row, j),
           row.rev = draft[j].rev, Room(j), Save(j, row), UNCHANGED <<facts, newest>>
    PROVE  DraftsFit' /\ DraftsGrow /\ (Has(j))'
<1> DEFINE n == row.rev + 1
           new == IF row = draft[j] THEN row ELSE [row EXCEPT !.rev = n]
<1>1. /\ draft[j].rev \in 1 .. MaxDraftRev[j] /\ MaxDraftRev[j] \in Nat
      /\ draft[j].rev < MaxDraftRev[j]
  BY DraftsAssumption DEF DraftsFit, Room
<1>2. n \in Nat /\ n \in 1 .. MaxDraftRev[j] /\ n > draft[j].rev
  BY <1>1
<1>3. draft' = [draft EXCEPT ![j] = new]
  BY DEF Save
<1> HIDE DEF n
<1>4. /\ [row EXCEPT !.rev = n] \in DraftRow /\ [row EXCEPT !.rev = n].rev = n
      /\ RowFits([row EXCEPT !.rev = n], j)
  BY <1>2, RevSet
<1>5. /\ new \in DraftRow /\ RowFits(new, j) /\ new.rev \in 1 .. MaxDraftRev[j]
      /\ new = draft[j] \/ new.rev > draft[j].rev
  BY <1>1, <1>2, <1>4
<1> HIDE DEF new
<1> QED
  BY <1>3, <1>5, RowWritten

-----------------------------------------------------------------------------
(* Stages and publications.                                                *)

\* What a stage holds survives every step in which drafts only grow.
LEMMA TaskStays ==
    ASSUME DraftsGrow, NEW j \in Pipelines, NEW t, TaskFits(j, t)
    PROVE  (TaskFits(j, t))'
<1>1. CASE Has(j)
  <2>1. /\ (Has(j))' /\ draft[j].rev \in Nat /\ (draft[j].rev)' \in Nat
        /\ draft'[j] = draft[j] \/ (draft[j].rev)' > draft[j].rev
    BY <1>1 DEF DraftsGrow
  <2>2. t.step \in {"attach", "patch"} =>
            (SeenAt(j, t.rev))' /\ (t.rev = (draft[j].rev)' => draft'[j] = draft[j])
    BY <2>1 DEF TaskFits, SeenAt
  <2> QED
    BY <2>1, <2>2 DEF TaskFits, RowFits
<1>2. CASE ~Has(j)
  BY <1>2 DEF TaskFits, RowFits
<1> QED
  BY <1>1, <1>2

\* What a handler has read stays true of drafts that only grow.
LEMMA CallStays ==
    ASSUME DraftsGrow, NEW a, NEW c, CallFits(a, c)
    PROVE  (CallFits(a, c))'
<1>1. \A j \in Pipelines : Has(j) => (Has(j))'
  BY DEF DraftsGrow
<1>2. c.step = "commit" =>
          (SeenAt(c.job, c.rev))' /\ (c.rev = (draft[c.job].rev)' => draft'[c.job] = draft[c.job])
  <2> SUFFICES ASSUME c.step = "commit"
               PROVE  /\ (SeenAt(c.job, c.rev))'
                      /\ c.rev = (draft[c.job].rev)' => draft'[c.job] = draft[c.job]
    OBVIOUS
  <2> DEFINE j == c.job
  <2>1. j \in Pipelines /\ Has(j) /\ c.rev \in Nat /\ c.rev <= draft[j].rev
    BY DEF CallFits, SeenAt
  <2>2. /\ draft[j].rev \in Nat /\ (draft[j].rev)' \in Nat
        /\ draft'[j] = draft[j] \/ (draft[j].rev)' > draft[j].rev
    BY <2>1 DEF DraftsGrow
  <2> QED
    BY <2>1, <2>2 DEF SeenAt
<1> QED
  BY <1>1, <1>2 DEF CallFits, RowFits, Publishable, Bound

\* A step keeps the invariant that keeps the drafts fit and growing and moves
\* stages and publications to where they fit.
LEMMA DraftsKeep ==
    ASSUME DraftsInv, DraftsFit', DraftsGrow,
           task' = [j \in Pipelines |-> task'[j]], call' = [a \in Publishers |-> call'[a]],
           \A j \in Pipelines : task'[j] = task[j] \/ (TaskFits(j, task[j]))',
           \A a \in Publishers : call'[a] = call[a] \/ (CallFits(a, call[a]))',
           \A r \in releases' : r \in releases \/ (ReleaseIsPast(r))'
    PROVE  DraftsInv'
<1>1. ASSUME NEW j \in Pipelines PROVE (TaskFits(j, task[j]))'
  <2>1. CASE task'[j] = task[j]
    <3>1. PICK t : t = task[j]
      OBVIOUS
    <3>2. (TaskFits(j, t))'
      BY <3>1, TaskStays DEF DraftsInv
    <3> QED
      BY <2>1, <3>1, <3>2 DEF TaskFits
  <2> QED
    BY <2>1
<1>2. ASSUME NEW a \in Publishers PROVE (CallFits(a, call[a]))'
  <2>1. CASE call'[a] = call[a]
    <3>1. PICK c : c = call[a]
      OBVIOUS
    <3>2. (CallFits(a, c))'
      BY <3>1, CallStays DEF DraftsInv
    <3> QED
      BY <2>1, <3>1, <3>2 DEF CallFits
  <2> QED
    BY <2>1
<1>3. ASSUME NEW r \in releases' PROVE (ReleaseIsPast(r))'
  <2>1. CASE r \in releases
    <3> DEFINE j == r.job
    <3>1. j \in Pipelines /\ Has(j) /\ r.rev \in Nat /\ r.rev < draft[j].rev
      BY <2>1 DEF DraftsInv, ReleaseIsPast
    <3>2. /\ (Has(j))' /\ draft[j].rev \in Nat /\ (draft[j].rev)' \in Nat
          /\ draft'[j] = draft[j] \/ (draft[j].rev)' > draft[j].rev
      BY <3>1 DEF DraftsGrow
    <3> QED
      BY <3>1, <3>2 DEF ReleaseIsPast
  <2> QED
    BY <1>3, <2>1
<1> QED
  BY <1>1, <1>2, <1>3 DEF DraftsInv

\* One stage and one publication move, the others rest.
LEMMA ActorsMove ==
    ASSUME DraftsInv, DraftsFit', DraftsGrow, UNCHANGED releases,
           NEW j \in Pipelines, NEW t, (Work(j, t) /\ (TaskFits(j, t))') \/ UNCHANGED task,
           NEW a \in Publishers, NEW c, (Call(a, c) /\ (CallFits(a, c))') \/ UNCHANGED call
    PROVE  DraftsInv'
<1>1. /\ task' = [k \in Pipelines |-> task'[k]]
      /\ \A k \in Pipelines : task'[k] = task[k] \/ (TaskFits(k, task[k]))'
  <2>1. CASE UNCHANGED task
    BY <2>1 DEF DraftsInv
  <2>2. CASE Work(j, t) /\ (TaskFits(j, t))'
    <3>1. /\ task' = [k \in Pipelines |-> task'[k]] /\ task'[j] = t
          /\ \A k \in Pipelines : k # j => task'[k] = task[k]
      BY <2>2 DEF DraftsInv, Work
    <3>2. (TaskFits(j, task[j]))'
      BY <2>2, <3>1 DEF TaskFits
    <3> QED
      BY <3>1, <3>2
  <2> QED
    BY <2>1, <2>2
<1>2. /\ call' = [b \in Publishers |-> call'[b]]
      /\ \A b \in Publishers : call'[b] = call[b] \/ (CallFits(b, call[b]))'
  <2>1. CASE UNCHANGED call
    BY <2>1 DEF DraftsInv
  <2>2. CASE Call(a, c) /\ (CallFits(a, c))'
    <3>1. /\ call' = [b \in Publishers |-> call'[b]] /\ call'[a] = c
          /\ \A b \in Publishers : b # a => call'[b] = call[b]
      BY <2>2 DEF DraftsInv, Call
    <3>2. (CallFits(a, call[a]))'
      BY <2>2, <3>1 DEF CallFits
    <3> QED
      BY <3>1, <3>2
  <2> QED
    BY <2>1, <2>2
<1> QED
  BY <1>1, <1>2, DraftsKeep

-----------------------------------------------------------------------------
(* The job's stages.                                                       *)

\* A job is a publisher, and one that is free fits.
LEMMA FreeFits == ASSUME NEW a PROVE CallFits(a, Free)
BY DEF CallFits, Free

\* The branches of a job come to their end.
LEMMA BranchesKeep == ASSUME DraftsInv, NEW j \in Pipelines, BranchesEnd(j) PROVE DraftsInv'
<1> DEFINE t == [step |-> "assemble"]
<1>1. /\ UNCHANGED <<draft, newest, call, releases>> /\ Work(j, t)
      /\ facts' \in [Pipelines -> [model : BOOLEAN, known : SUBSET PartIds]]
  <2>1. facts[j] \in [model : BOOLEAN, known : SUBSET PartIds]
    BY DEF DraftsInv, DraftsFit
  <2>2. PICK m \in {facts[j].model, TRUE},
             K \in IF facts[j].known = {} THEN SUBSET PartIds ELSE {facts[j].known} :
                facts' = [facts EXCEPT ![j] = [model |-> m, known |-> K]]
    BY DEF BranchesEnd
  <2>3. [model |-> m, known |-> K] \in [model : BOOLEAN, known : SUBSET PartIds]
    BY <2>1
  <2> QED
    BY <2>2, <2>3 DEF BranchesEnd, DraftsInv, DraftsFit
<1>2. DraftsFit' /\ DraftsGrow
  BY <1>1, SameDrafts DEF DraftsInv
<1>3. (TaskFits(j, t))'
  BY DEF TaskFits, Steps
<1> HIDE DEF t
<1> QED
  BY <1>1, <1>2, <1>3, ActorsMove DEF Publishers

\* assemble_draft reads the products of both branches.
LEMMA AssembleKeeps == ASSUME DraftsInv, NEW j \in Pipelines, AssembleRead(j) PROVE DraftsInv'
<1> DEFINE empty == [rev |-> 1, model |-> facts[j].model,
                     known |-> facts[j].known,
                     spots |-> [p \in PartIds |-> NoRow], segmented |-> FALSE,
                     reviewed |-> {}, textOnly |-> {}, seen |-> FALSE]
           row == IF Has(j) THEN CarryForward(empty, draft[j], j)
                  ELSE IF newest # NoRow THEN CarryForward(empty, draft[newest], j)
                  ELSE empty
           t == [step |-> "upsert", row |-> row]
<1>1. UNCHANGED <<facts, draft, newest, call, releases>> /\ Work(j, t)
  BY DEF AssembleRead
<1>2. DraftsFit' /\ DraftsGrow
  BY <1>1, SameDrafts DEF DraftsInv, DraftsFit
<1>3. /\ empty \in DraftRow /\ RowFits(empty, j) /\ empty.rev = 1
      /\ ~empty.seen /\ ~empty.segmented /\ empty.reviewed = {}
  <2>1. facts[j].model \in BOOLEAN /\ facts[j].known \in SUBSET PartIds
    BY DEF DraftsInv, DraftsFit
  <2> QED
    BY <2>1 DEF DraftRow, RowFits
<1> HIDE DEF empty
<1>4. \A k \in Pipelines : Has(k) => draft[k] \in DraftRow
  BY DEF DraftsInv, DraftsFit, Has
<1>5. row \in DraftRow /\ RowFits(row, j) /\ row.rev = 1
  <2>1. CASE Has(j)
    BY <1>3, <1>4, <2>1, CarryFits
  <2>2. CASE ~Has(j) /\ newest # NoRow
    <3>1. draft[newest] \in DraftRow
      BY <1>4, <2>2 DEF DraftsInv, DraftsFit
    <3> QED
      BY <1>3, <2>2, <3>1, CarryFits
  <2> QED
    BY <1>3, <2>1, <2>2
<1> HIDE DEF row
<1>6. TaskFits(j, t)
  BY <1>5 DEF TaskFits, Steps
<1> HIDE DEF t
<1>7. PICK x : x = t
  OBVIOUS
<1>8. (TaskFits(j, x))'
  BY <1>2, <1>6, <1>7, TaskStays
<1> QED
  BY <1>1, <1>2, <1>7, <1>8, ActorsMove DEF Publishers

\* The job's work is over; its publication starts.
LEMMA EndedFits ==
    ASSUME DraftsInv, DraftsFit', DraftsGrow, UNCHANGED releases,
           NEW j \in Pipelines, (Has(j))', Ended(j)
    PROVE  DraftsInv'
<1> DEFINE t == [step |-> "done"]
           c == [step |-> "auto"]
<1>1. (TaskFits(j, t))' /\ (CallFits(j, c))'
  BY DEF TaskFits, CallFits, Steps
<1>2. Work(j, t) /\ Call(j, c)
  BY DEF Ended
<1> HIDE DEF t, c
<1> QED
  BY <1>1, <1>2, ActorsMove DEF Publishers

\* The upsert writes a draft that fits what was read.
LEMMA UpsertKeeps == ASSUME DraftsInv, NEW j \in Pipelines, Upsert(j) PROVE DraftsInv'
<1> DEFINE row == task[j].row
           same == Has(j) /\ [draft[j] EXCEPT !.rev = 1, !.reviewed = {},
                                !.textOnly = {}, !.seen = FALSE] = row
           n == draft[j].rev + 1
           new == IF ~Has(j) THEN row ELSE IF same THEN draft[j] ELSE [row EXCEPT !.rev = n]
<1>1. /\ row \in DraftRow /\ row.rev = 1 /\ RowFits(row, j)
  BY DEF Upsert, Does, DraftsInv, TaskFits
<1>2. /\ Has(j) => same \/ draft[j].rev < MaxDraftRev[j]
      /\ draft' = [draft EXCEPT ![j] = new]
      /\ newest' \in {newest, j} /\ UNCHANGED <<facts, releases>>
  <2>1. /\ Has(j) => same \/ Room(j)
        /\ draft' = [draft EXCEPT ![j] = new]
        /\ newest' = IF Has(j) THEN newest ELSE j
        /\ UNCHANGED <<facts, releases>>
    BY Zenon DEF Upsert
  <2> HIDE DEF same, new
  <2> QED
    BY <2>1 DEF Room
<1>3. Has(j) => /\ draft[j] \in DraftRow /\ RowFits(draft[j], j)
                /\ draft[j].rev \in 1 .. MaxDraftRev[j] /\ draft[j].rev \in Nat
  BY DEF DraftsInv, DraftsFit, Has, DraftRow
<1>4. MaxDraftRev[j] \in Nat \ {0}
  BY DraftsAssumption
<1> HIDE DEF same
<1>5. /\ new \in DraftRow /\ RowFits(new, j) /\ new.rev \in 1 .. MaxDraftRev[j]
      /\ Has(j) => new = draft[j] \/ new.rev > draft[j].rev
  <2>1. CASE ~Has(j)
    BY <1>1, <1>4, <2>1
  <2>2. CASE Has(j) /\ same
    BY <1>3, <2>2
  <2>3. CASE Has(j) /\ ~same
    <3>1. n \in Nat /\ n \in 1 .. MaxDraftRev[j] /\ n > draft[j].rev
      BY <1>2, <1>3, <1>4, <2>3
    <3> HIDE DEF n, row
    <3>2. /\ [row EXCEPT !.rev = n] \in DraftRow /\ [row EXCEPT !.rev = n].rev = n
          /\ RowFits([row EXCEPT !.rev = n], j)
      BY <1>1, <3>1, RevSet
    <3> QED
      BY <2>3, <3>1, <3>2
  <2> QED
    BY <2>1, <2>2, <2>3
<1> HIDE DEF new
<1>6. DraftsFit' /\ DraftsGrow /\ (Has(j))'
  BY <1>2, <1>5, RowWritten DEF DraftsInv
<1>7. CASE j \in Segmenting
  <2> DEFINE t == [step |-> "segment"]
  <2>1. (TaskFits(j, t))' /\ Work(j, t) /\ UNCHANGED call
    BY <1>6, <1>7 DEF TaskFits, Steps, Upsert
  <2> HIDE DEF t
  <2> QED
    BY <1>2, <1>6, <2>1, ActorsMove DEF Publishers
<1>8. CASE j \notin Segmenting
  <2>1. Ended(j)
    BY <1>8 DEF Upsert, Ended
  <2> QED
    BY <1>2, <1>6, <2>1, EndedFits
<1> QED
  BY <1>7, <1>8

\* A stage that only reads moves to where it fits.
LEMMA ReaderKeeps ==
    ASSUME DraftsInv, UNCHANGED <<facts, draft, newest, call, releases>>,
           NEW j \in Pipelines, NEW t, Work(j, t), TaskFits(j, t)
    PROVE  DraftsInv'
<1>1. DraftsFit' /\ DraftsGrow
  BY SameDrafts DEF DraftsInv, DraftsFit
<1>2. (TaskFits(j, t))'
  BY <1>1, TaskStays
<1> QED
  BY <1>1, <1>2, ActorsMove DEF Publishers

\* A draft that is there is a row that fits.
LEMMA HasRow ==
    ASSUME DraftsInv, NEW j \in Pipelines, Has(j)
    PROVE  draft[j] \in DraftRow /\ RowFits(draft[j], j) /\ draft[j].rev \in Nat
BY DEF DraftsInv, DraftsFit, Has, DraftRow

\* The segmentation reads whether the draft has parts already.
LEMMA SegmentKeeps == ASSUME DraftsInv, NEW j \in Pipelines, SegmentRead(j) PROVE DraftsInv'
<1> DEFINE t == IF draft[j].segmented THEN [step |-> "bind"]
               ELSE IF ~draft[j].model THEN [step |-> "needs_input"]
               ELSE [step |-> "attach", rev |-> draft[j].rev]
<1>1. /\ UNCHANGED <<facts, draft, newest, call, releases>> /\ Work(j, t) /\ Has(j)
  BY DEF SegmentRead, Does, DraftsInv, TaskFits
<1>2. draft[j].rev \in Nat
  BY <1>1, HasRow
<1>3. TaskFits(j, t)
  <2>1. CASE draft[j].segmented
    BY <1>1, <2>1 DEF TaskFits, Steps
  <2>2. CASE ~draft[j].segmented /\ ~draft[j].model
    BY <1>1, <2>2 DEF TaskFits, Steps
  <2>3. CASE ~draft[j].segmented /\ draft[j].model
    BY <1>1, <1>2, <2>3 DEF TaskFits, Steps, SeenAt
  <2> QED
    BY <2>1, <2>2, <2>3
<1> HIDE DEF t
<1>4. PICK x : x = t
  OBVIOUS
<1> QED
  BY <1>1, <1>3, <1>4, ReaderKeeps

\* The segmentation may be retried.
LEMMA RetrySegmentKeeps == ASSUME DraftsInv, NEW j \in Pipelines, RetrySegment(j) PROVE DraftsInv'
<1> DEFINE t == [step |-> "segment"]
<1>1. UNCHANGED <<facts, draft, newest, call, releases>> /\ Work(j, t) /\ TaskFits(j, t)
  BY DEF RetrySegment, Does, DraftsInv, TaskFits, Steps
<1> HIDE DEF t
<1> QED
  BY <1>1, ReaderKeeps

\* The parts are attached, unless the draft was edited meanwhile.
LEMMA AttachKeeps == ASSUME DraftsInv, NEW j \in Pipelines, AttachParts(j) PROVE DraftsInv'
<1>1. /\ task[j].step = "attach" /\ Has(j) /\ UNCHANGED <<facts, newest, call, releases>>
      /\ task[j].rev = draft[j].rev => draft[j].model
  BY DEF AttachParts, Does, DraftsInv, TaskFits
<1>2. CASE draft[j].rev = task[j].rev
  <2> DEFINE row == [draft[j] EXCEPT !.segmented = TRUE]
             t == [step |-> "bind"]
  <2>1. draft[j] \in DraftRow /\ RowFits(draft[j], j)
    BY <1>1, HasRow
  <2>2. /\ row \in DraftRow /\ row.rev = draft[j].rev /\ row.model = draft[j].model
        /\ row.known = draft[j].known /\ row.spots = draft[j].spots /\ row.reviewed = draft[j].reviewed
    BY <2>1, Zenon DEF DraftRow
  <2>3. Room(j) /\ Save(j, row) /\ Work(j, t)
    BY <1>2 DEF AttachParts
  <2> HIDE DEF row
  <2>4. RowFits(row, j)
    BY <1>1, <1>2, <2>1, <2>2 DEF RowFits
  <2>5. DraftsFit' /\ DraftsGrow /\ (Has(j))'
    BY <1>1, <2>2, <2>3, <2>4, SavedFits DEF DraftsInv
  <2>6. (TaskFits(j, t))'
    BY <2>5 DEF TaskFits, Steps
  <2> HIDE DEF t
  <2> QED
    BY <1>1, <2>3, <2>5, <2>6, ActorsMove DEF Publishers
<1>3. CASE draft[j].rev # task[j].rev
  <2> DEFINE t == [step |-> "needs_input"]
  <2>1. Work(j, t) /\ UNCHANGED draft /\ TaskFits(j, t)
    BY <1>1, <1>3 DEF AttachParts, TaskFits, Steps
  <2> HIDE DEF t
  <2> QED
    BY <1>1, <2>1, ReaderKeeps
<1> QED
  BY <1>2, <1>3

\* The binding looks for parts that match a node by name.
LEMMA BindKeeps == ASSUME DraftsInv, NEW j \in Pipelines, BindRead(j) PROVE DraftsInv'
<1>1. task[j].step = "bind" /\ Has(j) /\ UNCHANGED <<facts, draft, newest, releases>>
  BY DEF BindRead, Does, DraftsInv, TaskFits
<1>2. PICK B \in SUBSET {p \in draft[j].known : draft[j].spots[p] = NoRow} :
         IF B = {} \/ ~draft[j].segmented
         THEN Ended(j)
         ELSE /\ Work(j, [step |-> "patch", rev |-> draft[j].rev, parts |-> B])
              /\ UNCHANGED call
  BY DEF BindRead
<1>3. CASE Ended(j)
  <2>1. DraftsFit' /\ DraftsGrow /\ (Has(j))'
    BY <1>1, SameDrafts DEF DraftsInv, DraftsFit, Has
  <2> QED
    BY <1>1, <1>3, <2>1, EndedFits
<1>4. CASE draft[j].segmented /\ Work(j, [step |-> "patch", rev |-> draft[j].rev, parts |-> B])
           /\ UNCHANGED call
  <2> DEFINE t == [step |-> "patch", rev |-> draft[j].rev, parts |-> B]
  <2>1. draft[j].rev \in Nat /\ draft[j].model
    BY <1>1, <1>4, HasRow DEF RowFits
  <2>2. TaskFits(j, t)
    BY <1>1, <2>1 DEF TaskFits, Steps, SeenAt
  <2>3. Work(j, t)
    BY <1>4
  <2> HIDE DEF t
  <2>4. PICK x : x = t
    OBVIOUS
  <2> QED
    BY <1>1, <1>4, <2>2, <2>3, <2>4, ReaderKeeps
<1> QED
  BY <1>2, <1>3, <1>4

\* The candidates are patched in under the revision that was read.
LEMMA BindPatchKeeps == ASSUME DraftsInv, NEW j \in Pipelines, BindPatch(j) PROVE DraftsInv'
<1>1. /\ task[j].step = "patch" /\ Has(j) /\ UNCHANGED <<facts, newest, releases>> /\ Ended(j)
      /\ task[j].rev = draft[j].rev => draft[j].model /\ task[j].parts \subseteq draft[j].known
  BY DEF BindPatch, Does, DraftsInv, TaskFits
<1>2. DraftsFit' /\ DraftsGrow /\ (Has(j))'
  <2>1. CASE draft[j].rev = task[j].rev
    <3> DEFINE spots == [p \in PartIds |-> IF p \in task[j].parts
                           THEN [status |-> "candidate", on |-> j] ELSE draft[j].spots[p]]
               row == [draft[j] EXCEPT !.spots = spots]
    <3>1. draft[j] \in DraftRow /\ RowFits(draft[j], j)
      BY <1>1, HasRow
    <3>2. Room(j) /\ Save(j, row)
      BY <2>1 DEF BindPatch
    <3>3. /\ spots \in [PartIds -> Spot \cup {NoRow}]
          /\ \A p \in PartIds : spots[p] = draft[j].spots[p]
                                \/ (p \in task[j].parts /\ spots[p].on = j)
      <4>1. [status |-> "candidate", on |-> j] \in Spot
        BY DEF Spot
      <4>2. \A p \in PartIds : draft[j].spots[p] \in Spot \cup {NoRow}
        BY <3>1 DEF DraftRow
      <4> QED
        BY <4>1, <4>2
    <3> HIDE DEF spots
    <3>4. /\ row \in DraftRow /\ row.spots = spots
          /\ row.rev = draft[j].rev /\ row.model = draft[j].model /\ row.known = draft[j].known
          /\ row.seen = draft[j].seen /\ row.segmented = draft[j].segmented
          /\ row.reviewed = draft[j].reviewed
      BY <3>1, <3>3, SpotsSet
    <3> HIDE DEF row
    <3>5. RowFits(row, j)
      BY <1>1, <2>1, <3>1, <3>3, <3>4 DEF RowFits
    <3> QED
      BY <1>1, <3>2, <3>4, <3>5, SavedFits DEF DraftsInv
  <2>2. CASE draft[j].rev # task[j].rev
    <3>1. UNCHANGED <<facts, draft, newest>>
      BY <1>1, <2>2 DEF BindPatch
    <3> QED
      BY <1>1, <3>1, SameDrafts DEF DraftsInv, DraftsFit, Has
  <2> QED
    BY <2>1, <2>2
<1> QED
  BY <1>1, <1>2, EndedFits

-----------------------------------------------------------------------------
(* Publishing.                                                             *)

\* A publication that only reads moves to where it fits.
LEMMA CallerKeeps ==
    ASSUME DraftsInv, UNCHANGED <<facts, draft, newest, task, releases>>,
           NEW a \in Publishers, NEW c, Call(a, c), CallFits(a, c)
    PROVE  DraftsInv'
<1>1. DraftsFit' /\ DraftsGrow
  BY SameDrafts DEF DraftsInv, DraftsFit
<1>2. (CallFits(a, c))'
  BY <1>1, CallStays
<1>4. /\ call' = [b \in Publishers |-> call'[b]]
      /\ \A b \in Publishers : call'[b] = call[b] \/ (CallFits(b, call[b]))'
  <2>1. /\ call' = [b \in Publishers |-> call'[b]] /\ call'[a] = c
        /\ \A b \in Publishers : b # a => call'[b] = call[b]
    BY DEF DraftsInv, Call
  <2>2. (CallFits(a, call[a]))'
    BY <1>2, <2>1 DEF CallFits
  <2> QED
    BY <2>1, <2>2
<1>5. task' = [k \in Pipelines |-> task'[k]]
  BY DEF DraftsInv
<1> QED
  BY <1>1, <1>4, <1>5, DraftsKeep

\* The automatic publication reads the draft, or has nothing to do.
LEMMA AutoReadKeeps == ASSUME DraftsInv, NEW j \in Pipelines, AutoRead(j) PROVE DraftsInv'
<1> DEFINE c == [step |-> "confirm", row |-> draft[j]]
<1>1. /\ UNCHANGED <<facts, draft, newest, task, releases>> /\ call[j].step = "auto"
      /\ Call(j, Free) \/ (draft[j].model /\ Call(j, c))
  BY DEF AutoRead
<1>2. j \in Publishers /\ Has(j)
  BY <1>1 DEF Publishers, DraftsInv, CallFits
<1>3. draft[j] \in DraftRow /\ RowFits(draft[j], j)
  BY <1>2, HasRow
<1>4. draft[j].model => CallFits(j, c)
  BY <1>2, <1>3 DEF CallFits
<1> HIDE DEF c
<1>5. PICK x : x = c
  OBVIOUS
<1>6. CASE Call(j, Free)
  BY <1>1, <1>2, <1>6, FreeFits, CallerKeeps
<1>7. CASE draft[j].model /\ Call(j, c)
  BY <1>1, <1>2, <1>4, <1>5, <1>7, CallerKeeps
<1> QED
  BY <1>1, <1>6, <1>7

\* The automatic publication confirms what it has read, and goes on to
\* publish.
LEMMA AutoConfirmKeeps == ASSUME DraftsInv, NEW j \in Pipelines, AutoConfirm(j) PROVE DraftsInv'
<1> DEFINE read == call[j].row
           patch == ConfirmAll(read, j)
           next(rev) == [step |-> "publish", job |-> j, rev |-> rev, key |-> <<j, rev>>]
<1>1. /\ UNCHANGED <<facts, newest, task, releases>> /\ call[j].step = "confirm"
      /\ \/ \E rev : Call(j, next(rev)) /\ UNCHANGED draft
         \/ Call(j, Free) /\ UNCHANGED draft
         \/ draft[j].rev = read.rev /\ Room(j) /\ Save(j, patch) /\ \E rev : Call(j, next(rev))
  BY DEF AutoConfirm
<1>2. j \in Publishers /\ Has(j) /\ read \in DraftRow /\ RowFits(read, j) /\ read.model
  BY <1>1 DEF Publishers, DraftsInv, CallFits
<1> HIDE DEF read
<1>3. \A rev : CallFits(j, next(rev))
  BY <1>2 DEF CallFits
<1>4. patch \in DraftRow /\ RowFits(patch, j) /\ patch.rev = read.rev
  BY <1>2, ConfirmFits
<1> HIDE DEF patch
<1>5. CASE draft[j].rev = read.rev /\ Room(j) /\ Save(j, patch) /\ \E rev : Call(j, next(rev))
  <2>1. DraftsFit' /\ DraftsGrow
    BY <1>1, <1>2, <1>4, <1>5, SavedFits DEF DraftsInv
  <2>2. PICK rev : Call(j, next(rev))
    BY <1>5
  <2> DEFINE c == next(rev)
  <2>3. Call(j, c) /\ CallFits(j, c)
    BY <1>3, <2>2
  <2> HIDE DEF c
  <2>4. PICK x : x = c
    OBVIOUS
  <2>5. (CallFits(j, x))'
    BY <2>1, <2>3, <2>4, CallStays
  <2> QED
    BY <1>1, <1>2, <2>1, <2>3, <2>4, <2>5, ActorsMove
<1>6. CASE \E rev : Call(j, next(rev)) /\ UNCHANGED draft
  <2>1. PICK rev : Call(j, next(rev))
    BY <1>6
  <2> DEFINE c == next(rev)
  <2>2. Call(j, c) /\ CallFits(j, c)
    BY <1>3, <2>1
  <2> HIDE DEF c
  <2>3. PICK x : x = c
    OBVIOUS
  <2> QED
    BY <1>1, <1>2, <1>6, <2>2, <2>3, CallerKeeps
<1>7. CASE Call(j, Free) /\ UNCHANGED draft
  BY <1>1, <1>2, <1>7, FreeFits, CallerKeeps
<1> QED
  BY <1>1, <1>5, <1>6, <1>7

\* A person looks at the draft.
LEMMA ShowDraftKeeps ==
    ASSUME DraftsInv, NEW e \in DraftEditors, NEW j \in Pipelines, ShowDraft(e, j)
    PROVE  DraftsInv'
<1> DEFINE c == [step |-> "shown", job |-> j, rev |-> draft[j].rev]
<1>1. UNCHANGED <<facts, draft, newest, task, releases>> /\ Call(e, c) /\ CallFits(e, c)
  BY DEF ShowDraft, CallFits
<1> HIDE DEF c
<1>2. PICK x : x = c
  OBVIOUS
<1> QED
  BY <1>1, <1>2, CallerKeeps DEF Publishers

\* A person edits the revision that was shown.
LEMMA EditKeeps == ASSUME DraftsInv, NEW e \in DraftEditors, EditDraft(e) PROVE DraftsInv'
<1>1. PICK j : j = call[e].job
  OBVIOUS
<1>2. e \in Publishers /\ call[e].step = "shown" /\ UNCHANGED <<facts, newest, task, releases>>
  BY DEF EditDraft, Publishers
<1>3. j \in Pipelines /\ Has(j)
  BY <1>1, <1>2 DEF DraftsInv, CallFits
<1>4. CASE draft[j].rev = call[e].rev
  <2>1. PICK row \in Edits(draft[j], j) : Save(j, NormalizeStale(row, j))
    BY <1>1, <1>4 DEF EditDraft
  <2>2. Room(j) /\ Call(e, [call[e] EXCEPT !.rev = @ + 1])
    BY <1>1, <1>4 DEF EditDraft
  <2> DEFINE new == NormalizeStale(row, j)
             n == call[e].rev + 1
             c == [call[e] EXCEPT !.rev = n]
  <2>3. new \in DraftRow /\ RowFits(new, j) /\ new.rev = draft[j].rev
    BY <1>3, HasRow, EditFits
  <2>4. DraftsFit' /\ DraftsGrow
    <3> HIDE DEF new
    <3>1. Save(j, new)
      BY <2>1 DEF new
    <3> QED
      BY <1>2, <1>3, <2>2, <2>3, <3>1, SavedFits DEF DraftsInv
  <2>5. c.step = "shown" /\ c.job = j
    BY <1>1, <1>2 DEF DraftsInv
  <2>6. Call(e, c)
    BY <2>2
  <2> HIDE DEF c
  <2>7. CallFits(e, c)
    BY <1>3, <2>5 DEF CallFits
  <2>8. PICK x : x = c
    OBVIOUS
  <2>9. (CallFits(e, x))'
    BY <2>4, <2>7, <2>8, CallStays
  <2> QED
    BY <1>2, <1>3, <2>4, <2>6, <2>8, <2>9, ActorsMove
<1>5. CASE draft[j].rev # call[e].rev
  <2>1. Call(e, Free) /\ UNCHANGED draft
    BY <1>1, <1>5 DEF EditDraft
  <2> QED
    BY <1>2, <2>1, FreeFits, CallerKeeps
<1> QED
  BY <1>4, <1>5

\* A person asks for a release of the revision that was shown.
LEMMA RequestKeeps ==
    ASSUME DraftsInv, NEW e \in DraftEditors, NEW k, RequestPublish(e, k)
    PROVE  DraftsInv'
<1> DEFINE c == [step |-> "publish", job |-> call[e].job, rev |-> call[e].rev, key |-> k]
<1>1. /\ UNCHANGED <<facts, draft, newest, task, releases>> /\ Call(e, c)
      /\ call[e].step = "shown" /\ e \in Publishers
  BY DEF RequestPublish, Publishers
<1>2. CallFits(e, c)
  BY <1>1 DEF DraftsInv, CallFits
<1> HIDE DEF c
<1>3. PICK x : x = c
  OBVIOUS
<1> QED
  BY <1>1, <1>2, <1>3, CallerKeeps

\* Publishing reads the draft, and builds the release from it.
LEMMA PublishReadKeeps == ASSUME DraftsInv, NEW a \in Publishers, PublishRead(a) PROVE DraftsInv'
<1>1. PICK j : j = call[a].job
  OBVIOUS
<1> DEFINE c == [step |-> "commit", job |-> j, rev |-> call[a].rev,
                 key |-> call[a].key, frozen |-> draft[j]]
<1>2. /\ UNCHANGED <<facts, draft, newest, task, releases>> /\ call[a].step = "publish"
      /\ \/ Call(a, Free)
         \/ Call(a, c) /\ draft[j].rev = call[a].rev /\ Publishable(draft[j], j)
  BY <1>1 DEF PublishRead
<1>3. j \in Pipelines /\ Has(j)
  BY <1>1, <1>2 DEF DraftsInv, CallFits
<1>4. draft[j].rev \in Nat
  BY <1>3, HasRow
<1>5. draft[j].rev = call[a].rev /\ Publishable(draft[j], j) => CallFits(a, c)
  BY <1>3, <1>4 DEF CallFits, SeenAt
<1> HIDE DEF c
<1>6. PICK x : x = c
  OBVIOUS
<1>7. CASE Call(a, Free)
  BY <1>2, <1>7, FreeFits, CallerKeeps
<1>8. CASE Call(a, c) /\ draft[j].rev = call[a].rev /\ Publishable(draft[j], j)
  BY <1>2, <1>5, <1>6, <1>8, CallerKeeps
<1> QED
  BY <1>2, <1>7, <1>8

\* What a commit that goes through does: the draft it froze is the current one,
\* which counts its revision on, and one release is added.
LEMMA Committed ==
    ASSUME DraftsInv, NEW a \in Publishers, PublishCommit(a), releases' # releases
    PROVE  \E c : /\ c = call[a] /\ c.job \in Pipelines /\ Has(c.job)
                  /\ draft[c.job] = c.frozen /\ c.frozen.rev = c.rev /\ c.rev \in Nat
                  /\ Publishable(c.frozen, c.job)
                  /\ Room(c.job) /\ ~KeyUsed(c.key)
                  /\ draft' = [draft EXCEPT ![c.job] = [draft[c.job] EXCEPT !.rev = c.rev + 1]]
                  /\ releases' = releases \cup
                       {[job |-> c.job, rev |-> c.rev, key |-> c.key, frozen |-> c.frozen]}
<1>1. PICK c : c = call[a]
  OBVIOUS
<1>2. c.step = "commit" /\ StillCurrent(c) /\ ~KeyUsed(c.key) /\ Room(c.job)
      /\ draft' = [draft EXCEPT ![c.job].rev = @ + 1]
      /\ releases' = releases \cup
             {[job |-> c.job, rev |-> c.rev, key |-> c.key, frozen |-> c.frozen]}
  BY <1>1 DEF PublishCommit
<1>3. /\ c.job \in Pipelines /\ Has(c.job) /\ c.frozen.rev = c.rev /\ c.rev \in Nat
      /\ Publishable(c.frozen, c.job) /\ (c.rev = draft[c.job].rev => c.frozen = draft[c.job])
  BY <1>1, <1>2 DEF DraftsInv, CallFits, SeenAt
<1>4. draft[c.job].rev = c.rev
  BY <1>2 DEF StillCurrent
<1>5. draft' = [draft EXCEPT ![c.job] = [draft[c.job] EXCEPT !.rev = c.rev + 1]]
  BY <1>2, <1>4
<1> QED
  BY <1>1, <1>2, <1>3, <1>4, <1>5

\* The release is committed if the draft is still what was read.
LEMMA CommitKeeps == ASSUME DraftsInv, NEW a \in Publishers, PublishCommit(a) PROVE DraftsInv'
<1>1. UNCHANGED <<facts, newest, task>> /\ Call(a, Free)
  BY DEF PublishCommit
<1>2. /\ task' = [k \in Pipelines |-> task'[k]] /\ call' = [b \in Publishers |-> call'[b]]
      /\ \A b \in Publishers : call'[b] = call[b] \/ (CallFits(b, call[b]))'
  <2>1. call' = [b \in Publishers |-> call'[b]] /\ call'[a] = Free
        /\ \A b \in Publishers : b # a => call'[b] = call[b]
    BY <1>1 DEF DraftsInv, Call
  <2>2. (CallFits(a, call[a]))'
    BY <2>1 DEF CallFits, Free
  <2>3. task' = [k \in Pipelines |-> task'[k]]
    BY <1>1 DEF DraftsInv
  <2> QED
    BY <2>1, <2>2, <2>3
<1>3. CASE releases' = releases
  <2>1. UNCHANGED <<facts, draft, newest, task, releases>>
    <3>1. \/ UNCHANGED <<draft, releases>>
          \/ \E r : /\ ~KeyUsed(r.key) /\ releases' = releases \cup {r}
      BY DEF PublishCommit
    <3>2. ASSUME NEW r, ~KeyUsed(r.key), releases' = releases \cup {r} PROVE FALSE
      BY <1>3, <3>2 DEF KeyUsed
    <3> QED
      BY <1>1, <3>1, <3>2
  <2> QED
    BY <1>1, <2>1, FreeFits, CallerKeeps
<1>4. CASE releases' # releases
  <2>1. PICK c : /\ c = call[a] /\ c.job \in Pipelines /\ Has(c.job)
                 /\ draft[c.job] = c.frozen /\ c.frozen.rev = c.rev /\ c.rev \in Nat
                 /\ Room(c.job)
                 /\ draft' = [draft EXCEPT ![c.job] = [draft[c.job] EXCEPT !.rev = c.rev + 1]]
                 /\ releases' = releases \cup
                      {[job |-> c.job, rev |-> c.rev, key |-> c.key, frozen |-> c.frozen]}
    BY <1>4, Committed
  <2>2. PICK j : j = c.job
    OBVIOUS
  <2> DEFINE n == c.rev + 1
             new == [draft[j] EXCEPT !.rev = n]
  <2>3. n \in Nat /\ n \in 1 .. MaxDraftRev[j] /\ n > draft[j].rev
    BY <2>1, <2>2, DraftsAssumption DEF Room
  <2>4. draft' = [draft EXCEPT ![j] = new] /\ j \in Pipelines /\ Has(j)
    BY <2>1, <2>2
  <2> HIDE DEF n
  <2>5. new \in DraftRow /\ new.rev = n /\ RowFits(new, j)
    BY <2>3, <2>4, HasRow, RevSet
  <2> HIDE DEF new
  <2>6. DraftsFit' /\ DraftsGrow /\ draft'[j] = new /\ (Has(j))'
    BY <1>1, <2>3, <2>4, <2>5, RowWritten DEF DraftsInv
  <2>7. PICK r : r.job = j /\ r.rev = c.rev /\ releases' = releases \cup {r}
    BY <2>1, <2>2
  <2>8. (ReleaseIsPast(r))'
    BY <2>1, <2>3, <2>4, <2>5, <2>6, <2>7 DEF ReleaseIsPast, n
  <2>9. \A x \in releases' : x \in releases \/ (ReleaseIsPast(x))'
    BY <2>7, <2>8 DEF ReleaseIsPast
  <2> QED
    BY <1>1, <1>2, <2>6, <2>9, DraftsKeep
<1> QED
  BY <1>3, <1>4

\* A crash moves every stage back to its read and forgets every publication.
LEMMA DraftsCrashKeeps == ASSUME DraftsInv, DraftsCrash PROVE DraftsInv'
<1>1. DraftsFit' /\ DraftsGrow
  BY SameDrafts DEF DraftsInv, DraftsFit, DraftsCrash
<1>2. ASSUME NEW j \in Pipelines PROVE task'[j] = task[j] \/ (TaskFits(j, task[j]))'
  <2>1. TaskFits(j, task[j])
    BY DEF DraftsInv
  <2>2. \/ task'[j] = task[j]
        \/ task'[j] = [step |-> "assemble"]
        \/ Has(j) /\ task'[j] \in {[step |-> "segment"], [step |-> "bind"]}
    BY <2>1 DEF DraftsCrash, Does, TaskFits
  <2>3. Has(j) => (Has(j))'
    BY <1>1 DEF DraftsGrow
  <2> QED
    BY <2>2, <2>3 DEF TaskFits, Steps
<1>3. ASSUME NEW a \in Publishers PROVE call'[a] = call[a] \/ (CallFits(a, call[a]))'
  <2>1. call'[a] = call[a] \/ call'[a] = Free
    BY DEF DraftsCrash
  <2> QED
    BY <2>1 DEF CallFits, Free
<1>4. /\ task' = [j \in Pipelines |-> task'[j]] /\ call' = [a \in Publishers |-> call'[a]]
      /\ UNCHANGED releases
  BY DEF DraftsCrash
<1> QED
  BY <1>1, <1>2, <1>3, <1>4, DraftsKeep

-----------------------------------------------------------------------------
\* No drafts, nobody reading one.
LEMMA DraftsBegin == DraftsInit => DraftsInv
<1> SUFFICES ASSUME DraftsInit PROVE DraftsInv
  OBVIOUS
<1>1. DraftsFit
  BY DEF DraftsInit, DraftsFit, Has
<1>2. \A j \in Pipelines : TaskFits(j, task[j])
  BY DEF DraftsInit, TaskFits, Steps
<1>3. \A a \in Publishers : CallFits(a, call[a])
  BY DEF DraftsInit, CallFits, Free
<1> QED
  BY <1>1, <1>2, <1>3 DEF DraftsInit, DraftsInv

\* Every step keeps the invariant.
LEMMA DraftsStep == ASSUME DraftsInv, [DraftsNext]_draftsVars PROVE DraftsInv'
<1>1. CASE UNCHANGED draftsVars
  <2>1. UNCHANGED <<facts, draft, newest, task, call, releases>>
    BY <1>1 DEF draftsVars
  <2>2. DraftsFit' /\ DraftsGrow
    BY <2>1, SameDrafts DEF DraftsInv, DraftsFit
  <2> QED
    BY <2>1, <2>2, DraftsKeep DEF DraftsInv
<1>2. CASE StagesNext
  BY <1>2, BranchesKeep, AssembleKeeps, UpsertKeeps, SegmentKeeps, AttachKeeps, RetrySegmentKeeps,
     BindKeeps, BindPatchKeeps DEF StagesNext
<1>3. CASE PublishNext
  BY <1>3, AutoReadKeeps, AutoConfirmKeeps, PublishReadKeeps, CommitKeeps, ShowDraftKeeps,
     EditKeeps, RequestKeeps DEF PublishNext
<1> QED
  BY <1>1, <1>2, <1>3, DraftsCrashKeeps DEF DraftsNext

-----------------------------------------------------------------------------
\* Rows, results and the newest draft keep their types.
THEOREM DraftsTyped == DraftsSpec => []DraftsTypeOK
<1>1. DraftsInv => DraftsTypeOK
  BY DEF DraftsInv, DraftsFit, DraftsTypeOK, TaskFits
<1> QED
  BY <1>1, DraftsBegin, DraftsStep, PTL DEF DraftsSpec

\* However old the draft a binding was carried over from, a usable hotspot sits
\* on the model of its own draft and on a part that draft has.
THEOREM BindingsFit == DraftsSpec => []BindingsFitTheirModel
<1>1. DraftsInv => BindingsFitTheirModel
  BY DEF DraftsInv, DraftsFit, RowFits, BindingsFitTheirModel
<1> QED
  BY <1>1, DraftsBegin, DraftsStep, PTL DEF DraftsSpec

\* A release holds the draft as it stands when the release commits, fit to be
\* published, and a revision or a key is published once.
THEOREM ReleasesAreFrozen == DraftsSpec => ReleasesFreezeTheDraft
<1> DEFINE Freezes ==
        /\ releases \subseteq releases'
        /\ \A r \in releases' \ releases :
             /\ draft[r.job] = r.frozen
             /\ r.frozen.rev = r.rev
             /\ Publishable(r.frozen, r.job)
             /\ \A s \in releases' \ {r} :
                   s.key # r.key /\ (s.job = r.job => s.rev # r.rev)
<1>1. ASSUME DraftsInv, NEW a \in Publishers, PublishCommit(a), releases' # releases PROVE Freezes
  <2>1. PICK c : /\ c.job \in Pipelines /\ draft[c.job] = c.frozen /\ c.frozen.rev = c.rev
                 /\ Publishable(c.frozen, c.job) /\ ~KeyUsed(c.key)
                 /\ releases' = releases \cup
                      {[job |-> c.job, rev |-> c.rev, key |-> c.key, frozen |-> c.frozen]}
    BY <1>1, Committed
  <2> DEFINE n == [job |-> c.job, rev |-> c.rev, key |-> c.key, frozen |-> c.frozen]
  <2>2. n.job = c.job /\ n.rev = c.rev /\ n.key = c.key /\ n.frozen = c.frozen
        /\ releases' = releases \cup {n}
    BY <2>1
  <2> HIDE DEF n
  <2>3. \A s \in releases : s.key # c.key
    BY <2>1 DEF KeyUsed
  <2>4. \A s \in releases : s.job = c.job => s.rev # c.rev
    <3>1. \A s \in releases : s.rev \in Nat /\ s.rev < draft[s.job].rev
      BY <1>1 DEF DraftsInv, ReleaseIsPast
    <3>2. draft[c.job].rev = c.rev
      BY <2>1
    <3> QED
      BY <3>1, <3>2
  <2> QED
    BY <2>1, <2>2, <2>3, <2>4
<1>2. ASSUME DraftsInv, DraftsNext PROVE Freezes
  <2>1. CASE releases' = releases
    BY <2>1
  <2>2. CASE releases' # releases
    <3>1. \E a \in Publishers : PublishCommit(a)
      BY <1>2, <2>2
      DEF DraftsNext, StagesNext, PublishNext, DraftsCrash, BranchesEnd, AssembleRead, Upsert,
          SegmentRead, AttachParts, RetrySegment, BindRead, BindPatch, AutoRead, AutoConfirm,
          PublishRead, ShowDraft, EditDraft, RequestPublish
    <3> HIDE DEF Freezes
    <3> QED
      BY <1>1, <1>2, <2>2, <3>1
  <2> QED
    BY <2>1, <2>2
<1>3. ASSUME DraftsInv, [DraftsNext]_draftsVars PROVE [Freezes]_draftsVars
  BY <1>2, <1>3
<1> QED
  BY <1>3, DraftsBegin, DraftsStep, PTL DEF DraftsSpec, ReleasesFreezeTheDraft

-----------------------------------------------------------------------------
(* The components together.                                                *)

serviceVars == <<part, galleryVars, candidatesVars, quotesVars, draftsVars, segVars>>

\* A step of the service is one of each component, or leaves it alone: what is
\* true of a component on its own is true of it here.
THEOREM PartsMoveAlone ==
    ServiceSpec => /\ GallerySpec /\ CandidatesSpec /\ QuotesSpec
                   /\ DraftsSpec /\ SegSpec
<1>1. ServiceInit => /\ GalleryInit /\ CandidatesInit /\ QuotesInit
                     /\ DraftsInit /\ SegInit
  BY DEF ServiceInit
<1>2. [ServiceNext]_serviceVars =>
        /\ [GalleryNext]_galleryVars /\ [CandidatesNext]_candidatesVars
        /\ [QuotesNext]_quotesVars /\ [DraftsNext]_draftsVars /\ [SegNext]_segVars
  BY DEF ServiceNext, serviceVars
<1> QED
  BY <1>1, <1>2, PTL DEF ServiceSpec, serviceVars, GallerySpec, CandidatesSpec,
     QuotesSpec, DraftsSpec, SegSpec

\* Around the jobs of an item every component's state keeps its types, however
\* many photos, tabs, requests, pipelines and attempts there are.
THEOREM ServiceTyped == ServiceSpec => []ServiceTypeOK
<1>1. GalleryTypeOK /\ CandidatesTypeOK /\ QuotesTypeOK /\ DraftsTypeOK /\ SegTypeOK
        => ServiceTypeOK
  BY DEF ServiceTypeOK
<1> QED
  BY <1>1, PartsMoveAlone, GalleryTyped, CandidatesTyped, QuotesTyped, DraftsTyped,
     SegmentationTyped, PTL

=============================================================================
