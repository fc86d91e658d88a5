------------------------------- MODULE Drafts -------------------------------
(***************************************************************************)
(* The manual's draft and its releases.  A job assembles its draft, hangs  *)
(* the segmented parts model into it, proposes bindings and, when it has   *)
(* ended, confirms and publishes it; a person edits and publishes the same *)
(* draft meanwhile.  Every writer but the assembly compares the revision   *)
(* it read; a release freezes one revision for good.                       *)
(* A job produces one model, so the job's id stands for the model's.       *)
(***************************************************************************)
EXTENDS Naturals, FiniteSets

CONSTANTS Pipelines,   \* generation jobs of one item, each with its draft
          Segmenting,  \* those whose quote included the segmentation
          PartIds,     \* parts that the manual may name
          DraftEditors,\* browser tabs
          PublishKeys, \* idempotency keys of the tabs
          MaxDraftRev, \* per job, bound on its draft's revision
          NoRow

\* A hotspot: the part is in the map, its anchor on the model of a job.
Spot == [status : {"candidate", "confirmed", "stale"}, on : Pipelines]
DraftRow == [rev : Nat, model : BOOLEAN, known : SUBSET PartIds,
             spots : [PartIds -> Spot \cup {NoRow}], segmented : BOOLEAN,
             reviewed : SUBSET PartIds, textOnly : SUBSET PartIds, seen : BOOLEAN]

ASSUME DraftsAssumption ==
    /\ Segmenting \subseteq Pipelines
    /\ Pipelines \cap DraftEditors = {}
    /\ MaxDraftRev \in [Pipelines -> Nat \ {0}]
    /\ NoRow \notin Pipelines \cup DraftRow

VARIABLES facts,    \* what the branches of a job have produced
          draft,    \* job -> its draft or NoRow
          newest,   \* the job whose draft was created last
          task,     \* the executor's work on the draft's stages
          call,     \* publishing jobs and tabs: what they read and want
          releases

draftsVars == <<facts, draft, newest, task, call, releases>>

Publishers == Pipelines \cup DraftEditors
Steps == {"branches", "assemble", "upsert", "segment", "attach", "bind",
          "patch", "needs_input", "done"}
Free == [step |-> "idle"]

DraftsInit ==
    /\ facts = [j \in Pipelines |-> [model |-> FALSE, known |-> {}]]
    /\ draft = [j \in Pipelines |-> NoRow]
    /\ newest = NoRow
    /\ task = [j \in Pipelines |-> [step |-> "branches"]]
    /\ call = [a \in Publishers |-> Free]
    /\ releases = {}

Work(j, t) == task' = [task EXCEPT ![j] = t]
Does(j, step) == task[j].step = step
Call(a, c) == call' = [call EXCEPT ![a] = c]
Has(j) == draft[j] # NoRow

-----------------------------------------------------------------------------
(* The content of a draft.                                                 *)

\* A candidate or confirmed hotspot must sit on the draft's own model.
NormalizeStale(row, j) ==
    [row EXCEPT !.spots = [p \in PartIds |->
        IF @[p] # NoRow /\ ~(row.model /\ @[p].on = j)
        THEN [@[p] EXCEPT !.status = "stale"] ELSE @[p]]]

\* Mutant: what is carried over keeps its status.
CarryForwardAsIs(row, previous, j) ==
    [row EXCEPT !.spots = [p \in PartIds |->
        IF p \in row.known THEN previous.spots[p] ELSE NoRow]]

\* Hotspots of the previous draft whose part is still there.
CarryForward(row, previous, j) ==
    NormalizeStale([row EXCEPT !.spots = [p \in PartIds |->
        IF p \in row.known THEN previous.spots[p] ELSE NoRow]], j)

Bound(row, p, j) ==
    row.spots[p] # NoRow /\ row.spots[p] = [status |-> "confirmed", on |-> j]

\* check_publish_invariants.
Publishable(row, j) ==
    /\ row.model /\ row.seen
    /\ row.known # {} /\ row.known \subseteq row.reviewed
    /\ \A p \in PartIds : row.spots[p] # NoRow =>
          /\ p \in row.known
          /\ row.spots[p].status = "stale" \/ row.spots[p].on = j
    /\ \A p \in row.known : p \in row.textOnly \/ Bound(row, p, j)

\* confirm_all_patch: candidates are confirmed, parts without a usable
\* hotspot become text only, everything counts as reviewed.
ConfirmAll(row, j) ==
    LET usable(p) == row.spots[p] # NoRow /\ row.spots[p].status # "stale"
                     /\ row.spots[p].on = j
    IN  [row EXCEPT !.seen = TRUE, !.reviewed = @ \cup row.known,
           !.textOnly = @ \cup {p \in row.known : ~usable(p)},
           !.spots = [p \in PartIds |->
               IF usable(p) THEN [status |-> "confirmed", on |-> j] ELSE @[p]]]

\* What a person may ask for in one PATCH, or by uploading a parts model.
Edits(row, j) ==
    {[row EXCEPT !.reviewed = @ \cup {p}] : p \in row.known}
    \cup {[row EXCEPT !.textOnly = @ \cup {p}] : p \in row.known \cap row.reviewed}
    \cup {[row EXCEPT !.spots[p] = NoRow] : p \in row.known}
    \cup IF row.model
         THEN {[row EXCEPT !.spots[p] = [status |-> "confirmed", on |-> j]] :
                   p \in row.known}
              \cup {[row EXCEPT !.seen = TRUE], [row EXCEPT !.segmented = TRUE]}
         ELSE {}

\* A write of content under compare-and-set; without a change nothing is
\* written and the revision stays.
Save(j, row) ==
    draft' = [draft EXCEPT ![j] =
                IF row = draft[j] THEN row ELSE [row EXCEPT !.rev = @ + 1]]

Room(j) == draft[j].rev < MaxDraftRev[j]

-----------------------------------------------------------------------------
(* The job's stages.                                                       *)

\* The branches come to rest: with a model or without, with knowledge or
\* without; a branch that failed may be retried once the job is at rest,
\* which queues the assembly and all that follows it again.
BranchesEnd(j) ==
    /\ task[j].step \in {"branches", "needs_input", "done"}
    /\ \E m \in {facts[j].model, TRUE} :
         \E K \in IF facts[j].known = {} THEN SUBSET PartIds ELSE {facts[j].known} :
            /\ [model |-> m, known |-> K] # facts[j]
            /\ facts' = [facts EXCEPT ![j] = [model |-> m, known |-> K]]
    /\ Work(j, [step |-> "assemble"])
    /\ UNCHANGED <<draft, newest, call, releases>>

\* assemble_draft reads the results and the draft whose bindings it carries
\* forward: the one it will overwrite, or else the item's newest ...
AssembleRead(j) ==
    /\ Does(j, "assemble")
    /\ LET empty == [rev |-> 1, model |-> facts[j].model,
                     known |-> facts[j].known,
                     spots |-> [p \in PartIds |-> NoRow], segmented |-> FALSE,
                     reviewed |-> {}, textOnly |-> {}, seen |-> FALSE]
       IN  Work(j, [step |-> "upsert", row |->
                IF Has(j) THEN CarryForward(empty, draft[j], j)
                ELSE IF newest # NoRow THEN CarryForward(empty, draft[newest], j)
                ELSE empty])
    /\ UNCHANGED <<facts, draft, newest, call, releases>>

\* ... and writes without comparing revisions: same content, nothing
\* happens; other content, and whatever was reviewed is forgotten.
Upsert(j) ==
    /\ Does(j, "upsert")
    /\ LET row  == task[j].row
           same == Has(j) /\ [draft[j] EXCEPT !.rev = 1, !.reviewed = {},
                                !.textOnly = {}, !.seen = FALSE] = row
       IN  /\ Has(j) => same \/ Room(j)
           /\ draft' = [draft EXCEPT ![j] =
                  IF ~Has(j) THEN row
                  ELSE IF same THEN @ ELSE [row EXCEPT !.rev = draft[j].rev + 1]]
           /\ newest' = IF Has(j) THEN newest ELSE j
    /\ IF j \in Segmenting
       THEN Work(j, [step |-> "segment"]) /\ UNCHANGED call
       ELSE Work(j, [step |-> "done"]) /\ Call(j, [step |-> "auto"])
    /\ UNCHANGED <<facts, releases>>

\* tripo_segment with its task id in hand: an attached parts model ends the
\* stage, no model in the draft stops it, otherwise the file is downloaded.
SegmentRead(j) ==
    /\ Does(j, "segment")
    /\ Work(j, IF draft[j].segmented THEN [step |-> "bind"]
               ELSE IF ~draft[j].model THEN [step |-> "needs_input"]
               ELSE [step |-> "attach", rev |-> draft[j].rev])
    /\ UNCHANGED <<facts, draft, newest, call, releases>>

\* attach_parts_model; a draft edited meanwhile stops the stage.
AttachParts(j) ==
    /\ Does(j, "attach")
    /\ IF draft[j].rev = task[j].rev
       THEN /\ Room(j)
            /\ Save(j, [draft[j] EXCEPT !.segmented = TRUE])
            /\ Work(j, [step |-> "bind"])
       ELSE Work(j, [step |-> "needs_input"]) /\ UNCHANGED draft
    /\ UNCHANGED <<facts, newest, call, releases>>

\* An administrator retries the stage: the task is polled and attached again.
RetrySegment(j) ==
    /\ Does(j, "needs_input")
    /\ Work(j, [step |-> "segment"])
    /\ UNCHANGED <<facts, draft, newest, call, releases>>

\* The job has ended; its automatic publication is spawned.
Ended(j) == Work(j, [step |-> "done"]) /\ Call(j, [step |-> "auto"])

\* auto_bind: parts that no hotspot names yet may match a node by name.
BindRead(j) ==
    /\ Does(j, "bind")
    /\ \E B \in SUBSET {p \in draft[j].known : draft[j].spots[p] = NoRow} :
         IF B = {} \/ ~draft[j].segmented
         THEN Ended(j)
         ELSE /\ Work(j, [step |-> "patch", rev |-> draft[j].rev, parts |-> B])
              /\ UNCHANGED call
    /\ UNCHANGED <<facts, draft, newest, releases>>

\* The candidates are patched in; a conflict is only logged.
BindPatch(j) ==
    /\ Does(j, "patch")
    /\ IF draft[j].rev = task[j].rev
       THEN /\ Room(j)
            /\ Save(j, [draft[j] EXCEPT !.spots = [p \in PartIds |->
                    IF p \in task[j].parts
                    THEN [status |-> "candidate", on |-> j] ELSE @[p]]])
       ELSE UNCHANGED draft
    /\ Ended(j)
    /\ UNCHANGED <<facts, newest, releases>>

-----------------------------------------------------------------------------
(* Publishing.                                                             *)

Published(j) == {r \in releases : r.job = j}

\* publish_job reads the draft; nothing to publish, or nothing new since the
\* last release, ends it.
AutoRead(j) ==
    /\ call[j].step = "auto"
    /\ LET row  == draft[j]
           last == \E r \in Published(j) :
                       /\ \A s \in Published(j) : s.rev <= r.rev
                       /\ r.rev + 1 = row.rev
       IN  Call(j, IF ~row.model \/ row.known = {} \/ last THEN Free
                   ELSE [step |-> "confirm", row |-> row])
    /\ UNCHANGED <<facts, draft, newest, task, releases>>

\* The confirming patch, and on to publish under a key made of the revision.
AutoConfirm(j) ==
    /\ call[j].step = "confirm"
    /\ LET read  == call[j].row
           patch == ConfirmAll(read, j)
           next(rev) == [step |-> "publish", job |-> j, rev |-> rev,
                         key |-> <<j, rev>>]
       IN  IF patch = read
           THEN Call(j, next(read.rev)) /\ UNCHANGED draft
           ELSE IF draft[j].rev = read.rev
           THEN /\ Room(j)
                /\ Save(j, patch)
                /\ Call(j, next(read.rev + 1))
           ELSE Call(j, Free) /\ UNCHANGED draft
    /\ UNCHANGED <<facts, newest, task, releases>>

\* A tab shows a draft, edits it and publishes it, with the revision it saw.
ShowDraft(e, j) ==
    /\ call[e].step = "idle" /\ Has(j)
    /\ Call(e, [step |-> "shown", job |-> j, rev |-> draft[j].rev])
    /\ UNCHANGED <<facts, draft, newest, task, releases>>

EditDraft(e) ==
    /\ call[e].step = "shown"
    /\ LET j == call[e].job
       IN  IF draft[j].rev = call[e].rev
           THEN /\ Room(j)
                /\ \E row \in Edits(draft[j], j) :
                      /\ row # draft[j]
                      /\ Save(j, NormalizeStale(row, j))
                /\ Call(e, [call[e] EXCEPT !.rev = @ + 1])
           ELSE Call(e, Free) /\ UNCHANGED draft
    /\ UNCHANGED <<facts, newest, task, releases>>

RequestPublish(e, k) ==
    /\ call[e].step = "shown"
    /\ Call(e, [step |-> "publish", job |-> call[e].job, rev |-> call[e].rev,
                key |-> k])
    /\ UNCHANGED <<facts, draft, newest, task, releases>>

KeyUsed(k) == \E r \in releases : r.key = k

\* publish_draft before its transaction: replay, revision, invariants, and
\* the frozen manifest.
PublishRead(a) ==
    /\ call[a].step = "publish"
    /\ LET row == draft[call[a].job]
       IN  Call(a, IF KeyUsed(call[a].key) \/ row.rev # call[a].rev
                      \/ ~Publishable(row, call[a].job)
                   THEN Free
                   ELSE [step |-> "commit", job |-> call[a].job, rev |-> call[a].rev,
                         key |-> call[a].key, frozen |-> row])
    /\ UNCHANGED <<facts, draft, newest, task, releases>>

\* Mutant: the draft is there, whatever its revision.
StillThere(c) == Has(c.job)

\* bump_revision_for_publish finds the revision that was frozen.
StillCurrent(c) == draft[c.job].rev = c.rev

\* The transaction: a moved revision or a used key rolls it back.
PublishCommit(a) ==
    /\ call[a].step = "commit"
    /\ LET c == call[a]
       IN  IF StillCurrent(c) /\ ~KeyUsed(c.key)
           THEN /\ Room(c.job)
                /\ draft' = [draft EXCEPT ![c.job].rev = @ + 1]
                /\ releases' = releases \cup
                     {[job |-> c.job, rev |-> c.rev, key |-> c.key,
                       frozen |-> c.frozen]}
           ELSE UNCHANGED <<draft, releases>>
    /\ Call(a, Free)
    /\ UNCHANGED <<facts, newest, task>>

\* The process dies: stages are taken up again, everything else is gone.
DraftsCrash ==
    /\ task' = [j \in Pipelines |->
          CASE Does(j, "upsert") -> [step |-> "assemble"]
            [] Does(j, "attach") -> [step |-> "segment"]
            [] Does(j, "patch")  -> [step |-> "bind"]
            [] OTHER             -> task[j]]
    /\ call' = [a \in Publishers |->
          IF call[a].step = "shown" THEN call[a] ELSE Free]
    /\ UNCHANGED <<facts, draft, newest, releases>>

StagesNext ==
    \E j \in Pipelines :
        \/ BranchesEnd(j)
        \/ AssembleRead(j) \/ Upsert(j)
        \/ SegmentRead(j) \/ AttachParts(j) \/ RetrySegment(j)
        \/ BindRead(j) \/ BindPatch(j)

PublishNext ==
    \/ \E j \in Pipelines : AutoRead(j) \/ AutoConfirm(j)
    \/ \E a \in Publishers : PublishRead(a) \/ PublishCommit(a)
    \/ \E e \in DraftEditors :
          \/ \E j \in Pipelines : ShowDraft(e, j)
          \/ EditDraft(e)
          \/ \E k \in PublishKeys : RequestPublish(e, k)

DraftsNext == StagesNext \/ PublishNext \/ DraftsCrash

DraftsSpec == DraftsInit /\ [][DraftsNext]_draftsVars

-----------------------------------------------------------------------------
DraftsTypeOK ==
    /\ facts \in [Pipelines -> [model : BOOLEAN, known : SUBSET PartIds]]
    /\ draft \in [Pipelines -> DraftRow \cup {NoRow}]
    /\ \A j \in Pipelines :
         /\ task[j].step \in Steps
         /\ Has(j) => draft[j].rev \in 1..MaxDraftRev[j]
    /\ newest \in Pipelines \cup {NoRow}

\* However old the draft a binding was carried over from, a hotspot that
\* counts as usable sits on the model of its own draft and on a part that
\* draft has; nothing is reviewed that is not there.
BindingsFitTheirModel ==
    \A j \in Pipelines : Has(j) =>
        /\ \A p \in PartIds :
             draft[j].spots[p] # NoRow /\ draft[j].spots[p].status # "stale" =>
                 draft[j].model /\ draft[j].spots[p].on = j /\ p \in draft[j].known
        /\ draft[j].seen \/ draft[j].segmented => draft[j].model
        /\ draft[j].reviewed \subseteq draft[j].known

\* A release holds the draft exactly as it stands when the release commits,
\* under the revision it names, and fit to be published, although it was
\* read, checked and frozen earlier; no release ever changes or goes away.  A
\* revision is published once and a key names one release, whoever publishes:
\* a tab that retries, two tabs, or the end of the job.
ReleasesFreezeTheDraft ==
    [][/\ releases \subseteq releases'
       /\ \A r \in releases' \ releases :
             /\ draft[r.job] = r.frozen
             /\ r.frozen.rev = r.rev
             /\ Publishable(r.frozen, r.job)
             /\ \A s \in releases' \ {r} :
                   s.key # r.key /\ (s.job = r.job => s.rev # r.rev)]_draftsVars

=============================================================================
