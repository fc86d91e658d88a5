----------------------------- MODULE Knowledge -----------------------------
(***************************************************************************)
(* What the manual-AI branch makes of a confirmed preparation: the plan    *)
(* cuts its pages into batches, each batch is sent once and answered, a    *)
(* validated answer becomes a batch result, and the merge joins the        *)
(* results without losing where a fact was found.  Leases, receipts and    *)
(* crashes of these stages are JobExecutor's; a text is a model value.     *)
(***************************************************************************)
EXTENDS Naturals, FiniteSets, Sequences, SequencesExt

CONSTANTS MaxPages,       \* pages of the PDF
          PagesPerBatch,  \* MANUAL_PAGES_PER_BATCH
          Versions,       \* prompt versions a build may support
          Outputs,        \* documents the model may answer with
          Malformed       \* output_text that is no such document

Entities == {"part", "step", "spec"}  \* what must cite its pages

\* A document is a list; an uncertainty has no place for a citation.
ASSUME KnowledgeAssumption ==
    /\ MaxPages \in Nat \ {0} /\ PagesPerBatch \in Nat \ {0}
    /\ Malformed \notin Outputs
    /\ \A o \in Outputs :
          /\ o \in Seq(ToSet(o))
          /\ \A e \in ToSet(o) : e.kind \in Entities \/ e.cites = {}

VARIABLES pages,    \* the sealed preparation: page number -> what it holds
          prompt,   \* the prompt version of the snapshot, and the build's
          batch,    \* batch index -> its stage and the result it recorded
          merge     \* the result of manual_merge

knowledgeVars == <<pages, prompt, batch, merge>>

(* "blank": a text layer of bytes that are all whitespace.                 *)
PageKinds == {"text", "blank", "scan"}
NoKnowledge == {"refusal", "incomplete", "failed", "empty", "unparsable"}

\* No result asset.
NoResult == [outcome |-> "none"]

(* plan_manual_ai: the pages of batch i, and the pages sent as an image.   *)
BatchCount == (Len(pages) + PagesPerBatch - 1) \div PagesPerBatch
Batches == 1 .. BatchCount
PagesOf(i) == {p \in DOMAIN pages : (p - 1) \div PagesPerBatch = i - 1}
ImagePages == {p \in DOMAIN pages : pages[p] = "scan"}

KnowledgeInit ==
    /\ pages \in UNION {[1 .. n -> PageKinds] : n \in 1 .. MaxPages}
    /\ \E v \in Versions : prompt = [snapshot |-> v, build |-> v]
    /\ batch = [i \in Batches |-> [status |-> "queued", result |-> NoResult]]
    /\ merge = NoResult

-----------------------------------------------------------------------------
(* validate_batch_output                                                   *)

ContentId(e) == <<e.kind, e.key, e.body>>

\* The pages an entity of batch i cites were all sent in that batch.
WellCited(i, e) ==
    e.kind \in Entities =>
        /\ e.cites # {}
        /\ \A c \in e.cites : c.page \in PagesOf(i)

LocalIdsUnique(output) ==
    \A x, y \in DOMAIN output :
        x # y => <<output[x].kind, output[x].local>> # <<output[y].kind, output[y].local>>

PartsNamed(output, e) ==
    {p \in ToSet(output) : p.kind = "part" /\ p.local \in e.refs}

RefsResolve(output) ==
    \A e \in ToSet(output) : e.refs = {p.local : p \in PartsNamed(output, e)}

Valid(i, output) ==
    /\ output # Malformed
    /\ LocalIdsUnique(output)
    /\ RefsResolve(output)
    /\ \A e \in ToSet(output) : WellCited(i, e)

Evidence(e) ==
    {[page |-> c.page, quote |-> c.quote, derived |-> c.page \in ImagePages] :
        c \in e.cites}

Structured(i, output) ==
    [x \in DOMAIN output |->
        [id |-> ContentId(output[x]),
         parts |-> {ContentId(p) : p \in PartsNamed(output, output[x])},
         evidence |-> Evidence(output[x]),
         batches |-> {i}]]

Completed(i, output) ==
    [outcome |-> "completed", version |-> prompt.snapshot, pages |-> PagesOf(i),
     entities |-> Structured(i, output)]

NotProduced(i, outcome) ==
    [outcome |-> outcome, version |-> prompt.snapshot, pages |-> PagesOf(i),
     entities |-> <<>>]

BatchResult(i, output) ==
    IF output = Malformed THEN NotProduced(i, "invalid_format")
    ELSE IF Valid(i, output) THEN Completed(i, output)
    ELSE NotProduced(i, "schema_violation")

-----------------------------------------------------------------------------
(* manual_extract                                                          *)

SetBatch(i, status, result) ==
    batch' = [batch EXCEPT ![i] = [status |-> status, result |-> result]]

\* load_frozen_inputs and load_page_payloads: the build speaks the confirmed
\* prompt version, no sibling is in doubt, and every page has a payload.
Sendable(i) ==
    /\ prompt.build = prompt.snapshot
    /\ \A k \in Batches \ {i} : batch[k].status # "submission_unknown"
    /\ \A p \in PagesOf(i) : pages[p] # "blank"

\* begin_intent .. reset_result_fact, and the request goes out.
SendBatch(i) ==
    /\ batch[i].status = "queued" /\ Sendable(i)
    /\ SetBatch(i, "running", NoResult)
    /\ UNCHANGED <<pages, prompt, merge>>

ParkBatch(i) ==
    /\ batch[i].status = "queued" /\ ~Sendable(i)
    /\ SetBatch(i, "needs_input", batch[i].result)
    /\ UNCHANGED <<pages, prompt, merge>>

Record(i, result) ==
    /\ batch[i].status = "running"
    /\ SetBatch(i, IF result.outcome = "completed" THEN "succeeded" ELSE "needs_input",
                result)
    /\ UNCHANGED <<pages, prompt, merge>>

\* A whole response with a document in it.
TakeOutput(i, output) == Record(i, BatchResult(i, output))

\* failure_of: a whole response that carries no document.
TakeNoKnowledge(i, outcome) == Record(i, NotProduced(i, outcome))

\* http_failure_outcome: throttled requests and refused ones were not
\* processed; after anything else nobody knows.
TakeHttpFailure(i, failure) ==
    /\ batch[i].status = "running"
    /\ SetBatch(i, CASE failure = "throttled" -> "queued"
                     [] failure = "refused"   -> "needs_input"
                     [] failure = "lost"      -> "submission_unknown", NoResult)
    /\ UNCHANGED <<pages, prompt, merge>>

\* An administrator confirms another purchase of the batch.
Reauthorize(i) ==
    /\ batch[i].status \in {"needs_input", "submission_unknown"}
    /\ SetBatch(i, "queued", batch[i].result)
    /\ UNCHANGED <<pages, prompt, merge>>

\* The server is replaced by a build with another prompt.
Upgrade(v) ==
    /\ prompt.build # v
    /\ prompt' = [prompt EXCEPT !.build = v]
    /\ UNCHANGED <<pages, batch, merge>>

-----------------------------------------------------------------------------
(* manual_merge                                                            *)

SameSource(x, y) == x.page = y.page /\ x.quote = y.quote

\* Mutant: one quotation per page.
MergeEvidenceByPage(old, new) ==
    old \cup {x \in new : ~\E y \in old : x.page = y.page}

MergeEvidence(old, new) ==
    old \cup {x \in new : ~\E y \in old : SameSource(x, y)}

\* The first entity of a content stays and gains evidence and batches.
MergeEntity(known, e) ==
    LET same == {x \in DOMAIN known : known[x].id = e.id}
    IN  IF same = {} THEN Append(known, e)
        ELSE [x \in DOMAIN known |->
                 IF x \notin same THEN known[x]
                 ELSE [known[x] EXCEPT
                          !.evidence = MergeEvidence(@, e.evidence),
                          !.batches = @ \cup e.batches]]

\* The entities of a batch, one after the other.
Joined(known, entities) ==
    LET upTo[n \in 0 .. Len(entities)] ==
            IF n = 0 THEN known ELSE MergeEntity(upTo[n - 1], entities[n])
    IN  upTo[Len(entities)]

\* The batches, in the order of their indices.
Merged ==
    LET upTo[n \in 0 .. BatchCount] ==
            IF n = 0 THEN <<>> ELSE Joined(upTo[n - 1], batch[n].result.entities)
    IN  upTo[BatchCount]

\* Entities of one kind and name that say different things.
Conflicts(entities) ==
    LET ids == {e.id : e \in ToSet(entities)}
        variants(id) == {o \in ids : o[1] = id[1] /\ o[2] = id[2]}
    IN  {variants(id) : id \in {d \in ids : d[1] \in Entities
                                            /\ Cardinality(variants(d)) > 1}}

\* merge_batches: every batch has knowledge of the snapshot's version, and
\* their pages cover the plan once.
Mergeable ==
    /\ \A i \in Batches :
          /\ batch[i].result # NoResult
          /\ batch[i].result.outcome = "completed"
          /\ batch[i].result.version = prompt.snapshot
    /\ UNION {batch[i].result.pages : i \in Batches} = DOMAIN pages
    /\ \A i, k \in Batches :
          i # k => batch[i].result.pages \cap batch[k].result.pages = {}

MergeBatches ==
    /\ merge = NoResult
    /\ \A i \in Batches : batch[i].status = "succeeded"
    /\ Mergeable
    /\ merge' = [entities |-> Merged, conflicts |-> Conflicts(Merged)]
    /\ UNCHANGED <<pages, prompt, batch>>

KnowledgeNext ==
    \/ \E i \in Batches :
         \/ SendBatch(i) \/ ParkBatch(i) \/ Reauthorize(i)
         \/ \E o \in Outputs \cup {Malformed} : TakeOutput(i, o)
         \/ \E o \in NoKnowledge : TakeNoKnowledge(i, o)
         \/ \E f \in {"throttled", "refused", "lost"} : TakeHttpFailure(i, f)
    \/ \E v \in Versions : Upgrade(v)
    \/ MergeBatches

KnowledgeSpec == KnowledgeInit /\ [][KnowledgeNext]_knowledgeVars

-----------------------------------------------------------------------------
KnowledgeTypeOK ==
    /\ pages \in UNION {[1 .. n -> PageKinds] : n \in 1 .. MaxPages}
    /\ DOMAIN batch = Batches
    /\ \A i \in Batches :
          /\ batch[i].status \in {"queued", "running", "needs_input",
                                  "succeeded", "submission_unknown"}
          /\ batch[i].status = "succeeded" => batch[i].result # NoResult
    /\ prompt \in [snapshot : Versions, build : Versions]

\* Every fact of every answer is in the merged knowledge with all its
\* sources; every source there is a page that one of the fact's own batches
\* sent, as the image or text the plan says; the parts a step needs are
\* there; and no two variants of a fact stand without a conflict.
MergedKnowledgeIsTraceable ==
    merge # NoResult =>
        LET merged == ToSet(merge.entities)
        IN  /\ \A i \in Batches : \A e \in ToSet(batch[i].result.entities) :
                  \E m \in merged :
                     /\ m.id = e.id /\ i \in m.batches
                     /\ \A x \in e.evidence : \E y \in m.evidence : SameSource(x, y)
            /\ \A m \in merged :
                  /\ \A x \in m.evidence :
                        /\ \E i \in m.batches : x.page \in PagesOf(i)
                        /\ pages[x.page] # "blank"
                        /\ x.derived = (pages[x.page] = "scan")
                  /\ m.parts \subseteq {o.id : o \in merged}
                  /\ \A o \in merged :
                        (m # o /\ m.id[1] = o.id[1] /\ m.id[2] = o.id[2]
                           /\ m.id[1] \in Entities)
                           => \E c \in merge.conflicts : {m.id, o.id} \subseteq c
=============================================================================
