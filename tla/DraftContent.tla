---------------------------- MODULE DraftContent ----------------------------
(***************************************************************************)
(* What one manual draft holds and every way it is written: the assembly   *)
(* from what the branches produced and what an earlier draft had, a PATCH  *)
(* of hotspots, camera poses, reviews and interaction, and an uploaded     *)
(* parts model.  Who may write when, across drafts and up to the release,  *)
(* is in Drafts; here it is what a write does to the references between    *)
(* the parts of the content.  One axis stands for three; names that only   *)
(* have to be short enough are left out.                                   *)
(***************************************************************************)
EXTENDS Integers, FiniteSets, Sequences

CONSTANTS PartNames, StepNames,     \* what the item's manuals may name
          Finds,                    \* what this job may find: [parts, steps]
          SpotIds,                  \* ids of hotspots
          Formers,                  \* [model, part] of an earlier draft's hotspot
          PartFields, StepFields,   \* fields a person may rewrite (UserEdit)
          PartsFiles,               \* parts models that may be uploaded
          NoName,                   \* a node without a usable name
          OldModel, NewModel, NoModel, NoPart,
          ModelBounds,              \* [lo, hi] of both models
          Tolerance,                \* BOUNDS_TOLERANCE
          Reviewers,                \* tabs that edit this draft
          Attaching,                \* its job's segmentation, or a tab, that uploads
          MaxContentRev             \* bound on the draft's revision

ASSUME DraftContentAssumption ==
    /\ PartNames \cap StepNames = {}
    /\ Finds \subseteq [parts : (SUBSET PartNames) \ {{}}, steps : SUBSET StepNames]
    /\ Formers \subseteq [model : {OldModel, NewModel}, part : PartNames]
    /\ Cardinality({OldModel, NewModel, NoModel}) = 3
    /\ ModelBounds.lo \in Int /\ ModelBounds.hi \in Int /\ Tolerance \in Nat
    /\ MaxContentRev \in Nat \ {0}

VARIABLES produced,  \* what the branches of the job have produced so far
          former,    \* the item's draft from an earlier job, or NoDraft
          sheet,     \* the draft, or NoDraft
          assembly,  \* the content that draft_assemble is about to write
          sight      \* caller -> what it saw of the draft, or read to attach

\* Nobody has assembled a draft yet; one that is stored has a revision above 0.
NoDraft == [rev |-> 0]

contentVars == <<produced, former, sheet, assembly, sight>>

-----------------------------------------------------------------------------
(* The content.                                                            *)

Callers == Reviewers \cup Attaching
Models == {OldModel, NewModel, NoModel}
PartsAndSteps == PartNames \cup StepNames
NoAnchor == NoModel        \* an anchor or a pose is known by its model
Unbound == [part |-> NoPart, status |-> "none", anchor |-> NoAnchor]
NeverReviewed == [status |-> "none", edited |-> {}, textOnly |-> FALSE]
NotReviewed == [of |-> NoModel, loaded |-> FALSE, userConfirmed |-> FALSE]
NoLayer == [of |-> NoModel, names |-> {}, bindings |-> {}, actions |-> {}]

\* DraftKnowledge::build: nothing hangs on the two branches' products yet.
Bare(model, parts, steps) ==
    [model |-> model, parts |-> parts, steps |-> steps,
     spots |-> [h \in SpotIds |-> Unbound],
     poses |-> [s \in {} |-> NoModel], layer |-> NoLayer]

\* A row of manual_drafts that was just assembled.
Unreviewed(content, rev) ==
    [rev |-> rev, status |-> "needs_review", content |-> content,
     entities |-> [e \in {} |-> NeverReviewed], modelReview |-> NotReviewed]

Taken(content) == {h \in SpotIds : content.spots[h].status # "none"}

\* The previous draft of the item: its hotspot and its pose sit on the model
\* it had, which the new job may have produced again.
FormerDrafts ==
    {NoDraft} \cup
    {LET base == Bare(f.model, PartNames, StepNames)
     IN  [base EXCEPT !.spots = [h \in SpotIds |->
                          [part |-> f.part, status |-> "confirmed", anchor |-> f.model]],
                      !.poses = [s \in StepNames |-> f.model]] :
        f \in Formers}

ContentInit ==
    /\ produced = [model |-> NoModel, parts |-> {}, steps |-> {}]
    /\ former \in FormerDrafts
    /\ sheet = NoDraft /\ assembly = NoDraft
    /\ sight = [t \in Callers |-> [step |-> "idle"]]

OnModel(model, spot) == spot.anchor = model /\ model # NoModel

\* normalize_stale_hotspots
Normalized(content) ==
    [content EXCEPT !.spots = [h \in SpotIds |->
        IF @[h].status \in {"candidate", "confirmed"} /\ ~OnModel(content.model, @[h])
        THEN [@[h] EXCEPT !.status = "stale"] ELSE @[h]]]

\* Mutant: the step is still there, so the camera goes on looking at it.
PosesOfSteps(content, previous) == DOMAIN previous.poses \cap content.steps

\* A pose is kept for such a step if the model is the very same.
PosesKept(content, previous) ==
    IF content.model # NoModel /\ content.model = previous.model
    THEN DOMAIN previous.poses \cap content.steps ELSE {}

\* carry_forward_previous: the hotspots of parts that are still there.
CarriedForward(content, previous) ==
    Normalized(
      [content EXCEPT
         !.spots = [h \in SpotIds |->
            IF previous.spots[h].part \in content.parts
            THEN previous.spots[h] ELSE Unbound],
         !.poses = [s \in PosesKept(content, previous) |-> previous.poses[s]]])

-----------------------------------------------------------------------------
(* The job.                                                                *)

\* A branch of the job comes to its end, at first or after a retry.
BranchEnds ==
    /\ assembly = NoDraft
    /\ \/ produced.model = NoModel /\ produced' = [produced EXCEPT !.model = NewModel]
       \/ /\ produced.parts = {}
          /\ \E f \in Finds : produced' = [produced EXCEPT !.parts = f.parts, !.steps = f.steps]
    /\ UNCHANGED <<former, sheet, assembly, sight>>

\* assemble_draft reads the products and what there is to carry forward ...
ReadProducts ==
    /\ assembly = NoDraft
    /\ produced.model # NoModel \/ produced.parts # {}
    /\ LET bare == Bare(produced.model, produced.parts, produced.steps)
       IN  \/ sheet # NoDraft /\ assembly' = CarriedForward(bare, sheet.content)
           \/ /\ sheet = NoDraft /\ former # NoDraft
              /\ assembly' = CarriedForward(bare, former)
           \/ sheet = NoDraft /\ former = NoDraft /\ assembly' = bare
    /\ UNCHANGED <<produced, former, sheet, sight>>

\* ... and upserts: other content drops the review, the same changes nothing.
WriteAssembly ==
    /\ assembly # NoDraft
    /\ \/ sheet = NoDraft /\ sheet' = Unreviewed(assembly, 1)
       \/ sheet # NoDraft /\ sheet.content = assembly /\ UNCHANGED sheet
       \/ /\ sheet # NoDraft /\ sheet.content # assembly
          /\ sheet.rev < MaxContentRev
          /\ sheet' = Unreviewed(assembly, sheet.rev + 1)
    /\ assembly' = NoDraft
    /\ UNCHANGED <<produced, former, sight>>

-----------------------------------------------------------------------------
(* PATCH: a request names the sections it changes; the others are Untouched. *)

Untouched == [status |-> {}, upsert |-> {}, remove |-> {}, poses |-> {}, clear |-> {},
              entities |-> {}, review |-> {}, bindings |-> {}, actions |-> {}]

\* A hotspot may be put on the model that the tab shows, or marked unbound.
SpotItem(id, part, status, anchor) ==
    [id |-> id, part |-> part, status |-> status, anchor |-> anchor]

PoseRequest(step, model, cleared) ==
    [Untouched EXCEPT !.poses = {[step |-> step, on |-> model]}, !.clear = cleared]

\* validate_hotspot_patch; id NoPart asks for a new hotspot.
SpotsValid(content, patch) ==
    /\ \A item \in patch.upsert :
          /\ item.part \in content.parts
          /\ item.id \in Taken(content) \cup {NoPart}
          /\ IF item.status = "unbound" THEN item.anchor = NoAnchor
             ELSE OnModel(content.model, item)
    /\ patch.remove \subseteq Taken(content)

PosesValid(content, patch) ==
    {p.step : p \in patch.poses} \cup patch.clear \subseteq content.steps

\* The review status an entity will have, and whether it is edited by then.
WillBeConfirmed(entry, edit) ==
    edit.status = "confirmed" \/ (edit.status = "keep" /\ entry.status = "confirmed")

ReviewOf(row, e) ==
    IF e \in DOMAIN row.entities THEN row.entities[e] ELSE NeverReviewed

\* validate_entity_patch: fields of its own kind; text only is for parts
\* that are confirmed or edited.
EntitiesValid(row, patch) ==
    \A edit \in patch.entities :
        /\ \/ edit.of \in row.content.parts /\ edit.edited \subseteq PartFields
           \/ edit.of \in row.content.steps /\ edit.edited \subseteq StepFields
        /\ edit.textOnly = "yes" =>
              /\ edit.of \in PartNames
              /\ \/ WillBeConfirmed(ReviewOf(row, edit.of), edit)
                 \/ edit.edited \cup ReviewOf(row, edit.of).edited # {}

\* validate_model_review
ModelReviewValid(row, patch) ==
    \A r \in patch.review :
        /\ row.content.model # NoModel
        /\ r.userConfirmed => r.loaded \/ row.modelReview.loaded

\* parts_model_matches
LayerUsable(content) == content.layer # NoLayer /\ content.layer.of = content.model

\* validate_interactive_patch, validate_steps: a part is bound once, to nodes
\* of the file; an action moves nodes of the file for parts and steps that
\* are there.
InteractiveValid(content, patch) ==
    patch.bindings # {} \/ patch.actions # {} =>
        /\ LayerUsable(content)
        /\ \A set \in patch.bindings :
              /\ \A b \in set : /\ b.part \in content.parts
                                /\ b.nodes # {} /\ b.nodes \subseteq content.layer.names
              /\ \A b, c \in set : b.part = c.part => b = c
        /\ \A set \in patch.actions : \A a \in set :
              /\ a.nodes # {} /\ a.nodes \subseteq content.layer.names
              /\ a.parts \subseteq content.parts /\ a.steps \subseteq content.steps

PatchValid(row, patch) ==
    /\ SpotsValid(row.content, patch)
    /\ PosesValid(row.content, patch)
    /\ EntitiesValid(row, patch)
    /\ ModelReviewValid(row, patch)
    /\ InteractiveValid(row.content, patch)

\* commit_hotspot_patch: a known id is rewritten, a new one handed out; the
\* removal comes last.
SpotsCommitted(content, patch) ==
    LET free == SpotIds \ Taken(content)
        place(item) == IF item.id = NoPart THEN CHOOSE h \in free : TRUE ELSE item.id
        written == [h \in SpotIds |->
            IF \E item \in patch.upsert : place(item) = h
            THEN LET item == CHOOSE i \in patch.upsert : place(i) = h
                 IN  [part |-> item.part, status |-> item.status, anchor |-> item.anchor]
            ELSE content.spots[h]]
    IN  [h \in SpotIds |-> IF h \in patch.remove THEN Unbound ELSE written[h]]

\* The poses that are set, then those that are cleared.
PosesCommitted(content, patch) ==
    LET set == {p.step : p \in patch.poses}
    IN  [s \in (DOMAIN content.poses \cup set) \ patch.clear |->
            IF s \in set THEN (CHOOSE p \in patch.poses : p.step = s).on
            ELSE content.poses[s]]

\* commit_entity_patch: only the fields that were sent; edits accumulate.
EntityCommitted(entry, edit) ==
    [status   |-> IF edit.status = "keep" THEN entry.status ELSE edit.status,
     edited   |-> entry.edited \cup edit.edited,
     textOnly |-> IF edit.textOnly = "keep" THEN entry.textOnly
                  ELSE edit.textOnly = "yes"]

EntitiesCommitted(row, patch) ==
    [e \in DOMAIN row.entities \cup {edit.of : edit \in patch.entities} |->
        IF \E edit \in patch.entities : edit.of = e
        THEN EntityCommitted(ReviewOf(row, e),
                             CHOOSE edit \in patch.entities : edit.of = e)
        ELSE row.entities[e]]

\* What a person has declared of the model is only ever added to; a record
\* of another model starts anew.
ModelReviewCommitted(row, patch) ==
    IF patch.review = {} THEN row.modelReview
    ELSE LET r    == CHOOSE r \in patch.review : TRUE
             base == IF row.modelReview.of = row.content.model THEN row.modelReview
                     ELSE [NotReviewed EXCEPT !.of = row.content.model]
         IN  [base EXCEPT !.loaded = @ \/ r.loaded,
                          !.userConfirmed = @ \/ r.userConfirmed]

\* apply_interactive_patch replaces whole sets.
LayerCommitted(content, patch) ==
    [content.layer EXCEPT
        !.bindings = IF patch.bindings = {} THEN @ ELSE UNION patch.bindings,
        !.actions  = IF patch.actions = {} THEN @ ELSE UNION patch.actions]

\* apply_draft_patch, once everything was found valid.
Applied(row, patch) ==
    LET content == [row.content EXCEPT
                      !.spots = SpotsCommitted(row.content, patch),
                      !.poses = PosesCommitted(row.content, patch),
                      !.layer = LayerCommitted(row.content, patch)]
    IN  [row EXCEPT
           !.content = Normalized(content),
           !.entities = EntitiesCommitted(row, patch),
           !.modelReview = ModelReviewCommitted(row, patch),
           !.status = IF patch.status = {} THEN @ ELSE CHOOSE s \in patch.status : TRUE]

-----------------------------------------------------------------------------
(* The file of a parts model: nodes that place meshes, meshes made of      *)
(* primitives with their extents.                                          *)

Names(file) == {file.nodes[n].name : n \in DOMAIN file.nodes}

\* read_nodes: only nodes that do nothing but move their mesh.
NodesReadable(file) == \A n \in DOMAIN file.nodes : file.nodes[n].plain

\* At least one node; names that tell the nodes apart.
NamesUsable(file) ==
    /\ file.nodes # <<>>
    /\ NoName \notin Names(file)
    /\ Cardinality(Names(file)) = Len(file.nodes)

LowestOf(X) == CHOOSE x \in X : \A y \in X : x <= y
HighestOf(X) == CHOOSE x \in X : \A y \in X : x >= y

\* mesh_bounds: the hull of the primitives that state their extents.
Hull(mesh) == [lo |-> LowestOf({p.lo : p \in mesh}), hi |-> HighestOf({p.hi : p \in mesh})]

\* Where the nodes put their meshes.
Placed(file) ==
    {[lo |-> Hull(file.meshes[n.mesh]).lo + n.at, hi |-> Hull(file.meshes[n.mesh]).hi + n.at] :
        n \in {m \in {file.nodes[k] : k \in DOMAIN file.nodes} :
                m.mesh \in DOMAIN file.meshes /\ file.meshes[m.mesh] # {}}}

\* The parts together fill the model's box, up to the tolerance.
Aligned(file) ==
    LET off(x, y) == IF x > y THEN x - y ELSE y - x
    IN  /\ off(Hull(Placed(file)).lo, ModelBounds.lo) <= Tolerance
        /\ off(Hull(Placed(file)).hi, ModelBounds.hi) <= Tolerance

FileValid(file) ==
    /\ file.glb /\ NodesReadable(file) /\ NamesUsable(file)
    /\ Placed(file) # {}

Resolvable(nodes, file) == nodes \subseteq Names(file)

\* The layer on a new file: entries all of whose nodes it has.
LayerOn(file, content) ==
    [of       |-> content.model,
     names    |-> Names(file),
     bindings |-> {b \in content.layer.bindings : Resolvable(b.nodes, file)},
     actions  |-> {a \in content.layer.actions : Resolvable(a.nodes, file)}]

-----------------------------------------------------------------------------
(* The tabs.                                                               *)

\* What a tab asks for: one section, or a pose set and cleared at once.
\* Whether the draft has what it names is for the server to find out.
Requests(seen) ==
    {[Untouched EXCEPT !.status = {s}] : s \in {"needs_review", "ready"}}
    \cup {[Untouched EXCEPT !.upsert = {SpotItem(i, p, "unbound", NoAnchor)}] :
             i \in SpotIds \cup {NoPart}, p \in PartNames}
    \cup {[Untouched EXCEPT !.upsert = {SpotItem(i, p, "confirmed", a)}] :
             i \in SpotIds \cup {NoPart}, p \in PartNames, a \in {seen, OldModel}}
    \cup {[Untouched EXCEPT !.remove = {h}] : h \in SpotIds}
    \cup {PoseRequest(s, seen, C) : s \in StepNames, C \in SUBSET StepNames}
    \cup {[Untouched EXCEPT !.clear = {s}] : s \in StepNames}
    \cup {[Untouched EXCEPT !.entities =
              {[of |-> e, status |-> "keep", edited |-> F, textOnly |-> "yes"]}] :
             e \in PartsAndSteps, F \in {PartFields, StepFields}}
    \cup {[Untouched EXCEPT !.entities =
              {[of |-> e, status |-> s, edited |-> {}, textOnly |-> "keep"]}] :
             e \in PartsAndSteps, s \in {"confirmed", "needs_review"}}
    \cup {[Untouched EXCEPT !.review = {[loaded |-> l, userConfirmed |-> ~l]}] : l \in BOOLEAN}
    \cup {[Untouched EXCEPT !.bindings = {{[part |-> p, nodes |-> Names(f)]}}] :
             p \in PartNames, f \in PartsFiles}
    \cup {[Untouched EXCEPT !.actions = {{[parts |-> {p}, steps |-> S, nodes |-> {n}]}}] :
             p \in PartNames, S \in SUBSET StepNames, n \in UNION {Names(f) : f \in PartsFiles}}
    \cup {[Untouched EXCEPT !.bindings = {{}}], [Untouched EXCEPT !.actions = {{}}]}

Moves(t, w) == sight' = [sight EXCEPT ![t] = w]

\* A tab shows the draft; a stage of the job reads its revision.
ShowContent(t) ==
    /\ sight[t].step = "idle" /\ sheet # NoDraft
    /\ Moves(t, [step |-> "shown", rev |-> sheet.rev, model |-> sheet.content.model])
    /\ UNCHANGED <<produced, former, sheet, assembly>>

\* patch_draft: one transaction.  A request that is not valid, or that comes
\* with an old revision, changes nothing; one that asks for what is there
\* already does not count as a revision.
PatchContent(t) ==
    /\ t \in Reviewers /\ sight[t].step = "shown"
    /\ \E patch \in Requests(sight[t].model) :
          /\ \A item \in patch.upsert :
                item.id = NoPart => Taken(sheet.content) # SpotIds
          /\ IF PatchValid(sheet, patch) /\ sheet.rev = sight[t].rev
             THEN LET new == Applied(sheet, patch)
                  IN  IF new = sheet THEN UNCHANGED <<sheet, sight>>
                      ELSE /\ sheet.rev < MaxContentRev
                           /\ sheet' = [new EXCEPT !.rev = @ + 1]
                           /\ Moves(t, [sight[t] EXCEPT !.rev = @ + 1])
             ELSE UNCHANGED sheet /\ Moves(t, [step |-> "idle"])
    /\ UNCHANGED <<produced, former, assembly>>

\* attach_parts_model checks the file and reads the draft, which may have
\* moved since the caller saw it ...
ReadForParts(t) ==
    /\ t \in Attaching /\ sight[t].step = "shown"
    /\ \E file \in PartsFiles :
          IF FileValid(file) /\ sheet.content.model # NoModel /\ Aligned(file)
          THEN Moves(t, [step |-> "attach", rev |-> sight[t].rev, file |-> file,
                        read |-> sheet.content])
          ELSE Moves(t, [step |-> "idle"])
    /\ UNCHANGED <<produced, former, sheet, assembly>>

\* ... and writes what it read, with the new layer, if the revision is still
\* the one the caller saw; the review column is not touched.
WriteParts(t) ==
    /\ sight[t].step = "attach"
    /\ IF sheet.rev = sight[t].rev
       THEN /\ sheet.rev < MaxContentRev
            /\ sheet' = [sheet EXCEPT !.rev = @ + 1,
                  !.content = [sight[t].read EXCEPT
                                  !.layer = LayerOn(sight[t].file, sight[t].read)]]
       ELSE UNCHANGED sheet
    /\ Moves(t, [step |-> "idle"])
    /\ UNCHANGED <<produced, former, assembly>>

ContentNext ==
    \/ BranchEnds \/ ReadProducts \/ WriteAssembly
    \/ \E t \in Callers : ShowContent(t) \/ PatchContent(t) \/ ReadForParts(t) \/ WriteParts(t)

ContentSpec == ContentInit /\ [][ContentNext]_contentVars

-----------------------------------------------------------------------------
ContentTypeOK ==
    /\ produced.model \in Models
    /\ assembly = NoDraft \/ assembly.model \in Models
    /\ sheet # NoDraft =>
         /\ sheet.rev \in 1 .. MaxContentRev
         /\ sheet.status \in {"needs_review", "ready"}
         /\ \A h \in SpotIds : sheet.content.spots[h].status \in
                {"none", "unbound", "candidate", "confirmed", "stale"}
    /\ \A t \in Callers : sight[t].step \in {"idle", "shown", "attach"}

\* Whatever was edited, reassembled and uploaded in whatever order, every
\* reference inside the draft resolves: a pose is one of a step that is
\* there and was taken on the draft's model; a usable hotspot sits on that
\* model and on a part; the layer belongs to the model, and what it binds and
\* moves are nodes of its own file; and a person has declared nothing of a
\* part, a step or a model that the draft does not hold.
DraftHoldsTogether ==
    sheet # NoDraft =>
      LET c == sheet.content
      IN  /\ \A s \in DOMAIN c.poses : s \in c.steps /\ c.poses[s] = c.model
          /\ \A h \in Taken(c) :
                /\ c.spots[h].part \in c.parts
                /\ c.spots[h].status \in {"candidate", "confirmed"} =>
                      OnModel(c.model, c.spots[h])
          /\ c.layer # NoLayer => c.layer.of = c.model
          /\ \A b \in c.layer.bindings : b.part \in c.parts /\ b.nodes \subseteq c.layer.names
          /\ \A a \in c.layer.actions :
                a.nodes \subseteq c.layer.names /\ a.parts \subseteq c.parts /\ a.steps \subseteq c.steps
          /\ DOMAIN sheet.entities \subseteq c.parts \cup c.steps
          /\ sheet.modelReview # NotReviewed => sheet.modelReview.of = c.model
          /\ sheet.modelReview.userConfirmed => sheet.modelReview.loaded
=============================================================================
