# Verification of everything-manual's server

The server turns photos and a manual into an interactive guide by running a
*job*: a graph of stages, some of which buy something from an external provider
(Tripo for the 3D model, a text model for the manual). Requests cost real money,
the process may die at any point, replies get lost, leases lapse, and an
administrator cancels, retries and reconciles meanwhile. Around the jobs are the
things people edit (items, photos, drafts, releases) and what the server stands on
(files, backups, keys, logins, configuration). This directory models them in TLA+,
checks the models with TLC and proves part of them with TLAPS.

## 1. The system

| Part | State it keeps | Operations | Hard behaviour | Module |
|---|---|---|---|---|
| Job rules (`core/jobs.rs`, `jobs/recover.rs`) | none | stage graph, status aggregation, recovery plan | every combination of recorded facts must lead somewhere safe | `JobRules` |
| Executor (`jobs/executor.rs`, `repo/job_stages.rs`, `repo/attempts.rs`) | stage rows with lease epoch and counters, attempts | claim, run handler, checkpoint, renew, recover, shut down | concurrent tasks, lapsed leases, crashes | `JobExecutor` |
| Submission window (`jobs/submission.rs`) | attempt: intent, submitting, accepted, unknown, failed | begin, mark, record receipt, mark failed or unknown | crash or lost reply around the one POST | `JobExecutor` |
| Handlers (`providers/tripo`, `providers/manual_ai`, `jobs/pipeline.rs`) | results, ledger, draft | upload, submit, poll, download, validate, extract, merge, assemble | several transactions each, reads that go stale | `JobExecutor`, `ModelFiles`, `ModelCheck`, `Knowledge` |
| Control (`jobs/control.rs`) | idempotency keys of retries | cancel, retry, attachRemoteTask, recordNoTask, authorizeReplacement | checks outside the transaction that commits | `JobControl` |
| Ledger and prices (`core/cost.rs`, `generation/ledger.rs`, `generation/catalog.rs`) | one entry per snapshot and provider | reserve, settle, release, mark unknown; estimate | a transaction separate from the attempt and the stage; rounding and overflow | `JobExecutor`, `Segmentation`, `Pricing` |
| Quotes and job creation (`generation/`) | quotes, idempotency keys, snapshots | estimate, confirm, create job | two creations racing for one quote | `Quotes` |
| Segmentation and binding (`jobs/auto_stages.rs`) | a share of the model's ledger entry, parts model | segment, bind | submission, polling and attachment in one handler | `Segmentation`, `Drafts` |
| Drafts, releases (`drafts/`, `releases/`) | draft with revision, releases | assemble, patch, upload parts, publish, auto-publish | edits racing the assembly; references inside a draft | `Drafts`, `DraftContent` |
| Items, photos, candidates (`http/items.rs`, `http/photos.rs`, `http/view_candidates.rs`) | rows with revisions | create, edit, arrange, classify | optimistic locks, late answers | `Gallery`, `Candidates` |
| Preparations (`http/preparations.rs`, `repo/preparations.rs`) | pages of a PDF, sealed | put page, complete | two tabs on one preparation | `Preparations` |
| Sessions (`http/auth/`) | failures by address, sessions | login, logout, reset of the password | parallel logins against the limit | `SignIn` |
| Assets (`assets/`) | blobs, metadata, tmp and quarantine files | upload, scan | crash or power loss between rename and commit; scans that see a part | `AssetStore` |
| Backup and restore (`backup/`) | directories, archives | backup, restore | kills and damage half-way | `Backups` |
| Provider keys (`config/encrypted_secrets.rs`, `provider_overrides.rs`) | master key file, overlay | save, encrypt, load | processes that meet at the first use | `ProviderSecrets` |
| Configuration and start (`config/`, `storage/db.rs`) | files, environment, schema version, lock | check, init, serve | mixed sources; two programs on one directory | `Configuration` |

Everything in the server interacts through the database only: every transaction
is atomic (SQLite, `BEGIN IMMEDIATE`), and everything else interleaves. Handlers
call providers between transactions. A request handler typically reads on one
connection, answers what it can refuse, and commits later, in a transaction that
looks again only at what its SQL names; nearly every hazard listed in
PROJECT.json lives in that gap. What a person edits carries a revision (`ETag`,
`If-Match`); what must happen once carries an idempotency key with a unique index.

## 2. Modules

```
JobRules            pure rules (no state)
  JobExecutor       executor, window, handlers, ledger   -- refines --> Purchases
    JobControl      + administrators
MCAsync, MCBatches (JobExecutor), MCControl (JobControl): instances for TLC

Gallery  Candidates  Quotes  Drafts  Segmentation               MCService
SignIn  AssetStore  Backups  Preparations  ProviderSecrets
Knowledge  ModelFiles  ModelCheck  Pricing  DraftContent
Configuration                                                   MCPlatform

Proofs: JobExecutorProofs <- JobControlProofs, PaymentProofs
        QuotesProofs <- ServiceProofs      of MCService and its components
        ContentProofs <- PlatformProofs    of MCPlatform and its components
        Sums (sums and induction over intervals, used by the last three)
```

### 2.1 The jobs

**JobRules** translates the functions of `core/jobs.rs`, `recover.rs`,
`control.rs` (branches) and `core/cost.rs`: `StageDependency`, `ClaimGroup`,
`AggregateJobStatus`, `AggregateAfterRetry`, `ResumeHint`, `RecoveryPlan`,
`NextLedgerState`.

**JobExecutor.** One action is one transaction, one call to a provider, or the
reads between two of those.

| Action | Code |
|---|---|
| `Claim` | `claim_next_for_job`, then the reads at the head of `execute` |
| `CheckInputs` | `load_confirmed_inputs`, `load_frozen_inputs` |
| `BeginIntent`, `MarkSubmitting`, `ResetFact` | `SubmissionWindow`, `reset_result_fact` |
| `Post` | the request, with what the provider does with it |
| `HandleSubmitReply`, `HandleExtractReply` | the match on the reply in each handler, with `record_remote_task_id`, `record_sync_response`, `mark_unknown`, `mark_failed` |
| `LedgerStep` | settle, release or mark unknown, in a transaction of its own |
| `Poll`, `Fetch`, `Merge`, `Assemble`, `SaveDraft` | the handlers that buy nothing |
| `Fact`, `Checkpoint` | the two halves of `apply`: the unguarded result fact, then the guarded `advance` with `recompute_status` |
| `ScanLapsed` | `expired_running`: the scan reads the rows whose lease has run out |
| `RecoverAbandoned`, `RecoverLapsed` | `recover_one`: takeover, plan and advance in one transaction, the plan from the row the scan read |
| `Crash` | the process ends, or shutdown aborts what is in flight |

State and its counterpart: `stage[s]` is a row of `job_stages` (`status`,
`epoch` = `lease_epoch`, `retries` = `attempt_count`, `polls`, `result` =
`result_asset_id` with `usage.producedKnowledge`, `paused` = the missing-input
code `manual_branch_paused_by_unknown`); `attempts[s]` maps the epoch of the
claim that created an attempt to its `submit_state` and `remote_task_id`;
`ledger`, `job`, `draft` are tables; `workers` are the spawned tasks, each with
the guard it was given. `bills` is the provider's side of the story and
`allowance` a history variable: a purchase is confirmed and not yet made.

Abstractions that a reader should know:

- *Attempts are named by epochs.* An execution opens at most one window, and its
  lease epoch is new (`EpochsAreFresh`, proved), so the name is unique and orders
  attempts as `created_at` does. A remote task is named by the attempt whose POST
  created it; 0 is none.
- *Time.* `lease_until`, `next_run_at` and backoff are dropped. The lease of a
  stage without a live task may be recovered at any moment, the lease of a live
  task `MaxLapses` times (a renewal that failed, a suspended process). The
  guard of `advance` compares the lease end with the time at which the execution
  began, so in effect it asks for the epoch and `running`, which is `Holds`.
- *A scan* reads rows before the transaction that takes one over. While the holder
  lives it may record or erase its result in between, so `ScanLapsed` keeps the
  result that was seen; the row of a dead task nobody writes, and
  `RecoverAbandoned` is one step. The branch of `recover_one` for a result whose
  asset row is gone is left out: the foreign key of `result_asset_id` restricts
  deletion (`0001_core_schema.sql:196`).
- *Claim and first reads* are one action: the reads look at the attempts only,
  which a claim does not write, and what others write to them in between does
  not depend on the claim, so the two orders reach the same states.
- *Wait budget.* `waiting` may become `needs_input` at any poll and must at
  `MaxPolls`; the code compares elapsed time.
- *A provider configuration* that no longer fits the job ends an execution in
  `needs_input`, at any claim.
- *A subset of a job's stages* is modelled in each run; a dependency that is not
  in `Stages` counts as succeeded.

**JobControl** adds administrators. Each request is a `Check` (all reads and
refusals, `retry_gate`, the attempt of a reconciliation) and a commit (`Cancel`,
`Retry`, `Attach`, `RecordNoTask`, `AuthorizeReplacement`) which looks again only
at what its SQL names. `If-Match` is compared before the transaction in the code;
the model has no revisions, which admits at least the interleavings the code
admits. A retry carries an idempotency key, looked up in the check and unique in
the commit; the key is named by the request that brings it first, and a client
that got no answer sends its request again. `allowance` counts what people
confirmed, so a key that confirmed one purchase and let two through would break
`PurchasesArePromised`. The configuration guards only refuse, and are left out.
`Reconcilers` bounds who reconciles: two sessions that do are the subject of
`racing_reconcile`.

**Purchases** is the abstract promise about money: a paid stage is charged only
while a confirmation for it is open, and one charge closes it. Confirmations are
the quote, a retry, and an authorised replacement. `JobExecutor` refines it with
`Paid` = the paid stages and `bought` = the number of bills.

### 2.2 Around the jobs

Each of these modules is a component with its own variables. It has one action
per transaction or per stretch of code between two of them, its clients (tabs,
requests) are process-like constants, and a handler's local variables are in its
record: `editor`, `request`, `register`, `task`, `tab`, `sight`, ...

| Module | Its actions and the code | Abstractions |
|---|---|---|
| `Gallery` | `CreatePhoto`, `Arrange`; `Show` (GET), `PatchRead` (the handler reads the row and fills in what the request leaves out), `PatchWrite` (compare-and-set) | a content is an asset id; item and photo rows keep the fields that a race could mix |
| `Candidates` | `StartRegister`, `Judged` (the vision call, connection given back), `LookupRow`, `InsertRow`, `SetDismissed` | the suggestion is one of a few views |
| `Quotes` | `StartEstimate`/`StoreQuote`, `StartConfirm`/`StoreConfirmation`, `StartCreate`/`CheckQuote`/`CheckInputs`/`CommitJob`/`ReadBack`; around them `Expire`, `EditInputs`, `SaveConfig`, `Restart`, `EndJob`, `RetryJob` | prices stand for themselves (`Pricing` computes them); the job's own run is two actions |
| `Segmentation` | `ClaimSegment`, `StartSubmit`, `Send`, `PollTask`, `AttachModel`, settlement in its three places, `SegCrash`, `RetryStage`, `ReconcileStage` | the submission window is one step, it is `JobExecutor`'s |
| `Drafts` | `AssembleRead`/`Upsert`, `AttachParts`, `BindPatch`, `EditDraft`, `PublishRead`/`PublishCommit`, `AutoConfirm` | who may write when; content is what the publication check asks |
| `DraftContent` | `ReadProducts`/`WriteAssembly` (`aggregate.rs`, carry-forward), `PatchContent`, `WriteParts` | what a write does to references. One axis for three; specifications behave like steps, poses of the parts model like its actions; lengths of texts are left out. A client's requests (`Requests`) are pruned to those whose parts interact |
| `Preparations` | `FindOrCreate`, `InsertPreparation` (POST), `Refresh` and `ShowPages` (the two statements of GET), `PutPage`, `Complete` | a rendering is its hash; the blob may be lost; a tab puts and seals what a GET showed it, as the web client does (`PreparePage.tsx:187`) |
| `SignIn` | `StartLogin` (limiter and hash), `Verified`, `CreateSession`, `Logout`, `SetPassword`, `RevokeAll`, `Tick` | one source address: the limiter keeps the others apart; ages instead of instants |
| `AssetStore` | `Stage`, `Promote`, `SyncDir`, `CommitMetadata`; `ScanFiles` (sees any part of the files, as an unreadable directory or entry is passed over), `ReconcileRows`; `Flush` (the kernel writes the entry of a prefix directory, which the code does not sync), `StoreKill`, `PowerLoss`, `LoseFile` | a content stands for its hash; files in `tmp/` and `quarantine/` are read by nobody and drop out, and moving a file there counts as durable; the state `quarantined` is left out, no code sets it |
| `Backups` | `Snapshot`, `Scrub`, `BackUpBlob`, `WriteManifest`; `StartRestore`, `RestoreDatabase`, `RestoreBlob`, `VerifyRestored`; `Damage`, `LoseBlob` | a directory is its rows, files and sessions |
| `ProviderSecrets` | `GetMaster`, `CreateMaster` (create-only), `WriteSecret`, `SaveOverlay`, `EraseSecret`, `RunCommand`, `TamperMaster` | encryption is the key it was done with; power loss is left out |
| `Knowledge` | `SendBatch`, `TakeOutput` (validation), `TakeHttpFailure`, `ParkBatch`, `Reauthorize`, `Upgrade`, `MergeBatches` | a text is a model value; lengths and prompt wording are left out |
| `ModelFiles` | `Upload`, `Submit`, `Poll`, `BeginDownload`, `Get` (links, redirects), `Stream`, `Commit`, `RecordResult`, `Inspect`, `RecordRevision`; `ServerCrash`, `LeaseLapses`, `MediumFails` | the file is whole, truncated or lost; the medium does nothing else |
| `ModelCheck` | one action per section of `inspect`: container, buffers, positions, drawing, images, values | a file is what its declarations say; sizes are small numbers of bytes; points stand for the modes that form no triangle |
| `Pricing` | `LoadCatalog` (decimal literals, rounding up, overflow), `Estimate` | digits, amounts and token counts are small numbers in a small radix; currency and formatting left out |
| `Configuration` | `Edit`, `Check`, `Load`, `Prepare`, `Lock`, `Migrate`, `StartExecutor`, `Bind`, `StopServing` | of options that are one checked text (addresses, models, host names) one stands for all; `--config` and `EM_CONFIG` name one file; of what building the provider clients may refuse (`register_provider_handlers`, only in a start) the timeout of the model client is modelled, a TLS library that does not come up is not |

`MCService` and `MCPlatform` hold the components side by side. They share no
variable, so interleaving two of them reaches no state of either that one of them
alone does not; the variable `part` says which component a behaviour follows, and
the run costs the sum instead of the product of their sizes. Where components do
meet, the meeting is inside a module: the reservation that a model and its
segmentation share in `Segmentation`, the job, the tab and the publisher of one
draft in `Drafts`, the settings that a save and a creation race for in `Quotes`,
backup, restore and the commands that use a directory in `Backups`.

## 3. What TLC checks

| Run | Instance | Question and result |
|---|---|---|
| `submission` | upload, paid submission, poll, download; 2 tasks, 2 crashes | No crash, lost reply or refusal loses a payment in doubt (`DoubtIsParked`), reports success without a receipt (`SuccessHasReceipt`), gives back the reservation of a charge (`ReleaseIsUnbilled`), or leaves a job hanging (`EventuallyAtRest`). |
| `batches` | two batches, merge, assembly; 2 tasks, 1 lapse | A task that lost its lease advances nothing (`OnlyHolderAdvances`), the merge is never ahead of a batch (`DependenciesHold`), the draft has every branch with a result (`DraftIsCurrent`). |
| `control` | submission and batch, two administrators with 2 requests, one of them reconciling, 1 crash | Charges follow confirmations, and a retry sent twice is one confirmation (`PurchasesArePromised`), cancellation is final (`CancelIsFinal`), job and stage statuses agree (`JobStatusIsHonest`). |
| `stale` | one submission, 2 tasks, 1 lapse, 2 requests | Leases exclude (`LeaseIsExclusive`, `EpochsAreFresh`), a task id is written once (`TaskIdWriteOnce`), an unknown submission moves only by reconciliation (`UnknownAwaitsReconciliation`). |
| `service` | the five modules of what people edit and confirm (2.2) | No view holds two photos (`OnePhotoPerView`), no edit is lost to a stale form (`NoLostEdit`), a slow classification overwrites nothing (`LateVerdictIsDropped`); a confirmed quote becomes one job, with what it showed and one answer per key (`OneJobPerQuoteAndKey`, `JobIsTheConfirmedQuote`), under one configuration (`JobsRunTheirConfig`); bindings and reviews fit the draft's model (`BindingsFitTheirModel`), a release is the draft as it stood (`ReleasesFreezeTheDraft`); a settled reservation is the whole bill (`SettledIsTheWholeBill`) and one in doubt is kept (`UnknownTaskHoldsReserve`). |
| `platform` | the eleven modules of files, keys, content and start (2.2) | Guessing is bounded however logins overlap (`GuessesAreBounded`), a reset ends old sessions (`ResetEndsSessions`), an asset keeps its content, with three exceptions (`AssetsKeepTheirContent`, below), a restore is whole or refused (`RestoresAreWholeOrRefused`), a sealed manual is what its sealer was shown, although revision and pages are read apart (`UsableIsWhatWasSealed`), keys stay readable (`SecretsStayReadable`), merged facts keep their sources (`MergedKnowledgeIsTraceable`), a finished download is kept (`SavedModelIsWhatWasBought`), an accepted model can be drawn (`AcceptedModelsAreDrawable`), a quote covers the bill (`QuoteCoversTheBill`), a draft's references resolve (`DraftHoldsTogether`), a server runs alone, on its schema and within limits, and a start refuses of what a check passed only the model client's timeout (`ServersAreAsChecked`). |

Six further runs end in a counterexample, each on a sentence the repository says
of itself; PROJECT.json quotes it:

| Run | What happens |
|---|---|
| `unreserved` | Refused request, reservation released, crash before the stage is advanced: the stage is requeued and bought without a reservation. |
| `stale_purchase` | A task that lost its lease before its window opens it all the same and buys the stage a second time. |
| `erased_result` | A late `reset_result_fact` erases the result of the task that took the stage over. |
| `paused_batch` | A batch is parked for a sibling that was reconciled a moment ago, and stays parked. |
| `partial_draft` | A branch is retried while the assembly runs; the assembly is not requeued and the draft stays partial. |
| `racing_reconcile` | One administrator attaches the task, another's `recordNoTask`, checked earlier, overwrites it; the stage is bought again. |

The passing runs leave out what these need: those with `PurchasesArePromised` and
`SuccessHasReceipt` have no lapses and at most one session that reconciles, and
`batches` has no retries. `paused_batch`, `partial_draft` and `racing_reconcile` need
neither a lapse nor a crash, only two requests or tasks at the wrong moment.

`AssetsKeepTheirContent` names what it does not promise, in `excused`: a file that
somebody outside the program took or whose sync failed; a file that went, in a power
loss, with its prefix directory (the directory is synced, its entry in `blobs/` is
not, so the row of a first file may outlive it); and the row, not the file, of what a
start could not read (the scan passes over it and the row is marked missing). An
excuse ends when the content is stored, synced and committed again or a start sees
its file. The second and the third are findings, without a run of their own.

**Bounds.** `MaxCrashes` and `MaxLapses` bound failures, `MaxRequests` the
administrator, `MaxSafeRetries` and `MaxPolls` are the code's limits made small.
Two tasks suffice for every race between a holder and its predecessor. Two
crashes let the recovery of a recovery be interrupted. One lapse gives one stale
task, and the theorems below hold for any number. Two requests let a retry follow
a reconciliation, or meet another request. The instances keep to the stages whose
interaction is the subject of the run: in `submission` one stage of each
character of the model branch, in `batches` the join of two batches and the
relaxed join of the assembly. Deadlock is not an error in any run: a job that is
finished or waits for a person has nothing left to do. Symmetry is not used.

In the runs around the jobs every race has two actors of its kind (tabs, requests,
logins, writers, commands, programs) and each bounded resource one more place than
a race needs. The bounds by name: `MaxPhotos`, `MaxRevision`, `MaxJudged`,
`MaxEdits`, `MaxConfig`, `MaxDraftRev`, `MaxSubmits`; `MaxPasswords`, `MaxPreps`,
`MaxPage`, `MaxPrepRev`, `MaxLinks`, `MaxPages`, `MaxCount`, `MaxDigits`,
`MaxQuoted`, `MaxContentRev`. There is one preparation, as no step reads or writes
two: its two tabs have a revision for each of its two pages and a replacement before
it is sealed. Three submissions let one be lost, one replaced and one succeed on a
reservation. A draft's third and fourth revision let a person and
a stage both write between another's read and write. Three pages in batches of two
give a full batch and a short one, three batches would merge like two. `Sizes` has
a size below, at and above every header and element that is compared with it, and
one that is not aligned. `Pricing` counts in radix 3 with one digit of scale and two
after the point, so that a literal can be exact, too fine, or too large. One edit
of the configuration suffices for what was checked to be no longer what is loaded.
What the numbers stand for (limits, TTLs, window lengths) is compared only, never
computed with, except in `Pricing` and `ModelCheck`.

**Fairness.** `Fairness` is weak fairness of claiming, of every task, and of the
recovery of abandoned stages: the run loop claims and scans on every round, Tokio
polls a spawned task until it ends, provider calls have timeouts, and a lease
nobody renews runs out. Nothing is assumed of the provider's answers, of crashes,
or of administrators, and none of fairness is used in a safety property.

## 4. What is proved

A theorem holds for every value of the constants: any number of stages, tasks,
sessions, tabs, processes, contents, crashes and lapses. The assumptions are those
of the modules (there is a stage, kinds have a handler, limits are naturals and those of
revisions and windows positive, the null values lie outside their sets; views and
logins are finitely many; sizes are naturals and strides positive; documents are
sequences and only entities cite pages; every content belongs in one prefix directory; literals and costs are naturals within
their bounds; what a file or a command line says of an option may be entered for
it); TLC evaluates them in the runs.

| Module | Theorems, and the property of section 3 each one states |
|---|---|
| `JobExecutorProofs` (under `Spec`) | `TypeCorrect` (`TypeOK`), `EpochsStayFresh` (`EpochsAreFresh`), `LeasesExclude` (`LeaseIsExclusive`), `TaskIdsAreKept` (`TaskIdWriteOnce`), `StaleTasksMoveNothing` (`OnlyHolderAdvances`), `DependenciesStay` (`DependenciesHold`), `DraftStaysCurrent` (`DraftIsCurrent`) |
| `PaymentProofs` (under `Spec`, until a lease lapses under a live task) | `DoubtStaysParked` (`DoubtIsParked`), `SuccessesHaveReceipts` (`SuccessHasReceipt`), `PurchasesKeepThePromise` (`PurchasesArePromised`), `ReleasesAreUnbilled` (`ReleaseIsUnbilled`; one submission per job, as job creation makes it) |
| `JobControlProofs` (under `SpecControl`) | `ControlTyped` (`TypeOKControl`), `UnknownWaits` (`UnknownAwaitsReconciliation`), `CancellationIsFinal` (`CancelIsFinal`), `JobsStayHonest` (`JobStatusIsHonest`), and four of the executor's once more, with administrators: `LeasesStillExclude`, `EpochsStillFresh`, `TaskIdsStillKept`, `StaleTasksStillMoveNothing` |
| `QuotesProofs` | `QuotesTyped`, `OneJobEach` (`OneJobPerQuoteAndKey`), `JobsAreAsConfirmed` (`JobIsTheConfirmedQuote`), `JobsKeepTheirConfig` (`JobsRunTheirConfig`) |
| `ServiceProofs` | `HiddenTaskHolds` (`UnknownTaskHoldsReserve`), `WholeBillIsSettled` (`SettledIsTheWholeBill`), `ViewsHoldOnePhoto` (`OnePhotoPerView`), `EditsAreNotLost` (`NoLostEdit`), `FirstVerdictStays` (`LateVerdictIsDropped`), `BindingsFit` (`BindingsFitTheirModel`), `ReleasesAreFrozen` (`ReleasesFreezeTheDraft`), `ServiceTyped` (`ServiceTypeOK`), `PartsMoveAlone` |
| `PlatformProofs` | `GuessesStayBounded` (`GuessesAreBounded`), `ResetsEndSessions` (`ResetEndsSessions`), `SecretsReadable` (`SecretsStayReadable`), `AssetsKept` (`AssetsKeepTheirContent`), `SealedIsWhatWasSeen` (`UsableIsWhatWasSealed`), `StartsAreAsChecked` (`ServersAreAsChecked`), `RestoresAreWhole` (`RestoresAreWholeOrRefused`), `PlatformTyped` (`PlatformTypeOK`), `ComponentsMoveAlone` |
| `ContentProofs` | `BoughtModelIsSaved` (`SavedModelIsWhatWasBought`), `AcceptedIsDrawable` (`AcceptedModelsAreDrawable`), `DraftsHoldTogether` (`DraftHoldsTogether`), `MergedIsTraceable` (`MergedKnowledgeIsTraceable`), `BillIsCovered` (`QuoteCoversTheBill`) |

Each of the sixteen components around the jobs has its type theorem as well
(`SegmentationTyped`, `GalleryTyped`, ..., `PricingTyped`). `PartsMoveAlone` and
`ComponentsMoveAlone` say that a behaviour of the composition is one of each
component, so whatever is proved under a component's specification holds of
`ServiceSpec` or `PlatformSpec`; `ServiceTyped` and `PlatformTyped` follow from
them. Every invariant and action property of the passing runs is stated by one of
these theorems; under which specification some of them are not is said below, under
*only model-checked*.

Every module has an inductive invariant, a lemma per action that shows it kept, a
lemma that collects the actions, and the theorems by temporal logic.

*The executor.* The invariant is

    IInv == TypeOK /\ OutcomeIsDecided /\ EpochsAreFresh /\ BatchesHaveNoTask

`LeaseIsExclusive` alone is not inductive: a stale guard could equal an epoch
about to be handed out. `EpochsAreFresh` says no guard is ahead of its row and no
two guards of a stage are equal; claims and takeovers move the epoch by one
(`LeasedType`), so the new guard differs from all others, and `LeasesExclude`
follows. Its last two conjuncts make the attempt an execution creates a new one.
`OutcomeIsDecided` says a task that reached its ledger step or checkpoint has an
outcome those steps know, without which `LedgerStep` and `Advanced` have no value.
`BatchesHaveNoTask` says a batch's receipt carries no remote task, which is why
`HandleExtractReply` may write a receipt without one. That `latest_for_stage`
finds an attempt (`LatestType`) needs a greatest element of a bounded set of
naturals; `BoundedHasGreatest` gets it from the well-founded order of strict
inclusion on the intervals above its elements.

Rows move only as `RowsExecuted` allows (claimed, advanced, taken over), so a
success stays while nobody retries: what a claim saw of the dependencies of its
stage remains true (`DependenciesStay`). The dependencies of a claimed assembly are
at rest and stay there; `DraftInv` adds what a task that assembles has read and
written, and that every assembly of a job has the same dependencies
(`DraftStaysCurrent`). Both are theorems of `Spec`: the run `partial_draft` shows
what a retry does to the second.

*Payments.* `PayInv` says of every stage that a charge leaves an attempt which says
so or is in doubt, that only the latest attempt can be either, that a receipt names
what was charged, and that what may be claimed or has failed was never sent
(`AttemptsFit`, `RowFits`); and of every task that it holds its lease and that its
place in the submission window tells what its attempt and the provider's books say
(`TaskFits`: before the mark nothing was sent, while armed nothing is charged,
after a task's reply the charge is in the books). One lemma per action
shows that a task keeps its own stage in order, `TaskPays` that no other task
holds that stage, `PlanPays` what a takeover may conclude from the rows a crash
left. A lapse breaks it: the task that lost its lease goes on, and the runs
`stale_purchase` and `erased_result` show it buy again and lose a result. `DoubtStaysParked` and `SuccessesHaveReceipts`
therefore say `lapses = 0 =>`, and the two theorems about steps assume
`MaxLapses = 0`; nothing bounds the crashes. `PurchasesKeepThePromise` is the
refinement of `Purchases`: `StepBuys` shows that the books move only by a request
which finds them empty and the confirmation open.

*Administrators.* `ControlInv == IInv /\ RequestsTyped`: what a request holds from
its check is typed, and only a stage that submits asynchronously is given a task.
A commit changes no lease and no worker and keeps recorded tasks, so `IInv` and the
task ids survive it (`CommitKeeps`); it moves a row only as `RowsCommitted` allows
(cancels what runs, reconciles what is unknown, leaves what is cancelled), while
the executor moves rows only as `RowsExecuted` allows. The two together decide
`UnknownWaits`, `CancellationIsFinal` and `StaleTasksStillMoveNothing`. A job's
status follows its stages because every step cancels the job, leaves it and the
statuses of its stages alone, claims one of its queued stages, or recomputes the
job from the rows it wrote (`JobFollows`).

*Quotes.* A job is right because each half of a handler leaves the other what it
may rely on, a predicate on the handler's record (`Fits`): between check and commit
the quote named is stored, confirmed and within the limit, and its configuration is
the current one with nothing pending (`Creatable`), which edits and saves leave
true. No two estimates store under one id (`PricingApart`), a stored quote names a
configuration that was saved (`QuotesEstimated`), jobs and keys point at each other
(`JobsMatch`, `KeysMatch`). `Creatable` is where the read lock of the handlers and
the refusal of a save while a job runs enter the proof.

*Logins.* Every login under way read the current hash, because the password
changes only while no server runs (`LoginsAreCurrent`); every active session is at
least as recent as the reported password (`SessionsAreKnown`); between revocation
and report none is active (`RevokedBeforeReport`).

*Assets.* A file is in its place after its rename and synced in its directory after
`SyncDir`, unless it is excused (`WritersAreDurable`); an asset has a row and such
content, likewise (`AssetsAreDurable`); and nobody writes while the scan at the
start runs. Excuses are added by the step that takes something and by no other:
by an outside loss or a failed sync, by a power loss to files that were synced in a
directory that was not, by a reconciliation to files that are there and were not
seen. Without them the theorem is false.

*Preparations.* A revision names one state of the pages (`RevisionsName`): a page put
between the two statements of a GET moves the revision on, so whoever holds the
current revision has been shown the current pages, and the compare-and-set
of sealing seals what its tab saw (`SealedIsShown`).

*Keys.* Unless the key file is tampered with, one key is known to everyone who
knows any (`OneKey`); only a process that knows none creates it, and the file is
created, never replaced. The server knows the key of the ciphertext it writes
whatever happens to the file (`ServerKnowsItsOverlay`).

*Segmentation.* Only the last submission may still be open (`LastIsLast`), a task at
the provider was sent by an attempt (`TasksWereSent`), one that no attempt names
belongs to an attempt in doubt (`HiddenTasksAreDoubted`), and the entry is settled
with the sum of what the attempts cost or holds (`EntryFits`). The bill is a sum
over any number of attempts; `Sums` has the facts about it (`SumExists`,
`SumsAgree`, `SumOfOne`: where one summand is not 0 the sum is that one).

*What people edit.* `TabKnows`: a tab whose revision is the current one was shown
the current row, so the compare-and-set of a patch keeps what it was not told of;
ids in use were issued (`IssuedOnly`) and never come back. In `Drafts` the rows are
right by themselves (`RowFits`: a usable hotspot is on the draft's own model and on
a part it has), and whoever read a draft and has the revision that is still current
holds the draft that is there (`TaskFits`, `CallFits`); a release names a revision
that has passed (`ReleaseIsPast`), hence none is published twice.

*Guesses.* The limiter keeps a count and the age of its window, the property speaks
of any stretch of `Window` ticks. `SumsFit` says what the partial sums of the wrong
guesses tell of the entry: while a window is open the guesses since its first tick
are the count, those before it were of an older window and stay below the bound;
once it lapsed, all that a stretch can still hold is below the count. The logins
that passed the check and have not answered (`Verifying`) are part of the bound.

*Configuration.* A process is `Idle`, `Refused` or `Ran`, with the settings its
sources gave when it loaded them; who executes owns the lock alone (`OneOwner`) on
its own schema (`OwnSchema`); what a check foretold is what a start with the same
line loads while nobody edits (`Foretells`, with the lemma `SourcesDecide`).
The refusal of the model client is the one a check cannot foretell: it looks at a
value that no check reads.

*Backup and restore.* A whole archive (`Sound`) has every row and every file that was
there; the command under way has copied what it says (`BackupInv`, `RestoreInv`),
and a directory that another command created in between is refused, never written.

*What the stages make.* `ModelFiles`: task, worker and kept file are related by
where the worker stands (`TaskInv`, `WorkerInv`, `KeptInv`). `ModelCheck`: every
declaration read so far is sound with those before it, in bytes of the file
(`BinOK`, `BufferOK`, `LayoutOK`, `ImageOK`); that the last element of an accessor
ends in its buffer, and so every other, is a product of count and stride, one lemma
for all. `DraftContent`: poses, hotspots, layer and reviews fit the content they are
in (`ContentFits`), an assembly fits before it is written, and a reader with the
current revision holds the current content (`SightFits`). `Knowledge`: an answer of
a batch was validated against the pages it was sent (`IsAnswer`), so merging keeps
three things, each entity with its sources (`Represents`), only pages its batches
read, and parts that are there; the induction runs over the entities of a batch and
over the batches. `Pricing`: a parsed literal is at least the literal
(`CatalogCovers`), `CeilDiv` rounds up, sums over the batches keep the order, and
the arithmetic of the lines carries the comparison to the amount.

**Induction.** The library's induction theorems take an operator as a parameter,
which the provers cannot instantiate. `Sums` therefore proves induction for a *set*
of numbers (`IntervalInduction`, from `LeastNumber`), and the recursive functions
of the models are unfolded with it: that the function exists, then that the
`CHOOSE` behind its definition satisfies its equation. The models use recursive
functions over intervals where they fold over data (`Joined`, `Merged`, `SumOf`,
`Power`, `TotalCharge`, the sum in `GuessesAreBounded`).

**What the proofs asked of the models.** Two `CASE`s with overlapping arms
(`ReadProducts`, `Given`) had no provable value and are written with disjoint arms or
an operator of their own (`OnCommandLine`); the folds became recursive functions and
the null values `NoDraft` and `NoResult` definitions. The proofs found no invariant
false that TLC had passed; most of the properties above are not inductive and needed
the strengthenings named here.

**Only model-checked.** Liveness (`EventuallyAtRest`) is out of the prover's
reach: it needs `ENABLED` and fairness. With administrators the refinement of
`Purchases` is checked on the instance of `control` only (`racing_reconcile` shows
where it fails), and so are `DoubtIsParked`, `SuccessHasReceipt` and
`ReleaseIsUnbilled` where administrators act or a lease lapses; `DependenciesHold`
and `DraftIsCurrent` are theorems of the executor alone.

## 5. What the code and its documents disagree on

Beside the six runs above, PROJECT.json lists what was noticed while modelling and
has no run: among others a password reset that is two statements (a kill between
them leaves old sessions alive, `config/commands.rs`), a limiter that is asked
before the password is verified and told afterwards (`GuessesAreBounded` states
what still holds), pages beyond the counted ones in a preparation (the quote
refuses it later), a retry that races its own repetition and is told it was
refused, a prefix directory whose entry is never synced and a scan that takes what
it cannot read for missing (`assets/`), numbers of 32-bit options that wrap, and a validated revision that a
second build cannot take back.

## 6. What is not modelled

- Documents and chat of an item: single statements, or read only.
- `backup/export.rs` (an archive for reading), PDF and image sniffing, redaction,
  log formatting: pure functions of a text or a file, without protocol state.
- The geometry that picks nodes and camera poses in `auto_bind`; what it writes to
  the draft is in `Drafts`.
- The HTTP surface (routing, DTOs, error mapping), the web application, the build
  tasks and the fake providers of the tests.
- The live-test scope, which only refuses, and the failpoints, which crash at a
  named place: the crash actions may do so anywhere.
- Storage errors in the middle of a handler end like a crash or an error reply;
  deferral of a stage whose handler is missing does not happen in a build that has
  them all.
- Building provider requests and parsing their bodies: `Post`, `Poll` and the
  download steps have the classes of replies the code tells apart.

## 7. Plan

1. *Done*: the jobs, what surrounds them and what they stand on, with their runs;
   every invariant and action property of the passing runs as a theorem.
2. *Done*: the payments, proved until a lease lapses.
3. Left: the refinement of `Purchases` with one administrator at a time
   (`SpecControl` with a single session that reconciles), whose invariant must add
   to `PayInv` what a request holds between its check and its commit.
