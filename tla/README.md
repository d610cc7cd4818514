# A verification of VoiceQC

VoiceQC takes recordings of broker calls, transcribes them with a remote speech
recogniser, has an LLM evaluate the transcripts, and reconciles the trades they
mention with the transactions on file.  Its core is a pipeline of Celery tasks
over a PostgreSQL table, with late acknowledgement, redelivery, advisory locks,
timers that look for lost work, and operators who send recordings back.  Around
it is a web application whose pages poll, upload, edit and decide on what they
showed a moment ago.  The modules here model the pipeline and the pages with the
handlers behind them, TLC checks them on small instances, and TLAPS proves their
safety for any number of recordings, workers, files, documents, imports, requests
and faults: every invariant and every action property that a run checks is a theorem,
some under an assumption that the run makes too.

Paths in this file are relative to `src/`; `tasks/` is
`apps/worker/worker/tasks/`, `routers/` is `apps/api/app/routers/`, `pages/` is
`apps/web/src/app/(dashboard)/`.

## 1. Inventory

| Component | State | Operations | Talks to |
|---|---|---|---|
| API: batches, recordings (`routers/batches.py`, `recordings.py`) | `upload_batches`, `recordings` | upload, finalize, retry-failed, rerun-stt, bulk rerun, reprocess, re-evaluate | commits, then publishes Celery messages |
| Ingestion (`tasks/ingest.py`) | rows, bucket | `expand_batch` | one chain of tasks per recording |
| Audio (`tasks/pipeline.py: normalize_audio`, `audio.py`) | row, bucket | split into channels | `transcribe` through the chain |
| Speech to text (`pipeline.py: transcribe`, `batch.py: dispatch_stt_waiting`) | row, slots (`stt_started_at`), `stt_operation_name`, transcript, advisory locks | claim, submit, poll, repair speakers, store; reserve and publish | provider, LLM (repair), `evaluate` |
| Evaluation (`tasks/evaluate.py`) | `evaluations`, results, `llm_usage`, row, session lock | budget guard, call, persist, complete | LLM, `update_progress` |
| Rollup and sweep (`tasks/batch.py`) | batch status, rows | `update_progress`, `sweep_stuck` (every 5 minutes) | sends stages again |
| Retention (`tasks/maintenance.py`) | audio, transcripts, usage | daily purge | nobody; the others find data missing |
| Batch pages (`pages/batches/`) | what is shown, upload queue and slots | load, poll, upload, finalize, retry, rerun, delete | `routers/batches.py`, bucket |
| Recording page, evaluation panel (`pages/recordings/[id]/`) | three loads, selected run, dialogs | poll, reprocess, re-evaluate, review, override | `routers/recordings.py`, `evaluations.py` |
| Reconciliation (`pages/recon/`, `routers/recon.py`, `tasks/recon.py`) | runs, items, decisions; selected run, tab, drawer | run, decide, link, carry decisions forward | reads evaluations and transactions |
| Imports (`pages/transactions/`, `routers/transactions.py`, `tasks/txn.py`) | imports, transactions; list, wizard, pull dialog | CSV and API imports, scheduled pulls, delete | external API, reconciliation |
| Knowledge base (`pages/settings/kb-section.tsx`, `routers/kb.py`, `tasks/kb.py`) | documents, chunks; list, dialogs | add, upload, edit, delete, ingest | embeddings |
| Evaluator (`pages/evaluator/`, the other sections of `pages/settings/`, `routers/` of criteria, fields, checklist, terms) | four tables; lists, dialogs, draft | create, edit, delete, reorder, import, draft and save | LLM for drafts |
| Administration (`pages/admin/`, `routers/admin_*.py`) | users, sign-on configuration, audit log; forms, pager | create, edit, switch, configure, test, page through the log | - |
| Login, adapters, configuration, insights, monitoring | lockout counter, settings; read-only views | single requests | remote services |

The hard behaviours of the pipeline:

* *Redelivery.* `task_acks_late` and `task_reject_on_worker_lost` (`celery_app.py`)
  deliver the message of a dead worker again; the sweep and the API send more
  copies.  The tasks rely on reading the row again.
* *Locks that end with a commit.* `transcribe` holds a transaction-level
  advisory lock, so each commit, its own or a callee's, gives it up.
* *Two counters of one resource.* `transcribe` and the dispatcher both hand out
  the remote slots.
* *Read, wait, write.* The sweep, `update_progress`, `normalize_audio`, the upload
  handler and `evaluate` read a row, do something long and write without a
  version check.  SQLAlchemy writes only the attributes whose value changed,
  which decides what such a late write destroys.
* *Commit, then publish.* Everywhere: a crash in between loses the message.
* *Late answers.* A provider answers after the sweep has written its recording off.

And of the pages:

* *Polls that depend on what is shown.* An interval exists while the page shows
  something in progress: an answer that is lost or overtaken can end it too early
  or keep it for ever.
* *Answers in any order.* Two loads are in flight and the older arrives last.
* *Decisions on an old view.* A dialog, a button or a pair of requests acts on
  what was loaded, and others have moved on.
* *Work that outlives its page.* Uploads go on after the page is left.
* *Requests that are several.* A reorder is two, a saved draft is many, and some
  of them fail.

What makes each component correct:

* speech to text: audio is submitted once; a bound on the slots; one delivery at
  a time on a recording; every recording leaves the stage;
* evaluation: one at a time per recording; the budget; no evaluation left
  "running" without a reason; completed means evaluated; every recording leaves;
* batch: a finished batch has nothing on its way and its verdict is right; a
  finalized batch finishes; no evaluation without a transcript;
* pages: what they show as done is done, they learn of what ends, no button and
  no upload slot is lost, a request does what its button said;
* reconciliation and imports: decisions survive a rerun, a link resolves what it
  links, superseding leaves nothing behind, counts are true;
* knowledge base: what is searched is what the document says; evaluator: a
  move moves and what is told as saved was created; administration: an enabled
  sign-on is complete and the log explains the accounts.

## 2. Modules

| Module | Models | Code |
|---|---|---|
| `RecordingRow` | a row's pipeline columns, the writes that tasks and handlers share, and how a session flushes an object | `pipeline._fail`, `batch.sweep_stuck`, `batches.retry_failed`, `_prepare_stt_rerun`, `recordings.reprocess` |
| `SttStage` | dispatcher, slots, `transcribe`, around them the sweep, operators, crashes | `pipeline.py`, `batch.py`, `mono_speaker_repair.py`, `llm_usage.py` |
| `EvalStage` | `evaluate`, around it the sweep, retention, operators, crashes | `evaluate.py`, `batch.py`, `maintenance.py` |
| `BatchLifecycle` | upload to rollup, with the chains of tasks | `batches.py`, `ingest.py`, `pipeline.py`, `batch.py`, `queue.py` |
| `BatchDesk` | the batch pages with the upload client, and the API behind them | `batch-detail.tsx`, the dialogs of the list, `lib/api.ts`, `batches.py` |
| `UploadLedger` | what an upload client promises; `BatchDesk` implements it | abstract |
| `EvaluationRuns` | the runs of a recording: their score, and the breakdown that is shown | `evaluate.py` (score), `evaluation-panel.tsx` (breakdown) |
| `RecordingDesk` | the page of a recording, its evaluation panel, handlers; extends `EvaluationRuns` | `recording-detail.tsx`, `evaluation-panel.tsx`, `recordings/actions.tsx`, `evaluations.py`, `recordings.py` |
| `TradeDesk` | reconciliation page, review drawer, handlers, the worker's run | `recon-view.tsx`, `review-drawer.tsx`, `recon.py` (both) |
| `TradeImports` | imports in the worker, handlers, list, wizard, pull dialog | `txn.py`, `transactions.py`, `txn-panels.tsx`, `import-wizard.tsx`, `import-detail.tsx`, `sources-section.tsx` |
| `KnowledgeBase` | documents, chunks and tasks, and what must be true of them | `db_models.py`, `tasks/kb.py` |
| `KnowledgeDesk` | the ingest task, handlers, page; extends `KnowledgeBase` | `kb.py` (both), `kb-section.tsx` |
| `RubricDesk` | criteria, fields, checklist, terms, the drafting panel, handlers | the four sections, `generate-panel.tsx`, their routers |
| `AdminDesk` | users, single sign-on, audit log: handlers and page | `admin_users.py`, `admin_sso.py`, `admin.py`, the three sections |
| `MC...` | constants and symmetry sets for TLC | |
| `..._proofs` | theorems about the module of that name; the lemmas about `RecordingRow` are with the stages that use them | |
| `Desks_proofs` | theorems about `RubricDesk`, `KnowledgeDesk` and `RecordingDesk` | |

`PROJECT.json` gives, for every definition, the lines it stands for.

**The pipeline.**  The three stage modules extend `RecordingRow`: `_fail`, the
sweep and the operators' writes are the same definitions everywhere.  `SttStage`
and `EvalStage` are the insides of one task each; `BatchLifecycle` keeps only their
guards, commits and messages and puts everything around them in full.  A step is
what one transaction, one publish or one call to a provider makes visible.  `row`
is the table.  A worker process is a record whose `at` says where in the task it
is: `SttStage` has a step for each commit or lock in `transcribe` ("loaded",
"claiming", "slotted", "locked", "submitted", "relocking", "polling", "answered",
"repaired", "failing"), `EvalStage` for each in `evaluate` ("loaded" to
"charged").  What a session has read and will still use is in the worker's record
(`slot`, `seen`) or in `sweepPlan`; both sides build their sessions with
`expire_on_commit=False`, so an object keeps what it last loaded, and `Flush`
writes back what differs from it.  `submitted` and `begun` are history variables:
the code does not have them, only properties read them.

**The desks.**  Each models one page of the web application together with the
handlers and tasks behind it.  The server side is the tables; the page is a record
of what the components' state holds (what is shown, what is selected, which dialog
is open) and the requests and loads that are in flight.  A request is sent with
what the page holds at that moment, served by the API in one step (or in two, a
read and a commit, where the property is about the window), and answered; the
callback is a step of its own and acts on what the page has become.  Where the code
starts a reload from a callback or an effect, the reload is part of that step.  A
lost answer is a fault.  A button that is disabled, a dialog that is closed and an
interval that does not exist are guards.  A desk has the pipeline or the worker as
few steps as its page can tell apart: `RecordingDesk` sees a status change where
`SttStage` has ten steps.

**The refinement.**  `UploadLedger` says of every file only whether it waits, is
being sent or has settled: an offer makes files wait or starts them, an end frees
a slot, and after each step a client sends at most its limit and leaves no slot
idle while a file waits.  `BatchDesk` maps its nine stages of an upload to these
three, and its visits (mounts of the page, each with its own `useRef` queue) to
clients.  `UploadsKeepLedger` is the ledger's safety, `UploadsSettle` its liveness.

**Time.**  Whether a time stamp is older than a limit is a free choice wherever
the code asks, since any step can take arbitrarily long.  Two instants the code
can compare have different `Stamps`.  An interval fires whenever it exists.

**Operators.**  Three requests act on the rows of `SttStage` (`RetryFailed`,
`RerunStt`, `ReprocessStt`), two on those of `EvalStage`, four on those of
`BatchLifecycle`, at any moment, up to `MaxOperations`.  In the desks another user
sends the same requests as the page.

**Abstracted.**  Audio, transcripts, prompts, texts of errors; names and wording of
everything that is edited; layout, playback, export.  The order in which waiting
recordings are taken is any choice of as many as fit; the order of messages in a
queue is free.  In `BatchLifecycle` a sweep of one row is one step (its window is in
the other two modules), a message waits at most once in a queue, and the start of
a transcription takes its slot and the recording in one step.  In `TradeDesk` what
the engine proposes is chosen from a set; in `TradeImports` a file is what it holds
once parsed.  `AdminDesk` leaves out names, session versions and passwords.

## 3. Runs

Every `.cfg` sets `CHECK_DEADLOCK FALSE`: the system rests when everything is
finished and the bounded faults and requests are used up.

| Run | Checks | Instance |
|---|---|---|
| `stt` | `TypeOK`, `NoDoubleSubmission`, `OneDeliveryInside`, `EveryRecordingLeavesStt` | 1 recording with speaker repair, 2 workers, 1 slot, 1 crash or lost publish, 1 request, sweep |
| `eval_budget` | `SpendBounded`, `CompletedIsEvaluated` | 3 recordings (1 past retention), 2 workers, a budget of 2 evaluations, 1 fault, 1 request, no sweep |
| `eval_liveness` | `TypeOK`, `OneEvaluationInside`, `OrphansComeFromFaults`, `EveryRecordingLeavesEval` | 1 recording, 2 workers, 1 fault, 1 request, retries, sweep |
| `batch_rollup` | `TypeOK`, `EvaluatesATranscript`, `VerdictIsTrue` | 2 uploads, 2 workers, 1 crash or lost send, 1 request, no sweep |
| `batch_liveness` | `BatchFinishes` | 1 zip member, 2 workers, sweep with resumption, no crash |
| `batch_desk` | `TypeOK`, `DoneIsStored`, `FinalizesSomething`, `UploadsKeepLedger`, `UploadsSettle`, `PageCatchesUp` | 2 files, one a zip, 1 upload slot, 1 request of the page or another user, 1 fault |
| `recording_desk` | `DecisionsOnFinishedRuns`, `BreakdownAddsUp`, `StatusCatchesUp`, `PendingEnds` | 2 criteria of different types, an answer with a null and a score out of scale, 1 request, 1 fault |
| `trade_desk` | `LinkResolvesTheCall`, `NoPairLost`, `ResultAppears` | 1 trade, 1 call, 2 runs that pair them or not, 1 import, 1 request, 1 fault |
| `trade_imports` | `NoOrphans`, `CountsOfFilesAreTrue`, `OnlySuperseded`, `ListCatchesUp`, `WizardCatchesUp` | 2 imports over 2 dates, 1 request, 1 redelivery or unreadable file, the schedule |
| `knowledge_desk` | `ReadyIsSearchable`, `IngestRebuilds`, `PageLearnsOfIngest` | 2 documents, 3 tasks, 2 requests, 1 fault |
| `rubric_desk` | `SavedIsCreated`, `MoveSwaps` | up to 5 rows, with and without ties, 2 requests, 2 saves at once, 1 fault |
| `admin_desk` | `EnabledIsComplete`, `LogExplains`, `NeverAnEmptyPage` | 2 accounts, 3 initial states, pages of 1 entry, 2 requests, 1 fault |

**What they show.**

* `stt`: whatever is redelivered, swept, reset or killed, the provider gets the
  audio of a recording once between two resets, two deliveries are never under a
  recording's lock at once, and no recording stays in the stage.
* `eval_*`: one evaluation of a recording at a time (so no two get one `run_seq`);
  the budget is passed by at most one call per worker; a recording that says
  completed has its evaluation though two commits write the two; what is left
  "running" with nobody on it comes from a crash or an unhandled exception; and
  every recording leaves the stage.
* `batch_*`: no evaluation starts without a transcript, whichever way the recording
  was sent back; the verdict is true when it is given and stays so until somebody
  sends recordings back; with no process killed a finalized batch finishes.
* `batch_desk`: the upload client keeps its ledger, what is shown as uploaded is
  stored, Finalize never starts an empty batch however old its counts are, and a
  page that shows a batch in progress learns of its end.
* `recording_desk`: overrides and reviews land on completed runs only, the
  breakdown adds up to the stored score, the status catches up, no button stays
  disabled.
* `trade_desk`: a linked call is not listed as unmatched in its run, a pair that a
  reviewer decided is in the next run, and the end of the shown run appears.
* `trade_imports`: no row without an import and no trade twice, counts are true
  after a redelivery, an import removes only its own source's rows on its own
  dates, and list and wizard learn of the end.
* `knowledge_desk`: a ready document can be found and a chunk has its document; an
  ingest that is alone with its document rebuilds exactly its chunks; the page learns
  that a document has settled.
* `rubric_desk`: a move on a fresh list swaps two neighbours, a draft told as saved
  was created.
* `admin_desk`: no sequence of saves leaves the sign-on enabled and incomplete, the
  log explains roles and states, the pager does not lead past the last page.

**Why the bounds are enough.**  The races are between two holders of the same
thing (two workers, a worker and the dispatcher, a worker and the sweep, two
imports, two ingests), so two of them and one recording, source or document show
them; a copy of a message shows duplicates.  `SpendBounded` needs more recordings
than workers, so that the budget is passed with both calls under way and a third
comes after; one upload slot and two files make one wait for the other; `NoPairLost`
and `OnlySuperseded` are about two runs and two imports; a third ingest comes after
two that overlapped.  One fault shows what a crash or a lost answer at each step
does; what takes two is left to the proofs, as in `trade_imports`, where a pull can
complete, be delivered again and then fail (its safety properties were checked with
two faults too, and the theorems have no bound).  Requests are bounded at one or two: each of them resets what it acts on, and
the next starts from a state that one reaches.  `attempts` saturates at
`ResumeMaxAttempts`, the only value it is compared with.  `eval_budget` and
`batch_rollup` leave the sweep off: with it their properties fail for a reason
given below.  `admin_desk` has `Overlap = FALSE` for the same reason.  The proofs
(section 5) have no bounds at all.

**Statements that are not true of the code.**  The last section of a module states
what a docstring, a comment or a text on a page says and the code does not keep.
No run checks them; TLC refutes each within two minutes under the constants
of the run named, or of the module's own run, with the change given.

| Property | What happens | To see it |
|---|---|---|
| `SttStage!SlotLimit` | the two slot counters use different advisory locks, and both take the last slot | `stt`, 3 recordings |
| `PersistenceSerialized` | recording the LLM usage of a speaker repair commits the session and drops the lock | `stt`, 2 stamps |
| `FailedUntilOperator` | a late transcript turns failed into evaluating | `stt` |
| `EvalStage!SweepKeepsCompleted` | a recording that finishes between the sweep's load and its commit is written failed | `eval_liveness` |
| `CompletedFromEvaluating` | a late answer turns failed into completed | `eval_liveness` |
| `NotEvaluatedTwice` | evaluation and recording complete in two commits; a crash in between evaluates again | `eval_budget` |
| `SweepTimesOutOnlyBegun` | an orphaned running evaluation makes a queued one time out | `eval_liveness` |
| `BatchFinishes` with a fault | a crash between the last commit and `update_progress` leaves the batch processing | `batch_liveness`, 1 fault |
| `ZipMembersKept` | the zip is deleted before the rows of its members are committed | `batch_liveness`, 1 fault |
| `CompletedStays` | a second delivery of `normalize_audio` that ends late puts a completed recording back | `batch_rollup`, 1 upload, sweep |
| `NoZombies` | an upload committed after its batch has finished is never looked at | `batch_liveness`, 2 uploads, `LateUploads` |
| `VerdictIsTrue` with `Sweeping`, or with `LateUploads` | the sweep fails a recording whose task goes on and takes it back after the count; an upload is committed after the count | `batch_rollup`, 1 upload, sweep; `batch_rollup`, `LateUploads` |
| `VerdictIsTrue` without `operations = 0` | a reprocess between the rollup's count and its write is closed over | `batch_rollup` |
| `BatchDesk!FinalizesAfterItsUploads` | the drop zone stays open while Finalize is pending; a page mounted again does not know the uploads of its earlier visit | as it is |
| `PageLearnsOfFinalize` | the load after a request is lost and no poll starts | as it is |
| `RecordingDesk!OverrideStaysInItsRun` | a run that lands while the dialog is open becomes the selected one | as it is |
| `ResultsAppear`, `TranscriptCatchesUp` | runs and transcript are loaded once per change of status that the page sees | as it is |
| `TradeDesk!LinkResolvesTheCounterpart`, `LinkIsNotRedone` | linking a call leaves the finding that the trade has no recording; the next run reports the two again | as it is |
| `ReviewSurvives` | a decision taken while a run is computed, or before an import, is not carried | as it is |
| `OpensOnFindings`, `RowsBelong` | the tab is chosen only when a completed run is selected; an overtaken answer is shown | as it is |
| `TradeImports!NoneIsStuck`, `TouchedAreReconciled` | two imports at once collide on the index and one says processing for ever; dates that are only deleted are not reconciled | as it is |
| `OneLiveImport`, `SkippedAreExplained` | two imports at once both stay; rows another source had given are counted, not explained | `MaxRequests = 2` |
| `TableFollowsImports`, `WizardTracksItsImport`, `ImportsWhatWasPreviewed` | the table is refreshed only for an import the list showed in flight; the wizard's timer starts over with each list; the confirmed file need not be the previewed one | as it is |
| `KnowledgeDesk!ReadyIsCurrent` | the ingest of an earlier content ends last | as it is |
| `EditsAreFound` | an edit in any project but the default one is answered with "not found" | as it is |
| `NoneIsStuck` | the message after the commit is lost | as it is |
| `RubricDesk!MoveMovesByOne` | with ties an item moves past others | as it is |
| `SavesAgain` | after a partial failure every created item is refused for its key | as it is |
| `FilterIsOffered` | the category that is filtered by is not offered any more | as it is |
| `AdminDesk!BrokersHaveCodes`, `EnabledIsComplete`, `LogExplains` | two handlers overlap and each writes only the columns that changed for it | `Overlap = TRUE` |
| `ShowsWhatIsApplied`, `NeverAnEmptyPageAtAll` | an answer is overtaken, or lost | `MaxLoads = 2`; as it is |
| `TestTestsTheForm` | the connection test uses the stored tenant, not the form's | as it is |

## 4. Fairness

The pipeline:

* `WF(WorkerStep(w))`: a worker process that can go on does.  Celery restarts
  workers; each provider call has a time-out.
* `WF(DispatcherStep)`, and in `BatchLifecycle` `SF(Dispatch(r))`: beat runs the
  dispatcher every 15 seconds.  The strong form there, because one step stands for
  the ordering by `updated_at`, by which the oldest waiting recording is first.
* `SF(SweepTimesOut(r))`, `SF(SweepDecides(r, ...))`, `SF(SweepQueued(r))`,
  `SF(SweepTimedOut(r))`, `WF(SweepCommit)`: beat runs the sweep every five
  minutes, over all rows.  Strong, because between two sweeps the row may leave
  the condition and come back: a recording that is started again and again keeps
  its `stt_started_at`, so its age exceeds the limit in the end.
* `SF(Answer(w))` in `EvalStage`: an LLM that is asked again and again answers in
  the end.  It is needed: the sweep sends a waiting retry again with no
  retries used, so under an endless outage the count never reaches its limit.
* `SF(NormalizeDone(w, r))` in `BatchLifecycle`: `normalize_audio` retries a
  storage error eight times and then fails.  The model does not count these
  retries; the strong form says that they end.

The pages:

* The interval of a page fires while it exists (`Poll`, `PollRecording`, `PollRuns`),
  and the API and the browser's callbacks answer what was sent.  Strong where a
  bounded load slot, which the browser does not have, may be in use whenever the
  callback would run.
* `SF` of the requests' and uploads' steps in `BatchDesk` and `RecordingDesk`: a
  request is answered or fails, and its `finally` runs.
* `WF(Pipeline)`, and in `KnowledgeDesk` of each task's steps: the work that the
  page waits for is done.
* `WF(PollWizard /\ ~Polling /\ ~asked)` in `TradeImports`: the wizard's interval fires
  if the list does not restart it before it is due.
* `RubricDesk` and `AdminDesk` state no liveness and assume no fairness.

No fairness anywhere for crashes, lost messages and answers, or what a person does.

## 5. Proofs

All proofs rest on the modules' named assumptions only (finitely many recordings
or files; any number of workers, stamps, copies, faults, requests, visits; at least
one slot; an administrator among the accounts and a sign-on that is complete if it
is enabled at first; at least one date and one import; at least one content, and a
form's blank that is none of them).  A theorem that needs more says so as its ASSUME.

| Theorem | Statement |
|---|---|
| `SttStage_proofs!TypeCorrect` | `Spec => []TypeOK` |
| `SttStage_proofs!SlotsBounded` | `Spec => []SlotOvershootBounded` |
| `SttStage_proofs!DeliveriesExclusive` | `Spec => []OneDeliveryInside` |
| `SttStage_proofs!SubmittedOnce` | `Spec => []NoDoubleSubmission` |
| `EvalStage_proofs!TypeCorrect` | `Spec => []TypeOK` |
| `EvalStage_proofs!EvaluationsExclusive` | `Spec => []OneEvaluationInside` |
| `EvalStage_proofs!SpendingBounded` | `Spec => []SpendBounded` |
| `EvalStage_proofs!OrphansBounded` | `Spec => []OrphansComeFromFaults` |
| `EvalStage_proofs!CompletedHasEvaluation` | without the sweep, `Spec => []CompletedIsEvaluated` |
| `BatchLifecycle_proofs!TypeCorrect` | `Spec => []TypeOK` |
| `BatchLifecycle_proofs!EvaluationsHaveTranscripts` | `Spec => []EvaluatesATranscript` |
| `BatchLifecycle_proofs!VerdictStaysTrue` | with `~Sweeping` and `~LateUploads`, `Spec => []VerdictIsTrue` |
| `BatchDesk_proofs!ClientKeepsLedger` | `Spec => UploadsKeepLedger` |
| `BatchDesk_proofs!DeskTyped` | `Spec => []TypeOK` |
| `BatchDesk_proofs!DoneIsInTheBatch` | `Spec => []DoneIsStored` |
| `BatchDesk_proofs!FinalizeHasFiles` | `Spec => FinalizesSomething` |
| `AdminDesk_proofs!TypeCorrect` | `Spec => []TypeOK` |
| `AdminDesk_proofs!SignOnComplete` | with `~Overlap`, `Spec => []EnabledIsComplete` |
| `AdminDesk_proofs!LogExplainsAccounts` | with `~Overlap`, `Spec => []LogExplains` |
| `AdminDesk_proofs!PagesNeverEmpty` | with `MaxLoads = 1`, `Spec => []NeverAnEmptyPage` |
| `TradeImports_proofs!ImportsTyped` | `Spec => []TypeOK` |
| `TradeImports_proofs!NoTradeIsOrphaned` | `Spec => []NoOrphans` |
| `TradeImports_proofs!FilesCountTrue` | `Spec => []CountsOfFilesAreTrue` |
| `TradeImports_proofs!ReplacesOnlyItsOwn` | `Spec => OnlySuperseded` |
| `TradeDesk_proofs!ReconTyped` | `Spec => []TypeOK` |
| `TradeDesk_proofs!LinkedCallIsResolved` | `Spec => []LinkResolvesTheCall` |
| `TradeDesk_proofs!PairsSurvive` | `Spec => NoPairLost` |
| `Desks_proofs!RubricTyped` | `Spec => []TypeOK` of `RubricDesk` |
| `Desks_proofs!SavedAreCreated` | `Spec => []SavedIsCreated` |
| `Desks_proofs!MovesSwap` | `Spec => MoveSwaps` |
| `Desks_proofs!KnowledgeTyped` | `Know!Spec => []Know!TypeOK` |
| `Desks_proofs!ReadyCanBeFound` | `Know!Spec => []ReadyIsSearchable` |
| `Desks_proofs!UndisturbedRebuilds` | `Know!Spec => IngestRebuilds` |
| `Desks_proofs!RecordingTyped` | `Rec!Spec => []Rec!TypeOK` |
| `Desks_proofs!DecisionsLandOnCompleted` | `Rec!Spec => []DecisionsOnFinishedRuns` |
| `Desks_proofs!BreakdownMatchesScore` | `Rec!Spec => []BreakdownAddsUp` |

The last three desks do not interact and share one module of proofs.  It extends
`RubricDesk`, and `KnowledgeBase` and `EvaluationRuns`, which hold what the other two are
about; `Know` and `Rec` are instances of `KnowledgeDesk` and `RecordingDesk` over those
variables.  An instance brings its assumption along as a formula only, so the theorems
about `Know` and `Rec` have it as their hypothesis; TLC evaluates it in the desks' runs.

### Speech to text

*Slots.*  The bound (no run checks it; `SlotLimit`, what the docstrings promise, is
false) is not inductive: nothing in it stops two transactions that have both
counted from adding a slot each.  `SlotInv` adds that one worker at a time is at
"claiming", that what the dispatcher has locked still waits, and counts what is
being handed out together with what is in use: a worker at "claiming" counted fewer
than the limit, and the dispatcher, whose own lock does not exclude that worker,
handed out no more than the limit less what it counted.  Most other writes only
take slots away (`Shrinks`), so one lemma per shared write of `RecordingRow` carries
the invariant through `_fail`, the sweep and the operators.  The operation name does
not matter for the bound.

*Locks.*  `LockHeld` says that a worker at one of the steps under the lock is the
recording's holder; two workers cannot both be.

*Submission.*  `SubmissionInv` says that the holder about to submit sees a row
without an operation, and that a job the provider has is named in the row or known
to the one worker that submitted it.  It needs `LockHeld`: without it a second worker
could submit between the check and the store.

### Evaluation

*Types.*  `TypeOK` is not inductive: that a retry sends a message within the limit
depends on the worker being below it when it decided, which `RetryInv` adds.

*Exclusion.*  `LockHeld` as above; here the lock is the session's and outlives the
commits.

*Budget.*  A call is charged after it was admitted.  `SpendInv` counts the spent
evaluations together with the workers that were admitted and have not charged
(`Uncharged`): an admission happens with less than the budget spent, so after it the
others that are uncharged are all that can still pass it.

*Orphans.*  A run is made running by the worker that holds it.  `MarkedInv` says
that a worker past its call has taken its run off "running", whether it was answered
or is about to retry or fail; so a run that says running loses its worker only by a
fault, and `OrphanInv` counts one orphan to a fault.

*Completed.*  With no sweep there is no plan (`NoPlan`).  `BusyInv` says that a
recording that a worker evaluates says "evaluating"; `ChargedInv` that a
worker at its second commit has stored the result of the first.  A request resets both sides in one commit, and it is refused while the
recording is under way.  With the sweep the statement is false.

### Batch

*Transcripts.*  `TranscriptInv` says that a recording that waits for its evaluation, or
that failed there, has a transcript: the second part is what a retry of the failure
needs.  `WritesNeed` shows that no shared write of `RecordingRow` creates the need but
`_fail` of an evaluation, where a worker was at work on it, and a reprocess from
there, which its handler refuses without a transcript.

*Verdict.*  `update_progress` counts, and writes what it counted in a later step; a
verdict that is true when it is counted must stay true for good.  It does because a
recording that is at rest stays so, and that is not in the rows: it depends on where
the messages are.  Until an operator sends something back, the batch goes through
two phases.  In the first (`Preparing`) one message of the expansion exists at most,
with everything else at rest and every recording uploaded.  It ends when the
expansion sends its messages; from then on (`Running`) there is no upload and no
expansion, each recording has one `normalize_audio` at most, which only sends itself
again (`ChainInv`), a task at work is alone on its recording and finds it at its stage
(`WorkInv`), and what a rollup has counted is so (`VerdictInv`).  `StageEnds` and
`StageStarts` carry the four through all tasks, `MessagesMove` through deliveries,
crashes, lost sends and the dispatcher.  The two assumptions are needed.  The sweep
may fail a recording whose task is at work, and the task's end takes it out of
"failed" again after the rollup has counted it; it also makes a second
`normalize_audio` of a recording (`CompletedStays` in section 3).  An upload that
finalize overtakes may be committed after the count.  TLC finds a counterexample of
12 and of 10 states.

### Upload client

`ClientInv` ties the four pieces of state that the code keeps apart: the queue of a
visit is, in order and without repetition, the files that wait (`Line`); its counter
is the number of its files under way; the counter is at most the limit, and equals
it while something waits.  The code adds to the queue before it counts free slots,
and takes `min(room, length)` from its front (`StartedFiles`: what goes and what stays
partition the queue, and either the queue is empty or the room is used up).  So
`pump` restores the invariant for its visit (`PumpOK`) and leaves the others alone
(`ClientKept`); all other steps move a file between two stages of one upload, or
leave the uploads alone.  In the ledger `AddFiles` is an `Offer`, `UploadEnds` a `Settle`,
and the rest stutters.  `PageOK` is needed to know that the visit on screen is one.

`DeskInv` does the same for what the page says of the batch.  `UploadsKept`: the file of
an upload that has its answer, or of a zip that is past its put, is in the batch
(`Has`).  `CountsKept`: a number that is not zero, on the page, in an answer on its
way, or behind a finalize that was sent, means that something is in the batch.  Both
survive because nothing is taken out of a batch but with the batch itself (`Onward`,
which every step satisfies), so a count may be old but not wrong about zero.

### Administration

`CallInv` gives the types, with what each kind of request carries (`Asked`).  Without
overlap, `ReadInv` says that one handler at most has read its row, and that the row is
still what it read; only then does writing the changed columns write what the
request says.  *Sign-on:* the handler checks completeness against the configuration
it read, so it is complete after the write (`CompletePut`).  *Log:* an entry that names a
field is the last to do so and says what was written, and one that does not leaves
the explanation with the entries before it (`AppendExplains`).  *Pager:* `PagerInv`
says that, while no answer is lost, the load under way is for the page and the filter
shown, and that the count of the log reaches that page; the log only grows.  With two
loads under way an answer may be for an earlier filter.

### Imports

`ImportInv` follows the job from the commit of its import to its own.  `WorkInv` says of
every import what its job has in hand: at which step it is, what it read (`InHand`), and
that what it will delete are trades of other imports of the same source on the dates of
its own rows (`Replaces`, `Covered`).  Between reading and committing a job shares the
table with others, so the invariant must say that no other step puts a trade of this
import there (`WhoLands`: an import completes by its own commit alone) and that a file's
import in hand has none yet.  The last follows from `NoOrphans`, which says that a trade
belongs to an import that has landed, and gives the count: what a commit inserts is what
the file has and the table, without the superseded rows, has not.

The first attempt at `NoOrphans` failed for a good reason.  It had said that the trades
are those of completed imports.  A pull that has completed, whose message is delivered
again, and whose source then cannot be read, is written "failed" and its trades stay.
That takes two faults and the run has one.  `Landed` says what is true.

### Reconciliation

`ReconInv` says of every run (`WellRun`) that it has no findings before it is done, that
the decisions it has read are finitely many and one for each finding (`Unlike`: the
dictionary of the code), and that links are resolved.  *Pairs:* because of `Unlike` a
decision that meets its finding among the engine's is the one applied, and the others
are appended (`ItemsOfRun`); with two decisions on one finding the second could be
dropped.  *Links:* a run that carries nothing over starts without a link, and a request
that links a call resolves, in the same step, all findings about it; so the statement
about one run is inductive, once a request is known to be about a finding that exists.
For that `PageOK`, `LoadsOK` and `CallOK` follow a finding's place from the run to the
answer, the page, the drawer and the request; runs and their findings are never removed
(`Grows`), so a place stays valid however late it is used.

### Evaluator page

`RubricInv` has, beside the types, that no two rows of a section share a key, that the
list, the dialog and the requests are about rows of their section (rows are marked, not
removed, so a row stays one of its section), and two parts that carry the theorems.

*Moves.*  The promise is about the order in which the API will list the checklist after
the second of two requests, and is made when the first is sent.  `MoveOK` says that a move
that nobody has disturbed is as good as done: applying what it has still to write to
the rows there are gives its result.  That this holds when the first request is sent
rests on sorting.  `Places`: under a strict total order on a finite set, the numbers of those
before an element are exactly 0 to n-1, one each, so that the list (`Listed`, which
chooses the row of each place) has every row once, in order; keys that differ make the
order total (`RowsSort`).  `PlacesExchanged`: when two rows have exchanged their sort
orders and none was tied, the place of each is the old place of the other, and of
every other row its own; this needs that there were no ties, which is why
`MoveMovesByOne` in section 3 is false.  A cardinality under an exchange is the only
counting there is: the exchange (`Exchanged`) is a bijection of the rows.

*Drafts.*  `PanelOK` says that while a save is under way each item that was picked has a
request in flight or answered, that an item whose request was answered well has been
created, and that a panel that says saved has all of them created.  A row that was created
is never taken off the record (`RowsGrow`), though another administrator may delete it.

### Knowledge base

`KnowledgeInv` says of two tasks at "embedding" that they delete different chunks
(`LocksOK`: the row locks), and of a task that is alone that no other is in hand, that it
has read what the document says, and that it deletes all of its chunks (`AloneOK`).
The last part is not implied by the locks: between the statement and the commit
nothing stops another task from adding chunks but that there is none in hand, and a task that
starts makes both not alone.  `TasksStep` reduces each step to one task that goes on
(`GoesOn`) while the others are as they were, but perhaps no longer alone (`Kept`), or have
nothing in hand (`Rests`).  `WhoEnds`: a task in hand
ends by its own commit or failure, so the chunks of an undisturbed one are what that
commit leaves.

### Recording page

`RunsOK` says that a run has results, and decisions on them, only when it has completed,
and then one answer (`Sound`).  It is inductive because the page keeps copies that were
sound when they were read, the handlers ask for the run's results or its status at the
moment they write, and nothing takes a run out of "completed".  `RunPageOK` follows the
runs to the page, the dialog and the request: what is shown is at most what there is, so
the number of a run stays valid.  `TextsOK` bounds the versions of a transcript by the reprocess
requests, with one that is sent or under way counted.  *Breakdown:* the worker scores the
answer, the page the rows stored for it; a criterion counts in the one exactly when it
counts in the other, and for as much, because clamping twice is clamping once and null
stays null (`RowsStandForAnswer`).  The sums are then of the same function over the same
set, and nothing about sums is needed.

The inductive invariants were checked with TLC on the instances of the runs as well.

*Only model-checked:* liveness, that is `EveryRecordingLeavesStt`,
`EveryRecordingLeavesEval`, `BatchFinishes`, `UploadsSettle`, `PageCatchesUp`,
`StatusCatchesUp`, `PendingEnds`, `ResultAppears`, `ListCatchesUp`, `WizardCatchesUp` and
`PageLearnsOfIngest`.  Fairness and `ENABLED` are out of the prover's reach.

## 6. Not modelled

The matching engine, the rule engine, prompts and their parsing, the adapters,
audio conversion, retrieval, monitoring and insights: pure computation, remote
services, or queries that change nothing.  Their interface (an answer, a transient
or a permanent error, a set of proposals) is in the modules that use them.  Login,
the lockout counter, password reset, configuration and the edit dialogs of import
sources: single requests of one row, with no state that another modelled part
reads.  Generated types, rendering helpers, seeds, migrations, mocks and deployment.
`PROJECT.json` lists each with its reason.

Of what is modelled: the naming patterns of ingestion and the corrupt-zip branch,
the purge of audio, the count of `normalize_audio`'s retries, the provider override
of a rerun, two batches at once (the slot limit is global, so a second batch is
more recordings of the same `SttStage`), a rerun-stt of a batch that is still open,
playback, the layout of transcripts and export.

Hazards that no property covers are listed in `PROJECT.json` with the reason; most
are those the code does not prevent, which section 3 has as statements that are
not true.

## 7. What a next step would be

* The verdict with the sweep: which of its sends make a second `normalize_audio`, and
  what a guard at that task's end would have to check.
* The bounds that the theorems have as assumptions (`Overlap`, `MaxLoads`, `Sweeping`):
  what the code would have to check for them to go.
* A small specification of one recording's promised life that the three pipeline
  modules implement, with the divergences of section 3 as explicit transitions.
