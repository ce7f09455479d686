# Bank statement scanner: TLA+ specifications

This directory is the verification project of the API in `src/apps/api`: what the
system's concurrent parts do, written as TLA+ modules translated from the
source, checked with TLC on small instances and proved with TLAPS for every value
of the constants. Paths below are relative to `src/apps/api`.

`PROJECT.json` holds the details by name: the components, the runs and their
properties, the source lines of every definition, the mutants, the hazards with
their lines, the findings and the theorems.

## 1. Inventory

| Component | State | Operations | Interacts with | Hard behaviour | What makes it correct |
|---|---|---|---|---|---|
| Import pipeline (`statements/router.py`, `processing.py`, `tasks.py`) | `statements` and `transactions` rows, uploaded file, Celery queue, a database session per job | upload, parse task, retry, OCR, save, automatic enrichment, status change, delete | broker, parser, enrichment, progress, WebSocket | overlapping deliveries, crashes between commits, stale session copies, row lock across a model call | rows imported once and whole; no orphan rows or files; retries never spoil a result |
| Export jobs (`export_router.py`, `export_service.py`, `processing.py`) | `export_jobs` rows, files with expiry | create (reuse a READY job), render task, list, download, delete | statement status, broker | check-then-create, file before row, status written from a stale copy | one live export per format; READY means downloadable |
| Transaction enrichment (`llm_enrichment.py`, `llm_tracking.py`, `rules_engine.py`, `ledger_memory.py`) | enrichment columns, `llm_cache`, `llm_usage`, `ledger_mappings` | rules, recurring matches, cache, chain of models, heuristics, learning | statement row lock, deletion of statements, rules API, vector store | precedence of sources, cache insertion races, lock order over shared rows, stale session copies, usage records deleted with their statement | an answer has one source and one record; a job's work is kept whole or not at all; learned ledgers were confirmed |
| Narration rules API (`rules_router.py`) | `narration_rules` rows | create, update, delete | enrichment | a rule changes while a job runs | (match type, pattern) unique |
| Resumable upload (`tus_router.py`) | `.bin` and `.info` file per upload | create, head, patch, delete, finalise | import pipeline | check, await, append; crash between append and offset | the bytes are the client's bytes, in order, once |
| Job progress (`core/job_progress.py`, `jobs_router.py`) | one Redis key per job | write, read | every job and the API | two writers, last wins; Redis away | a finished job never looks queued |
| WebSocket status (`websocket.py`) | set of connections per statement and process | connect, disconnect, broadcast | status changes | set changed during an await; stale first message | a watcher ends up with the last status |
| One-time codes (`auth/otp.py`, `auth/router.py`) | `otp_codes`, `phone_otps` rows | create, verify | mail, SMS | count-then-insert, select-then-mark | a code is used once; older codes are dead |
| TOTP enrolment (`auth/totp_router.py`) | secret, enabled flag, token claims | setup, confirm, validate, disable | login | setup on an enabled account, confirm against disable | enabled means a confirmed secret |
| Bank template cache (`core/template_watcher.py`, `core/bank_loader.py`, `admin_router.py`) | template map, modification times, files, rows | watch loop, reload, clear, create, update, delete | admin requests | read-then-stat, thread against requests, file before row | the cache converges to the files; files and rows agree |
| Statement parser (`parser.py`) | none (pure) | header detection, merging, numbering, text layer, OCR confidence | import pipeline | positions after merged or skipped rows | every transaction is its own row with its own text; numbers increase |
| OCR worker (`ocr_worker.py`) | engine choice, S3 copy, polling | Textract at once or through S3, local Tesseract | AWS, parser | which failures fall back, clean-up on every path | a readable document is refused only when the last usable engine failed or Textract saw none of its dates |

Left out for good: image processing and the clustering of words into cells
(numeric code over pixels), the exporters (text layout), password hashing and
token encoding, antivirus, metrics, mail, log masking, the offline evaluation
scripts, the row-level security policies (enforced by PostgreSQL), the web UI, the
deployment files and the experiments under `workers/`. `core/generic_parser.py` is
imported by nothing. The reasons are with each component in `PROJECT.json`, and
what is left out *inside* a modelled component is said in its section.

## 2. Structure

Seven specifications, most important first. Those named together share state.

1. **StatementParsing**, with its abstract specification **StatementLifecycle**
   (section 3): three runs, safety and refinement proved.
2. **ExportJobs** (section 4): four runs, safety proved.
3. **Enrichment**, over **LedgerMemory** and two instances of **UniqueTable**
   (section 5): one run, safety proved.
4. **ResumableImport**, the composition of **TusUpload** and **StatementWatch**
   (section 6): one run, safety proved.
5. **AccountAccess** (section 7): one run, safety proved.
6. **TemplateCache** (section 8): one run, with liveness, safety proved.
7. **StatementReading** (section 9): one run, safety proved.

StatementParsing sees the enrichment as one locked step, Enrichment opens that
step; StatementParsing sees a parse as a nondeterministic reading, StatementReading
says what a reading is; ResumableImport is another way into the same parse task,
with a job reduced to what its progress record and its status changes show.

StatementParsing has every writer of the statement row but the exports, the
enrichment jobs of the users included. Not composed with it: the exports, which
write the status from their own copies (section 4), and the inside of an
enrichment (section 5). The product of the three is beyond TLC, and the
interference they would add is the lost status of section 3 (a late write from
a copy), seen there with two parse tasks and a PATCH.

## 3. The import pipeline

### What is modelled

`StatementLifecycle.tla` says what the pipeline promises of one statement: it is
stored once, its rows appear in one step and are one reading of the file, they
are never added to or replaced, and removal removes them for good.

`StatementParsing.tla` is the code. A step is one database commit, or one lock
acquisition, of one process.

| State | Code |
|---|---|
| `live`, `stmt` | the committed `statements` row: file type, status, `metadata.jobs.parse`, `metadata.jobs.llm`, `metadata.row_count`; before the commit, the row as the upload handler's transaction holds it |
| `rows` | the `transactions` rows, each with the run that inserted it |
| `file`, `unlinking` | the uploaded file; the removal that the reject and delete handlers still owe |
| `handler` | how far the upload request is |
| `queue`, `sent`, `runs` | the parse-task messages in the broker |
| `asked`, `waiting` | the enrichment jobs the users have started, by their ids; those whose message waits in the broker |
| `pc`, `task`, `job`, `run`, `snap`, `reading` | per worker: the next step of `process_statement_job` or `enrich_transactions_job`, the statement, the id of the enrichment job (0 for a parse task and the enrichment it ends with), the execution's number, the session's copy of the row, the OCR result not saved yet |
| `patched`, `raced` | history, read by properties only: the user set the status; two jobs (parses or enrichments), or a job and a status change, overlapped |

| Action | Code |
|---|---|
| `UploadBegin`, `UploadReject`, `UploadCommit`, `UploadEnqueue`, `UploadFails` | `upload_statement` up to each of its commits, and its failures |
| `Redeliver` | Celery and Redis (external): a message no worker acknowledged within the visibility timeout is delivered again |
| `RequestEnrichment`, `RedeliverEnrichment`, `ReceiveEnrichment` | `POST .../transactions/enrich`, and the message of its task, which may be delivered again any number of times; the job goes on with the `Enrich...` actions |
| `PatchStatus`, `DeleteStatement`, `Unlink`, `UnlinkFails` | the user's requests |
| `Receive`, `FindRows`, `Reuse` | the task starts, finds rows of an earlier run, reuses them |
| `StartParse`, `ParseFails`, `ParseFindsNothing`, `ParseByOcr`, `SaveRows` | the parse and each of its ends |
| `SaveConflicts`, `WriteFindsNoRow` | IntegrityError of the unique constraint, StaleDataError of an UPDATE that finds no row: neither is caught by the job |
| `EnrichSkip`, `EnrichStart`, `EnrichLock`, `EnrichCommit`, `EnrichFails` | `_auto_enrich_missing` and `enrich_transactions_job`, for the parse task or the user, as the statement row sees them |
| `WorkerCrash` | the worker process is killed |

Three facts of the code shape the model:

* **Sessions keep copies.** `expire_on_commit=False` (`db/database.py`) means
  that a job works on the row it loaded at its start. A flush writes a column
  only if the session's value of it changed, and the metadata is one JSON column:
  `Flushed` is that rule, `Commit` adds that an unchanged copy emits no UPDATE.
* **Tasks are acknowledged when they start** (Celery's default; `celery_app.py`
  sets no `acks_late`). A killed worker's message is therefore gone, but a message
  that a busy worker has prefetched can be delivered a second time.
* **The enrichment holds the row lock.** Its second metadata update is flushed
  (line 339 of `processing.py`) and committed only after the model has answered
  (353): `Locked` blocks every other writer of the row in between.

Abstractions: a reading is a set of row numbers (the columns of a transaction
play no part in the properties); `ParseJob` and `LlmJob` keep of a job record
what the code or a property tells apart, for `jobs.llm` the id of its job, which
line 296 compares; every non-PDF type is `"sheet"`;
progress records and WebSocket messages are outputs no handler reads and are
left to their own modules. Eager mode (`CELERY_TASK_ALWAYS_EAGER`, a test
setting) is the serial behaviour of the same job and not modelled separately.
Exports write the status of the same row from a module of their own (section 4);
section 2 says why they are not composed.

### Assumptions

* `ReadingAssumption`: any two readings of one file share a row number. The
  parser is deterministic; only an OCR engine that fails on one run and not on
  the other changes what is read, and both number rows from the top of the same
  table. No reading is empty: `parse_rows` and `_ocr_fallback` raise
  `StatementParserError` instead. The unique constraint on
  `(statement_id, row_number)` protects against two imports only as far as this
  holds, which is why it is stated. Two readings without a common row would both
  be inserted.
* `RowNoAssumption`: finitely many row numbers. `PatchAssumption`: PATCH accepts
  `ALLOWED_STATUSES` only. `NoStatementAssumption`, `BoundAssumption`: the model's
  own constants.

### Properties

* `RowsAreOneReading`: the rows are one whole reading, inserted by one run.
* `NoOrphanRows`, `FileOutlivesRow`: deletion against running jobs; the order of
  file and row operations against crashes.
* `CountNeverOverclaims`: the row count, rewritten from copies of any age, never
  counts rows that are not there.
* `SavedIsReady`: runs that do not overlap never spoil what an earlier one
  achieved, through crashes and redeliveries.
* `ReviewKept`: an action property. No later delivery takes back the user's mark.
* `EnrichmentRemembered`: an action property about the one slot `jobs.llm`, the
  only record that an enrichment was paid for. Every session writes it back with
  the whole metadata column; as long as no two jobs overlapped, the record of a
  completed job is lost only to the start of a job with *another* id. That
  exception is the code's: the parse task and every `POST .../enrich` share the
  slot (line 316), so after a user's enrichment a late delivery of the parse task
  finds a foreign id there and enriches once more (and the other way round).
* `ImplementsLifecycle`: refinement of `StatementLifecycle`.
* `EveryUploadSettles`, `FilesAreOwned`: liveness.

### Runs

| Run | Instance | Result |
|---|---|---|
| `statement_parsing` | one statement, two workers (symmetric), three row numbers, two overlapping readings, two deliveries of the parse task, one enrichment job of the user with any number of deliveries, crashes, status set to PARSING or REVIEWED, deletion | all properties hold, about 1 583 000 states |
| `statement_parsing_live` | two statements, two workers, one delivery each, one enrichment job, no crashes | both liveness properties hold, about 256 000 states |
| `statement_parsing_retry` | one statement, two workers, two deliveries, no crashes, no user | `RetryIsIdempotent` is violated (see Findings) |

Why the bounds are enough. Statements share no state in the safety run (a worker
serves one at a time and no action touches two), so one suffices; the liveness
run has two because workers are what they compete for. Two workers give every
overlap of two sessions; the second delivery of the parse task and the
deliveries of the enrichment job, which are not bounded, give a retry after
every race of two jobs and after every job of the other kind. (Three deliveries
of the parse task were checked as well, without the user's enrichment.) Two
different overlapping readings are the least that can tell a mixed import from a
whole one. PARSING and REVIEWED represent the statuses by what the code tells
apart, those of line 97 and the others. `MaxDeliveries` and `MaxEnrichments` (the
enrichment jobs that users start) are the only bounds; with `MaxDeliveries` 1 no
enrichment is delivered twice either. Deadlock checking is off: when everything is uploaded, delivered and
done the system rightly stops.

Each property has a mutant: one definition changed the way a plausible bug
would (no lookup of earlier rows, a cascade forgotten, the count merged with the
OCR status, a commit per row, ...). They stand at the top of the module.

### Fairness

A request handler that has begun goes on to its end (weak fairness of the upload
steps once `handler` is not `new`), a pending file removal is done, a worker
takes a waiting message, and a job goes on to its next step. That is asyncio and
Celery scheduling threads of control that are ready to run, and no more: nothing
makes a user act, no outcome of a parse is favoured, and no fairness is assumed
of crashes or redeliveries. The liveness run excludes crashes because the code
has no recovery for them: a task acknowledged at its start is gone with its
worker, and a statement whose `delay()` failed stays PARSING.

### Proofs

`StatementParsing_proofs.tla` proves, for every set of statements, workers and readings that satisfies the assumptions and any
number of deliveries:

* `TypeCorrect`, `RowsCorrect`, `OrphansCorrect`, `FileCorrect`, `CountCorrect`,
  `SavedIsReadyCorrect`: the six invariants of the run;
* `ReviewKeptCorrect`, `EnrichmentRememberedCorrect`: the two action properties;
* `LifecycleImplemented`: the refinement;
* `UnsettledIsDrivenCorrect`, `FilesAreClaimedCorrect`: the safety sides of the two
  liveness properties (below);
* `InductiveCorrect`: the whole inductive invariant `IInv`, stated at the end of
  `StatementParsing.tla`. (TLC has also checked `IInv` on the instances above,
  with crashes and without.)

The argument. None of the properties is inductive by itself.

1. `UploadInv` ties a stored row to its file and to an upload request past its
   commit, and says that a row that is not stored has no job metadata. `LockInv`
   says that the row of a locked statement is there. Both follow from
   `JobFrame`: a worker's step touches its own session and the row and rows of
   its own statement, and writes a row only if it exists.
2. `SessionInv` is what a session knows: before a save its copy says so
   (`parse` is "parser" or "ocr"), in an enrichment its copy has the record of its
   own job, and while its statement exists the count in
   its copy never overclaims either. The key lemma is `SaveEffect`: because a
   save always changes its copy, it needs the row to exist, and because two
   readings share a row, it happens only where there is no row. Hence the rows
   are one reading, and a stale copy counts at most the rows that are there
   (`RowsInv`).
3. `SerialInv`: without overlap there is one session, its copy *is* the row
   (`CommitExact`: then a flush writes exactly the copy), and where it stands in
   the job tells whether there are rows. `SavedIsReady` and the two action
   properties follow (`OutcomeJob`, `SerialWrite`).
4. Refinement: `UploadCommit` is `Store`, `SaveRows` is `Import` (by
   `SaveEffect`), `DeleteStatement` is `Remove`, every other step a stutter.
5. Liveness fails in two ways: a step that is due is not taken, or none is due.
   Fairness excludes the first, and the second is a safety property, which is
   proved. `UnsettledIsDriven`: without crashes, overlapping runs and a status set
   by the user, a statement that is not settled has its handler about to enqueue,
   a message or a run. The end of a job is the step it is about: `JobSettles` shows
   that a session leaves by no branch, return or exception without having settled
   its statement, `EnrichmentKeeps` that a user's enrichment between two runs does
   not unsettle it, and `DrivenStep` that no step loses a message or a run.
   `Settled` spares the parse record of a statement whose jobs overlapped: an
   enrichment that loaded its copy before the parse was over writes the old
   record back over the new one (the status it does not).
   `FilesAreClaimed`: a file belongs to a stored statement, to a handler that will
   check it or to a removal that is under way.

Only model-checked: the liveness properties themselves, that is, that what is due
is done (TLAPS does not reach fairness), and the violation of `RetryIsIdempotent`.

### Findings

`RetryIsIdempotent` states what the product document (`src/prd_extracted.txt`, line
460) and the detail of the reuse branch say: once a statement's rows are
imported, and when everything has come to rest, it is ready for review however
often its task was delivered. TLC finds two overlapping deliveries that both see
no rows (lines 95-96 of `processing.py`); one imports, the other's parse fails
and commits FAILED, or its OCR commit is followed by the refused insert, and the
statement keeps FAILED or OCR over the imported rows. Rows are not duplicated;
the status is not idempotent.

## 4. Exports

### What is modelled

`ExportJobs.tla` is everything that happens to the exports of one statement:
`create_export`, `download_export` and `delete_export` (`export_router.py`), the
Celery task `export_statement_job` (`processing.py`), the deletion of the statement
and the user's other requests on it (`router.py`). Statements share no export
state.

| State | Code |
|---|---|
| `stored`, `status`, `ignored` | the statement row, its status, the transactions marked `is_ignored` |
| `live`, `job` | the committed `export_jobs` rows and their status, `file_path` (set or not) and `expires_at` (null, in the future, past) |
| `file` | the export files on disk, one name per job |
| `fmt`, `request`, `found` | each request that may create a job: its format, how far it is, the READY job whose file it misses |
| `queue`, `sent` | the export-task messages in the broker |
| `pc`, `task`, `copy`, `seen` | per worker: the next step, the job, the session's copies of the job row and of the statement's status |
| `removing`, `deletion`, `doomed` | a `delete_export` between the unlink and the commit; a statement deletion and the files it has collected |
| `served` | the transactions in the last download |
| `patched`, `doubled`, `raced`, `refused`, `lost`, `stray` | history, read by properties only: the user set the status; runs of one job overlapped; requests or tasks of one format overlapped; a request got a 500; a file was removed and not yet missed; a file the rows may not know of |

| Action | Code |
|---|---|
| `AnswerExisting`, `LookupFails`, `Lookup`, `CreateExport`, `CreateFindsNoRow`, `Enqueue`, `CreateFails` | `create_export`: the query for a reusable export and its three outcomes, the transaction that inserts the new job (and marks the old one FAILED when its file is missing), `delay()`, and the failures |
| `Redeliver` | the broker (external) |
| `Receive`, `ReuseFile`, `StartRender`, `WriteFile`, `RenderFails`, `FinishExport` | `export_statement_job` between its commits |
| `RunFindsNoRow`, `WorkerCrash` | StaleDataError after a deletion; a killed worker |
| `Expire`, `Wipe` | `expires_at` passes; a container restart empties the local directory (external) |
| `Download`, `DeleteExport`, `DeleteExportCommit`, `DeleteExportFails` | the user's requests on an export |
| `DeleteStatement`, `DeleteStatementCommit`, `Unlink`, `DeleteStatementFails`, `PatchStatus`, `SetIgnored` | the user's requests on the statement |

Abstractions. The reads of a handler between two writes are one step. A format is
only ever compared for equality. The file's content is not modelled, because no
handler serves it: a download is rendered again from the database. Writing the
file is one step, so a write that breaks off leaves no file in the model. An
answer from an existing export changes nothing and is a stutter. Only PATCH takes
the status out of READY_STATUSES here: the import pipeline's late writes of it
are in section 3. Eager mode (a test setting) is the serial
behaviour of the same job. The only assumptions on the constants are that
`NoJob` is not a job, that PATCH sets a status and that the bound is positive.

### Properties

* `ReadyHasFile`: every way to become READY (rendering, or the reuse of an
  earlier run's file) leaves the file on disk or known to be lost.
* `ReadyMeansExported`: the status of the statement, written from a copy loaded
  before the rendering, agrees with its READY exports.
* `SerialExportsDoNotDuplicate`: what idempotence remains true of. Requests of one
  format that do not overlap with each other's jobs leave at most one export to
  reuse, and no request fails, whatever crashes, wipes, expiries and deletions
  happen in between.
* `ExportFilesAreOwned`: no file is left behind, with the exceptions the code
  has: a process that dies between file and commit, and a deletion that overlaps
  a request, a message or a run of the same job. `stray` marks exactly these.
* `ReadyStays` (action property): the idempotent retry. A job that is READY is not
  rendered again or failed by a late delivery, unless two runs of it overlap.
* `EveryExportSettles` (liveness): every job ends READY, FAILED or deleted.

### Runs

| Run | Instance | Result |
|---|---|---|
| `export_jobs` | two jobs of one format, two workers (both symmetric), two deliveries of each task, crashes, wipes, deletion | all six properties hold, about 1 405 000 states |
| `export_jobs_live` | one job of either of two formats, two workers, three deliveries, a transaction to ignore, PATCH to REVIEWED, no crashes | liveness holds, about 309 000 states |
| `export_jobs_twice` | two jobs of one format, one worker, one delivery, no failures | `OneReadyExport` is violated |
| `export_jobs_download` | the same, with a transaction to ignore | `DownloadsExcludeIgnored` is violated |

Why the bounds are enough. A request is concerned with the jobs of its own
format, so jobs of two formats do not interact but through the status, which each
writes in the same way. Two jobs give a reuse, a replacement and a race; two
workers and two deliveries of a task give every overlap of a run with a retry of
it or with the other job. Transactions and status changes touch none of the
safety properties except `ReadyMeansExported`, which is only stated while the
user has not set a status; they are in the liveness run, where a PATCH can
forbid a lookup. The proofs below hold without any of these bounds. Deadlock
checking is off: a system whose requests are answered rightly stops.

Fairness: a request that has looked up goes on, a worker takes the next message
and goes on with its run, a deletion that has begun is finished. No user acts by
fairness, and neither of the outcomes of a rendering is favoured. Crashes are
excluded from the liveness run: the task is acknowledged when it starts, and
nothing in the code picks up a job that stays PENDING or RUNNING without one.

### Proofs

`ExportJobs_proofs.tla` proves, for every set of jobs, formats, workers and
transactions and any number of deliveries, with crashes or without, all five
invariants and the action property of the run (`TypeCorrect`,
`ReadyHasFileCorrect`, `ReadyMeansExportedCorrect`, `ExportFilesAreOwnedCorrect`,
`SerialExportsCorrect`, `ReadyStaysCorrect`), the safety side of its liveness
property (`UnsettledIsOutstandingCorrect`) and the inductive invariant as a
whole (`IInvCorrect`). Frame lemmas say once what the two kinds of steps do:
`RunFrame`, `RunJob` and `RunFiles` a worker's, `OtherJob`, `OtherRows` and
`OtherFiles` everything else. On them rest, one after the other:

1. `RowInv`: a job has no row, no message and no run before its request has
   committed, and a request remembers a job to replace only until then.
2. `SessionInv` with `ReadyHasFile` and `ReadyMeansExported` (`ReadyInv`): what a
   session knows stays true. The path in a row is never taken back, a file it has
   seen is there or known to be lost (a request forgets a loss only of a job that
   nobody works on), and EXPORTED stays unless the user changes it. So the commit
   that makes a job READY is right although its copies are old.
3. `DeletionInv` with `ExportFilesAreOwned` (`FilesInv`): a job that is being
   removed and is not `stray` has no request, message or run on its way, and the
   deletion of the statement has collected every path. The path of a job is set
   by a run, and a run means that there is no deletion.
4. `SerialInv`: without overlap a job has one run and a READY job none, so no step
   of a run touches a READY job (`ReadyStays`).
5. `RequestInv`: without overlap one job of a format is on its way, and the only
   other reusable export is the one its request will mark FAILED. When the job
   becomes READY its request has committed, so that export is gone.
6. `UnsettledIsOutstanding`: without crashes a job that is neither READY nor FAILED
   has a request, a message or a run. Of the last run it has to be shown that its
   final commit is written, although a commit writes only what differs from a copy
   that may be old: `CopyInv` says that the copy of a run that renders says RUNNING
   and that of one that reuses or begins not READY, so the status it sets is always
   a change (`CommitDecides`, `RunDecides`).

Only model-checked: `EveryExportSettles` itself (fairness), and the two violations.

### Findings

* `OneReadyExport`: `create_export` looks for a READY export and inserts a job if
  there is none (lines 219-257 of `export_router.py`). A second request before the
  first job is READY inserts a second one; both become READY, and from then on
  `scalar_one_or_none` (228) raises for every request of that format until they
  expire. The product document (`src/prd_extracted.txt`, line 620) says that a
  re-export does not duplicate.
* `DownloadsExcludeIgnored`: `download_export` renders from its own
  `_load_transactions` (105-111, called at 174), which does not leave out the
  ignored transactions as `export_service.py` does (76-86). `src/README.md` (453)
  and the product document (599) say that they are excluded.

## 5. Enrichment

### What is modelled

`UniqueTable.tla` is a table with a unique key under READ COMMITTED as SQLAlchemy
sessions use it: the identity map that is not refreshed, a change that waits for
the next SELECT, the lock of a flushed key until the end of the transaction, an
INSERT that finds its key taken, an UPDATE that finds its row gone. It is
instantiated twice.

`LedgerMemory.tla` (table `ledger_mappings`): the update and bulk-update requests
of `router.py` with `remember_ledger_mapping`, and `detect_recurring`, which reads what
they leave.

`Enrichment.tla` (table `llm_cache`): `enrich_transactions_job`, `enrich_transactions`,
the rules and the rules API.

| State | Code |
|---|---|
| `row` | the columns of the transactions that matter: enriched, suggested ledger, confirmed ledger |
| `mapping...`, `cache...` | the two tables: committed rows, and each session's flushed rows, loaded rows and pending change |
| `request`, `item`, `items` | each confirming request: how far, at which item, which items |
| `rules` | the narration rules in the order of creation, with priority and active flag |
| `usage`, `deleted` | the committed `llm_usage` records; the statements deleted, and their transactions with them |
| `pc`, `job` | each job: its phase, the transactions it selected and loaded, the allowed ledgers, the answers so far, the misses, its place in the loop, the model and attempt |
| `recorded` | history: every usage record ever committed |
| `asked`, `confirms`, `past` | history, read by properties only |

| Action | Code |
|---|---|
| `Open`, `Confirm`, `FlushMapping`, `MappingFails`, `CommitRequest` | a confirming request, item by item |
| `SkipGone`, `FailGone` | a transaction of it was deleted: the bulk update goes on, the update of one fails |
| `CreateRule`, `UpdateRule`, `DeleteRule` | `rules_router.py` |
| `Load`, `DeleteStale`, `Begin` | the selection (of what lacks a column, or of all), the deletion of cached answers when forced, and the flush that takes the statement's row lock, after which rules and recurring mappings are applied |
| `Lookup`, `FlushCache`, `FlushFails` | `lookup_cache` per transaction, the autoflush before each SELECT, the unique violation |
| `Claude`, `Gpt4o`, `ModelMissing`, `Heuristics` | the chain of providers with its retries, for each batch; a reply may miss transactions, and one ledger off the list refuses it all |
| `Store`, `NextPhase`, `Complete` | `store_cache` and the usage record per fresh answer, the end of each loop, `apply_enrichment` and the commit |
| `DeleteStatement`, `BeginFails` | `delete_statement`: rows and usage records go, cached answers and their hits stay; it waits for the job that has the statement's row lock and for requests that updated a row, and a job that has not taken the lock yet fails |
| `BreakDeadlock`, `JobDies` | PostgreSQL ends a cycle of waits, of any length (`Circular`), by failing one session of it; the worker dies |

Abstractions and bounds in the model: an answer is reduced to its ledger; a
narration to its normalised pattern before and after cleaning; batches run one
after the other (the code runs up to four at once; they share nothing and their
answers are joined in order). The `DELETE` of a forced job takes its locks in one
step, where the database takes them one by one, and a deletion of a statement takes
its rows in one step when nobody holds one: a deadlock halfway through either fails
the job, which `JobDies` allows at any time, or the deletion, which then changes
nothing. An update a request has not flushed is as one not made yet when the row is
deleted: the request fails there or at the flush. Not modelled: the vector search (optional, read or
best effort), the choice of single transactions by id, the limit of 200
transactions of history, what the keyword heuristics compute (`Hint`).

### Properties

* `JobsAreAtomic`: cached answers and usage records come from completed jobs only,
  and a completed job accounts exactly once for every transaction that no rule
  and no recurring mapping answered; when its statement is deleted, for none, and
  no job records usage for a statement that is gone.
* `HitsWereRecorded`: concurrent jobs may lose a hit count, none invents one. It
  counts the records ever committed (`recorded`): `delete_statement` takes those of
  its statement and leaves the counts of the answers that other statements share,
  so of the records left in the table (`usage`) it would be false, and the run shows
  it: two jobs and a deletion are enough.
* `ModelLedgersWereAllowed`: a ledger a model names was on the list of a completed
  job, the one that asked or another. It may be another client's: a cached answer
  is not checked again.
* `ForcedIsFresh`: a forced job never answers from what was cached when it began,
  though it shares the cache with jobs that are committing.
* `RecurringWasConfirmed`: a recurring answer names a ledger the client's users
  chose for a pattern they confirmed at least twice, through races of
  confirming requests and rolled-back ones.
* `NoneIsStuck`: locks, statement rows, failed inserts and missing models never
  leave anybody waiting for ever. Its first conjunct, `NoneWaitsForEver`, says it
  of the guards: among any sessions that wait for no one else is one that can go on
  or that the database ends as part of a cycle. The other two say that what can go
  on has a step to take (ENABLED).
* `EveryStepCounts`: every step on a job's state leaves it less to do, in the order
  of stages, transactions, models, attempts and flushes (`Work`, `Less`), so no job
  goes in circles, whatever fails and however often it is retried. It is proved
  rather than run; `PROPERTY EveryStepCounts` added to `MCEnrichment.cfg` lets TLC
  look at it as well.

### Run

`enrichment`: two clients with a statement of two transactions each whose content
hashes are the same, met in the opposite order (the least that makes two jobs
lock two keys crosswise); two jobs, two confirming requests with three kinds of
items, two models (of tiers 1 and 3), two ledgers, one change of a rule;
946 120 states. `MaxSessions` and `MaxOpen` bound the jobs, requests, deletions and
changed rules together, and the jobs and requests that overlap: three begin, two
overlap. Two overlapping sessions give every race of the table; the third sees what
they left, or deletes a statement or changes a rule under them. Deadlock checking is
off: when all have ended the system rightly stops;
`NoneIsStuck` is the property that says it does not stop before.

### Proofs

`Enrichment_proofs.tla` proves the properties of the run
(`TypeCorrect`, `JobsAreAtomicCorrect`, `HitsWereRecordedCorrect`,
`ModelLedgersWereAllowedCorrect`, `ForcedIsFreshCorrect`,
`RecurringWasConfirmedCorrect`), of `NoneIsStuck` the part that is not about ENABLED
(`NoneWaitsForEverCorrect`), that jobs end (`EveryStepCountsCorrect`, `WorkEnds`)
and the inductive invariant (`InductiveCorrect`, and `TableCorrect` for what deletions
leave), for any number of jobs, requests, statements, clients,
models, attempts, batches and rules, and without a bound on open sessions. The
assumptions are those of the modules, which TLC evaluates: a statement is a
sequence of different transactions (`LinesAssumption`: they are selected by
primary key), the charts and hints name ledgers, rules have priorities
(`LedgerAssumption`), `None` is no job and no row (`NamesAssumption`), and the
sources, models and bounds are what they should be. `IInv` stands at the end of
`Enrichment.tla`, its part about the mappings (`MemoryInv`) at the end of
`LedgerMemory.tla`; TLC has checked it on the instance above.

The argument. Each property is about committed data, which jobs and requests
copy, change in memory, flush and commit or roll back. So the invariant says of
each thing a session can hold what the property says of the table.

1. `MemoryInv`: a mapping that is stored, flushed, loaded or pending was taught,
   in ledger and count, by committed requests and by the request that holds it
   (`Taught`); `AskedMore` and `TaughtStays` are its two monotonicities, and
   `RecurringIs` takes it to the answers of `detect_recurring`.
2. `SessionInv` and `RowsInv`: a job changes only rows it locked, its own or those
   of completed jobs. The row a job loaded may be stale, and `HitsInv` bounds the
   count in a stale copy too, by the records that are committed and the job's
   own: what was recorded only grows (`HitsGrow`, `HitsStay`), and a hit adds one
   to both.
3. `AllowedInv`: an answer a job holds was allowed by that job or by a completed
   one. It is stated of the set of ledgers completed jobs allowed (`Named(Done)`),
   which only grows; a commit moves a job into it together with its rows.
4. `FreshInv`: a key that a forced job deleted shows no row that was committed when
   it began, through its identity map, its own flushed deletion and the table
   (`Cache!View`), so no lookup finds one.
5. `AccountInv` is the argument of each loop: before its place in the list every
   transaction is settled, that is, has its answer and exactly one record unless a
   rule or a recurring mapping gave it; behind it none has a record. `KeepsLookup`,
   `KeepsModels`, `KeepsStore` and `KeepsNextPhase` are the loops, and `BatchIs` the
   fact about sub-sequences that the batches need.

6. `TableInv`: the table holds what was recorded except for deleted statements, because
   a job past the write of its statement's metadata keeps the row locked until it
   records (`StepHolds`, `TableKeeps`).

`KeepsAccident` and `KeepsFail` cover dying workers, conflicts and deadlocks: what
a session loses is its own.

That nobody waits for ever rests on three facts. Whoever holds a lock is under way
(`WaitsForOpenJobs`, `WaitsForOpenRequests`, from `IInv`); finitely many sessions have
begun (`BegunFinite`), though there may be infinitely many jobs; and
`SomeoneIsCircular`: in a finite set of sessions that all wait, and only for each
other, a least closed subset has a member that waits for itself through others,
which is what the database looks for. A cycle can have any length: three requests
that confirm patterns in a rotated order wait in a cycle of three, so
`MappingDeadlock` and `Deadlocked` speak of the closure of the waits, not of pairs.

That a job ends is the usual measure: `StepCounts` shows for each action which
component of `Work` it lowers (a later stage, the next transaction, the next model,
the next attempt, a flush), and `WorkEnds` that the order has no infinite descent
(the lexicographic order on five naturals). Together with `NoneWaitsForEver` this
leaves for the liveness of enrichment only that steps that can be taken are.

Only model-checked: in `NoneIsStuck`, that what can go on by its guards is
ENABLED.

What the model shows about the code, beside the properties: a recurring match
overrides a rule, although the comments at `llm_enrichment.py:813` and
`rules_engine.py:6` say that rules win; heuristic answers are cached like a model's;
`store_cache` on an existing row keeps the name of the earlier provider; the paid
calls of a job that fails leave no usage record; a transaction whose answer lacks
a column is selected again by every run.

## 6. Resumable upload, progress and watchers

### What is modelled

`TusUpload.tla` is `tus_router.py` with a client in the manner of tus-js-client
(external). A step of a handler ends at an await, a file operation or a commit.
`StatementWatch.tla` is the parse job seen from outside: its progress record
(`core/job_progress.py`), the answer of `GET /jobs/{job_id}` (`jobs_router.py`), the
WebSocket connections of each API process (`websocket.py`) and `PATCH /status`.
`ResumableImport.tla` composes them: a commit of the upload is a statement to
watch, its `delay()` a job, its last step the PENDING record.

| State | Code |
|---|---|
| `info`, `bin` | the offset file and the content of each upload; content is the sequence of the positions of the client's file it holds |
| `patch` | each PATCH request: how far, of which upload, offset and chunk |
| `stored`, `queued`, `clients` | the statement a request stores and its file, the parse tasks, the firm's default clients |
| `user` | the client: what it does next, its upload, offset and request |
| `status`, `job`, `progress` | the committed status, the parse job, the Redis record |
| `conn`, `edit` | each connection (process, statement, status shown) and each status change that broadcasts |
| `impatient`, `overlap`, `excused` | history, read by properties only |

| Action | Code |
|---|---|
| `Create`, `Send`, `Receive`, `GiveUp`, `ConnectionLost`, `HeadOffset`, `Cancel` | the client's requests; it resumes at the offset of HEAD and starts again on 404 |
| `CheckOffset`, `Disconnect`, `AppendChunk`, `WriteOffset` | `tus_patch` |
| `FindClient`, `TwoClients`, `Scan`, `ScanRefuses`, `FileMissing`, `Rename`, `PasswordRefused`, `CommitStatement`, `CommitFails`, `Enqueue`, `BrokerDown`, `Finish` | `_finalize_tus_upload` with every way it fails |
| `Crash` | the API restarts: every open request is cut off, also one whose work is done but whose answer is not sent |
| `JobStarts`, `JobOcr`, `JobCommits`, `JobRecords`, `JobReturns`, `JobRaises` | the parse job's commits and progress records |
| `JobMissing`, `Delete` | `delete_statement` while the job waits or runs; a job that finds no statement records "missing" and returns |
| `Connect`, `ReadInitial`, `NothingToRead`, `SendInitial`, `Disconnect` | `statement_ws` |
| `ChangeStatus`, `Broadcast`, `SendTo`, `BroadcastEnds`, `BroadcastRaises` | `update_statement_status` and `ConnectionManager.broadcast` over the live set |

### Properties

* `ExactFile`: the stored file is the client's file, except after two requests
  that changed the upload at once or a crash between append and offset (the
  client then sends the chunk a second time behind itself).
* `SerialClientDuplicatesNothing`: a client that waits for its answers gets one
  default client and one parse task, whatever is refused or restarted; a second
  task only when a crash kept the last answer from it (`LastAnswerLost`).
* `DoneMeansStored`: what the client reports as uploaded is a statement with a
  task, except after a request it gave up or a crash while finalising.
* `AnswerIsFinal`: once Celery has the result, the poller gets a final answer, or
  404 for a deleted statement, although the API's PENDING record may overwrite
  the worker's and Redis may lose any record.
* `CompletedIsVisible`: a poller told COMPLETED finds what this parse came to
  committed, or the status a user set since, or the statement deleted, never the
  status of the upload or of a parse that goes on. It does not say that the parse
  succeeded: the code answers COMPLETED for a failed one too (below).
* `WatchersAreCurrent`: with no broadcast under way a watcher shows the committed
  status; the exceptions, each marked by the step that causes it in `excused`, are
  those of the code: see below.

### Run

`resumable_import`: a file of a whole chunk and a short one, two uploads, four
PATCH requests, one request given up, one crash, one failure while finalising;
then two connections and two status changes in two processes; 1 474 706 states.
Two uploads give the retry from the start, four requests give a resume
and an overlap in the second upload. Connections and status changes begin only
after an upload without incident (`Uneventful`): they share nothing with it but
the statement, which every finalised upload stores alike. Statements are deleted
where no upload crashed, failed or was given up, for the same reason. Processes,
watchers and edits are symmetric.

What the exceptions are. `uvicorn --workers 2` (Dockerfile) and the Celery workers
have a connection manager each, so a worker's status change reaches no watcher
and a PATCH reaches those of its own process. A connection that comes or goes
while a broadcast awaits a send makes the iteration raise: the PATCH answers 500
after its commit and the rest is not told. A client that misses the last answer,
because it gave up or because the API stopped after `tus_patch` had removed the
offset file (tus_router.py:163-167), finds no upload and sends the file again: two
statements. A crash while
finalising leaves an upload whose offset is its length, which the client takes
for done. A broker that is down leaves a committed PARSING statement, and the
client sends the file again. Two first uploads at once create two default
clients, and `scalar_one_or_none` fails every later upload. A parse job whose
automatic enrichment raises is answered FAILED while its statement is ready.

What COMPLETED means. A parse that fails commits FAILED, records FAILED and
returns normally (processing.py:150-180, 258-274), so Celery counts the task as
successful, and `GET /jobs` then overrules the record: it answers COMPLETED
(jobs_router.py:39-41) for a statement whose status is FAILED. The same happens
to a task whose statement was deleted while it was queued (processing.py:91-93):
its record "missing" carries no statement, so it is not refused with 404, and is
overruled to COMPLETED. A client has to read the status of the statement to know.

### Proofs

`TusUpload_proofs.tla` has one lemma for each step of the upload,
`ResumableImport_proofs.tla` the steps of the job and its followers and the theorems:
`TypeCorrect`, `ExactFileCorrect`, `SerialClientCorrect`, `DoneMeansStoredCorrect`,
`AnswerIsFinalCorrect`, `CompletedIsVisibleCorrect`, `WatchersAreCurrentCorrect` and
the inductive invariant (`InductiveCorrect`), for a file and chunks of any size and any number of uploads,
requests, crashes, failures and followers. Each is proved of `Spec` and of
`SpecAnyTime`, which has no `Uneventful`: connections, status changes, deletions
and lost records at any time and in any number. The assumptions are those of the two
modules: sizes are positive, uploads and requests are numbered in the order they
are made, and `None` is no number, no content, no status and no process.

The argument. The properties are about finished uploads; the invariant has to
know what an upload holds on its way.

1. `Sound`: a request's chunk is the part of the file behind its offset, its row
   and its task follow from how far it is, and a request that finalises has
   reached the length. Only its own steps touch these (`OtherSound`).
2. `Exact`, of an upload that no two requests changed at once and no crash tore:
   one request writes; the content is the prefix of the file as long as the
   offset, plus the chunk between append and offset. `ChunkCut` and
   `PrefixGrows` are the two facts about sequences this needs. When the offset is
   the length the prefix is the file (`KeepsWriteOffset`, `KeepsRename`). A crash
   before the append leaves the prefix (`KeepsCrash`), and a resumed request
   starts at the offset it is told.
3. `Serial`, of an upload of which the client gave up no request: the only open
   request is the one waited for, so an offset that equals the length belongs to
   a request that finalises, or did when it was lost. `OnceInv` is the same over
   all uploads of a client that never gave up: after a task is queued it sends
   nothing more, unless a crash kept the last answer from it.
4. `JobInv`: a task exists for exactly the queued requests, a final record is
   written only after the commit it reports, and what a parse committed is
   changed by nothing but a user and a deletion. `CompletedIsVisible` follows through the cases of `Overrule`.
5. `WatchInv`: a watcher that got its first status shows the committed one, or a
   status change that has still to tell it is under way in its process
   (`Reaches`), or one of the steps that cannot reach it has put it into
   `excused`. A step changes a status (`WorkerTells`, `DeleteTells`, `CommitsTell`, `JobsTell`), one
   connection (`ConnsTell`) or one broadcast (`EditsTell`), and `WatchKept` says
   what each has to show. With no change under way `Reaches` is empty, which is the
   property.

## 7. Account access

`AccountAccess.tla` is one account: `create_otp`, `verify_otp` (`auth/otp.py`), the
handlers of `auth/router.py` that issue and use codes (sign-up, resend, forgotten
and reset password, e-mail verification, phone login), the enrolment of
`totp_router.py` and the guards `get_mfa_user` and `get_current_user`.

| State | Code |
|---|---|
| `user` | the account's row: verified, secret, enabled |
| `codes` | the one-time codes in the order of issue: purpose, used, expired, within the last hour |
| `plan` | what each request has read and will commit |
| `totp`, `app`, `secrets` | a valid token with `totp_ok`, the secret in the user's authenticator, the secrets generated |
| `accepted`, `proved`, `rerun`, `overlap` | history, read by properties only |

A request that writes reads in one step (`Signup`, `SignupAgain`, `RequestCode`,
`RequestPhoneCode`, `UseCode`, `Confirm`, `DisableTotp`) and commits in another
(`CommitSignup`, `CommitCode`, `CommitUse`, `CommitConfirm`, `CommitDisable`): the
database is READ COMMITTED and no row is locked, so another request may come
between. `Setup` and `Validate` are one step; `CodeExpires`, `HourPasses` and
`TokenExpires` are time. Codes leave the hour in the order they were issued, one or
several at once.

* `CodesInTurn`: as long as requests about codes do not overlap, a code is
  accepted once, the newest code of a purpose is the only live one, and an address
  gets at most `OTP_MAX_ATTEMPTS_PER_HOUR` codes an hour. Overlapping requests can
  break all three.
* `EnabledWasConfirmed`: an enabled enrolment has the secret a code of which
  confirmed it. The exceptions: `setup` stores a new secret over an enabled one,
  and a confirmation that overlaps a setup or a disabling enables what it did
  not check (even no secret at all).

Run `account_access`: four codes, two an hour, three secrets, two requests at a
time (symmetric); 1 983 822 states. Three codes are needed to go past a limit of
two and the fourth follows an hour; two requests give every overlap. `Enrols`
bounds the product of the two halves: codes and enrolment share only the verified
flag, which never goes back, so enrolment starts after the first code and no
code is asked for after it. Passwords are not distinguished, one account stands
for its e-mail address and its phone number, and a request that fails its checks
changes nothing.

### Proofs

`AccountAccess_proofs.tla` proves, for any number of codes, secrets and concurrent
requests and any limit, `TypeCorrect`, `CodesInTurnCorrect` and
`EnabledWasConfirmedCorrect`, each for `Whole`, the specification without the
order of codes and enrolment that `Enrols` imposes; `BoundLeavesOut` shows that
`Spec` only leaves out behaviours of it. The assumptions are those of the module:
codes and secrets are numbered in the order of issue, and the model's constants
are what they should be.

The properties speak of what is committed and requests commit what they have read,
so the inductive invariant `IInv` adds the plans. While no two requests of a
group have overlapped, a plan is alone in its group, and what it read is still
so (`CodesKnown`, `SecretKnown`): the code it will mark is unused, the codes it will
invalidate include all unused ones of its purpose, the limit was not reached, the
secret it checked is the stored one. `ReadKeeps` covers the steps that read,
`CodeCommitKeeps` and `EnrolCommitKeeps` those that commit, `TimeKeeps` time.
`IssueInv` says that the codes issued are the first ones, so that a new code is
the newest.

## 8. Bank templates

`TemplateCache.tla` has the directory of YAML files with their database rows, the
admin requests that change them (`admin_router.py`, `bank_loader.py`) and, in each
API process, the cache with its two threads: the watcher and the request
handlers (`template_watcher.py`).

| State | Code |
|---|---|
| `file`, `row` | each bank's file (content, modification time) and the template its row was made from; a template is named by the request that wrote it |
| `admin` | each create, update or delete request: save, text, unlink, commit; and the process that serves it |
| `cache`, `mtimes` | `_template_cache`, `_file_mtimes` |
| `watch`, `load` | the watcher thread; the handler thread in a reload, or in the loading at the start |
| `loading` | the banks a starting process has still to load |
| `apart`, `raced` | history, read by properties only |

The order of reads and records is the point: the watcher records the time of a
change before it reads the file (`Notice`, `WatchReads`, `WatchSets`), a forced
reload or the start reads first and records last (`LoadReads`, `LoadSets`,
`LoadStats`), a reload of all banks records no time, and a file is truncated
before it is written (`Truncate`, `WriteText`). The failing steps are actions: a
save that fails before or after the truncation answers 500 and leaves the file
empty (`SaveFails`), a removal that fails is only logged and the row is deleted
all the same (`UnlinkFails`), a commit is refused (`CommitRefused`), and a restart
ends the requests of its process wherever they stand (`Restart`). The text itself
is written whole or not at all: templates are some 600 bytes, a twelfth of the
file buffer.

A reload of one bank by a code that is not in lower case
(`POST /admin/banks/HDFC/reload`) reads `hdfc.yaml`, caches it under `HDFC`
(`template_watcher.py:226`), which no lookup asks for, and records the time under
`hdfc` (line 228), so that the watcher takes the change for seen: after a change the
watcher had not noticed yet, lookups go on with the old template until the file
changes again. `ForceReload` has the three ways (`by`: all banks, the name, the name
spelled otherwise); `LoadSets` leaves the entry of the lookups in the third, and
`LoadStats` puts the pair of process and bank into `raced`.

* `RowsMatchFiles`: with no request for a bank in progress, its file is the one its
  row was made from, except after overlapping requests or one that was left half
  done (`apart`): a commit refused after the file was changed (a create over an
  existing code overwrites the file and then answers 500), a save that failed past
  the truncation, a removal that failed while its row was deleted, a restart
  between the file and the commit.
* `LookupsFollowFiles` (liveness): every process comes to answer from the present
  files, except for a file that a failed save left empty (no cache takes it over, the
  old template goes on being answered), or where its cache raced with the last
  change. `raced` marks the races the code has: a reload that read before a change
  and cached or recorded after it, or crossed the watcher; a reload by a code not in
  lower case, over an entry that was not current; a deletion of a file the watcher never saw (the
  template stays for ever); a write within one tick of the clock.

Run `template_cache`: one bank with or without a file and a row at first, two
admin requests for it, one process, one forced reload or clearing, one restart,
one failing commit, save or removal; 553 880 states. Processes share only the files, banks nothing.
Fairness: an admin request that began is served or fails (asyncio), the watcher wakes
every second (its loop sleeps one second and catches every exception), a starting
process loads its templates. Nothing makes anybody send a request.

Not modelled: the lower-casing of file names (a stem with upper case is loaded and
dropped in turn), the `is_active` column (`update_bank` writes it, lines 270-271, and
nothing that loads a template reads it), updates that bring no file, and the Celery
workers, which never start a watcher and read the files each time.

### Proofs

`TemplateCache_proofs.tla` proves, for every set of banks, processes and admin
requests and any number of reloads, restarts and failures,
`TypeCorrect`, `RowsMatchFilesCorrect`, `QuietCachesAreCurrentCorrect` and the
inductive invariant (`InductiveCorrect`). The assumptions say that the constants
are what they should be (`TimeAssumption`: `None` is no time). `BankInv` says where a request that is alone on its bank has
left the two halves: they agree before the file is touched and again when no
request is in progress, and before the commit the file is what the commit will
make of the row. `FileRestart` shows that the requests a restart ends leave either
agreement or a bank in `apart`. The threads of the caches leave files and rows alone
(`CacheFrame`) and a request those of the other banks (`OtherBanks`).

`QuietCachesAreCurrent` is the safety side of `LookupsFollowFiles`: when the watcher
of a process is not at work on a bank, has recorded the time the file has now,
and the file is not empty, a lookup is answered with the file, unless the cache
raced with the last change. It says that `raced` lists every race the code has:
a stale answer that no further change of the file will mend comes from one of
these. Its invariant (`CacheInv`) is about the threads: what a thread has read is
no newer than the file, and is the file if it is as new, and the watcher has
recorded the time of what it works on. `CacheRequest` takes it through the steps of
requests, `CacheWatch` and `CacheLoad` through those of the threads, where the time
that was recorded before the reading, or is taken after it, decides. TLC has
checked `IInv` on the instance above.

Only model-checked: `LookupsFollowFiles` itself (fairness), that is, that the
watcher comes to an end with its work.

## 9. Reading a statement

`StatementReading.tla` is one call of `parse_statement` (`parser.py`) with the OCR
worker (`ocr_worker.py`). A row is the set of its filled cells, in the columns date,
narration and figures; a "label" is a date cell without a date. Pure parts are
operators: `DetectColumns`, `MergeContinuationRows`, `Numbered`, `ParseRows`,
`ParseText`, `DatedRows`, `WithConfidence`. The state machine around them is the
choice of source: `ReadRows` for CSV and Excel; `RefusePdf`, `OpenPdf`, `TryTables`,
`TryText` for a PDF; `ChooseEngine`, `CallTextract`, `Upload`, `StartJob`, `Poll`,
`Pages`, `Tesseract`, `Convert` for a scan, with every failure and what it becomes
(`FallBack`, `OcrEnds`). Textract may see all rows of the document in its tables, some
of them or none (`TextractRows`).

Rows become dictionaries under their headings (`parser.py:543-551`), and which cells
must be empty in a continuation row is decided by the headings (592-625). Under a
recognised header this is what one expects. With template columns and no header,
though, row 1 serves for the header, whatever it is: its blank cells are all the same
heading, of which the last column wins (`Lost`, `Under`), and its filled cells hardly
ever read like "date" or "debit", so no column has to be empty (`Keys`) and every
later row with a narration is merged into the first.

* `TransactionsAreRows`: compares the result with a definition that does not fold
  over rows: exactly the rows it should have, in the order of the document,
  numbered increasingly, each with its own narration and the continuation rows
  directly below it. Where row 1 serves for the header, what it should have is what
  that header makes of the rows (`Heading`, `View`, `Joins`): mostly one transaction
  that swallows the others. The OCR confidence is the row's own, unless a merged
  or blank row above has shifted the numbers; nothing is claimed then.
* `RefusedOnlyUnread`: a PDF whose complete rows are visible is never refused; a scan
  with a dated row is refused only if no engine can be used, the last usable one
  failed, or Textract answered without failing and its tables have no date in them:
  then local Tesseract is not tried, in auto mode either (`ocr_worker.py:997-1005`).
  The S3 copy does not outlive the call unless its deletion failed or the upload,
  which stands before the `try`, raised after S3 had stored it (line 741).

Run `statement_reading`: all documents of up to four rows of six kinds (blank,
header, continuation, entry, total, date and figure only) in two columns of figures,
with and without template columns, with a narration heading that reads like an amount
and without; two polls; a header window of two rows;
4 012 298 states from 6 220 initial ones, with deadlock checking (`Done` is the end).
Four rows give a header, an entry, its continuation and a row after it; the
header window of 2 puts headers inside and outside it.

### Proofs

`StatementReading_proofs.tla` proves both properties (`TransactionsAreRowsCorrect`,
`RefusedOnlyUnreadCorrect`) for documents of any length made of any kinds of rows,
any columns of figures, any header window and any number of polls. The assumptions:
rows are sets of cells, the bounds are numbers, the columns of figures are neither
dates nor narrations, and `None` is not an error.

The parser folds over rows, and the provers have no induction over data. So the
two folds are recursive functions, `Ordered` (the members of a set of positions in
increasing order) and `MergeContinuationRows`, and what they compute is proved of
a least counterexample (`Least`, from the well-foundedness of the naturals):
`OrderExists` and `MergeExists` show that the functions exist, `OrderedLists` that
the first lists exactly its set, in order, and `Merged` that the second gives, for
each line that is not a continuation, that line joined with the continuation lines
directly below it (`Joined`), whatever header decides what a continuation is.
`NothingLost` is what a recognised header makes of this: no column is lost, and a
continuation row is one with a narration and nothing else.

From there the positions are followed through four lists, which `Reading` names:
the filled rows, the lines below the header, the lines that begin a merged row,
the merged rows that are transactions. `Between` is the key lemma: two lines are
joined exactly if the rows between them in the document, blank ones included, are
blank or continuations. `ViewIs` carries what the header leaves of each row, and
`FirstBelow` singles out the first row below it, which begins a transaction even if it
looks like a continuation. `JoinedIs`, `EachIs` and `EachEntry` give the texts and the
set of rows (`RowsAre`); `Unshifted` shows that a row with nothing shifted above it
has in all four lists the place it has in the document, so that the confidence is
its own (`OcrAre`). `TextAre` and `DatesAre` are the text layer and rows without
a header.

`IInv` (at the end of `StatementReading.tla`, checked by TLC as well) says how far a
reading can be: it goes on only while nothing was visible (`VisibleStill`,
`TryTextKeeps`), an engine is marked as failed only when it did, and what OCR found
is part of the document (Textract, which then has not failed) or all its rows with
text (`PickedRows`, `LocalRows`). `FallBackKeeps` is the
lemma for every way Textract fails.

What the model shows about the code: a narration column named "Description"
contains "cr", counts as an amount column, and continuation rows are then never
merged, though the docstring (`parser.py:579-586`) says that all such rows are; with
template columns and no header the first row is lost and, against the same docstring,
dated rows with amounts are merged like continuation rows; a table of Textract's
that is not the transactions ends the reading in a refusal, and local Tesseract,
which would see them, is not tried;
a continuation row after a total is merged into the total; `MAX_POLL_ATTEMPTS` says
about 15 minutes, and its growing delays add up to about 56; an error of the AWS
client in the asynchronous mode is no RuntimeError, so with Textract forced it
fails the job as unexpected; a worker that dies while polling leaves the S3 object.

Assumptions and what is not modelled. The columns stand in the order date, narration,
figures (with a second date column, as in the templates of AU and Bandhan, blank
headings of row 1 lose different columns); the filled cells of a header, or of a row
1 that serves for it, are different from each other; every row has a cell, filled or
not, in every column (so the code's skipping of rows with fewer than two cells,
`parser.py:396`, never applies), and OCR reads the cells right. Left out: the roles of
columns guessed from the cells of an OCR table, headings that are all digits
(610-616), the spelling of dates and amounts, image processing and the clustering of
words.

## 10. Files

| File | Content |
|---|---|
| `StatementLifecycle.tla` | abstract specification of the import pipeline |
| `StatementParsing.tla` | the pipeline, its mutations, properties and inductive invariant |
| `MCStatementParsing.tla`, `MCStatementParsing*.cfg` | the instances of its three runs |
| `StatementParsing_proofs.tla` | type correctness, the safety invariants, the action properties, the refinement and the safety sides of liveness |
| `ExportJobs.tla` | the exports, their mutations, properties and inductive invariant |
| `MCExportJobs.tla`, `MCExportJobs*.cfg` | the instances of its four runs |
| `ExportJobs_proofs.tla` | the safety invariants, the action property, the inductive invariant |
| `UniqueTable.tla` | a table with a unique key and its sessions |
| `LedgerMemory.tla` | learned ledger mappings and recurring matches |
| `Enrichment.tla`, `MCEnrichment.tla`, `MCEnrichment.cfg` | enrichment jobs, rules, answer cache, and their run |
| `TusUpload.tla` | resumable upload |
| `StatementWatch.tla` | parse job, progress record, watchers |
| `ResumableImport.tla`, `MCResumableImport.tla`, `MCResumableImport.cfg` | their composition and its run |
| `AccountAccess.tla`, `MCAccountAccess.tla`, `MCAccountAccess.cfg` | one account, and its run |
| `TemplateCache.tla`, `MCTemplateCache.tla`, `MCTemplateCache.cfg` | templates and caches, and their run |
| `StatementReading.tla`, `MCStatementReading.tla`, `MCStatementReading.cfg` | parser and OCR worker, and their run |
| `AccountAccess_proofs.tla` | the invariants of the account |
| `TemplateCache_proofs.tla` | types, files and rows of the templates, and what the caches answer |
| `TusUpload_proofs.tla` | every step of the upload keeps its invariant |
| `ResumableImport_proofs.tla` | the invariants of the import |
| `Enrichment_proofs.tla` | the invariants of the enrichment and of the ledger mappings, that no one waits for ever and that jobs end |
| `StatementReading_proofs.tla` | what the parser's folds compute, and the invariants of a reading |

Run TLC with `tlc -config MCStatementParsing.cfg MCStatementParsing.tla`, and
likewise with each other configuration and its module, TLAPS with `tlapm` on each
module whose name ends in `_proofs`. An operator marked "mutant" is a plausible
bug in the definition below it; no specification uses it.

What only TLC checks: the four liveness properties (`EveryUploadSettles`,
`FilesAreOwned`, `EveryExportSettles`, `LookupsFollowFiles`; fairness is out of
the provers' reach), of `NoneIsStuck` the two conjuncts about ENABLED, and the three
violations. All other properties of the runs are theorems, and of each liveness
property so is its safety side: that in every state something is due as long as
the goal is not reached (`UnsettledIsDriven`, `FilesAreClaimed`,
`UnsettledIsOutstanding`, `QuietCachesAreCurrent`). Nothing here is an experiment on the
running system: a statement about the code holds as far as its module is a
faithful reading of the lines `PROJECT.json` names.
