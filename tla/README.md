# IngestRelay in TLA+

TLA+ specifications of IngestRelay (the `ingest_relay` package): the service that pulls
documents from SQL databases, REST endpoints and files, or is pushed events over HTTP,
and keeps a Discovery Engine (Gemini) datastore in step with them.

The datastore cannot take part in the database's transactions. Most of what can go wrong
follows from that: a run that has written one side and not the other, an import that is
carried out twice or too late, two runs over one connector, a batch that is taken twice.
The specifications are about these, about what comes before (pages, tokens, secrets and files
that change while they are read), what is written to the bucket, and the control plane around it:
proposals at GitHub, runs on request, and the dashboard that watches.

| module | about |
| --- | --- |
| `PullPipeline` | the runs of one pull connector: extraction, diff, import, deletes, record_state, checkpoint |
| `PushIntake` | the push endpoint: idempotency keys and batches under concurrent requests |
| `DeltaLog` | abstract: batches of deltas applied once, whole, in order |
| `PushProcessing` | the queue of batches and the processors that take it to the datastore; implements `DeltaLog` |
| `Secrets` | the stored secret, the environment, the key, and what the source accepts |
| `RestPull` | the page requests of a REST source: retries, cursor, OAuth token provider |
| `FilePull` | the files of a directory, read while others write to it |
| `ArtifactPublisher` | the uploads of runs under one prefix of the bucket |
| `PullToStore` | composes the four: a pull run from its source to the bucket |
| `Studio` | connector files and schedule jobs, the changes a request makes to them |
| `Proposals` | the calls of propose, GitHub's branches and pull requests, merges |
| `ManualRuns` | run-now requests, their tasks, run_state, the CronJobs |
| `OpsSnapshot` | the dashboard's queries and a client that pages through the runs |
| `ControlPlane` | composes these four around one working tree, one database, one API process |
| `MCPullPipeline`, `MCPushIntake`, `MCPushProcessing`, `MCPullToStore`, `MCControlPlane` | instances for TLC: symmetry, initial states, payloads, requests |
| `PullPipelineProofs`, `PushIntakeProofs`, `PushProcessingProofs`, `PullToStoreProofs`, `ControlPlaneProofs` | theorems, checked by TLAPS |
| `FilePullProofs`, `ManualRunsProofs`, `ProposalsProofs` | the lemmas on one component that the composed theorems use |

Contents: [the system](#the-system), [hazards](#what-is-hard-here),
[how the modules read](#how-the-modules-correspond-to-the-code),
[assumptions](#what-the-models-assume), [runs](#the-runs), [fairness](#fairness),
[proofs](#the-proofs), [disagreements](#where-code-and-documentation-disagree),
[not modelled](#what-is-not-modelled), [plan](#plan).

## The system

Paths are relative to `ingest_relay/` unless they begin with another top-level directory.

**Pull pipeline** (`services/pipeline.py`, modes `sql_pull`, `rest_pull`, `file_pull`).
State: the tables `run_state` (one row per run), `connector_checkpoints` (one watermark
per connector) and `record_state` (one row per connector and document: checksum,
last_seen_run_id), and the locals of each call. Operation: `run_connector`. It inserts a
RUNNING row in a session of its own; then, in one try block and one session, it reads
the watermark, extracts, normalizes, diffs against `record_state`, publishes artifacts,
imports the upserts, sends the deletes, applies both to `record_state`, stores the
watermark and commits; then, in a third session, it sets SUCCESS. Any exception in the
try block leads to FAILED, in a fourth. Correct when the watermark never runs ahead of
`record_state`, `record_state` never runs ahead of the datastore, and a run that began
ends as SUCCESS or FAILED.

**Diff engine** (`services/diff_engine.py`). No state of its own. `compute_diffs`
compares checksums and, unless the policy is `never_delete`, turns the rows the extraction
lacks into deletes; `apply_record_state` loads the rows again, updates or adds one per
upsert and deletes those of the deletes.

**Gemini ingestion client** (`services/gemini_ingestion.py`). State lives in the
datastore: the documents and the long-running operations. `import_documents` posts the URI
of the upserts file and polls the operation it is given, for at most 600 s;
`delete_documents` sends one DELETE per document. All requests but the polling go through
`_request`, which tries three times, so an import whose *answer* is lost is carried out
twice and the first operation is awaited by nobody.

**Push intake** (`api.py`, `push_events`). State: `idempotency_keys`, `push_batches`,
`push_events`. Checks mode and header, looks the key up (same body: stored answer; other
body: 409), parses, and commits batch, events and key together. Correct when retries and
races make one batch per key and an acknowledged request is queued.

**Push processing** (`services/pipeline.py`, mode `rest_push`). Takes the oldest PENDING
batch of the connector, or the one `--push-run-id` names, without claiming it; the rest is
the pipeline above with `_split_push_docs` in the place of the diff and with the batch
marked PROCESSED in the data transaction. Correct when accepted batches take effect once,
whole, in order, and all of them in the end.

**Extractors** (`adapters/extractors.py`). State: locals of one call, among them the OAuth token
provider, and the source itself. SQL is one query by watermark. REST follows a cursor from page to page;
each request is tried three times on transport errors, 429 and 5xx, and a 401 under OAuth renews the token and asks
once more. Files are listed once and read in the order of their names; the checkpoint records what was seen
and selects nothing. Correct when what they return is all of the source or an exception, when no answer
of an endpoint keeps them busy for ever, and when a source changing under them never makes old content look new.
**Normalizer** (`services/normalizer.py`): rows to documents and checksums.

**Secrets** (`services/secrets_registry.py`, `utils/secrets.py`). State: one encrypted row per
secret in `managed_secrets`, and `SECRET_*` variables. `resolve_secret` prefers the row and raises if it
cannot be decrypted or nothing is there. Correct when a secret that was stored is used from the next resolution on.

**Artifact publisher** (`services/publisher.py`, `adapters/object_store.py`). State: the bucket. Four files
(two for csv) under `runs/<run_id>/`, optionally the same under `latest/`, and
`state/latest_success.json`, each one upload, nothing ever taken back. Correct when whatever manifest a reader finds lists
files that exist and belong together. **Replay** (`services/replay.py`): a digest over published files.

**Studio** (`services/studio.py`). State: its working tree, that is the connector files and the `scheduleJobs` of
the Helm values, which it only reads; and the tables `proposal_history` and `managed_secrets`. Operations that change
state: propose, run-now, store a secret. Catalog, editor, validation and preview only read.
**GitHub pull requests** (`services/github_pr.py`). State: branches and pull requests at GitHub. One operation,
`create_proposal`: read the base ref, create the branch (one that exists is used as it is), commit file by file, open
the pull request. Correct when a pull request carries its proposal whole and nothing else.

**Manual runs** (`api.py` `studio_run_now`, `_execute_manual_run`; `services/studio.py`
`enqueue_manual_run`). State: `manual_run_requests`, QUEUED, RUNNING, then SUCCESS or FAILED,
moved by a background task of the API process, in memory. Correct when the outcome recorded is the outcome
of the run that was started, and a request ends.

**Ops dashboard** (`services/ops.py`, `static/ops.js`), **SLO metrics** (`services/slo.py`). No state of their own:
several queries for one answer, cut into pages. Correct when an answer is consistent with itself and
paging shows every run. **Gates** (`quality_gates.py`, `scripts/`) compare numbers with thresholds. **Observability**
(`services/observability.py`): requests whose failures are swallowed.

**What interacts with what.** Pull and push share the database, the ingestion client and
`record_state`; a connector has one mode, so their rows never mix. Intake and processing meet in
`push_batches`. Runs are started by Kubernetes CronJobs (`concurrencyPolicy: Forbid`,
`infra/helm/ingest-relay/templates/cronjobs.yaml`), by Kestra flows (every five minutes with up to
three attempts and no limit on overlap, `flows/support-push-process.yaml`), by run-now and by hand;
nothing in the code keeps two runs of a connector apart. `PushIntake` and `PushProcessing` are two
views of one queue: `Accept` of the former is `Push` of the latter. The intake's theorem
that a batch is created once, with its events, in one commit is what justifies `Push`.

`PullToStore` is the part of a pull run that `PullPipeline` has as its single step `Extract`, and
the publication that lies between its diff and its import. Its theorems are what those steps rest on: an
extraction is whole or raises, and the import reads the run's own file. `ControlPlane` has
`run_state` in common with the pipelines, of which it keeps start and end. Studio's proposals reach runs through the
base branch and the rollout that brings it to the working tree; run-now and the CronJobs read that tree.

## What is hard here

`PROJECT.json` lists the hazards with their lines. In short:

- *Two systems, one commit.* Import, then deletes, then commit: an exception or a crash
  in between leaves the datastore ahead (`DatastoreAgrees`, `IngestedBeforeCommit`, `DatastoreFollowsLog`).
- *Imports that nobody awaits.* A retried POST or a timed-out wait leaves an operation that may
  finish after its run and after later runs, and bring old content back.
- *Overlapping runs.* Old extractions commit after new ones, inserts meet inserts, updates find
  their rows gone, DELETE statements lock rows other transactions wait for (`LastWriterAgrees`,
  `RunEnds`, `ProcessedInOrder`, `RowsComeFromProcessed`).
- *A watermark read earlier than it is stored*, over a source that goes on changing (`CheckpointCovers`).
- *Check, then insert* of idempotency keys by two API processes (`OneBatchPerKey`, `AnswersSettleKeys`).
- *Head-of-line blocking*: a batch that cannot be processed is always the oldest (`EveryBatchProcessed`,
  `BacklogDrains`).
- *Tokens, secrets and pages that change during a pull*: a token expires between two attempts, is revoked, or
  lives shorter than was said; the secret is replaced (`RequestsAreBounded`, `RefusedWithOwnToken`,
  `RotationIsPickedUp`, `PublishedPagesAreAnswered`, `PullEnds`).
- *Answers that are no page*: an object without items, or without the cursor, ends the extraction as if it were
  complete (`PublishedPagesAreAnswered` names both exceptions).
- *Files written while they are read* (`RecordsAtRestAreExtracted`, `ChangesLookNewer`).
- *Uploads one by one*, cut short anywhere, by several runs of a prefix (`ManifestsAreComplete`,
  `ImportsItsOwnFile`, `AliasIsOneRun`).
- *Proposals on stale trees, branches named by the second, commits file by file* (`PullRequestIsWhole`,
  `OnlyStaleTreesReschedule`, `JobsMatchFiles`).
- *A background task that dies with its process*, and whose connector may be gone when it starts (`RequestMatchesRun`, `RequestEnds`).
- *Several queries for one answer, pages by offset* over a table that changes (`AnswerAgreesWithItself`,
  `PagingSkipsNothing`, `MttrIsTimeToRecovery`).
- *Connectors without a job*, which two up-to-date proposals may leave as a job without its connector (`JobsMatchFiles`).
- *Hazards the code leaves open*, which no property can state as holding: with overlapping runs an older
  extraction may reset the checkpoint; with overlapping processors a slow one that read an old batch
  may send and commit it again after newer ones, and record_state and the datastore go back; a run that loaded a
  row with the checksum it extracted puts its id beside whatever checksum another run commits before its flush. The properties
  that do hold with overlap are therefore weaker than those for one run at a time, and say so.

## How the modules correspond to the code

`PROJECT.json` maps every definition to its lines; this is the outline.

### PullPipeline

Tables are functions: `recordState` (checksum, inserting run, last_seen_run_id per document),
`checkpoint` (inserting run, watermark), `runState`. `index` is the datastore: per document its
content, the run that wrote it last, and whether an unawaited operation did. `operations` are the imports
runs wait for, `orphans` those nobody does. `pc` says where each run is between two statements that
another process can observe or that can fail; `watermark`, `pulled`, `upserts`, `deletes`, `unsent` are the locals,
`rowSeen`, `ckptSeen`, `purged` what the open transaction has read and locked. `committed` and `checksumBy` (who wrote the
checksum column of a row last) are observations: no action reads them.

| action | code |
| --- | --- |
| `StartRun` | `_start_run` and its commit |
| `GetCheckpoint`, `Extract`, `ComputeDiffs` | `_get_checkpoint`, the `extract_*_rows` call with its normalization, `compute_diffs` |
| `ImportDocuments`, `LoseReply`, `ImportDone`, `ImportFails` | `import_documents`, the retry in `_request`, the outcomes of `_wait_for_operation` |
| `DeleteDocument` | one request of `delete_documents` |
| `SelectRows`, `PurgeRows` | `apply_record_state`'s SELECT, and its DELETE followed by the SELECT of `_set_checkpoint` |
| `Commit`, `CommitFails`, `DeadlockVictim` | `session.commit()`: flush of inserts and updates with the commit, constraint violation or missing row, abort by the database |
| `SetRunSuccess`, `SetRunFailure`, `Raise`, `Crash` | the last session; the except branch; any exception of the try block; the process dies |
| `OperationDone`, `OperationError`, `OrphanEnds`, `SourceChange` | the datastore and the source |

The sessions do not autoflush (`db.py`), so inserts and updates reach the database at the commit but the
Core DELETE runs at once: that is why `PurgeRows` takes locks and `Commit` meets conflicts. An UPDATE names the
columns whose value differs from the one loaded (`WritesChecksum`, `CheckpointAfter`): a row loaded with the checksum
extracted gets a new `last_seen_run_id` and keeps whatever checksum is there at the flush. An error
in `SetRunSuccess` is a `Raise` at `"report"`: the data has committed and the run is FAILED.

### PushIntake

A handler is three steps: refusal or lookup; parse and commit; answer. A refusal is 400, or 404 for a connector no file
configures; a body that is no JSON is answered 500, one that is neither object nor array 400. Between lookup and commit the
coroutine awaits nothing, so `Busy` lets one handler per process in. Who is where is `phase`; `answer` is
what the handler returned and `heard` who received it. A retry is another request with equal fields;
TLC takes every combination of requests. `Die` is a crash or a failed commit.

### DeltaLog and PushProcessing

`DeltaLog` says what "push events represent explicit deltas" (`docs/concepts/idempotency-and-deltas.mdx`)
amounts to: a log, a set of applied batches that is a prefix of it, and a mirror that each
application changes as the batch's events say. Two events of one batch about one document are not
ordered, since the code reads events without ORDER BY and splits them.

`PushProcessing` has the queue by `created_at`, `status`, `recordState`, `index` as above (written by
batches), and processors whose steps are those of the pipeline. `ownRun` are the batches that some run
took for its own id: `_start_run` inserts it outside the try block, so a second targeted
run of a batch dies there and `StartTargeted` has that guard (the dying call changes nothing).
An upsert and a delete of one document in a batch, two upserts of one document, and batches without a valid
event are all payloads. `rowSeen` distinguishes rows loaded, not loaded, and loaded but removed
since by another commit (`gone`), which is what decides between insert, update and `StaleDataError`, and the checksum loaded,
which decides whether an update writes it.
The refinement maps log to `queue`, applied to the PROCESSED batches, mirror to `recordState`; every
step but `Push` and `Commit` is a stutter.

### Secrets, RestPull, FilePull, ArtifactPublisher, PullToStore

`Secrets!Resolvable` is the set of values `resolve_secret` may return: under another key than the one it was
encrypted with, a row decrypts to garbage or not at all. `RestPull` follows the loop of `extract_rest_rows`
statement by statement; `at` is the place, `tries` the attempts of the request under way, `forced` that
this page was answered 401 before. A token has a real end (`until`) and the one that was said (`said`), and the headers are
computed before the attempts of a request, as in the code, so that it may expire between two of them. A 200 may lack its
items, which is a page without rows (`bare`), or the cursor to the next page, which ends the loop (`cut`).

| action | code |
| --- | --- |
| `StartPull`, `RequestHeaders` | the head of `extract_rest_rows`; `_request_headers` with `authorization_header` |
| `ResolveSecret`, `TokenIssued`, `TokenRefused`, `TokenFails` | `_refresh_token` up to its request, and the outcomes of that |
| `PageAnswered`, `PageRefused`, `PageFails`, `AnswerUnusable` | 200, with or without items and cursor; 401; an error that `_request_with_retry` retries; what raises at once: another 4xx, no JSON, neither list nor object, items that are no list |
| `ListFiles`, `StatFile`, `ReadFile`, `FileGone`, `AddRows`, `FinishFiles` | `extract_file_rows`: the listing; `stat`; `read_text`; either raising; the rows; the return with `_ensure_unique_doc_ids` |
| `Begin`, `Upload`, `FinishPublishing`, `ImportFile` | `publish_artifacts` or `publish_csv_artifacts`, one `upload_text` each; `import_documents` reading the manifest's file |
| `StopRun`, `EndFailedPull` | an exception or the death of the process, anywhere; the exception of an extraction |
| `Tick`, `SecretStep`, `RevokeToken`, `SaveFile`, `RemoveFile` | time, users, the source, writers of the directory |

An object in `store` is the run that wrote it, which is all the properties need. `steady`, `still`, `mixed`, `imported`, `bare`, `cut`,
`pageCalls` and `tokenCalls` are observations. `Uploads(r)` is the sequence of a run's uploads; a run that stops has made some prefix of
it.

### Studio, Proposals, ManualRuns, OpsSnapshot, ControlPlane

A tree is a file or none per connector (mode and the field each of the pull modes needs) and a job or none per connector. `Merged`, `Pruned`,
`FilesAfter`, `JobsAfter`, `Changes` and `Rejected` are `build_proposed_file_changes`. A draft is the
overrides of the spec; cron expressions behave like the other fields. A branch at GitHub is a fork point, a head and
the state of its pull request.

| action | code |
| --- | --- |
| `Propose`, `Reject` | `propose_connector_change` up to its first request, or its `ValueError` |
| `ReadBase`, `CreateBranch`, `ReadSha`, `CommitFile`, `OpenPull` | the requests of `create_proposal`, one each |
| `RecordProposal`, `FailProposal` | the `ProposalHistory` row; a request or the database failing, before or after it took effect |
| `MergePull`, `Refresh` | a reviewer; a rollout |
| `RunNow`, `RefuseRunNow`, `BeginTask`, `BeginFails` | `studio_run_now` and its 404; `_execute_manual_run` up to its first commit; the database failing there or when the answer reads the new row again, which leaves the request QUEUED |
| `LaunchRun`, `LaunchFails`, `RunReturns`, `RunRaises`, `RunRaisesTwice` | `run_connector` as its caller sees it, the failure of `_set_run_failure` included |
| `RecordOutcome`, `LoseOutcome` | the commit in the finally clause |
| `CronStarts`, `CronEnds`, `CronDies` | an enabled CronJob, `concurrencyPolicy: Forbid` |
| `Ask`, `SelectSlo`, `SelectWindow`, `SelectCount`, `SelectPage`, `SelectRows`, `NextPage` | a client of the dashboard, and the queries of `build_ops_snapshot` and `build_connector_detail` |
| `Restart` | the API process ends, with every call, task and answer in flight |

`OpsSnapshot!Loaded` is SQLAlchemy's identity map: `build_ops_snapshot` keeps `window_runs` while it goes on
querying, and a row that is read again does not change the object the session holds. `compute_slo_metrics` drops its
rows when it returns, so the number of successes may be older than the rest. `build_connector_detail` keeps nothing between its
two queries: its connector row and its page may show one run differently.

## What the models assume

- ndjson output, ingestion enabled and not dry, a bucket the datastore can read. The csv branch and
  disabled ingestion skip the parts the properties are about.
- A pull returns at most one row per document id (`_ensure_unique_doc_ids` enforces it for files only).
- Contents are compared by checksum, and a checksum stands for its content. Watermarks are stamps that
  grow with the source's changes. Normalization either raises (`Raise`) or gives the document.
- PostgreSQL at READ COMMITTED; a document row is locked by DELETE until its transaction ends.
- Lost answers: at most one unawaited operation per run, or per batch, *at a time*; others of the same file
  would write the same. DELETE requests are carried out before they are answered and are not delayed
  beyond their run.
- Push: batches are created in the order they become visible. The chart deploys one replica, and the
  handler awaits nothing between flush and commit; with several API processes `created_at` may tie
  or be out of order. The batch and its events are read at one moment: a processor overtaken between
  the two queries finds no unprocessed event and writes nothing but its status. The connector's
  checkpoint row exists (a push run writes back what it read).
- One API process with one working tree (the chart deploys one replica). `GITHUB_REPO` holds the connector files and the
  Helm values; nobody else writes to a branch of Studio. Requests to delete, pause or resume carry no draft. GitHub
  merges three-way, file by file and within the values job by job, and refuses what clashes.
- At first each connector of the tree has file and job, neither, or a file only (`Consistent`); the shipped tree has two of
  the latter, `oracle-employees` and `hr-file-csv`. No tree starts with a job whose file is missing.
- Runs have distinct start times, and all lie inside the window of hours the dashboard asks for.
- An answer to an import names its operation, as the API of Discovery Engine documents. For one that does not, `import_documents` waits
  for nothing (`services/gemini_ingestion.py:81-83`).
- The pages of a REST source do not change while they are fetched, the cursor is sent
  (`paginationCursorField` is set) and the chain of cursors is finite.
- Every write to a file gives it a new modification time; a write is seen whole.
- Google Cloud Storage replaces an object whole. (A local bucket's file can be cut short; it is for development.)
- Connectors may share an `output.prefix`; run ids are unique.
- A run dies whole (`Crash`); the database and the datastore do not lose what they acknowledged.

Assumptions on the constants are the named `ASSUME`s of the modules; TLC evaluates them in every run.

## The runs

| run | instance | shows |
| --- | --- | --- |
| `pull_snapshot` | 2 documents, 2 contents, 2 runs one at a time, 3 changes, `auto_delete_missing`, snapshot source, empty start | `TypeOK`, `DatastoreAgrees`, `CheckpointCovers`, `CommitReconciles` |
| `pull_incremental` | as above with `never_delete`, an incremental source, a first run done, 3 further changes | `DatastoreAgrees`, `CheckpointCovers`, `CommitReconciles` |
| `pull_overlap` | 2 runs that have extracted the source before and after documents crossed over, or one that is about to import what the first synchronisation imported meanwhile and one that has extracted newer contents; then all interleavings, one more change | `LastWriterAgrees`, `IngestedBeforeCommit`, `RunEnds` |
| `pull_soft_delete` | 1 document, 2 runs, `soft_delete_only` | violates `SoftDeleteKeepsDocuments` |
| `push_intake_races` | 3 requests with any of 2 keys or none, 4 bodies (one no JSON, one a scalar), 4 connectors (one pulls, one unknown), 2 processes | `TypeOK`, `OneBatchPerKey`, `AcknowledgedIsQueued`, `AnswersSettleKeys` |
| `push_intake_replay` | the same | violates `AcceptedReplay` |
| `push_in_order` | 1 processor, 3 batches with any of 3 payloads | `TypeOK`, `DatastoreFollowsLog`, `ImplementsDeltaLog`, `EveryBatchProcessed` |
| `push_overlap` | 2 processors, a processed batch and 2 more with any of 4 crossing payloads, `--push-run-id` for either | `ProcessedInOrder`, `RowsComeFromProcessed` |
| `push_stuck` | 1 processor, 2 batches | violates `BacklogDrains` |
| `push_by_name` | 1 processor, 2 batches, one may be named | violates `QueuedRunIsProcessable` |
| `control_plane` | 2 connectors, one of which may lack its job; 2 proposals of 6 requests, 2 seconds; or 2 run-now requests, 3 runs of which one is over, a connector perhaps deleted at base; or a reader with 3 queries, pages of 1, runs of CronJobs | `ControlTypeOK`, `PullRequestIsWhole`, `JobsMatchFiles`, `RequestMatchesRun`, `AnswerAgreesWithItself`, `PagingSkipsNothing`, `MttrIsTimeToRecovery`, `OnlyStaleTreesReschedule`, `RequestEnds` |
| `pull_to_store` | 2 pages, 3 attempts, tokens that live 1 or 3 and are renewed 1 before, time to 2, 2 secret values, 3 keys; or 2 files, 2 records, 2 writes; or 2 runs that publish, csv or not, alias or not | `PullTypeOK`, `RequestsAreBounded`, `RotationIsPickedUp`, `RefusedWithOwnToken`, `RecordsAtRestAreExtracted`, `ChangesLookNewer`, `ManifestsAreComplete`, `ImportsItsOwnFile`, `AliasIsOneRun`, `PublishedPagesAreAnswered`, `PullEnds` |

What the less obvious ones say:

- `DatastoreAgrees`: datastore and record_state differ about a document only where a run that did
  not commit, or an import whose answer was lost, wrote last. Whatever mixture of failures led there, what
  a committed run awaited or deleted is as it recorded it. It does not promise that the difference is repaired:
  with an incremental source and a retried import it may not be.
- `CheckpointCovers`: of every document the source holds with a stamp at or below the stored watermark,
  record_state has the content. The source would not send it again, so a violation is a lost update.
- `CommitReconciles` ties record_state after a commit to what that run extracted, not to the source,
  which may have moved on.
- `LastWriterAgrees` is what is left of `DatastoreAgrees` when runs overlap. It goes by the run that wrote the checksum column, not by
  `last_seen_run_id`, which may name another: run r loads a row with content X, which it also extracted; t overwrites it with Y; r's flush
  writes its id alone; the row then says Y, last seen by r, while r imported X. The lagging start of `pull_overlap` leads there.
- `AnswersSettleKeys`: an answer is final for its key. After a 200, a 409 or the 500 of a lost race the key names a batch that is
  queued, the one a 200 named, and another body's after a 409; no retry or race changes that later.
- `PublishedPagesAreAnswered`: errors, retries, refreshes and refusals never cost a page or repeat one. What costs one is a 200 without
  items or cursor, which the code takes as it is: the run publishes what it has and goes on to delete the rest.
- `RunEnds`: a RUNNING row ends as SUCCESS or FAILED unless the process died, lock cycles included.
- `ProcessedInOrder`: a batch overtakes an older one only if a run named it.
- `RowsComeFromProcessed`: no rolled-back row shows, none is lost but to a processed delete, with any
  number of processors and named runs.
- `EveryBatchProcessed` has one exception, a batch that upserts a document twice being next, and
  `push_stuck` shows that the exception is needed.

- `PullRequestIsWhole`: two proposals of one action, connector and second share a branch. Either may fail on the other's commit, but a
  pull request that is opened holds, for every path of the proposal that opened it, what that one or its twin wanted there.
- `OnlyStaleTreesReschedule`, `JobsMatchFiles`: the Helm values are rewritten whole from the working tree. The first says that this is the only
  way a proposal reaches another connector's schedule; the second that with up-to-date trees
  no job lacks its connector and no connector loses its job. It excepts connectors that a pull request was forked for while they had
  no job. There the code fails it: saving such a connector unchanged proposes its job only, deleting it its file only, and both merge. Mutants that touch other jobs or keep a deleted connector's job violate them.
- `RequestMatchesRun`: SUCCESS names the one run the request started, FAILED one that did not succeed, whatever happened to the connector since.
- `RequestEnds` names its exceptions: a process that died, and a database that failed before RUNNING was stored or when the outcome
  was (`api.py:103-109` and `api.py:122` are in no `try`).
- `AnswerAgreesWithItself` is about snapshots and the runs their window query returned.
- `PagingSkipsNothing` names its exceptions: a query for RUNNING, which runs leave, and a match added between a count and its page.
- `MttrIsTimeToRecovery` compares the code's pairing with the next start of a success after the failure's *end*.
  They agree as long as the runs of a connector do not overlap, and not beyond.
- `RefusedWithOwnToken` and `RequestsAreBounded` together: a stale token is never the reason a pull fails, and the price is bounded.
- `AliasIsOneRun` holds between publications; `mixed` marks the histories in which two runs wrote side by side or one stopped half-way,
  where the alias is a mixture until the next run.

**Bounds.** Two documents tell "this one" from "another" (one upserted while the other is deleted; lock
cycles need two), two contents tell old from new. Two runs suffice for a late import of one to meet the commit
of the other, and two transactions for every conflict pairwise. `pull_incremental` and `pull_overlap` start from a
synchronised system (`Warm`), which is a state `pull_snapshot`'s machine reaches with one run; it adds a
third run to the history at no cost. `pull_overlap` starts where the two runs have just extracted (`CrossingInit`):
that is where their interaction begins, and the two extractions are chosen so that each upserts what the other deletes. Its other start (`LaggingInit`) is for the row that is loaded
with the checksum extracted: that takes two runs that recorded one content and a third that overwrites it, the first of which is done. Which of the
equal runs is which makes no difference, and `Second` fixes it.
`MaxChanges` counts the changes before the start as well: 3 in all for `pull_snapshot`, 3 and 1 more than those for the
warm ones. Three batches give a first, a next, and one that waits; payloads cover a plain batch, both
kinds of event on one document, and a repeated upsert. Three requests are an original, its
retry and a stranger. In `pull_to_store` time runs to 2, which lets a token expire before the second page and between two attempts.

`control_plane` and `pull_to_store` start in one of several workloads: the components interact only through the variables named
above, so that two proposals, two tasks beside CronJobs, and a reader beside CronJobs need not be multiplied with
each other. Each workload is a reachable state of the full machine: those who are not to act have been refused or are done, and earlier runs have failed. The
full machine, with everything at once, is what the theorems are about. Two proposals are what a shared branch, a conflict and a merge in the other
order take; requests are chosen so that they clash (delete, edit, pause, resume of one connector, create and clone of the other). Two
tickets and a CronJob make every pair of runs of one connector overlap. Pages of one row and three runs make every
page boundary move. Two pages give a token that is old at the second; lives of 1 and 3 against a window of 1 give one
that is always about to expire and one that is not; `Attempts` is the code's 3.

**Symmetry** is used in safety-only runs: documents, contents, runs, batches, requests and processes are unordered model
values. The chosen `First`, `Number`, `FirstRun` and `FirstBatch` of the warm starts are set apart: `FirstRun`
and `FirstBatch` are outside the permuted sets; `First` and `Number` only pick which of the equivalent warm states is the initial one,
and the actions do not mention them, so the reachable states of the permuted starts are
permutations of each other and the properties do not tell them apart.

**Deadlock** is checked in the push-processing runs. The others run out of runs, changes, requests, users or readers and say
`CHECK_DEADLOCK FALSE`.

Every property of a passing run has a mutant in `PROJECT.json`: a definition altered as a
plausible bug would alter it (an import that is not awaited, a watermark taken from the clock, an order
reversed, a status in a session that is not committed), under which the run fails. Mutated forms
stand beside the originals, marked `Mutant`.

## Fairness

- `PullPipeline!FairSpec`: weak fairness of `Step(r)` per run. Each step is program text, a
  wait bounded by a timeout (600 s for an operation, so `ImportFails` is enabled whenever `ImportDone` is not), or an answer
  of the database, which detects lock cycles. Nothing is assumed of the source, the scheduler, the
  datastore's operations, or that exceptions or crashes stay away: `RunEnds` holds with all of them.
- `PushProcessing!FairSpec`: the scheduler keeps starting runs (cron, every five minutes), a run
  keeps executing, and from some moment on runs are no longer disturbed from outside: no lost answer,
  failed operation, exception or crash. Without the last, a datastore that rejects every import
  would refute any progress, for which the code is not to blame. It is written
  `Disturb(p) => Step(p)` because some of a run's own steps (a query without rows, a conflict at the
  flush) have the effect of a disturbance and must not be excluded: they are how a batch gets stuck.

- `ControlPlane!FairSpec`: weak fairness of the steps of each background task, which are program text and
  `run_connector`, whose calls return or time out. Nothing is assumed of users, GitHub, reviewers, CronJobs or the process staying alive:
  `RequestEnds` excepts a process that died and a database that failed at either end of the task, which leave the request as it is.
- `PullToStore!FairSpec`: weak fairness of the followed run's own steps: an HTTP request is answered or times out
  after 30 s, the retries wait at most 10 s, a file read or an upload returns or raises. Which answers come is open.

## The proofs

TLC checks small instances; the theorems hold for every value of the constants that satisfies the
modules' assumptions. All are of the form `Init => Inv`, `Inv /\ [Next]_vars => Inv'`, `Inv => property`,
with one step per action.

**PullPipelineProofs**

- `TypeCorrect`.
- `LastWriterCorrect`, `IngestionFirst`: overlap, crashes and late imports allowed. Neither property is
  inductive. `WriterInv` adds, per run: how far operation, commit and status are at each point (`StageOf`); that upserts and deletes
  come from one extraction and the awaited operation carries the upserts (`PlanOf`); that whatever a run wrote to the
  datastore is what it extracted (`WroteOf`); that what its unawaited import may still write is what it
  extracted and recorded (`OrphanOf`); and that checksums are written by committed runs (`StoredByCommitted`).
- `DatastoreCorrect` assumes `~Overlap`. A commit turns the run's unconfirmed writes into confirmed
  ones, so `SerialInv` must say that by then every document about to be recorded was written by the run, or
  by something that stays unconfirmed (`TouchedOf`), and that no other run is active.
- `CheckpointCorrect`, `CommitCorrect` assume also `SnapshotOrKeep`: a source that honours the watermark
  is used with `never_delete`. Otherwise the second run deletes all that did not change, which the
  documentation warns of (`docs/concepts/reconciliation-upserts-deletes.mdx:15`) and the code accepts. The watermark's promise must
  survive the time between extraction and commit: `CoverInv` splits it into what the diff
  accounts for (`ReconcileOf`), what the extraction has up to the new watermark (`CoverOf`) and the
  fact that no stamp is in the future (`StampsPast`), so that later changes lie above it.

**PushIntakeProofs**: `IntakeTypeCorrect`, `OneBatchCorrect`, `AcknowledgedCorrect`, `AnswersSettleCorrect`, no
assumption on overlap or number of processes. `IntakeInv` adds to `OneBatchPerKey` that a stored key names a
batch of the request that stored it, that a handler past its checks has a key, and that a 200 names a batch
under its own key and body. The unique key column does the rest.

**PushProcessingProofs**

- `TypeCorrect`; `RowsCorrect` and `OrderCorrect` for any number of processors, targets and payloads.
  `RowsInv`: a processor's batch is queued, and the rows it locked are ones its batch deletes. `OrderInv`: the queue has no repetition, and
  everything before the batch of a scheduled run was already processed when the run read it (`TurnOf`),
  which other processors can only confirm.
- `LogCorrect`: with one processor and no targets, `Spec => ImplementsDeltaLog`, the whole refinement:
  initial states map to initial states, `Push` to `Accept`, `Commit` to `Apply`, the rest to stutters.
  `SoloInv` says that a batch at work is still PENDING and the loaded and locked rows are the current ones.
- `FollowCorrect`: under the same assumptions, `DatastoreFollowsLog`. `FollowInv` adds to `SoloInv` what the one run has already sent and
  what it has still to delete at each point of its attempt (`SentOf`), so that by the commit every document its batch names carries that
  batch or a late import, and that what the datastore holds was written by a queued batch about a document it names (`Written`). The order of the log does the rest:
  the batch that commits is younger than every processed one (`WorkIsNext`), and one that failed half-way is still the next (`NextUpIsOne`).

**PullToStoreProofs** (with `FilePullProofs`), for any numbers of pages, attempts, lifetimes, files, records, writes and runs: `RequestsBoundedCorrect`,
`OwnTokenCorrect`, `RotationCorrect`, `AnsweredPagesCorrect`, `NothingMissedCorrect`, `LooksNewerCorrect`, `ManifestsCorrect`, `OwnImportCorrect`, `AliasCorrect` and
`PullTypeCorrect`. One invariant, `PullInv`, of parts named for what they keep:

- `PageBudget`: at each place of the loop, how many requests and refreshes this page has cost at most, given
  `forced` and `tries`. The property is the maximum over the places.
- `OwnToken`: after a 401 the token is renewed before the page is asked for again, so it was issued for this page.
- `RefreshIsCurrent`: while a refresh is under way in a time without rotations, the value it resolved is the accepted one, and the only one
  that the table or the environment can resolve to.
- `RowsInOrder`: the rows held are the pages before the cursor's but the bare ones. `NothingEarly`: nothing is in the bucket before the loop has ended.
- `FileInv`: every record that has stayed since the listing is in a row, in the file just read, or in one still to be read; and a row whose
  file still has its modification time is still there. The order of `stat` and `read_text` is what the latter needs.
- `PublisherInv`: the first so many uploads of each run, as `uploaded` counts them, are in the bucket, and nobody else writes
  under `runs/` (`UploadsInOrder`). The manifest being the last of them makes it complete.
- `AliasInv`: unless runs have published side by side, at most one is half-way, and what it has uploaded under the alias is there
  (`OneAtTheAlias`); when it ends, the alias and `latest_success.json` are its own. Uploads under the alias follow those under `runs/` (`SharedAre`).
- The types need `RowsInOrder`: a page number stays in range because the rows held say where the cursor is.

**ControlPlaneProofs** (with `ManualRunsProofs` and `ProposalsProofs`), for any numbers of connectors, users, requests, tickets and runs:

- `RequestMatchesRunCorrect`: `ManualInv` says that tasks start different runs and their own connector's (`OwnRun`), what the run's
  row may be at each point of the task (`RunFollowsTask`), that an outcome is not touched again, and that pods end only runs of their own (`PodsRun`).
- `AnswerAgreesCorrect`, about the runs of a snapshot's window query: a row the session holds keeps its status; and a run that was once counted as successful stays so, which is why the older number agrees.
- `PullRequestCorrect`: `ProposalInv` says that what a call has sent is on its branch, as its own or its twin's (`SentIsHeld`),
  that a path nobody has sent is as it was forked (`HeldOrForked`), and that calls touch their own connector's file only (`OwnPaths`). Two calls of
  one branch name are about one connector and may have been computed on different trees, so "its twin's" cannot be dropped.
- `RescheduleCorrect`: `ProposalInv` is enough. A head's jobs are those of its fork or of the tree of a call of that name, and a
  three-way merge takes a job from the head only when it differs from the fork's (`MergeReschedules`).
- `JobsMatchCorrect`: `ScheduleInv` says of each connector, unless some pull request comes from an outdated tree, that it has file and job
  or neither in the base branch and at every fork point (`Scheduled`); or a file only in all of them, and no pull request yet
  (`Waiting`); or that a pull request about it was forked while it had no job (`Forked`), of which nothing more is said. A merge keeps that
  because a proposal changes the file and the job of one connector together, and a three-way merge takes both or neither
  (`MergeKeepsJobs`). The fork points must be in it: `ReadBase` and `CreateBranch` are two requests, and base moves between them.

- `PagingCorrect`: `PagingInv` says where a client's expected runs still are. A run's place is its `Rank`, the number of
  matches that started later; runs that start meanwhile only raise it (`RanksGrow`), since a match for an ended status is never lost (`MatchesGrow`).
  An expected run not seen yet has a rank from `offset` on before a page is cut out and from `offset + Limit` on after it. Ranks
  differ, so a page has at most `Limit` rows (`PageIsShort`), and the total counts that run too (`MoreThanRank`): `has_more` is true. `RowsInv` gives the
  facts about the table: finitely many rows, distinct starts in the past, ends after starts.
- `ControlTypeCorrect`: the counts are numbers because the table is finite (`RowsInv`), and a connector with runs has a last one (`LastRunIs`).
- `MttrCorrect`: under `OneAfterAnother` the next success in the connector's list is the next to start after the failure's end (`StartsAre`,
  `GapIs`), so both sums have the same terms, and the same value (`MeansAgree`). That `int()` rounds as `\div` does needs the sum to be no less than zero: the fold
  behind it exists because the number of `Units` satisfies its equation (`SumsAdd`), and a smallest set with another kind of sum cannot be (`SmallestBad`, `SumIsNat`).

**Model-checked only**: the liveness properties `RunEnds`, `EveryBatchProcessed`, `RequestEnds` and `PullEnds`: liveness under
fairness is outside what TLAPS with these backends proves. Every invariant and every action property of the passing runs has a theorem.

## Where code and documentation disagree

Each is a run that TLC refutes; the finding in `PROJECT.json` quotes the line.

1. `soft_delete_only` is documented as mark-only; the code deletes the documents (`pull_soft_delete`).
2. "Same key + same payload: accepted replay": of two equal requests that race at two processes one is answered
   500, although the batch is made once (`push_intake_replay`).
3. "No sustained push backlog growth": a batch with two upserts of one new document violates the unique
   constraint at every attempt and, being the oldest, blocks the connector for good (`push_stuck`).
4. `--push-run-id` "process existing queued push run": it works once per batch. After a failed attempt the batch is
   PENDING and cannot be named again (`push_by_name`).

Two more are noted among the hazards. "Unsupported REST payload. Expected list or object with 'items'" (`adapters/extractors.py:457`)
is raised only for what is neither list nor object: an object without items is a page without rows. And SUCCESS is set in the same
try block after the data commit, so a failure there reports FAILED for a run whose checkpoint advanced ("No checkpoint advancement on
failed runs", `docs/how-to/load-testing.mdx:25`).

## What is not modelled

- Pure functions of one request or one file: catalog, editor, validation and preview of Studio, field mapping, CSV parsing,
  the cipher of secrets, replay's digest, the gates. They keep no state and run alone; unit tests reach
  them better than a model.
- Observability, which changes nothing; configuration parsing and schemas beyond `Studio!Valid`; the browser code beyond its pager; CI, website and
  deployment material, except for what it says about scheduling.
- The limit of 255 characters on the file checkpoint, and watermarks whose order as strings is not their order in time: widths and formats of data.
- csv output and disabled ingestion in the database part of `run_connector` (`ArtifactPublisher` has the csv files), and
  the dry-run and `file://` branches of the ingestion client and the object store, and an import answer without an operation name.
- The defaults `_prune_incompatible_source_fields` gives the csv fields of a `file_pull` source: they are not about files or jobs.
- `create_proposal` without a repository or token, which returns a link and sends nothing; the detail of one run.
- Three weaknesses met on the way that a unit test shows as well: `propose_connector_change` does not validate the draft
  (`services/studio.py:540`); without OAuth the secret is resolved once before the first page (`adapters/extractors.py:413`); the
  file checkpoint holds only a hash of the paths, so that the advice of its error ("Use shorter file path roots") does not help.
- Sources whose pages change while they are fetched, and cursors that do not end: nothing in the code deals with them.

## Plan

Done, in this order: `PullPipeline` (the system's core); `PushIntake`; `DeltaLog` and `PushProcessing`; their
proofs; `Secrets`, `RestPull`, `FilePull`, `ArtifactPublisher` and their composition `PullToStore`; `Studio`, `Proposals`, `ManualRuns`, `OpsSnapshot` and
their composition `ControlPlane`; the proofs of both.

What could follow, by importance:

1. The refinement of `PullPipeline`'s `Extract` by `PullToStore`, over a common set of documents.
2. A push connector's backlog on the dashboard, composed with `PushProcessing`.

## Running

From this directory, with the TLA+ tools and the community modules on the path:

    tlc -workers 2 -config PullSnapshot.cfg MCPullPipeline
    tlapm PullPipelineProofs.tla

The other configurations go with `MCPullPipeline` (`Pull*.cfg` but `PullToStore.cfg`), `MCPushIntake` (`PushIntake*.cfg`),
`MCPushProcessing` (`PushInOrder.cfg`, `PushOverlap.cfg`, `PushStuck.cfg`, `PushByName.cfg`),
`MCControlPlane` (`ControlPlane.cfg`, about half a million states) and `MCPullToStore` (`PullToStore.cfg`, two million). Each takes
between seconds and three minutes. The proofs of `PullToStoreProofs` and `ControlPlaneProofs` rest on those of the modules they extend.
