# Verification of the virtual staff engineer's durable workflow

These TLA+ modules model *virtual-staff-engineer*: the job queue in PostgreSQL
and the workers that drain it, the people who approve patches, the pull requests
that result, the webhooks that start the work, the bounded loop of an analysis,
the playbooks it cites, the patches it leads to and the stream on which a client
watches it.  TLC checks the models on small instances; TLAPS proves the central
facts for any number of jobs, workers, deliveries and connections.

Paths in this document are relative to the repository
(`VSE` = `src/virtual_staff_engineer`).

## 1. The system

A client submits source text for analysis, or GitHub announces a pull request.
Each submission becomes one row of `workflow_jobs`, which moves through four
stages.  A stage is run by a worker that leases the row:

```
 submit -> queued -> analyzing -> queued -> generating_patch -> queued
        -> validating_patch -> awaiting_approval -> approved -> creating_pr -> completed
                                               \-> rejected
 any active stage -> retry_scheduled -> queued (same stage) | failed
 analyzing -> completed (clean or inconclusive);  validating_patch -> failed (invalid)
```

Workers talk to each other only through the database.  Between two
transactions a worker does slow work (model calls, Git, GitHub), so leases
expire, processes die, responses are lost, and the same stage can be running
twice.  That is where the difficulty of this system lies.

### Components

| Component | State | Operations | Interacts with |
|---|---|---|---|
| Job lifecycle (`VSE/jobs/lifecycle.py`, `database/sql/005-008`) | none of its own; the trigger guards `workflow_jobs` | accept or refuse an INSERT/UPDATE | every writer of the table |
| Job repository (`VSE/jobs/repository.py`) | `workflow_jobs`, runs, proposals, actions, validations, decisions, PR operations | submit, claim, heartbeat, begin/complete per stage, schedule failure, recover, decide | workers, API, ingestion |
| Stage workers (`VSE/jobs/worker.py`) | the claimed job, its token, a heartbeat thread | `run_once` of four workers | repository, models, GitHub |
| Runtime (`VSE/jobs/runtime.py`, `scripts/run_workers.py`) | thread pool | one cycle of all workers, for ever | workers |
| GitHub client (`VSE/github/client.py`) | branch, file and pull request at GitHub | `ensure_pull_request` | PR worker |
| Webhook ingestion (`VSE/github/ingestion_worker.py`, `webhook_repository.py`) | `github_webhook_deliveries`, snapshots, job links | record, claim, persist, link, complete, fail, recover | API, GitHub App, job repository |
| PR lifecycle projection (`webhook_repository.py`) | lifecycle events, current state per PR | `record_lifecycle`, `list_pull_requests` | API |
| HTTP API (`VSE/api/app.py`) | none | submit, status, review, decide, webhook, event stream | repositories |
| Observation (`VSE/jobs/observability.py`) | none | timings from events | API |
| Rate limiter (`VSE/providers/rate_limit.py`) | next free slot | `acquire` | model adapters |
| Retry policy, failure classification (`VSE/jobs/retry.py`, `worker.py`) | none | delay, disposition | workers |
| Analysis orchestrator (`VSE/analysis/`) | one run: queries, evidence, findings, budgets | `run`, validate findings | models, retrieval |
| Patches (`VSE/remediation/`) | none | generate, apply, validate a diff | workers, Git |
| Retrieval (`VSE/retrieval/`) | none | semantic and lexical search, rank fusion | orchestrator |
| Playbook ingestion (`VSE/ingestion/`) | playbooks, versions, chunks | ingest | database |
| Migrations (`VSE/database/`) | `schema_migrations` | apply in order | database |
| Evaluation, scripts, frontend | none the service reads | | |

### What is hard, and what makes each part correct

* **Queue and workers.**  A stale worker must not commit; a lease must have one
  holder; a stage must be resumed, never restarted or skipped; checkpoint and
  evidence must agree after any crash; a decision and a finished job must stay
  as they are; every claim must end.
* **Authorization.**  GitHub is written only under an authenticated approval of
  a patch that validated, even by a worker that lost its lease.
* **Runtime.**  The workers of a process poll in cycles that wait for the slowest;
  an exception that no worker handles ends the process, and nothing gives back what a
  process that is gone had leased.
* **GitHub client.**  Two workers in `ensure_pull_request` must end with one
  branch, one commit and one pull request; the loser must not turn into a
  permanent failure.
* **Ingestion.**  Delivered twice, crashed between two transactions, or
  overtaken after 300 seconds without a heartbeat, a delivery must produce one
  job per file and never be reported complete without them.
* **Projection.**  The newest update wins whatever the order of arrival.
* **Event stream.**  A reader that resumes gets every event once; what it is
  shown is one story although job and events are read apart; it sees the end.
* **Analysis.**  The model may answer anything: the loop keeps its limits, and
  what is stored rests on what was retrieved and agrees with the verdicts.
* **Playbooks.**  The file is edited and read twice, several processes ingest it,
  and a search reads twice: no text is stored twice, no outdated one is cited.
* **Patches.**  Edits become a diff, the diff is stored, parsed and applied
  again, and the file may change in between: a valid patch is the edit asked for.
* **Rate limiter.**  Any interval holds at most the configured number of calls.

`PROJECT.json` lists each hazard at its line with the properties that cover it,
or with the reason why none does.

## 2. The modules

| Module | Models |
|---|---|
| `JobStates` | states, checkpoints, transition table, which checkpoint a stage starts from and commits |
| `JobLifecycle` | abstract specification: what the trigger `enforce_workflow_job_lifecycle` (migration 008) accepts, whoever writes |
| `WorkflowQueue` | the job repository and the four stage workers in detail; properties |
| `WorkerRuntime` | the processes that run the workers of `WorkflowQueue` in cycles, fail, are killed and started |
| `WebhookIngestion` | the webhook endpoint, the lifecycle projection, the delivery queue and its workers, up to the submitted jobs |
| `PullRequestCreation` | `ensure_pull_request` call by call, the transactions around it, GitHub, reviewers |
| `AnalysisRun` | one analysis: the orchestrator's loop, the gate, the evaluator, and the transaction that stores the result |
| `PlaybookRetrieval` | `ingest_playbook` by several processes, and one `hybrid_search` with its rank fusion |
| `PatchProposal` | from a model's edits to a validated patch: replacement, diff, storage, application, checks |
| `EventStream` | a job's history, the stream of its events, the status with its timings, and a client that follows both |
| `Numbers` | nothing of the program: induction on numbers, for the proofs |
| `MC...` | the values of constants TLC needs for the instances of section 3 |
| `WorkflowQueue_proofs` | types, row constraints, leases; checkpoints, evidence, authorization, finality, and the refinements of `JobLifecycle` by `WorkflowQueue` and of that by `WorkerRuntime` |
| `WebhookIngestion_proofs`, `PullRequestCreation_proofs`, `AnalysisRun_proofs`, `PlaybookRetrieval_proofs`, `PatchProposal_proofs`, `EventStream_proofs` | the theorems about the module of that name |

`WorkflowQueue` extends `JobStates` and instantiates `JobLifecycle` under a
refinement mapping (the lifecycle columns of each row).  `WorkerRuntime` extends
`WorkflowQueue`: its steps are steps of the queue, restricted to what the processes of
`scripts/run_workers.py` call and when.  `WebhookIngestion`
meets `WorkflowQueue` in one operation, `submit`: there it creates a job under
a free key, here the key and the contents of the job are what matters.
`PullRequestCreation` opens up one action of `WorkflowQueue`, `EnsurePullRequest`,
for one job; claims, leases and failures appear in it as far as they decide which
attempts run, and overlap.  In the same way `AnalysisRun` opens up what a worker
does between `BeginAnalysis` and `CompleteAnalysis`, `PlaybookRetrieval` the search
that `AnalysisRun` takes for any answer, and `PatchProposal` what happens between
`BeginPatchGeneration` and `CompletePatchValidation`.  `EventStream` extends
`JobStates` and reads the history that the writes of `WorkflowQueue` leave.

### `WorkflowQueue` and the code

One action is one transaction of `WorkflowJobRepository`, or one step a worker
takes between two transactions.

| Action | Code |
|---|---|
| `Submit` | `submit`; a repeated key changes nothing and is left out |
| `ClaimNext`, `ClaimPrNext` | `claim_next`, `claim_pr_next`, each with `_promote_due_retries` in the same transaction |
| `BeginAnalysis`, `BeginPatchGeneration`, `BeginPatchValidation`, `BeginPrCreation` | the `begin_...` methods |
| `Heartbeat` | `heartbeat`, called by the thread of `_LeaseHeartbeat` |
| `EnsurePullRequest` | `GitHubClient.ensure_pull_request` succeeding, in one step |
| `CompleteAnalysis`, `CompletePatchGeneration`, `CompletePatchValidation`, `CompletePrCreation` | the `complete_...` methods |
| `ReplayCompletion` | the early return of a completion that finds its checkpoint committed |
| `StageFails`, `ScheduleFailure` | `except Exception` of `run_once`, `schedule_failure` |
| `LeaseLost` | `LeaseLostError` leaving `run_once` |
| `Crash` | some of the workers stop between two transactions |
| `RecoverExpiredLeases` | `recover_expired_leases` |
| `RecordHumanDecision` | `record_human_decision` |
| `LeaseTick`, `DelayElapses` | time |

State: `job` holds the columns of `workflow_jobs` the control depends on
(status, checkpoint, resume_state, attempt_count, whether available_at has
come, lease token, remaining lease, failure disposition); `run`, `action`,
`validation`, `decision` and `operation` are the rows of the evidence tables of
a job; `pullRequest` is the world at GitHub; `worker` is the program counter,
job, stage and token each worker thread carries.

Abstractions, each an over-approximation of the code:

* *Locked rows.*  Promotion, claim and recovery use `FOR UPDATE SKIP LOCKED` and
  a `LIMIT`.  The model lets them pass over any set of rows.  Priorities then
  bind no claim, and are left out.
* *Time.*  A lease is a counter of `LeaseTerm` ticks.  With `ClockSkew` the
  check of the expiry in `_require_owned_active_job`, which uses the worker's
  own clock, may go either way; heartbeat and recovery use the database's.
* *Lost responses.*  Any `begin_...`, `complete_...` or GitHub call may take
  effect and still raise in the worker (`Responds`).
* *Failures.*  The classification of an exception is a free choice between a
  retry and a permanent failure.  The delay before a retry is any delay.
* *Tokens.*  The uuid4 of a claim is named by the attempt it starts, so tokens
  of one job differ; tokens of different jobs are never compared, since every
  comparison is against the row of the job the worker holds.
* *Data.*  Findings, patches and texts are left out.  An analysis ends in any
  of its three results, a validation in either verdict.
* A job without a row is the record `AbsentJob`, so that a job can be submitted
  at any time.

### `WorkerRuntime` and the code

| Action | Code |
|---|---|
| `Poll` | `run_once` begins: the claim of one worker, once in a cycle of `run_cycle` |
| `Continue` | the rest of `run_once` (`Works` of `WorkflowQueue`) |
| `Raise` | `LeaseLostError`, or an exception of `claim_next` or `schedule_failure`, leaves `run_once` |
| `EndCycle` | the thread pool has waited for all workers, and `main` goes round |
| `EndProcess` | it has waited for all workers, and the exception ends `main` |
| `Kill`, `Start` | the process is stopped from outside; someone starts the script |
| `Elsewhere` | the API submits and decides, heartbeat threads renew leases, time passes |

State: `process` says of each process whether `main` runs, waits for its threads after an
exception, or is gone; `polled` which workers have had their turn in the cycle.  There is
no recovery of leases and no supervisor, as there is none in the repository.

Abstractions: a poll that finds nothing changes nothing and is no step, so a worker counts
as polled when it has claimed a job or raised.  The pause between empty cycles is left out.
The ingestion worker, a further thread of the same pool, is in `WebhookIngestion`.

### `WebhookIngestion` and the code

| Action | Code |
|---|---|
| `RecordLifecycle` | `record_lifecycle`, the first transaction of `POST /webhooks/github` |
| `RecordDelivery` | `record`, the second; it may never come |
| `Poll`, `ClaimNext` | `claim_next`: `recover_expired_leases` in a transaction of its own, then the claim |
| `FetchPullRequest` | `GitHubAppClient.fetch_pull_request` |
| `PersistSnapshot` | `persist_snapshot` |
| `SubmitJob`, `LinkJob` | one round of the loop over `analysis_inputs` |
| `Complete` | `complete` |
| `LeaseLost`, `DatabaseError`, `ScheduleFailure` | the `except` block of `run_once` with `classify_ingestion_failure` |
| `Crash`, `LeaseTick`, `DelayElapses` | the process ends; time passes |

State: `received` and `latest` are the lifecycle events and the current row of
each pull request (named by the delivery that wrote it), `delivery` the queue
columns of `github_webhook_deliveries`, `stored` the file snapshots of a head
commit, `job` the contents of the job under each idempotency key, `link` the
table `github_webhook_delivery_jobs`, `worker` the local state of `run_once`.

Abstractions: a download of one head may return any member of `Snapshots`, since
the diffs depend on a base that moves; which files are skipped and why is
not modelled.  A delivery id names fixed metadata; its reuse with other metadata
is refused without effect and left out.  The claim takes any due delivery; the
order by `available_at` is left out, as is `SKIP LOCKED` (a skipped row
is one another transaction is about to take or has just put back).  Deliveries
and events recorded before change nothing when they come again, so a redelivery
is a step only when something of the first request was lost.

### `PullRequestCreation` and the code

| Action | Code |
|---|---|
| `Claim`, `BeginPrCreation`, `Complete`, `ScheduleFailure`, `RecoverExpiredLease` | the repository methods, reduced to one job |
| `FindPr`, `FindPrAgain` | `_find_pr`, before the branch and after the file |
| `GetRef`, `CreateRef` | `GET git/ref`, and `POST git/refs` after a 404 |
| `GetContents` | `GET contents` and the comparison of hashes |
| `PutContents` | `PUT contents` with the blob sha that was read |
| `OpenPr` | `POST pulls` |
| `CallFails` | any call or transaction that fails without effect |
| `LeaseLost`, `Crash`, `LeaseExpires` | as in `WorkflowQueue` |
| `LateArrives` | a request that was given up takes effect, or is refused |
| `ReviewerPushes`, `ReviewerCloses`, `BranchDeleted` | people at GitHub |

State: `branch`, `commit` and `pull` are what GitHub holds for the job's branch;
`late` the requests on their way; `job` and `operation` the two rows; `worker` the
local variables of `ensure_pull_request` (`existing`, the head it had, `branch_sha` or
`commit_sha`, the text that was read).  GitHub is external code: a second ref, a
blob sha that is not current and a second open pull request are refused, reads
are current.  A blob sha names the text of the file, as it does in Git.

A behavior is in one of two worlds.  In `late`, leases run out under running
workers and requests arrive after they were given up, but nobody else uses the
branch.  In `reviewed`, attempts follow each other, each after the crash or the
failure of the one before, and reviewers may push, merge, close and delete the
branch at any time.  With both at once the promise of one pull request is GitHub's
to keep and not the code's: whoever closes the first pull request while a second request
is on its way gets another one.

### `AnalysisRun` and the code

| Action | Code |
|---|---|
| `Begin` | `begin_analysis` or `create_run` |
| `Plan` | `plan_queries` and `_bounded_unique` on its answer |
| `Search` | one turn of the loop in `_retrieve`, with `_merge_evidence` |
| `Retrieved` | `_retrieve` returns and `run` starts an iteration |
| `Propose` | `propose_findings`, `validate_findings`, and the two returns behind them |
| `Conclude`, `Misjudge`, `AskForContext` | `evaluate_findings` and what `run` makes of its answer |
| `Persist`, `Refuse`, `PersistFails` | `persist_result` with `_validate_result_consistency` |
| `CallFails` | a model or a search raises, or its answer breaks a contract |
| `HandleError` | `schedule_failure` of the worker, `fail_run` of the service |
| `Crash`, `Recover` | the process ends; the last attempt's lease is found expired |

State: `run` is the row of `analysis_runs` with the attempts of its job, `audit` the
rows `persist_result` wrote, `pc`, `error` and `result` where the executor is, and
`pending`, `queries`, `evidence`, `iteration`, `findings` and `rejected` the local
variables of `run`, which are lost with the process.

Abstractions: the reasoner and the search answer anything their contracts accept.
Of a text only its identity and its case-folded form count, of a finding the chunk
and rule it cites, its place, and whether path, lines and excerpt are the input's.
The list of playbook versions follows from the evidence and is left out.  The
worker's lease is in `WorkflowQueue`; here one attempt runs at a time.

### `PlaybookRetrieval` and the code

| Action | Code |
|---|---|
| `ReadChecksum`, `ReadSections` | `compute_checksum` and `parse_markdown`, which read the file one after the other |
| `CheckExisting` | the first transaction of `ingest_playbook` |
| `WriteVersion` | the second, under the lock of the document's row |
| `IngestionFails` | the embedding or a transaction fails, or the process ends |
| `Edit`, `Archive` | people |
| `BeginSearch` | `hybrid_search` embeds the query |
| `SemanticSearch`, `LexicalSearch` | the two queries; the second ends with `reciprocal_rank_fusion` |

State: `disk` is the file, `document` and `versions` the tables, `ingestor` what each
process has read, `search` what one search has found, with the versions that were
latest when it began.

Abstractions: a text names a content and its checksum, and which sections it has is a
constant.  Vectors and scores are PostgreSQL's: a search ranks what is eligible in
any order, and the lexical filter may drop anything.  Scores of the fusion are
compared exactly, over a common denominator, where the code adds floats; ids of chunks
are random, so every order of equal keys is allowed.  One document is enough for
ingestion, which locks a document's row and looks at no other.

### `PatchProposal` and the code

| Definition | Code |
|---|---|
| `Load` | `RoutedSourceProvider.load`: a revision's snapshot, or `read_text` of the local file |
| `Generate` | `generate` with `apply_exact_replacements` (`Applicable`, `Replaced`), `build_unified_diff` (`Diffs`, `Hunks`) and `validate_generated_patch` |
| `Validate` | `DeterministicPatchValidator.validate` with `apply_unified_diff` (`Applied`, `ApplyHunk`, `ApplyOp`) |
| `Edit` | someone changes the working tree |

Abstractions: a text is a sequence of symbols, each a few characters; what `splitlines`,
`join`, `read_text` and the line marks of a diff do to it is modelled.  `splitlines` ends a
line at `\n`, `\r`, `\r\n` and at `\v`, `\f`, `\x1c` to `\x1e`, `\x85`, U+2028 and U+2029,
for all of which `\f` stands; `read_text` translates `\r` and `\r\n` only.  difflib may
align equal lines in any way.  What a patch cites is a free choice between accepted
and refused, the parser of the file's language one between accepted and not.
An edit replaces some text (`<<>> \notin OldTexts`): `apply_exact_replacements` refuses an
empty `old_text` before it looks for it.  `Context` is positive: `build_unified_diff` leaves it
at difflib's default of 3.

### `EventStream` and the code

| Action | Code |
|---|---|
| `CompleteStage`, `FailStage`, `Decide`, `Claim`, `Promote` | the status changes of the repository, each with the event that the trigger appends |
| `ReadEvents`, `Yield`, `ReadStatus`, `YieldKeepAlive` | the generator behind `GET /jobs/{id}/events` |
| `Connect`, `ReadChunk`, `ReadEnd`, `Disconnect` | the client, which may resume after the last event it has |
| `ObserveJob`, `ObserveEvents` | the two transactions of `observe`; `build_observation` is in `QueueWait`, `HumanWait`, `StageTiming` |

State: `log` is `workflow_job_transitions`, whose last row has the job's status,
`server` and `client` the two ends of the connection, `shown` the last status response.
`available` is `available_at`, and `clock` the database's.

Times: an event carries the start of its transaction (`CURRENT_TIMESTAMP`).  A transaction
that waited for the lock of the row is dated before what it waited for, but not before a
time it has compared with its own: `available_at` in a claim, the expiry of the lease in a
recovery (`Begun`).  So events need not be in the order of their times.  For a job that is
not finished, `build_observation` takes the end from the clock of the API's host, which
may be before or after the database's (`Skews`).

Abstractions: the transport holds one chunk; the database's clock counts the changes of
the job; a recovery starts after the last event of the job; payloads and token usage are
copied through and left out.

The operators commented "Slip" (for example `ReusedToken`) are plausible errors,
used only to confirm that each property notices the error it is there for.

## 3. Runs

| Run | Instance | Checks |
|---|---|---|
| `queue_safety` | two jobs with budgets 5 and 2, two workers, leases of 2 ticks, clock skew, workers symmetric | all safety and action properties of the queue, and the refinement |
| `runtime_settles` | two jobs with budgets 5 and 1, one process with a worker per stage, leases of 1 tick | `WorkSettles` under `RuntimeFairSpec` |
| `queue_approved_budget` | one job with the default budget 3, one worker | finds `ApprovedReachesPrWorker` violated |
| `queue_github_token` | one job with a budget of 4, one worker | finds `MutationByGitHubToken` violated |
| `ingestion` | two deliveries of one head, two files, a base that moves, two workers, two attempts, leases of 1 tick | the safety and action properties of ingestion, and `DeliveriesSettle` under `FairSpec` |
| `pull_request_safety` | one job, four attempts, two workers (symmetric), both worlds, up to five commits | the safety and action properties of the client |
| `analysis_safety` | two iterations, two queries, two pieces of evidence, answers of up to two, two attempts, either caller | the properties of an analysis, `AttemptsEnd` among them |
| `analysis_order` | the same | finds `SupportedNeedsReview` violated |
| `playbook_safety` | one playbook with two texts, two models, two processes (symmetric), two candidates, fusion constant 60 | the properties of ingestion and search |
| `playbook_revert` | one process, three texts of which one is blank, one model | finds `IngestedIsServed` violated |
| `patch_safety` | seven sources, up to two edits, one line of context, four changed lines | the properties of a patch |
| `event_stream` | one job of up to ten events with one retry, transactions that start up to three events before they commit, an API clock three behind, one client | the properties of the stream and the status, `WatcherSeesEnd` among them |

Safety properties:

* `OneLeaseHolder`: at most one worker carries the token a job accepts.
* `OnlyHolderCommits`: a checkpoint advances only by the worker with the
  current token for the current stage, or by a decision.
* `ExpiredStaysExpired`: an expired lease is never revived.
* `CheckpointIsTrue`: work resumes exactly where it was interrupted, and every
  checkpoint is equivalent to the existence of the evidence rows that justify it.
* `ActionAgreesWithJob`: the remediation action and the job tell one story.
* `MutationAuthenticated`: GitHub is touched only under an approval of a valid patch
  by an identity the API authenticated, by whichever method, and never on a decision
  asserted at the command line.  (That only a GitHub token will do, as the documents
  say, is `MutationByGitHubToken`, which the code violates; see below.)
* `FinalStaysFinal`: finished jobs, decisions, verdicts and pull requests stay.
* `RowConstraints`: no method ever runs into the CHECK constraints of 005.
* `ImplementsLifecycle`: every write is one the trigger accepts
  (`WorkflowQueue` implements `JobLifecycle`).

Of ingestion:

* `OneIngestor`: one worker carries the token a delivery accepts.
* `JobsMatchSnapshots`: the stored snapshot of a job's file is the diff the job
  was submitted with, whatever was downloaded again later.
* `CompletedCoversFiles`: a completed delivery has a linked job for every file it
  counts.
* `ProjectionIsNewest`: the current row of a pull request is the newest update
  received, in whatever order they came.
* `OnlyOwnerRecords`: a worker that lost its lease completes, links and stores
  nothing.  (It may still submit a job: `submit` looks at no lease.)
* `RecordsAreFinal`: finished deliveries, jobs, snapshots and links stay.
* `DeliveriesSettle`: every recorded delivery is completed or fails.

Of the pull-request client:

* `OnePullOnPatch`: one pull request per job, opened on a branch with the approved
  result, whatever crashes, overlaps, or is merged or closed between two attempts.
* `PatchesApprovedSource`: every commit of a worker replaces the approved
  original; nothing is patched twice and no reviewer's text is overwritten.
* `CompletedIsQuiet`: after completion no stale worker and no late request commits,
  brings back a deleted branch or opens a pull request.
* `SequentialRetries`: when attempts do not overlap, a retry is never refused what
  an earlier one did, and the recorded commit contains the patch.  Neither holds
  when they overlap (below).

Of an analysis:

* `LimitsHold`: queries, different after case folding, evidence and iterations stay
  within their limits, in memory and in what is stored.
* `ViolationsAreGrounded`: a stored violation is supported, cites a chunk that a query
  of this run found, under its rule and with the input's text, and is stored once.
* `StatusMatchesVerdicts`: the stored status says what the stored verdicts say.
* `OnlyOrderIsRefused`: `persist_result` refuses a result for its order only (below).
* `EndedRunsStay`: a run that ended keeps its status and rows, also when the answer to
  the commit was lost.
* `AttemptsEnd`: every attempt ends, as long as its executor goes on and its calls return or
  raise.  Whether a run whose executor died is taken up again is not the analysis's to say.

Of playbooks, patches and the stream:

* `EvidenceIsFresh`: an answer cites nothing that was out of date when the search began,
  and mixes two versions only if one was ingested meanwhile.
* `FusionRespectsRanks`: nothing is ranked before what both rankings put before it.
* `EditsAreExact`: what stands between the places of the edits still stands there.
* `ValidPatchIsIntended`: a valid patch makes of the source the lines that the edits make of
  it, and the same text if all of its lines end with `\n`.  If they do not the text differs,
  on untouched lines too (below).
* `EditsSurvive`: what was stored applies, and edits are refused as a diff only for lines
  that look like file headers.
* `StreamIsExact`: a reader that resumes has every event once, in order.
* `ObservationAddsUp`: a status response is one story, and its waits and stages do not
  overlap: they exceed the whole time by no more than the times of successive events run
  backwards.
* `WatcherSeesEnd`: who stays connected sees how the job ended.

Liveness of the queue: `WorkSettles`.  If a process with a worker for every stage stays up,
each job that waits for a worker or is being worked on finishes, waits for a person, has
used up its claims (`OutOfClaims`), or is leased to a worker that is gone (`Abandoned`).
Without the last two it is false, and both are findings.

### Why these bounds

A job needs four claims to finish, so a budget of five leaves room for one
interrupted stage anywhere on the way; a budget of two makes the last attempt,
its failure and its recovery happen in early stages while the other job runs.
Two workers are enough for a stale worker and its successor; the properties
relate at most two workers and one job.  Jobs meet only in a claim's choice and
in a recovery batch, which two jobs exercise.  Two ticks distinguish a fresh, a
half-used and an expired lease.  The run of the process uses budgets 5 and 1: one job
can finish with a retry or a crash on the way, the other meets its last attempt at once;
one process at a time is enough, since a successor is the same process started again.
No other bound limits the state: attempts are bounded by the code itself.

Ingestion uses two deliveries of the same head, so that the second meets the
snapshots and jobs of the first; two files, so that a crash leaves one linked and
one not; two possible downloads, of which the second changes one diff and drops
the other file; two attempts, so that recovery meets both the first and the last;
one tick, since only the difference between a live and an expired lease matters.
The two updates have different times and arrive in either order; equal times are left to
the theorem `ProjectionFollows`, which covers them.

Four attempts let an attempt be interrupted after each of the three requests that
change GitHub and a last one finish; two workers are a stale and a current one, and
`late` adds what earlier ones left on the way.  `MaxCommits` stops reviewers at five
commits, of which the first two or three are the base and the workers'.

The analysis has four texts of which two fold together, so that duplicates and limits
both cut an answer; three chunks of which two carry one rule, so that one violation may
be cited twice; two iterations and two queries in all, so that a second round is cut by
either; and five findings, each of which passes or fails the gate for another reason.
The playbook's two texts have one and two sections: versions share one and differ in one.
Two models make a version ineligible for one search and eligible for the other.  A second
version is enough for everything that depends on order, since only the latest is served.
The seven sources of the patches differ in final newline, in the kind of break (`\n`, `\r\n`,
and a form feed in a text that ends with `\n`), repeated lines and lines that look like
headers; all pairs of edits are tried on each.  Ten events are a
whole undisturbed workflow, or a shorter one with a retry, its promotion and its claim.
The pause before the first change is longer than the lag of a transaction, so a claim may be
dated before up to three earlier events and not before the submission; larger sets of lags
and skews change only by how much times run backwards, and the theorem covers all.

### Fairness

Nobody is obliged to submit, to decide, to send a heartbeat, to connect, to crash or to
start a process.  What the runs assume is what the code does by itself:

* `RuntimeFairSpec`: while `main` runs, every worker of the process polls in every cycle,
  its calls return or raise, the cycle ends when all have returned, and time passes.
  Whether a process stays up is a premise of `WorkSettles` and not assumed: the loop is
  not supervised (docs/phase3-closeout.md:49).  Nothing recovers leases, since no process
  calls `recover_expired_leases`.
* `FairSpec` of `WebhookIngestion`: a worker goes on polling, and each poll recovers what
  has expired, so recovery needs no assumption of its own.  A worker that crashed stands for the next one that
  polls; without any, no delivery would settle.
* `AnalysisRun`: the executor of an attempt goes on (`WF(Step)`); nothing is assumed of a
  recovery, a new claim, a failure or a crash.
* `EventStream`: the event loop resumes the generator and the client reads on.

`FairSpec` of `WorkflowQueue`, which also recovers expired leases again and again and
restarts every worker, is more than any process promises.  Only `queue_approved_budget`
uses it: an approved job stays where it is even then.  Weak fairness suffices everywhere:
the steps it is asked of stay enabled until they or a step that replaces them happens.

### Where documents and code differ

With a run that shows it:

1. *Approved jobs may be stranded.*  The default `max_attempts` is 3 and a
   workflow needs four claims, so a job that never failed is approved and then
   not claimable (`jobs/repository.py:376`, docs/jobs.md:254).
2. *The order of decisions counts.*  An evaluator that decides the findings in another
   order than they were proposed in yields a result that `persist_result` refuses, and
   the job fails for good (`analysis_order`).
3. *A playbook changed back is not served.*  The text has a version already, so nothing
   is written, and the later version stays the latest (`playbook_revert`,
   docs/database.md:37).
4. *API-key approvals reach GitHub.*  docs/remediation.md:130, docs/phase3-closeout.md:17
   and docs/jobs.md:259 let only a `github_token` approval into the pull-request worker;
   both of its queries also accept `api_key`, which is what the API records
   (`jobs/repository.py:379`, `api/app.py:308`, `queue_github_token`).

Met while reading, and visible in the models, without a run of their own:

5. *Expired leases stay.*  No process of the repository calls
   `recover_expired_leases` (docs/jobs.md:99).  `WorkerRuntime` has no such step, and a
   job whose worker was killed stays leased: the disjunct `Abandoned` of `WorkSettles`.
6. *Recovery does not ask GitHub.*  A `creating_pr` job on its last attempt is
   failed although its pull request may exist, and its remediation action stays approved
   (docs/jobs.md:30).
7. *An overrun lease fails a delivery for good.*  The loss of a lease is
   classified as permanent, and `schedule_failure` of the delivery repository
   does not look at the expiry (`github/ingestion_worker.py:118`,
   docs/github-app.md:126).
8. *Overlapping retries do not converge.*  A ref, commit or pull request that
   appears between the look and the request is answered with 409 or 422, which
   ends the job as permanently failed (`jobs/worker.py:492`, docs/jobs.md:264).
9. *The wrong commit may be recorded.*  `branch_sha` is read before the file; a
   commit that arrives in between makes the retry record the commit before it
   (`github/client.py:125`).
10. *A database outage is permanent.*  An `OperationalError` is none of the exceptions
    `classify_failure` knows and ends the job as an invalid contract
    (`jobs/worker.py:437`; compare the table of failures in docs/jobs.md).
11. *Some lines cannot be patched.*  A removed line that begins with `-- ` or an added
    one that begins with `++ ` looks like a file header, and the patch is refused
    (`remediation/contracts.py:183`, `remediation/validation.py:170`).  The lines
    are taken apart by `splitlines` and joined with `\n`, so every other line break, also on
    lines that no edit touches, becomes `\n` (`remediation/validation.py:175,229`), and the
    end of the original decides whether the result ends with a newline.
12. *A long provider hint is out of range.*  A hint of up to 86400 seconds is multiplied
    by the jitter, and `schedule_failure` refuses more than it may be
    (`jobs/retry.py:44`, `jobs/repository.py:563`).
13. *An analysis of the service may stay open.*  A process that dies in
    `AnalysisService.analyze` leaves its run as analyzing; nothing recovers it.
14. *The audit keeps the last round.*  Findings of earlier rounds are dropped, and the
    rejections of each round number their findings from zero again.
15. *A lexical search ignores the model*, and returns chunks embedded by another one; the
    two halves of a search may see two versions; a file edited between its two reads is
    stored under the checksum of the text it no longer has.
16. *The stream may end without the last event*, when the job ends between the read of its
    events and the read of its status; the client's last refresh makes up for it.
17. *The parts can exceed the whole.*  Events are dated by the start of their transactions
    and an unfinished job ends on the API's clock, while negative durations are cut to zero
    (`jobs/observability.py:49,117`): a claim dated before the hand-off it follows, or a slow
    clock, makes waits and stages add up to more than `end_to_end_ms`, of which
    docs/api.md:119-127 describes them as parts.

## 4. Proofs

Each theorem holds for every value of the constants that the module's assumptions allow.
`PROJECT.json` lists all of them with what they state.

**`WorkflowQueue_proofs`**: `TypeCorrect`, `ConstraintsHold`, `LeaseExclusive`,
`HolderCommits`, for any sets of jobs and workers, any budgets and lease term, with and
without clock skew, from `QueueAssumption` alone (budgets and the lease term are positive,
`NoJob` is not a job).  The inductive invariant is
`IInv == RowsInv /\ EvidenceType /\ WorkersInv /\ TokensDiffer`.

* `RowsInv`: each row is typed, within its budget, satisfies the constraints,
  and the token on an active row is the number of its last attempt.
* `WorkersInv`: a busy worker carries a token no greater than the attempts of
  its job.
* `TokensDiffer`: two workers busy with one job carry different tokens.

`OneLeaseHolder` is not inductive alone: a new claim must be known to get a
token no worker carries.  That follows because a claim's token is one more than
the attempts so far, and every token out there is at most that number.

The second half of **`WorkflowQueue_proofs`**: `CheckpointsTrue`, `MutationsAuthenticated`, `ActionsAgree`,
`FinalStays`, `ExpiredStays` and `LifecycleImplemented`.  The argument has two parts.
First, every step moves every job in one of a few ways (`Moves`): it is submitted,
claimed, completes its stage, fails, is decided, and so on, with the evidence that goes
with it.  This is where the actions are taken apart, once.  Second, these moves preserve,
job by job, the invariant `StoryInv`: the row, the evidence and the authorization of a job
tell one story, and so does what each worker remembers of it.  Checkpoint and evidence need
each other, and the authorization needs both: a worker on its way to GitHub holds a job
that was approved, and an approved job has a decision and a valid patch.  The
action properties and the refinement (`Spec => ImplementsLifecycle`: the initial states
map to initial states of `JobLifecycle`, each move to a write its trigger accepts or to a
stutter) follow from the same moves.  `RuntimeImplementsQueue` (`RuntimeSpec => Spec`)
carries all of them to the processes of `WorkerRuntime`, whatever they are: each of their
steps is one of the queue or leaves it alone.

**`WebhookIngestion_proofs`**: `TypeCorrect`, `IngestionExclusive`, `ProjectionFollows`,
`SnapshotsMatch`, `CompletionCovers`, `OwnersRecord`, `RecordsStay`.  A summary of what
each action may write (`Effects`) carries a type invariant, the tokens (as above), the log
of lifecycle events and the tables; `JobsMatchSnapshots` and `CompletedCoversFiles` need
in addition that what a worker holds in its loop is stored (`Reliable`).

**`PullRequestCreation_proofs`**: `TypeCorrect`, `PatchesApproved`, `OnePull`,
`CompletedQuiet`, `SequentialConverge`, for any number of workers, attempts and commits.  What a step does at
GitHub is one of six moves, which preserve the history of the branch; the rest of the
invariant says what workers and late requests know: whoever is past the file has seen the
result on the branch (`Shown`), whoever is about to write it has read the original, and in
the world of the reviewers only one worker is busy, with the current token.  One pull
request follows for one reason in each world: where requests arrive late, nobody closes the
pull request and GitHub refuses a second; where people close it, nothing is created between
the search and the request.  `SequentialRetries` needs a second invariant, `SInv`: in the world of
the reviewers, either the pull request has ended, which is for good, or the branch no longer
shows the original once a pull request is open (`Patched`), what each attempt has read leads
it to a commit with the result (`Aims`), and neither has the job failed with a conflict nor
the operation recorded any other commit (`Recorded`).

**`AnalysisRun_proofs`**: `TypeCorrect`, `AuditAgrees`, `EndedStay`, `LimitsRespected`,
`ViolationsGrounded`, `OrderAloneIsRefused`, for any vocabulary, any limits and any answers of
the reasoner.  The invariant `LInv` is the control state with what each control state has
bounded (`Control`, `Held`, `Budgeted`), what the gate let pass (`Gated`), and what the result
that is about to be stored says (`Sound`, `Grounded`): the limits and the rules of a stored
violation are established in different rounds, and all of it has to be carried to the step
that stores it.

**`PlaybookRetrieval_proofs`**: `TypeCorrect`, `AnswersAreFresh`, `FusionInOrder`.  Versions
are only appended, so what was latest when a search began bounds from below what either half
of it can see.  For the fusion, every divisor of a score divides the common denominator
(`Divides`), so a better rank contributes strictly more, and a rank that is missing nothing;
the served chunks are finitely many (`ServedFinite`, from the assumption that playbooks and
their sections are), so both rankings have a length.

**`EventStream_proofs`**: `ExactStream`, `StoryAddsUp`.  For the stream, what the server has
read, sent and not yet sent continues what the client has (`Aligned`).  For the status, the
invariant `Observed` says which two statuses may follow each other in a history, and that
what a response says of the job holds of the events it counts.  The first active event comes
before the first question to a human, and the decision is the event after the question; so
the wait in the queue, the wait for a human and the stages are different intervals between
events.  Nothing is assumed of the times.  An interval that runs forward counts in at most one
part, one that runs backwards in none, so `PartsFit` adds the parts up event by event: to the
end of each event's interval they are no more than the time reached plus the time run back
(`Backward`).  Where times do not run back the parts fit into the whole.

**`PatchProposal_proofs`**: `ProposalsConsistent`, `EditsExact`, `ValidIsIntended`,
`EditsSurviveTheDiff`, for any sources, any edits, any alignment of equal lines and any number
of lines of context but zero.  Each loop of the code is a recursive function, and each has one
lemma that says what it keeps.

* Replacing from the last place to the first leaves the text to the left of the next place
  as it was found, because places do not overlap (`Apart`, `ReplacesFromTheEnd`); hence the
  result is the intended text (`ReplacedIsIntended`).
* The lines of a text, joined with `\n`, split into the same lines again, and are the text
  itself if its breaks are all `\n`, unless it is empty or ends another way than the original
  (`JoinedLines`).
* A line of the script of an alignment is the line of the old text with its number among the
  removed and equal lines, and of the new text likewise (`Relates`, `ScriptRelates`).
* Every changed line is in a hunk, hunks do not overlap, and the line before a hunk is equal
  in both texts (`Covers`, `RunsCover`).  So the number that the hunk's header names leads to
  where the hunk belongs; with no line of context that fails for a hunk that only adds, whose
  header names the line before (`HunkFacts`).
* At the end of each line of each hunk, the application stands at the same place of the
  script in the old text, and has written the new text up to it (`At`, `ApplyOpAt`,
  `ApplyHunkAt`); between hunks it copies equal lines (`Stretch`).  At the end it has written
  the new text (`HunksApply`).

`Consistent` carries this through the workers: a stored proposal holds the diff of applicable
edits to the source beside it, and a verdict is about that proposal and, if it says valid,
about that source.

**`Numbers`** has the induction these proofs use.  The provers cannot instantiate a theorem
whose parameter is a predicate, so induction is about sets: a set of numbers has a least one
(`LeastNat`), hence a set that contains 0 and with each number the next contains all up to a
bound (`InductionUpTo`), and a function that follows a list of steps exists (`Recursion`),
which a recursive definition is then equal to; sums and products are two of them.

Every invariant and action property that a passing run checks is proved.  Only model-checked:
the liveness properties, since fairness and `ENABLED` are outside the prover's reach.

## 5. What is left

* `PullRequestCreation` as a refinement of the one-step action of `WorkflowQueue`, for one
  world at a time.
* An abstract specification for `WebhookIngestion`: one job per file, and complete only with
  all of them.

## 6. Not modelled

* Contents: the texts of findings, prompts and pull requests, costs and token counts.
  They do not influence the control of the queue.
* Model providers, embeddings, PostgreSQL itself (its transactions are atomic
  steps), HTTP parsing, authentication and signatures.
* The retry policy: one expression over a random fraction.  The models take a retry for due
  at any time.
* The rate limiter: it spaces requests in real time, which none of the models has.  Threads
  that wake late may bunch.
* Migrations: a list of files applied in order before any other process starts.
* `cancelled`: the tables allow it and no code writes it.
* `heartbeat` of the delivery repository, which has no caller.
* Evaluation harness and command-line scripts, and of the frontend all but `watch`: offline
  or presentation.
* Concurrent requests of one idempotency key beyond the first insert: the
  unique constraint turns the second into a read.
