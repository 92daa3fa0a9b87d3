# NeX platform: TLA+ models and proofs

This directory holds a formal model of the parts of the NeX platform that are hardest to test:
the database-backed job queue that four of its services share, the CX workers that execute its
jobs and the recovery of what those workers leave behind, the two CX features that keep durable state of
their own beside a job (ingestion and asynchronous generation), the artifact rendering of NeX-AE,
and the model catalog of NeX-MO with its aliases and rollouts. The modules are checked with TLC on small instances, and what
matters most is proved with TLAPS for every value of the constants.

All source paths below are relative to the repository's `src/` directory.

## 1. The system

Five Python services over PostgreSQL, one shared runtime package, a web client and the
contracts, migrations and deployment files that belong to them.

| Part | Where | State it keeps | Operations | Status |
|---|---|---|---|---|
| Shared job queue | `services/_shared/nex_runtime/jobs.py`, migration 0083 | table `service_jobs` | `enqueue_job`, `enqueue_replay_job`, `claim_next_job`, `complete_job`, `fail_job`, `cancel_job`, `retry_job`, `get_job`, `list_jobs` | modelled and proved |
| Job control routes | `services/_shared/nex_runtime/job_control.py` | none | cancel, retry, replay of a dead letter | modelled with the queue |
| Worker heartbeats | `services/_shared/nex_runtime/worker_heartbeats.py` | table `service_worker_heartbeats` | upsert of one status per worker id, staleness test | modelled with the workers |
| CX bounded worker | `services/nex-cx/nex_cx/worker_runtime.py`, `worker_leases.py`, `worker_lifecycle.py`, `worker_cancellation.py` | the loop's position, an in-memory lease, a shutdown latch | run a batch, request shutdown, observe a cancellation | modelled and proved |
| CX reconciliation | `services/nex-cx/nex_cx/worker_reconciliation.py`, `worker_resilience.py`, `worker_operations.py` | none between requests | plan, apply, settle a failure | generic recovery modelled and proved |
| CX durable ingestion | `services/nex-cx/nex_cx/ingestion_*.py` | table `cx_ingest_runs` beside `service_jobs` | admission, claim, checkpoints, retry, cancellation, recovery | modelled and proved |
| Shared worker runner | `services/_shared/nex_runtime/worker_runner.py` | none | `run_worker_once` for other services | modelled as the render worker of NeX-AE calls it |
| CX asynchronous generation | `services/nex-cx/nex_cx/async_generation*.py`, `generation_runtime.py`, `generation_repository.py`, `generation_*_store.py` | admission and generation rows and three private stores beside `service_jobs` | the two admission routes, execution, cancellation, recovery | modelled |
| CX retrieval, chunking, embedding | the rest of `services/nex-cx` | content tables | mostly pure functions and I/O | not modelled |
| NeX-MO catalog, aliases, rollouts | `services/nex-mo/nex_mo/catalog_lifecycle_*.py`, `model_rollout_*.py` | tables `mo_model_catalog`, `mo_alias_bindings`, `mo_model_rollouts`, `mo_rollout_events` | register and transition an entry, activate and roll back an alias, the transitions of a rollout | modelled |
| NeX-MO capacity, resilience, provider routes | the rest of `services/nex-mo` | provider attempts of one request | model routing | not modelled |
| NeX-OA | `services/nex-oa` | accounts, sessions, service tokens | identity | planned |
| NeX-AG | `services/nex-ag` | remediation, alerts, dispatch | operations control plane | not modelled |
| NeX-AE artifact rendering | `services/nex-ae-api/nex_ae_api/async_artifact_render*.py`, `artifacts.py` | the record of an artifact (versions, files, render rows) beside `service_jobs` | the admission, render, cancel and reconcile routes, the render worker | modelled |
| NeX-AE, the rest | `services/nex-ae-api` | chat interactions, agent runs, artifact lifecycle, retention | agent execution | not modelled |
| Web client, contracts, deployment | `apps`, `contracts`, `deployment`, `scripts` | none of interest | | not modelled |

**How the parts interact.** A service admits work by inserting a row into `service_jobs`. A
worker process claims the oldest available row of its job type with `SELECT ... FOR UPDATE SKIP
LOCKED` and a guarded `UPDATE`, executes a handler, and settles the row. Nothing but the database
connects the parties: an operator's cancel or retry, another worker, a reconciliation request and
the worker that holds the job all write the same row, each in a transaction of its own and each
after reading a state that may be gone by the time it writes. Heartbeats are a second table, written
outside the job's transaction and allowed to fail. Ingestion and generation keep further rows and
files (the run; the admission, the envelope, the output, the draft, the generation) that must agree
with the job although no transaction ever covers two of them. NeX-MO is called for every provider
request: an alias names the catalog entry that serves it, operators and rollout controllers move the
alias, and each does so in a transaction that comes after its checks. NeX-AE renders an artifact through a
job of the same id as the render's row in the artifact's record; every change of that record writes all of it.

**Where the behaviour is hard.**

* Two callers that enqueue under one idempotency key, or one id, in overlapping transactions.
* A claim, a cancel, a retry and a completion of the same row in any order.
* A worker that dies, or raises outside its `try` block, while the row says RUNNING.
* A slow handler that outlives its lease while reconciliation gives the job to somebody else.
* A plan that is applied after the facts it was made from have changed.
* A shutdown latch that is set between the test and the claim, or between the claim and the handler.
* Two rows in two tables that have to move together, with a crash possible between the two saves.
* Immutable puts into three stores, in a fixed order, by processes of four kinds that may all be
  between the puts of one generation at once.
* An admission whose 120-second lease nobody renews, so that a second request takes it over while the
  first still works.
* A record that is read, changed in memory and written back as a whole, by a worker, four routes and the
  runner's own retry, each overwriting what the others stored since it read.
* An alias switched between the moment a request checks it and the moment it writes; a rollout whose
  record is persisted after the alias has already moved.

`PROJECT.json` lists the hazards one by one, each at its line and with the properties that cover it.

## 2. The modules

| Module | Models | Composed from |
|---|---|---|
| `JobRecord` | one row of `service_jobs` and the pure functions of `jobs.py` that compute the next row | |
| `JobLifecycle` | the abstract promise of the queue: one small state machine per job | |
| `JobQueue` | the queue's operations as SQL transactions | `JobRecord`, refines `JobLifecycle` |
| `JobRecordProofs` | lemmas about the row operators: what each preserves, and the step of `JobLifecycle` it stands for | `JobRecord`, TLAPS |
| `JobQueueProofs` | theorems about `JobQueue` | `JobQueue`, `JobRecordProofs` |
| `WorkerExecution` | CX workers, heartbeats, leases, shutdown, operators, reconciliation | `JobRecord`, refines `JobLifecycle` |
| `WorkerProofs` | theorems about `WorkerExecution` | `WorkerExecution`, `JobRecordProofs` |
| `MC*` | the instances TLC checks | |
| `IngestionContract` | the abstract promise of a durable ingestion run | |
| `IngestionRun` | one row of `cx_ingest_runs` and the transitions that compute the next row | `JobRecord` |
| `IngestionWorker` | admission, the ingestion worker, lease recovery and operators over both tables | `IngestionRun`, refines `IngestionContract` |
| `IngestionWorkerProofs` | theorems about `IngestionWorker` | `IngestionWorker`, `JobRecordProofs` |
| `DurableOutcome` | the abstract promise of an idempotency key: one outcome, told to everyone | |
| `AsyncGeneration` | one grounded generation: admission, worker, synchronous route, cancellation, recovery, stores | `JobRecord`, refines `DurableOutcome` |
| `AsyncGenerationProofs` | theorems about `AsyncGeneration` | `AsyncGeneration`, `JobRecordProofs` |
| `ArtifactRender` | the render jobs of one artifact: routes, worker and worker runner, reconciliation, the artifact store | `JobRecord` |
| `ArtifactRenderProofs` | theorems about `ArtifactRender` | `ArtifactRender`, `JobRecordProofs` |
| `AliasPointer` | the abstract promise of a provider alias: one target, moved one step at a time | |
| `AliasCatalog` | the catalog entries and alias bindings of NeX-MO and the requests that change them | refines `AliasPointer` |
| `AliasCatalogProofs` | what every operation of the catalog keeps true, and the move of `AliasPointer` it stands for | `AliasCatalog`, TLAPS |
| `ModelRollout` | rollouts, their event log and the controllers that drive an alias through them | `AliasCatalog` |
| `ModelRolloutProofs` | theorems about `ModelRollout` and the catalog under it | `ModelRollout`, `AliasCatalogProofs` |

### JobRecord

A row is a record of the columns some decision reads. `Transitioned` is `transition_common_job` as
`_update_job_transition` stores it; `Requeued`, `DeadLettered` and `Retried` are the outcomes of
`plan_job_retry`; `IsClaimable` and `ClaimsBefore` are the WHERE and ORDER BY of the claim query.
Time stamps are integers with no fixed origin, so that one module can keep a clock and another
can let the present be 0. `RetryDelay` computes the exponential backoff with a whole-number
multiplier (`Backoff` is the power of it); the code's float multiplier is the one simplification.

### JobLifecycle and JobQueue

`JobLifecycle` says what the rest of the platform relies on: a job is absent, waiting, active or
settled; only the start of an execution spends an attempt, and never beyond the budget; a
settled job stays settled; attempts are never given back. `JobQueue` is the code: one action per
operation, where each action is one transaction. `_enqueue` is the exception, because it is the
operation whose transaction the database does not serialise: its two selects (`EnqueueSelect`)
and the insert (`EnqueueInsert`) are separate steps, so that two callers interleave between them
and the loser meets the primary key or the unique index. A claim is two steps as well: `ClaimSelect` takes the
row lock of `FOR UPDATE SKIP LOCKED`, and `ClaimCommit` or `ClaimRollback` releases it; every other
operation on that row waits in between (`RowFree`). That nothing can come between the two is what
`ClaimIsCurrent` says, and what lets `WorkerExecution` treat a claim as one step.

### WorkerExecution

`worker[w]` is the process that runs under worker id `w`, and its `pc` walks through
`run_bounded_worker_batch`: `loop` (the loop test), `claiming` (the claim runs after `can_claim`
said yes), `claimed` (the row is RUNNING but `require_active` and `lifecycle.busy` are still to
come, outside the `try`), `before`/`handling`/`after` (the cancellation checkpoints around and
inside the handler), `completing`, `settling`. `worker[w].attempt` is a history variable, the
attempt number the claim returned; no guard reads it, only properties. `beat` is the heartbeat table
with ages in place of time stamps; a BUSY is dated by the clock of the claim (`EmitBusy`). The latch of a
shutdown is set by another thread, so a report that had looked at the latch before may be written after the
STOPPING of `request_shutdown` (`RequestShutdown`). `recon[r]` is one reconciliation request: it lists RUNNING jobs,
plans each, then applies the plan entry by entry, reading only the status of the row again
(`ApplyRead`) before it settles it (`ApplySettle`).

Time is relative: the present is always 0 and `Tick` moves every stored time stamp into the past,
no further than any test can tell. This keeps the state space finite without bounding the clock.

Named simplifications:

* A clock that was read for a claim, or for one pass over the entries of a plan, is still current
  when its statement runs (`Tick` waits for `claiming` and `planning`). The plan may be applied
  arbitrarily later.
* Reports in a row (`starting` and `idle`, `stopping` and `stopped`) are one step, since nothing reads between
  the two; the first one stays when the second is lost.
* A plan uses the present and one threshold. The route also accepts an `observed_at` and a
  `heartbeat_stale_after_seconds` of the caller (`worker_operations.py:125`), which are left out: with a future instant or a
  threshold of its own a caller may declare any lease expired or any heartbeat stale.
* Lease renewal has no caller in production and is left out. A lease is taken at the instant it
  is tested, so `require_active` never sees an expired one.
* A store error inside a reconciliation request ends the request, which the abandonment of the
  request also does; only the refusal of a settlement is modelled as such an end.
* Which of several claimable rows is claimed is left open here and decided in `JobQueue`.

### IngestionContract, IngestionRun and IngestionWorker

A document upload is two rows: a job in `service_jobs` and a run in `cx_ingest_runs`. The
repository of runs is optimistic: every transition of `ingestion_orchestration.py` bumps
`checkpoint_version`, and `save` updates the row only if it still has the version that was read
(`Current`). `IngestionRun` has one operator per transition. The pipeline is linear, so the map
`step_states` is abstracted to `passed`, the number of checkpoints behind the run; the state of the
current step follows from the run's own.

`IngestionWorker` puts processes on top. Each transaction is one action, and between two actions a
process holds the rows it read (`proc[p].run`, `proc[p].attempt`):

| `pc` | Where the process is |
|---|---|
| `claimed`, `found` | the job is claimed, the run is to be found, requeued and claimed (`execute_claimed_ingestion_job`, `_claim_run_for_job`) |
| `guard`, `step` | `_require_job_active` before a checkpoint, then the checkpoint itself |
| `completing` | the last checkpoint is saved, `complete_job` is next |
| `failing`, `recording`, `settling` | a checkpoint failed: the run is read again, its failure saved, then the job retried or failed |
| `cancelling`, `cancelled` | the guard met a CANCELLED job: the run is read again and cancelled |
| `reading` | a recovery has read the job and is to read the run |

A process that is killed is `down`, and keeps the job it worked on as a history for the properties, until it is
started again (`Restart`). `Recover` stands for every caller of `recover_expired_ingestion_job`: the start of a worker
process, which recovers once what is expired at that moment, the recovery route and the reconciliation handler
differ only in how they choose the job, and the function tests everything they filter by. `IdOf` gives each process its worker id, because the code runs them
all under one default id and the lease check compares nothing but ids; the instances use one shared
id and two different ones. `mine` is a history variable, the attempt of the run a process claimed or
found expired, which only `StaleWriterIsRejected` reads. A pipeline step is a handler that
succeeds, fails in a way that may be retried or fails for good; a save that was committed although
the store then answered with an error is one of its outcomes.

`IngestionContract` is the promise of the state contract document: a run passes its checkpoints in order and
loses none, a settled run stays settled, a run is not started beyond its budget and waits for a retry
only while an attempt is left. `FollowsContract` checks it against operators who cancel and
retry the job underneath, recoveries, and every stale writer the compare-and-swap has to reject.

Named simplifications:

* `Tick` waits while a process is in `claimed` or `found`: the clock a worker read for its claim is the
  one it gives the run's lease. From the first checkpoint on a process may be arbitrarily slow.
* A recovery reads the run before its clock is more than `MaxDelay` old; one that is slower finds every
  newer lease still running and stops. Afterwards a clock that old is not told apart from older ones,
  because every retry deadline computed from it has passed.
* Operators use cancel and retry; a replay creates a job of its own without a run and is in `JobQueue`.

### DurableOutcome and AsyncGeneration

A grounded generation is admitted under an owner and an idempotency key and leaves seven traces: the
admission row with its lease, the request envelope, the job with the digest of that envelope, the output
text, the structured draft, the generation row, and what each request was answered. Each is written in a
transaction or an immutable put of its own, so each is a step here, and a process of any kind is a record
with a `pc`:

| `pc` | Where the process is |
|---|---|
| `reserved`, `envelope`, `enqueue` | a request that has reserved the admission, stores its envelope and enqueues the job |
| `starting`, `loaded`, `called`, `repaired`, `after` | a worker at one of the cancellation checkpoints of the runtime and the handler |
| `loading`, `calling`, `validating`, `repairing`, `revalidating` | the handler loads the envelope, calls the provider, validates the answer, asks once for a repair |
| `output`, `draft`, `record`, `mark` | whoever has an outcome writes it: `persist_completed` takes all four, `persist_failed` the last two |
| `completing`, `settling` | the worker completes the job, or settles its failure |
| `cancelling`, `recovering` | the cancel route between reading and cancelling; lease recovery after it loaded the envelope |

The four steps of `Persist` are shared by the worker, the synchronous route, the cancel route and
recovery, as they share `GroundedGenerationRuntime`. A store accepts a second put only when its content
is the same: the output may be written twice with one text, the draft and the generation row may not,
because both hold the instant they were built. `Raised` says what a refusal does to whoever
meets it: a worker turns it into a failure of the job, everyone else answers with an error.

`DurableOutcome` is what an idempotency key promises to its callers: an outcome is decided once, and
every request that is told one is told that. `OneOutcome` shows it of the generation row and the answers.

Named simplifications:

* Heartbeats, worker leases, shutdown and retry delays are in `WorkerExecution`; recovery may begin here
  on any job that is RUNNING, whatever its lease, which allows more than the code does.
* The generation lease is a flag that `LeaseExpires` may clear at any time after a `reserve`.
* A failure of the provider or of validation is transient or permanent; the codes behind the two are left out.
* An outage is a 503 of a store met by a worker. What it may have committed is modelled for the last put
  only: for the others it equals an outage of the step that follows.
* The replay of a dead-lettered job is in `JobQueue`.

### ArtifactRender

`artifact` is the record of one artifact as the store holds it: its status, the number of its current version, its
files, and one render row per request. The store has one way to write, `_persist_artifact_record`: load the
record, change it, upsert every part. So each save is two steps, the copy (`SaveState`, `Admit`,
`Publish`, `Close`) and `Write`, which adds files and overwrites everything else (`Upserted`). Between the two
the other processes go on, and what they stored is overwritten.

| `pc` | Where the process is |
|---|---|
| `claimed`, `checking` | the worker holds the job, has read the record, and looks whether it was cancelled |
| `drafting`, `rechecking`, `publishing` | it asks CX for the draft, looks again, and adds version and files |
| `completing`, `failing`, `closing` | `complete_job`; the handler's settlement of its own failure; the artifact marked FAILED |
| `raised` | the handler raised, and `run_worker_once` is about to retry the job |
| `admitting`, `enqueue` | the admission route before and after its row is stored |
| `cancelling`, `inspecting` | the cancel and the reconcile route have read the row |
| `saving`, `writing` | the two halves of a save; `next` says where the process goes on |

A request begins by reading the row and ends with its answer, and the same request may come again. `Repairs` is the table of
`_recovery_decision`, `RunnerRetry` the retry of the shared runner, which names the job and not the execution.

Named simplifications:

* A load of the record, which is several selects in transactions of the store (`artifacts.py:12428`), is one read. A
  torn copy, with parts of two saved states, is not modelled, and nothing is claimed about one.
* The synchronous route reads the record and then the row. Rows are never deleted, so the row it does not
  find was absent at the first read as well, and `BeginRender` reads both then.
* Reconciliation inspects twice; the first inspection can only end the request without a change and is left out.
* The files of a version are told apart by the version and by the request whose formats they are.
* Retry delays are 0 here and real in `JobQueue`; heartbeats and logs of the runner are left out.
* A request that ends in an error is one that crashes. An outage is a 503 met by a worker; a commit that was
  answered with an error is one of its outcomes.
* Artifact creation, lifecycle actions, retention and links are not part of the record here.

### AliasPointer and AliasCatalog

`bindings` is the table `mo_alias_bindings`, where the position of a row stands for its id, and `catalog`
the table of entries. Each operation of `CatalogLifecycleService` is two steps: `Begin...` reads and
checks, `End...` is the transaction of the repository, which re-reads the alias and compares its
revision (`SameRevision`, `SameEntryRevision`) but reads the target entry without a lock. Between the two any number of
other requests commit; `call[p]` holds what the request carries over. A request that its own checks refuse changes
nothing and is left out; one that the transaction refuses ends as `Refused`.

`AliasPointer` is what a provider request relies on: an alias has one target, and a change moves it once, to
another target. All aliases and entries of an instance belong to one provider capability, since the code compares
entries of one capability only.

### ModelRollout

`model_rollout_state.py` consists of pure transitions and `ModelRolloutService.persist_transition` stores their result. So a
controller (`held[p]`) loads a record, changes it (`Change`), and persists it in a step of its own
(`PersistTransition`), where another controller may have been faster. `Promote` and `Restore` begin an
alias operation of `AliasCatalog`; `Promoted` and `Restored` are what the controller does with the answer,
after the alias has moved; a `Crash` in between leaves the alias moved and the record behind it.

Named simplifications:

* The repository contains the controller's building blocks and no controller. The model's is the disciplined one that
  its tests show: it persists every transition before it makes the next, and acts on a decision only in the
  process that made it, because a `CanaryDecision` is never stored.
* Evidence (readiness, calibration, reservation, metrics) is present or the transition is refused.
* The last-known-good binding of a registration is any row of the table, active or not, of any alias, as the code
  takes whatever its caller supplies; its fingerprint is that of the row's entry.

## 3. What TLC checks

| Run | Module / cfg | Expect | Properties | Shows |
|---|---|---|---|---|
| `job_queue` | `MCJobQueue` / `JobQueue.cfg` | pass | `TypeOK`, `QueuedIsClaimable`, `ClaimIsCurrent`, `DeadLetterIsFinal`, `FollowsLifecycle` | Two jobs, two workers claiming and one caller, every operation in every order: rows stay consistent and each job keeps the JobLifecycle promise. |
| `job_queue_race` | `MCJobQueue` / `JobQueueRace.cfg` | pass | `OneJobPerKey`, `AnswerHasKey` | Two callers race select against insert over two ids and two keys: one row per key, and an answer is always the row of the key asked for. |
| `worker_execution` | `MCWorkerExecution` / `WorkerExecution.cfg` | pass | `TypeOK`, `AttemptHasOneWorker`, `HolderIsLocked`, `OutcomeIsDurable`, `ShutdownShieldsNoJob`, `FollowsLifecycle` | Two workers, an operator and a reconciler on one job with two attempts: crashes, slow handlers, stale plans, lost and late reports and shutdown in every order; a job that a shutdown leaves behind is shielded by no heartbeat. |
| `worker_liveness` | `MCWorkerExecution` / `WorkerLiveness.cfg` | pass | `AbandonedIsRecovered`, `ShutdownDrains` | Two jobs, one of a type without a recovery handler, and reports that may be lost: a generic job whose worker is gone is settled unless the worker id comes back, and a worker told to shut down returns. |
| `worker_duplicate_execution` | `MCWorkerExecution` / `WorkerNoDuplicateExecution.cfg` | violation | `NoDuplicateExecution` | Two workers in the handler of one job at once: the first is merely slow and reconciliation gives its job to the second. |
| `ingestion` | `MCIngestionWorker` / `IngestionWorker.cfg` | pass | `TypeOK`, `TerminalsAgree`, `RetryInStep`, `QueuedComesToAnEnd` | One upload, two processes under the default worker id, three attempts: crashes between any two writes, slow handlers, stale writers and recoveries of expired leases; the two rows agree, and a queued job comes to an end unless the execution that has it is killed. |
| `ingestion_operators` | `MCIngestionWorker` / `IngestionOperators.cfg` | pass | `StaysInStep`, `FollowsContract`, `StaleWriterIsRejected` | Processes with worker ids of their own, and operators who cancel and retry the job underneath the run: the run keeps the contract, and no checkpoint or failure of a superseded execution reaches it. |
| `async_generation` | `MCAsyncGeneration` / `AsyncGeneration.cfg` | pass | `SucceededIsReady`, `RecordMatchesStores`, `JobEnds` | Two workers on one generation, one of them slow, dead or cut off from a store, while recovery and the job operators take the job from it: a SUCCEEDED job is ready, its record is whole, and every job ends. |
| `async_requests` | `MCAsyncGeneration` / `AsyncGenerationRequests.cfg` | pass | `TypeOK`, `AdmissionAgrees`, `EnvelopeMatchesJob`, `OneOutcome` | Several requests of both kinds race under one key while the admission's lease expires and is reclaimed: one envelope, one job, one outcome for everybody. |
| `model_rollout` | `MCModelRollout` / `ModelRollout.cfg` | pass | `TypeOK`, `LineageIsChain`, `PromotedOverLastKnownGood`, `RolledBackIsRestored`, `EventsTellTheState`, `EntriesFollowTransitions`, `MovesLikePointer` | Two operators and two rollout controllers on one alias and two catalog entries: every activation, rollback, retirement and persisted transition interleaved, with controllers that crash and load again. |
| `alias_retirement` | `MCModelRollout` / `AliasRetirement.cfg` | violation | `RoutesAvailable` | A retirement finds its entry unreferenced while an activation is about to point the alias at it: the active alias targets a RETIRED entry. |
| `artifact_render` | `MCArtifactRender` / `ArtifactRender.cfg` | pass | `TypeOK`, `SucceededIsPublished`, `CancelledIsFinal`, `DriftIsRepaired` | Two workers and one request after another of every route on the render of one artifact, operators who cancel and retry, and a crash or an outage anywhere: records saved from stale copies lose no file, cancel nothing, and drift is repaired. |


**Bounds.** `MaxAttempts` bounds `max_attempts`; two attempts are the smallest budget under
which a retry, an exhausted budget and an execution that meets its own successor all occur.
Two workers are enough for every race on one row, since each statement names one row and
serialises with the others. `LeaseTTL` 1 and `StaleAfter` 1 let a lease be fresh and expired and
a heartbeat that is written after the claim be available still when the lease has expired; longer times add only ticks. `LostReports`
names the heartbeat statuses a run lets the store lose; the losses that matter are a BUSY (a live worker looks
stale) and a STOPPED or ERROR (a stopped one looks alive). `JobQueue`
keeps an absolute clock bounded by `MaxTime`; one tick separates a row that is available from one that
is still backing off. Two ids and two keys let every enqueue meet a row with its key, its id, both or neither.

**Fairness.** `WorkerExecution!Fairness` asks that time passes (`SF_vars(Tick)`: a step of a worker
may interrupt but not stop the clock), that a live process takes its next step and its handlers
return (`WF_vars(Run(w))`), and that reconciliation is requested while jobs run (the smoke
and operations documents run it on a schedule). No fairness is asked of a start, a crash, an operator or
a shutdown request, so every liveness property holds although none of these may ever happen.

`IngestionWorker!Fairness` asks the same of the clock and of live processes (`WF_vars(Work(p))`), and that
some worker polls (`SF_vars(\E p \in Processes : Claim(p))`), which is the loop of `background_process.py:180`. The loop does
not survive an error that `run_once` raises; that a worker polls again after one is an assumption about the
supervisor of the processes. No fairness is asked of a recovery, a restart or a crash: recovery plans are loaded once, at the start of a
process, and there is no recovery loop (`docs/slices/1349_cx_ingestion_restart_cancellation.md:11`,
`docs/slices/0926_cx_ingestion_worker_retry_recovery.md:20`). So `QueuedComesToAnEnd` is about what the polling loop achieves
by itself, and names the two cases it cannot: an execution that is killed, and a last checkpoint that was committed
but answered with an error. Without either exception TLC finds the job that stays RUNNING.

**Bounds of ingestion.** Two checkpoints tell the first from the last, `MaxAttempts` 3 allows an
execution, its successor and a third that meets what both left behind, and two processes are enough
for one that is slow beside one that recovers or takes over. `ingestion` carries the liveness property on the
same instance.

**Fairness of generation.** `AsyncGeneration!Fairness` asks that a worker polls and goes on
(`WF_vars(Work(w))`, `WF_vars(Persist(w))`), that reconciliation comes back to a job that is RUNNING until it is
settled (`WF_vars(BeginRecovery(r) \/ Recover(r))`), and that a cancellation that has begun is served. Clients,
operators, lease expiry and faults owe nothing. Faults are bounded by `MaxFaults`, which is the
usual assumption that they stop some time; without it a job of which every execution crashes and every
recovery too would rightly never end.

**Bounds of generation.** `async_generation` is about executions: two workers, so that a recovered job meets its
slow first execution, a recovery, an operator who cancels and retries, two provider texts, so that
two executions disagree, and one crash or outage. `async_requests` is about requests: two asynchronous and one
synchronous request under one key and a cancellation, against one worker and one crash. Two attempts
are a first and a last one.

**Fairness of rendering.** `ArtifactRender!Fairness` asks that workers poll and go on, that a request that
began goes on unless it crashes, and that somebody asks for the reconciliation of every render again and again
(`SF_vars(BeginReconcile(r, j))`). Operators, other routes and faults owe nothing. `DriftIsRepaired` rests on
requests that do not overlap for ever: two reconciliations of a failed job, each closing the
artifact from a copy it took before the other saved the row, can undo each other without end.

**Bounds of rendering.** One render, two workers and one request at a time, of any route, against operators and one crash or
outage: three processes with a copy each are enough for a copy that is older than two saves. Two attempts let the
runner's retry meet a second execution.

**Bounds of the catalog.** `model_rollout` has one alias, two entries, two operators and two controllers on one
rollout: enough for an operator to switch the alias away and back between a check and a write, and for a
controller to persist what another has overtaken. Seven revisions let a rollout go from its registration
through a repeated canary evaluation to ROLLED_BACK; four bindings are the initial one, a promotion, its rollback and one move of an
operator. These bounds are where the instance stops, so its deadlocks are not checked. Operators,
controllers and rollouts are interchangeable (`SYMMETRY`); no property of these runs is a liveness property.

## 4. What is proved

`JobQueueProofs` proves, for all identifiers, keys, job types, workers, delays and bounds that meet
`RecordAssumption` and the assumption of `JobQueue`:

| Theorem | Statement |
|---|---|
| `TypeCorrect` | `Spec => []TypeOK` |
| `NoStrandedJob` | `Spec => []QueuedIsClaimable`: a waiting job has attempts left, so some claim can take it |
| `ExclusiveClaim` | `Spec => []ClaimIsCurrent`: no two open claims hold one row, and a row that is selected is still QUEUED when its claim commits |
| `LockImpliesRunning` | `Spec => []LockMeansRunning` |
| `DeadLettersStay` | `Spec => []DeadLetterIsFinal`: the marker is never on a row that may still run, and the source of every replay keeps it (`LineageIsDeadLetter`) |
| `AnswersMatchRequests` | `Spec => []AnswerHasKey`: whatever two racing enqueues of one key or one id meet, an answer is the row of the key that was asked for |
| `IdempotentTable` | `Spec => []OneJobPerKey` |
| `ImplementsLifecycle` | `Spec => FollowsLifecycle`: every step of the code is a step of the promise, or a stutter |

`JobRecordProofs` holds what both proofs rest on: `RowOK`, the shape of a row that every operator preserves
(`TransitionedOK`, `RequeuedOK`, `DeadLetteredOK`), and `Advances`, the step of `JobLifecycle` that each
operator is. The lemmas hold for every row, worker, retry policy and instant. `RowIsPromised` carries a step of one row to
the whole table as `JobLifecycle` sees it; all five refinements of `JobLifecycle` end in it.

| Theorem | Statement |
|---|---|
| `RetryDelayGrows` | the delay of the first attempt is the initial delay, each next one is the multiple of the one before it or the cap, and a later attempt never waits for less |

The backoff is a recursive function. That it is well defined (`ChainsAgree`), a natural number and growing needs induction over the
number of attempts. The induction theorems of the library take a predicate as a parameter; the lemma `NatSetInduction` says the same
of a set of naturals, which the provers can instantiate, and is proved from the library's `NatLessThanWellFounded`.

`LockImpliesRunning` and the lineage half of `DeadLettersStay` are proved only; no run repeats them.

The inductive invariant of the queue is `TypeOK`, `RowOK` of every row, and the relations between
rows and transactions in flight (`ClaimIsCurrent`, `CallOK`, `LineageIsDeadLetter`, `OneJobPerKey`). None
of the checked properties is inductive alone: that a queued row has attempts left rests on the
retry decision, which is only sound if the attempt count of a RUNNING row never exceeds its budget;
that a replay's source is a dead letter has to hold of the row that waits to be inserted, while
other transactions run; and the uniqueness of keys rests on the insert's test of the index, not on the
selects before it. There is one lemma per operation.

`WorkerProofs` proves, for all numbers of jobs, workers and reconcilers, all leases, backoffs, operator
actions and lost reports that meet `RecordAssumption` and `WorkerAssumption`:

| Theorem | Statement |
|---|---|
| `WorkerTypeCorrect` | `Spec => []TypeOK` |
| `AttemptsAreExclusive` | `Spec => []AttemptHasOneWorker`: two executions of a job never share an attempt |
| `LockNamesHolder` | `Spec => []HolderIsLocked`: the lock names the worker of the current attempt |
| `OutcomesLast` | `Spec => []OutcomeIsDurable`: what a batch reported as final stays true of the row |
| `ShutdownShields` | `Spec => []ShutdownShieldsNoJob`, if the store loses neither STOPPING nor ERROR (`LossBounded`) |
| `WorkersFollowLifecycle` | `Spec => FollowsLifecycle` |
| `OnlyRecoveryDuplicates` | `Spec => []NoDuplicateExecution`, if there is no reconciler and operators do not retry |

The inductive invariant adds `RowOK` to these and says that an outcome and a settlement name a job. The
argument has two halves. Every step but a claim leaves each row `Steady` (the attempt count stays, and
the row keeps its status, lock and error, or leaves QUEUED or RUNNING without becoming RUNNING) and lets
each process only carry on with the attempt it has (`Carries`); `CoreStep` shows once that such a step
preserves everything, and each action is then a few lines. The claim is the one step that starts an
attempt (`ClaimRowInv`): its number is larger than that of every execution of the job so far, because
no execution holds an attempt its row has not counted (part of `TypeOK`), and it writes the lock
together with the number. This is why the attempt number, and not the lock, tells two executions of
one job apart: the lock is cleared by every settlement, whoever asked for it.

`ShutdownShields` has an invariant of its own, `Silent`: while a worker that was told to shut down is down, claiming, or has claimed, the
last report of its id is none that counts as active. A BUSY or IDLE of the race is written while the worker is in its loop or about
to enter its handler, and no worker leaves these places without a STOPPING, STOPPED or ERROR of its own; both hypotheses of the
theorem name reports that this rests on.

`OnlyRecoveryDuplicates` delimits the violation that the run `worker_duplicate_execution` finds (section 5). Its hypotheses
are those of a deployment that neither calls the reconciliation routes nor retries by hand; there the promise of the slice
document does hold. The invariant is `Apart`: two processes that execute have two jobs, and the job of an execution is RUNNING, SUCCEEDED or
CANCELLED, so that no claim can take it. A job leaves these states only by the settlement of the execution that gives it
up in the same step (`GivesUp`), or by one of the two excluded steps.

`ArtifactRenderProofs` proves, for all numbers of renders, workers, requests in flight, attempts and faults
that meet `RecordAssumption` and `RenderAssumption`:

| Theorem | Statement |
|---|---|
| `RenderTypeCorrect` | `Spec => []TypeOK` |
| `SuccessHasFiles` | `Spec => []SucceededIsPublished` |
| `CancellationIsTrue` | `Spec => []CancelledIsFinal` |
| `RenderJobsKeepThePromise` | `Spec => RenderJobsFollowLifecycle`: the render jobs implement `JobLifecycle` |

Every save writes back a whole record that was read some steps ago, so the stored record is as good
as the worst copy any process holds. The invariant therefore says of every copy what it says of the stored
record: it is `Sound` (a row that says COMPLETED has files, a READY artifact has its current version) and it
`Cancels` only what is cancelled in `service_jobs`. A save replaces one such record by another, and
only adds files; and because files are only added and a cancelled job is never queued again (`Keeps`), what an old copy
says is still true when it is written.

`ModelRolloutProofs` proves, for all sets of aliases, entries, operators, controllers and rollouts that meet
`CatalogAssumption` (operators are not controllers) and `RolloutAssumption`:

| Theorem | Statement |
|---|---|
| `RolloutTypeCorrect` | `Spec => []TypeOK` |
| `BindingsFormChain` | `Spec => []LineageIsChain` |
| `RetirementIsFinal` | `Spec => EntriesFollowTransitions` |
| `AliasIsPointer` | `Spec => MovesLikePointer`: the table of bindings implements the one pointer of `AliasPointer` |
| `PromotionIsSafe` | `Spec => []PromotedOverLastKnownGood` |
| `RollbackIsSafe` | `Spec => []RolledBackIsRestored`: the drift error after the commit is unreachable |
| `EventLogIsComplete` | `Spec => []EventsTellTheState` |
| `RoutesStayAvailable` | `Spec /\ []RetirementsAreAlone => []RoutesAvailable` |
| `OneCallerKeepsRoutes` | `Spec => []RoutesAvailable`, if there is only one client |

`AliasCatalogProofs` holds the half that is about the catalog alone. The chain is inductive once three facts are
added: an alias with any row has an ACTIVE one, a row targets another entry than the row it followed, and a
request in flight carries a revision that is not ahead of the alias (`Knows`, `KnowsRow`). If the revision is
still the one that was read, the alias points to the very row that was read, so what the request
checked then is true at its commit; if not, the commit refuses. This is the whole protocol: no lock is held between
check and write. For the rollouts the invariant says of every record, stored or held, what is true of rows that
only get superseded (`RecordOK`: the last-known-good row, the promotion, its undoing), and of a controller's
request in flight that it knows the last-known-good row (a promotion) or the activated one (a rollback).

`RoutesStayAvailable` delimits the violation that the run `alias_retirement` finds (section 5). `RetirementsAreAlone` says of every
state that no retirement of an entry is in flight together with a request that points an alias at that entry, which is what one
lock around check and write of both would enforce. Then what a request has checked (no alias targets the entry; the entry is
ACTIVE) is still true when it writes: this is `ChecksHold`, the invariant, and `Orderly` is the little that a step may do to
it. Everything else may overlap as it likes, so the missing lock is the only gap. `OneCallerKeepsRoutes` is the case
in which the hypothesis needs no lock.

`AsyncGenerationProofs` proves, for all sets of requests, workers, cancellers, recoveries and texts, all attempt
budgets and all numbers of faults that meet `RecordAssumption` and `GenerationAssumption` (job types and keys are not
empty, and no process is of two kinds):

| Theorem | Statement |
|---|---|
| `GenerationTypeCorrect` | `Spec => []TypeOK` |
| `ClosedAdmissionAgrees` | `Spec => []AdmissionAgrees` |
| `RecordsMatchStores` | `Spec => []RecordMatchesStores` |
| `SucceededJobsAreReady` | `Spec => []SucceededIsReady` |
| `EnvelopesMatchJobs` | `Spec => []EnvelopeMatchesJob` |
| `OutcomeIsDurable` | `Spec => OneOutcome`: record and answers implement `DurableOutcome` |
| `GenerationJobKeepsThePromise` | `Spec => GenerationJobFollowsLifecycle`: the job implements `JobLifecycle` |

The four properties of state are about stores that are written one after another without a lock, so none is inductive
by itself: `RecordMatchesStores` needs to know what a process that is about to write the record has put where, and
`AdmissionAgrees` what one that is about to close the admission has found in the record. The invariant adds, for every
process, what it may rely on at its place (`ProcessOK`: at "draft" the output is its text, at "record" the draft is
its own as well, at "mark" the record has its status, from "after" on record and admission are COMPLETED). One lemma
(`ProcessKeeps`) shows that no other process can take it away, because no store that holds something is ever written
again (`Keeps`); each action then has to be looked at for its own process only.

`IngestionWorkerProofs` proves, for all sets of jobs and processes, all pipelines, budgets, delays and leases that meet
`RecordAssumption`, `RunAssumption` and `IngestionAssumption`:

| Theorem | Statement |
|---|---|
| `IngestionTypeCorrect` | `Spec => []TypeOK` |
| `JobAndRunStayInStep` | `Spec => []StaysInStep` |
| `RunFollowsContract` | `Spec => FollowsContract`: the rows of `cx_ingest_runs` implement `IngestionContract` |
| `StaleWritersRejected` | `Spec => StaleWriterIsRejected`, if no two processes share a worker id (`OneIdEach`) |
| `BackoffsInStep` | `Spec => []RetryInStep`, if operators do not retry |
| `DisagreementIsCancellation` | `Spec => []OnlyCancelledDisagree`, if operators do not retry: two final rows disagree only if the job was cancelled |
| `TerminalRowsAgree` | `Spec => []TerminalsAgree`, if operators neither cancel nor retry |
| `IngestionJobsKeepThePromise` | `Spec => IngestionJobsFollowLifecycle`: the ingestion jobs implement `JobLifecycle` |

A process decides on a copy of its run, however old. The invariant says what the version of the copy is worth (`Copied`): it is never
ahead of the row's, and with the row's own version the copy has the row's status, checkpoints, attempts and owner, for
only clocks move without a version. A save that passes the compare-and-swap is therefore a move of the row itself (`Moved`:
started, passed, failed, requeued or cancelled), and a move keeps what every other process relies on (`RunKeeps`,
`ProcKeeps`). Two parts are not visible in any property. `Budgeted` counts: every execution that claimed the job and has not
started the run yet may still start it once, so the run's attempts plus the number of these executions never exceed the
job's attempts; this is why `claim_ingestion_run` need not look at the budget. And with ids of their own, an execution that finds its
id in the lease finds the attempt it started, because no other process can have put that id there: the last two conjuncts of
`ProcOK`, which a shared default id makes false.

`BackoffsInStep`, `DisagreementIsCancellation` and `TerminalRowsAgree` rest on one more invariant, `Paired`: whoever may settle a
job is alone. A claim of the job gives one execution the right to start the run; the process that recorded the failure of a RUNNING
run has the right to requeue or fail the job; the two rights are never held at once (`Alone`), nor while the run is RUNNING
(`HolderOK`), although worker ids are shared and recoveries overlap with executions that are merely slow. The backoff of
the run is then never later than that of the job (`DueBy`), because the job's is computed afterwards, from a clock read no earlier and
an attempt count that is no smaller (`RetryDelayGrows`). The hypotheses are needed: an operator's retry of a RUNNING
job hands out the right a second time, and with `"retry"` in `OperatorActions` TLC finds a counterexample to either property on the
instance of the run `ingestion`. A cancellation takes the right away from everybody, and so only makes the two ends differ.

**The composition.** The promise of the queue is proved in `JobQueueProofs` of the queue's own operations. Ingestion, generation and
rendering apply the row operators themselves, together with the rows and stores of their own, so that the promise is proved again of each
of them (`IngestionJobsKeepThePromise`, `GenerationJobKeepsThePromise`, `RenderJobsKeepThePromise`): whatever a handler, a
recovery, a runner or a route does between its transactions, no job spends more attempts than it has, or comes back
from its end. `Writes` lists what a step may write to a job, and every action is one of these or leaves the table alone.

**Only model-checked.** Liveness under fairness (`AbandonedIsRecovered`, `ShutdownDrains`, `QueuedComesToAnEnd`,
`JobEnds`, `DriftIsRepaired`), which this prover cannot treat. Induction is possible where it is over a set (`NatSetInduction`); no
other operator of the models needs one.

## 5. Where the code and its documents disagree

| Run | Document | Code |
|---|---|---|
| `worker_duplicate_execution` | docs/slices/0978_cx_worker_restart_reconciliation.md:5 sets the goal "Recover abandoned RUNNING jobs after process restart without allowing a stale or merely slow worker to create duplicate execution." | Heartbeats are only written at state changes and no worker renews its lease, so a handler slower than the lease is recovered while it runs, and its checkpoints read the status of the row and not its owner: the run ends with two workers in the handler of one job. (`services/nex-cx/nex_cx/worker_reconciliation.py:138`) |
| `alias_retirement` | docs/slices/1175_mo_catalog_lifecycle_service.md:14 says "Rejected retirement while an active alias still references the catalog entry." | The references are read in one transaction and the entry is retired in another, and replace_active_alias reads the entry without a lock: an activation that read it as ACTIVE commits in between, and the alias ends on a RETIRED entry. From then on CatalogProviderRouteSource refuses every route of every capability until the alias is moved. (`services/nex-mo/nex_mo/catalog_lifecycle_service.py:117`) |

Each run checks the sentence of the document against the model of the code, and TLC's trace is the
schedule in which it fails.

More disagreements were met while modelling. They are visible in the actions named here and
have no run of their own:

* `Claim` of `WorkerExecution`: the loop tests `can_claim` and claims afterwards (`worker_runtime.py:199`). A
  shutdown requested in between lets the claim commit, `lifecycle.busy` then raises outside the `try` block, and the
  job stays RUNNING under a worker that has stopped, where
  `docs/slices/0977_cx_worker_lifecycle_readiness_shutdown.md:14` says "Once requested, the worker cannot claim another job."
  A claim whose busy check came before the shutdown still enters its handler. What does hold is `ShutdownShieldsNoJob`: the
  job that was left behind is recovered by the first plan after its lease has expired.
* `PlannedForRecovery` of `WorkerExecution`: a heartbeat says that a worker id is alive, not that it works on the job
  (`worker_reconciliation.py:260`). The jobs of a dead process wait for as long as its successor reports under the same id, where
  `docs/slices/0978_cx_worker_restart_reconciliation.md:5` sets the goal "Recover abandoned RUNNING jobs after process restart".
* `Crash` and `Restart` of `IngestionWorker`: a process that is started again before the 120 seconds of its lease are over finds
  nothing to recover (`ingestion_worker_process.py:56`), and the pair stays RUNNING until a later start or a
  request of an operator, where `docs/slices/0926_cx_ingestion_worker_retry_recovery.md:5` sets the goal to
  "recover retryable or lease-expired work".
* `RecordFailure` of `IngestionWorker`: a superseded execution whose step fails reads the run again and records its own
  failure on it with the version it has by then. The lease check compares worker ids only, and every ingestion process runs under the
  default id (`ingestion_worker.py:41`, `:192`), where `docs/slices/0922_cx_ingestion_orchestration_state_contract.md:13`
  has `checkpoint_version` reject stale writers. With ids of their own it does (`StaleWriterIsRejected`).
* `EnqueueJob` and `CreateRun` of `IngestionWorker`: a job can be claimed as soon as it is enqueued. A worker that finds no run fails it for good
  (`ingestion_worker.py:142`), and the admission then creates and reports a run whose job is FAILED, where
  `docs/slices/0924_cx_durable_ingestion_admission.md:16` says that retrying the same key recovers partial success.
* `SettleJob` of `IngestionWorker`: the run is saved as WAITING_RETRY, without a lease, before the job is retried
  (`ingestion_worker.py:370`). A process that dies in between leaves a RUNNING job no worker can claim and no recovery accepts,
  where `docs/slices/0926_cx_ingestion_worker_retry_recovery.md:5` sets the goal to "recover retryable or lease-expired work".
* `Cancel` and `Checkpoint` of `AsyncGeneration`: a cancellation that meets the job between its claim and the first
  checkpoint of the runtime, or after the answer is stored, or that read RUNNING before the job was
  queued again, is finalized by nobody (`async_generation_operations.py:223`), where
  `docs/slices/0988_cx_async_generation_owner_operations_api.md:15` says "running cancellation closes at the next worker checkpoint".
* `Load` and `Settle` of `AsyncGeneration`: when the stores are unavailable while the last attempt loads its request,
  `_finalize_if_ready` has no envelope and returns (`async_generation_worker.py:219`); the dead-lettered job has no generation record and an
  admission that stays IN_PROGRESS, where `docs/slices/0987_cx_async_generation_retry_cancellation_recovery.md:11`
  says "Permanent failures and exhausted attempts persist a metadata-only FAILED generation before the job dead-letters."
* `PutEnvelope`: the envelope holds the X-Request-ID, so that a second request under the same key is
  refused by the immutable store, where `docs/slices/0985_cx_async_generation_idempotent_queue_admission.md:11` says
  "Async admission may join an identical in-progress reservation".
* `EnqueueInsert`: when two enqueues of one key race, the loser is answered `job.duplicate_id` ("job already
  exists: {job_id}") for an id that is not in the table (`jobs.py:700`), where
  `docs/slices/0087_sqlalchemy_jobqueue_adapter_postgres_smoke.md:17` promises idempotent enqueue.
* `ApplyRead`: `apply_worker_reconciliation_plan` reads only the status of the row again
  (`worker_reconciliation.py:141`), where
  `docs/slices/0978_cx_worker_restart_reconciliation.md:12` says that recovery requires an expired lease and
  an unavailable heartbeat; the plan's own inspection may be out of date by then.
* `SettleJob` of `IngestionWorker`: an exhausted or permanent failure is settled with `fail_job`
  (`ingestion_worker.py:387`), which leaves `retryable` and the dead-letter marker as they were, where
  `docs/slices/0124_job_retry_backoff_dead_letter_policy.md:39` describes such a job by its marker.
* `Guard` of `IngestionWorker` runs before a checkpoint only: a job that is cancelled while its last step
  runs ends with a SUCCEEDED run, where `docs/slices/1349_cx_ingestion_restart_cancellation.md:16` says
  that the run is settled as CANCELLED.
* `Claim` of `ArtifactRender`: a render worker that dies leaves its job RUNNING, and reconciliation answers WAIT_FOR_WORKER
  (`async_artifact_render_recovery.py:292`) for ever, where
  `docs/slices/1081_s108_ae_async_artifact_rendering_closure.md:18` says that worker execution "survives process restart".
* `Write` and `Outage` of `ArtifactRender`: a version is numbered after those its worker read. A published render whose row a stale
  copy sets back (`artifacts.py:1697`), or whose save was committed and answered with an error, is executed again and published
  as a second version, where `docs/slices/1073_ae_async_artifact_render_contract.md:21` says that
  "retrying the same admission cannot create duplicate artifact versions".
* `RunnerRetry`: a handler that settled its failure also raises, and the runner retries the job by id a second
  time (`worker_runner.py:251`). When another worker has claimed it meanwhile, that worker's attempt is taken from it, where
  `docs/slices/1078_ae_async_artifact_render_recovery.md:22` calls the queue's bounded retry the one execution policy.

## 6. The plan

1. **Done.** Queue (`JobRecord`, `JobLifecycle`, `JobQueue`), its runs and its proofs.
2. **Done.** Workers, heartbeats and reconciliation (`WorkerExecution`), its runs and its proofs (`WorkerProofs`).
3. **Done.** Durable ingestion (`IngestionContract`, `IngestionRun`, `IngestionWorker`), its runs.
4. **Done.** Asynchronous generation (`DurableOutcome`, `AsyncGeneration`), its runs and its proofs.
5. **Done.** The NeX-MO catalog (`AliasPointer`, `AliasCatalog`) and its rollouts (`ModelRollout`), its runs and its proofs.
6. **Done.** Proofs about ingestion (`IngestionWorkerProofs`).
7. **Done.** The theorems that compose the queue with its users, and those that delimit the two violations of section 5.
8. **Done.** The shared worker runner with its main user, the artifact renders of NeX-AE (`ArtifactRender`), its run and its proofs.
9. NeX-OA sessions and service tokens; the AE
   retention scheduler; AG dispatch. Each keeps a row that several processes write under
   a guard, and would reuse the pattern of `JobQueue`.

## 7. Not modelled, and why

* Retrieval, chunking, embedding, prompt building: pure functions of text whose correctness is a
  matter of content, not of state.
* HTTP, authentication headers, tracing, logging, metrics and response formats: no property here depends on them.
* `updated_at`, trace and request columns, links and payload: no decision of the queue reads them.
* `InMemoryJobQueue`: it applies the same pure functions (`JobRecord`) without transactions.
* NeX-MO capacity admission is a pure function over reservations its caller holds, provider retry and the circuit breaker live
  inside one request. The evidence of a rollout (calibration, metrics) is a matter of
  content; the model has the transition that needs it and the refusal.
* Route sources and provider requests of NeX-MO only read the catalog: `RoutesAvailable` states what they would find.
* Retrieval of the documents a generation cites and the building of its prompt: content, read before the provider call.
* `run_worker_once` completes the job itself for handlers that do not; the render worker is not one of them, and that path is left out.
* NeX-AE beyond rendering, NeX-OA and NeX-AG: the plan names what would come next.
* The web client, contracts, deployment files and scripts: no state of their own.
