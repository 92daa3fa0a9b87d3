-------------------------- MODULE AsyncGeneration --------------------------
(***************************************************************************)
(* One grounded generation of NeX-CX: the requests admitted under one      *)
(* owner and idempotency key, the job that executes it in the background,  *)
(* the stores its outcome is written to, and whoever else may write that   *)
(* outcome: the synchronous route, the cancel route, lease recovery.       *)
(*                                                                         *)
(* Each transaction or immutable put is one step.  A process of any kind   *)
(* writes an outcome through the same four: output, draft, record, mark.   *)
(* When a lease has expired, and so when recovery may begin, is decided by *)
(* WorkerExecution; here it may begin on any job that is RUNNING.          *)
(***************************************************************************)
EXTENDS JobRecord, FiniteSets

CONSTANTS
    AsyncRequests,  \* X-Request-IDs that POST /generation-jobs
    SyncRequests,   \* X-Request-IDs that POST /generations
    Cancellers,     \* requests to POST /generation-jobs/{job_id}/cancel
    Recoverers,     \* reconciliations that reach the recovery handler
    Operators,      \* which of "cancel" and "retry" the job routes are used for
    Texts,          \* answers of the provider
    MaxAttempts,    \* DEFAULT_ASYNC_GENERATION_MAX_ATTEMPTS
    Faults,         \* which of "crash" and "outage" happen
    MaxFaults,      \* bound: how many of them
    Nothing         \* an empty store, an absent choice

Requests == AsyncRequests \cup SyncRequests
Processes == Workers \cup Requests \cup Cancellers \cup Recoverers

ASSUME GenerationAssumption ==
    /\ MaxAttempts \in Nat \ {0}
    /\ MaxFaults \in Nat
    /\ Operators \subseteq {"cancel", "retry"}
    /\ Faults \subseteq {"crash", "outage"}
    /\ JobTypes # {} /\ Keys # {}
    /\ Nothing \notin Texts \cup Processes
    /\ Workers \cap (Requests \cup Cancellers \cup Recoverers) = {}
    /\ AsyncRequests \cap (SyncRequests \cup Cancellers \cup Recoverers) = {}
    /\ SyncRequests \cap (Cancellers \cup Recoverers) = {}
    /\ Cancellers \cap Recoverers = {}

VARIABLES
    admission,  \* the row of cx_generation_admissions, and its open lease
    envelope,   \* private request store: the request whose envelope it holds
    job,        \* the row of service_jobs
    digest,     \* request_envelope_sha256 in the payload of the job
    output,     \* private output store: the text
    draft,      \* private output store: the author of the structured draft
    record,     \* the row of the generation runtime table
    process,    \* what each process is doing
    told,       \* per request: the outcome it was last answered with
    faults      \* faults so far

stores == <<envelope, output, draft, record>>
vars == <<admission, envelope, job, digest, output, draft, record, process, told, faults>>

Outcomes == {"COMPLETED", "FAILED"}

\* Steps of run_bounded_worker_batch and of the handler it calls.
Running == {"starting", "loading", "loaded", "calling", "called", "validating",
            "repairing", "repaired", "revalidating", "after", "completing", "settling"}
\* persist_completed starts at "output", persist_failed at "record".
Persisting == {"output", "draft", "record", "mark"}
Serving == {"reserved", "envelope", "enqueue", "calling", "cancelling", "recovering"}

Process == [pc     : {"idle"} \cup Running \cup Persisting \cup Serving,
            last   : BOOLEAN,       \* attempt_count >= max_attempts, as read
            failure: {"none", "transient", "permanent", "cancelled"},
            status : Outcomes \cup {"none"},    \* the outcome to write
            text   : Texts \cup {Nothing},
            seen   : JOB_STATUSES \cup {"none"}]

Idle == [pc |-> "idle", last |-> FALSE, failure |-> "none", status |-> "none",
         text |-> Nothing, seen |-> "none"]

NoRecord == [status |-> "none", text |-> Nothing, draft |-> Nothing]

Record == [status: Outcomes \cup {"none"}, text: Texts \cup {Nothing},
           draft: Processes \cup {Nothing}]

\* The variables have their types, and claims, recoveries and operator
\* retries together never start an attempt beyond the budget of the job, nor
\* queue a job that has none left and could not be claimed.
TypeOK ==
    /\ admission \in [status: {"none", "IN_PROGRESS"} \cup Outcomes, leased: BOOLEAN]
    /\ envelope \in AsyncRequests \cup {Nothing}
    /\ job \in Job /\ job.attempt_count <= job.max_attempts
    /\ job.status = "QUEUED" => job.attempt_count < job.max_attempts
    /\ digest \in AsyncRequests \cup {Nothing}
    /\ output \in Texts \cup {Nothing}
    /\ draft \in Processes \cup {Nothing}
    /\ record \in Record
    /\ process \in [Processes -> Process]
    /\ told \in [Requests -> Outcomes \cup {"none"}]
    /\ faults \in 0..MaxFaults

\* build_async_generation_job; retry delays are left to WorkerExecution.
GenerationJob ==
    NewJob(CHOOSE y \in JobTypes : TRUE, CHOOSE k \in Keys : TRUE,
           MaxAttempts, TRUE, 0, NoJob)

Init ==
    /\ admission = [status |-> "none", leased |-> FALSE]
    /\ job = [GenerationJob EXCEPT !.status = "NONE"]
    /\ envelope = Nothing /\ digest = Nothing
    /\ output = Nothing /\ draft = Nothing /\ record = NoRecord
    /\ process = [p \in Processes |-> Idle]
    /\ told = [h \in Requests |-> "none"]
    /\ faults = 0

Become(p, state) == process' = [process EXCEPT ![p] = state]
GoTo(p, pc) == Become(p, [process[p] EXCEPT !.pc = pc])

----------------------------------------------------------------------------
(* Writing an outcome.                                                     *)

\* Mutant: a worker takes a store that refused for one that replayed.
RaisedTolerant(p, failure) ==
    Become(p, IF p \in Workers THEN [Idle EXCEPT !.pc = "after"] ELSE Idle)

\* A store refused or failed.  A worker turns it into a job failure, without
\* another attempt to persist anything; everyone else answers with an error.
Raised(p, failure) ==
    Become(p, IF p \in Workers
              THEN [Idle EXCEPT !.pc = "settling", !.failure = failure] ELSE Idle)

\* finalize_async_generation_failure, or persist_failed in the sync route.
PersistFailed(p, failure) ==
    Become(p, [Idle EXCEPT !.pc = "record", !.status = "FAILED", !.failure = failure])

\* persist_completed with the text x of the provider.
PersistCompleted(p, x) ==
    Become(p, [Idle EXCEPT !.pc = "output", !.status = "COMPLETED", !.text = x])

\* Mutant: the output store overwrites.
PutOutputOver(p) ==
    /\ process[p].pc = "output"
    /\ output' = process[p].text
    /\ GoTo(p, "draft")
    /\ UNCHANGED <<admission, envelope, job, digest, draft, record, told, faults>>

\* persist_generation_output: an immutable put accepts its own content only.
PutOutput(p) ==
    /\ process[p].pc = "output"
    /\ IF output \in {Nothing, process[p].text}
       THEN output' = process[p].text /\ GoTo(p, "draft")
       ELSE Raised(p, "permanent") /\ UNCHANGED output
    /\ UNCHANGED <<admission, envelope, job, digest, draft, record, told, faults>>

\* Mutant: the draft store overwrites.
PutDraftOver(p) ==
    /\ process[p].pc = "draft"
    /\ draft' = p
    /\ GoTo(p, "record")
    /\ UNCHANGED <<admission, envelope, job, digest, output, record, told, faults>>

\* persist_generation_structured_draft: the draft holds the instant it was
\* built, so that the draft of another execution is always other content.
PutDraft(p) ==
    /\ process[p].pc = "draft"
    /\ IF draft = Nothing
       THEN draft' = p /\ GoTo(p, "record")
       ELSE Raised(p, "permanent") /\ UNCHANGED draft
    /\ UNCHANGED <<admission, envelope, job, digest, output, record, told, faults>>

\* Mutant: an upsert, the last writer of the outcome wins.
SaveOver(p) ==
    /\ process[p].pc = "record"
    /\ record' = [status |-> process[p].status, text |-> process[p].text,
                  draft |-> IF process[p].status = "COMPLETED" THEN p ELSE Nothing]
    /\ GoTo(p, "mark")
    /\ UNCHANGED <<admission, envelope, job, digest, output, draft, told, faults>>

\* GenerationRuntimeRepository.save: INSERT ON CONFLICT DO NOTHING, then the
\* stored row is compared, created_at included, with the one to be saved.
Save(p) ==
    /\ process[p].pc = "record"
    /\ IF record = NoRecord
       THEN /\ record' = [status |-> process[p].status, text |-> process[p].text,
                          draft |-> IF process[p].status = "COMPLETED" THEN p ELSE Nothing]
            /\ GoTo(p, "mark")
       ELSE Raised(p, "permanent") /\ UNCHANGED record
    /\ UNCHANGED <<admission, envelope, job, digest, output, draft, told, faults>>

\* What a process does once the outcome is durable.
Persisted(p) ==
    CASE p \in Requests -> Idle
      [] p \in Workers /\ process[p].status = "COMPLETED" ->
            [Idle EXCEPT !.pc = "after"]
      [] p \in Workers /\ process[p].failure \in {"transient", "permanent"} ->
            [Idle EXCEPT !.pc = "settling", !.failure = process[p].failure]
      [] OTHER -> Idle

\* Mutant: the admission is closed whatever the outcome was.
MarkTerminalCompleted(p) ==
    /\ process[p].pc = "mark"
    /\ admission' = [admission EXCEPT !.status = "COMPLETED"]
    /\ Become(p, Persisted(p))
    /\ told' = IF p \in Requests THEN [told EXCEPT ![p] = process[p].status] ELSE told
    /\ UNCHANGED <<job, digest, stores, faults>>

\* mark_terminal: an open admission takes the status, a closed one has it.
MarkTerminal(p) ==
    /\ process[p].pc = "mark"
    /\ IF admission.status \in {"IN_PROGRESS", process[p].status}
       THEN /\ admission' = [admission EXCEPT !.status = process[p].status]
            /\ Become(p, Persisted(p))
            /\ told' = IF p \in Requests THEN [told EXCEPT ![p] = process[p].status] ELSE told
       ELSE Raised(p, "permanent") /\ UNCHANGED <<admission, told>>
    /\ UNCHANGED <<job, digest, stores, faults>>

Persist(p) == PutOutput(p) \/ PutDraft(p) \/ Save(p) \/ MarkTerminal(p)

----------------------------------------------------------------------------
(* GroundedGenerationRuntime.admit and the two routes that call it.        *)

\* What NEW and RECLAIMED lead to.
Admitted(h) == IF h \in AsyncRequests THEN "envelope" ELSE "calling"

\* reserve: NEW inserts the row, RECLAIMED takes over an open one whose lease
\* has expired, and every other request goes on to look for a record.
Reserve(h) ==
    /\ process[h].pc = "idle"
    /\ IF admission.status = "none" \/ (admission.status = "IN_PROGRESS" /\ ~admission.leased)
       THEN /\ admission' = [status |-> "IN_PROGRESS", leased |-> TRUE]
            /\ GoTo(h, Admitted(h))
       ELSE GoTo(h, "reserved") /\ UNCHANGED admission
    /\ UNCHANGED <<job, digest, stores, told, faults>>

\* The record is replayed once its admission is closed; without one an
\* asynchronous request joins and a synchronous one is told in_progress.
Resolve(h) ==
    /\ process[h].pc = "reserved"
    /\ IF record # NoRecord
       THEN Become(h, [process[h] EXCEPT !.pc = "mark", !.status = record.status])
       ELSE IF h \in AsyncRequests THEN GoTo(h, "envelope") ELSE Become(h, Idle)
    /\ UNCHANGED <<admission, job, digest, stores, told, faults>>

\* Mutant: a later request replaces the envelope.
PutEnvelopeOver(h) ==
    /\ process[h].pc = "envelope"
    /\ envelope' = h
    /\ GoTo(h, "enqueue")
    /\ UNCHANGED <<admission, job, digest, output, draft, record, told, faults>>

\* persist_generation_request_envelope: the text holds the request_id, so
\* that only the request that stored it can store it again.
PutEnvelope(h) ==
    /\ process[h].pc = "envelope"
    /\ IF envelope \in {Nothing, h}
       THEN envelope' = h /\ GoTo(h, "enqueue")
       ELSE Become(h, Idle) /\ UNCHANGED envelope
    /\ UNCHANGED <<admission, job, digest, output, draft, record, told, faults>>

\* enqueue returns the job the key already has, whatever its status;
\* _assert_same_envelope only chooses between answer and conflict.
Enqueue(h) ==
    /\ process[h].pc = "enqueue"
    /\ IF job.status = "NONE"
       THEN job' = GenerationJob /\ digest' = h
       ELSE UNCHANGED <<job, digest>>
    /\ Become(h, Idle)
    /\ UNCHANGED <<admission, stores, told, faults>>

\* The synchronous route calls the provider once; an error is persisted.
CallSync(h) ==
    /\ h \in SyncRequests
    /\ process[h].pc = "calling"
    /\ \/ \E x \in Texts : PersistCompleted(h, x)
       \/ PersistFailed(h, "none")
    /\ UNCHANGED <<admission, job, digest, stores, told, faults>>

\* 120 seconds after the last reserve; nothing renews the lease.
LeaseExpires ==
    /\ admission.status = "IN_PROGRESS"
    /\ admission.leased
    /\ admission' = [admission EXCEPT !.leased = FALSE]
    /\ UNCHANGED <<job, digest, stores, process, told, faults>>

----------------------------------------------------------------------------
(* The worker: run_bounded_worker_batch around AsyncGenerationWorkerHandler.*)

OnlyProcess == UNCHANGED <<admission, job, digest, stores, told, faults>>

Claim(w) ==
    /\ process[w].pc = "idle"
    /\ IsClaimable(job, job.job_type, 0)
    /\ job' = Transitioned(job, "RUNNING", w, 0)
    /\ GoTo(w, "starting")
    /\ UNCHANGED <<admission, digest, stores, told, faults>>

\* Where a checkpoint that finds the job RUNNING leads.
AfterCheckpoint ==
    [starting |-> "loading", loaded |-> "calling", called |-> "validating",
     repaired |-> "revalidating", after |-> "completing"]

\* CxCancellationToken.checkpoint.  Inside the handler a cancellation is
\* finalized; the checkpoints around the handler only end the execution.
Checkpoint(w) ==
    /\ process[w].pc \in DOMAIN AfterCheckpoint
    /\ IF job.status = "RUNNING" THEN GoTo(w, AfterCheckpoint[process[w].pc])
       ELSE IF job.status = "CANCELLED" /\ process[w].pc \notin {"starting", "after"}
            THEN PersistFailed(w, "cancelled")
            ELSE Become(w, Idle)
    /\ OnlyProcess

\* get_job and load_generation_request_envelope.  Until the envelope is
\* loaded, _finalize_if_ready has nothing to persist a failure with.
Load(w) ==
    /\ process[w].pc = "loading"
    /\ Become(w, [process[w] EXCEPT !.pc = "loaded",
                                    !.last = job.attempt_count >= job.max_attempts])
    /\ OnlyProcess

\* should_finalize_generation_failure.
Fail(w, failure) ==
    IF failure = "permanent" \/ process[w].last
    THEN PersistFailed(w, failure) ELSE Raised(w, failure)

\* create_generation, the first time or for the one citation repair.
CallProvider(w) ==
    /\ process[w].pc \in {"calling", "repairing"}
    /\ \/ GoTo(w, IF process[w].pc = "calling" THEN "called" ELSE "repaired")
       \/ \E f \in {"transient", "permanent"} : Fail(w, f)
    /\ OnlyProcess

\* The answer is accepted, worth one repair, or refused.
Validate(w) ==
    /\ process[w].pc \in {"validating", "revalidating"}
    /\ \/ \E x \in Texts : PersistCompleted(w, x)
       \/ process[w].pc = "validating" /\ GoTo(w, "repairing")
       \/ \E f \in {"transient", "permanent"} : Fail(w, f)
    /\ OnlyProcess

\* complete_job and settle_worker_failure, as in WorkerExecution.
Complete(w) ==
    /\ process[w].pc = "completing"
    /\ IF job.status \in {"RUNNING", "SUCCEEDED"}
       THEN /\ job' = IF job.status = "RUNNING"
                      THEN Transitioned(job, "SUCCEEDED", NoWorker, 0) ELSE job
            /\ Become(w, Idle)
       ELSE Raised(w, "transient") /\ UNCHANGED job
    /\ UNCHANGED <<admission, digest, stores, told, faults>>

Settle(w) ==
    /\ process[w].pc = "settling"
    /\ job' = IF job.status # "RUNNING" THEN job
              ELSE IF process[w].failure = "transient" THEN Retried(job, 0)
              ELSE DeadLettered(job, 0)
    /\ Become(w, Idle)
    /\ UNCHANGED <<admission, digest, stores, told, faults>>

Work(w) ==
    Claim(w) \/ Checkpoint(w) \/ Load(w) \/ CallProvider(w) \/ Validate(w)
    \/ Complete(w) \/ Settle(w)

----------------------------------------------------------------------------
(* Cancellation, operators and recovery.                                   *)

\* The cancel route reads the job and cancels it in another transaction.
BeginCancel(c) ==
    /\ process[c].pc = "idle"
    /\ job.status # "NONE"
    /\ Become(c, [process[c] EXCEPT !.pc = "cancelling", !.seen = job.status])
    /\ OnlyProcess

\* cancel_job answers for a CANCELLED job and refuses another terminal one;
\* the status that was read decides whether the generation is closed too.
Cancel(c) ==
    /\ process[c].pc = "cancelling"
    /\ IF CanTransition(job, "CANCELLED") \/ job.status = "CANCELLED"
       THEN /\ job' = IF job.status = "CANCELLED" THEN job
                      ELSE Transitioned(job, "CANCELLED", NoWorker, 0)
            /\ IF process[c].seen = "QUEUED" THEN PersistFailed(c, "cancelled")
                                             ELSE Become(c, Idle)
       ELSE Become(c, Idle) /\ UNCHANGED job
    /\ UNCHANGED <<admission, digest, stores, told, faults>>

\* job_control and worker_operations know nothing of the generation.
OperatorCancel ==
    /\ "cancel" \in Operators
    /\ CanTransition(job, "CANCELLED")
    /\ job' = Transitioned(job, "CANCELLED", NoWorker, 0)
    /\ UNCHANGED <<admission, digest, stores, process, told, faults>>

OperatorRetry ==
    /\ "retry" \in Operators
    /\ job.status = "RUNNING"
    /\ job' = Retried(job, 0)
    /\ UNCHANGED <<admission, digest, stores, process, told, faults>>

\* recover_persisted_async_generation_job loads the envelope.
BeginRecovery(r) ==
    /\ process[r].pc = "idle"
    /\ job.status = "RUNNING"
    /\ GoTo(r, "recovering")
    /\ OnlyProcess

\* Mutant: recovery leaves a job without attempts alone.
RecoverRetryable(r) ==
    /\ process[r].pc = "recovering"
    /\ job' = IF job.status = "RUNNING" /\ CanRetry(job) THEN Requeued(job, 0) ELSE job
    /\ Become(r, Idle)
    /\ UNCHANGED <<admission, digest, stores, told, faults>>

\* recover_expired_async_generation_job: the job is settled first, and the
\* generation is closed after the job has been dead-lettered.
Recover(r) ==
    /\ process[r].pc = "recovering"
    /\ IF job.status = "RUNNING"
       THEN /\ job' = Retried(job, 0)
            /\ IF CanRetry(job) THEN Become(r, Idle) ELSE PersistFailed(r, "transient")
       ELSE Become(r, Idle) /\ UNCHANGED job
    /\ UNCHANGED <<admission, digest, stores, told, faults>>

----------------------------------------------------------------------------
(* Faults.                                                                 *)

Fault(kind) ==
    /\ kind \in Faults
    /\ faults < MaxFaults
    /\ faults' = faults + 1

\* The process is gone, whatever it was doing.
Crash(p) ==
    /\ Fault("crash")
    /\ process[p].pc # "idle"
    /\ Become(p, Idle)
    /\ UNCHANGED <<admission, job, digest, stores, told>>

\* A store of a worker is unavailable (503, retryable).  The step may have
\* been committed, which matters for the last one only: elsewhere it is the
\* outage of the step that follows.  Other processes answer with an error,
\* which is no different from a crash.
Outage(w) ==
    /\ Fault("outage")
    /\ process[w].pc \in Persisting \cup {"loading", "completing"}
    /\ \/ UNCHANGED admission
       \/ /\ process[w].pc = "mark" /\ admission.status = "IN_PROGRESS"
          /\ admission' = [admission EXCEPT !.status = process[w].status]
    /\ Raised(w, "transient")
    /\ UNCHANGED <<job, digest, stores, told>>

----------------------------------------------------------------------------

Next ==
    \/ \E p \in Processes : Persist(p) \/ Crash(p)
    \/ \E h \in Requests : Reserve(h) \/ Resolve(h) \/ CallSync(h)
    \/ \E h \in AsyncRequests : PutEnvelope(h) \/ Enqueue(h)
    \/ LeaseExpires
    \/ \E w \in Workers : Work(w) \/ Outage(w)
    \/ \E c \in Cancellers : BeginCancel(c) \/ Cancel(c)
    \/ OperatorCancel \/ OperatorRetry
    \/ \E r \in Recoverers : BeginRecovery(r) \/ Recover(r)

Spec == Init /\ [][Next]_vars

----------------------------------------------------------------------------
(* Safety.                                                                 *)

\* mark_terminal after save: a closed admission always has the status of the
\* durable record, whichever routes, workers and recoveries raced to close
\* it, so that no request is ever told terminal_record_missing (503).
AdmissionAgrees ==
    admission.status \in Outcomes => record.status = admission.status

\* persist_completed: what a completed record points to is what the private
\* stores hold, although each of the three is written by itself and several
\* executions may be between the puts.
RecordMatchesStores ==
    record.status = "COMPLETED" =>
        record.text = output /\ output # Nothing /\ record.draft = draft /\ draft # Nothing

\* build_generation_handoff: a SUCCEEDED job can be handed off at once, its
\* generation is closed as COMPLETED and never answers result_pending.
SucceededIsReady ==
    job.status = "SUCCEEDED" =>
        record.status = "COMPLETED" /\ admission.status = "COMPLETED"

\* _assert_same_envelope never fails after a successful put, and the worker
\* finds the envelope its job was created for.
EnvelopeMatchesJob ==
    /\ job.status # "NONE" => digest # Nothing /\ digest = envelope
    /\ \A h \in AsyncRequests : process[h].pc = "enqueue" => envelope = h

Durable == INSTANCE DurableOutcome WITH
    outcome <- record.status, told <- told

\* Requests under one key, replayed by either route, are all told the same
\* outcome, and it is the one that was decided first.
OneOutcome == Durable!Spec

----------------------------------------------------------------------------
(* Liveness.                                                               *)

\* A worker polls and its execution proceeds, reconciliation comes back to a
\* RUNNING job until it is settled, and a cancel that began is served.
\* Clients and operators owe nothing.
Fairness ==
    /\ \A w \in Workers : WF_vars(Work(w)) /\ WF_vars(Persist(w))
    /\ \A r \in Recoverers : WF_vars(BeginRecovery(r) \/ Recover(r)) /\ WF_vars(Persist(r))
    /\ \A c \in Cancellers : WF_vars(Cancel(c)) /\ WF_vars(Persist(c))

LiveSpec == Spec /\ Fairness

\* Whatever crashes and outages do, a job that was enqueued ends.
JobEnds ==
    job.status \in {"QUEUED", "RUNNING"} ~> job.status \in TERMINAL_JOB_STATUSES
=============================================================================
