----------------------------- MODULE JobRecord -----------------------------
(***************************************************************************)
(* One row of the table service_jobs and the pure functions of             *)
(* nex_runtime/jobs.py that compute the next row.  The module has no       *)
(* variable: JobQueue and the modules that compose the queue with workers  *)
(* apply these operators to their own tables.                              *)
(*                                                                         *)
(* Every timestamp is an integer.  A caller is free to choose the origin,  *)
(* so a module may keep an absolute clock or one that always reads 0.      *)
(* Left out of the row: trace, request, subject, links, payload and        *)
(* updated_at, which no decision of the queue reads.                       *)
(***************************************************************************)
EXTENDS Integers

CONSTANTS
    JobIds,         \* identifiers a caller may choose for a job
    JobTypes,       \* the job_type column
    Keys,           \* the idempotency_key column
    Workers,        \* worker ids that may appear in locked_by
    NoJob,          \* absent job reference
    NoWorker,       \* locked_by IS NULL
    InitialDelay,   \* JobRetryPolicy.initial_delay_seconds
    MaxDelay,       \* JobRetryPolicy.max_delay_seconds
    Multiplier      \* JobRetryPolicy.backoff_multiplier, whole numbers only

ASSUME RecordAssumption ==
    /\ NoJob \notin JobIds
    /\ NoWorker \notin Workers
    /\ InitialDelay \in Nat
    /\ MaxDelay \in Nat
    /\ InitialDelay <= MaxDelay
    /\ Multiplier \in Nat \ {0}

TERMINAL_JOB_STATUSES == {"SUCCEEDED", "FAILED", "CANCELLED"}
JOB_STATUSES == {"QUEUED", "RUNNING"} \cup TERMINAL_JOB_STATUSES

\* "NONE" marks an identifier with no row in the table.
Job == [status       : JOB_STATUSES \cup {"NONE"},
        job_type     : JobTypes,
        key          : Keys,
        attempt_count: Nat,
        max_attempts : Nat \ {0},
        retryable    : BOOLEAN,
        error        : {"none", "retry", "dead_lettered"},
        available_at : Int,
        created_at   : Int,
        locked_by    : Workers \cup {NoWorker},
        locked_at    : Int,
        completed    : BOOLEAN,
        lineage      : JobIds \cup {NoJob}]

\* build_common_job followed by the columns _job_insert_params defaults.
NewJob(type, key, max, retryable, t, source) ==
    [status |-> "QUEUED", job_type |-> type, key |-> key,
     attempt_count |-> 0, max_attempts |-> max, retryable |-> retryable,
     error |-> "none", available_at |-> t, created_at |-> t,
     locked_by |-> NoWorker, locked_at |-> 0,
     completed |-> FALSE, lineage |-> source]

----------------------------------------------------------------------------
(* Status transitions.                                                     *)

\* Mutant: a cancelled job may be started again.
ReopeningTransitions ==
    {<<s, "RUNNING">> : s \in {"QUEUED", "CANCELLED"}} \cup
    {<<"QUEUED", "CANCELLED">>} \cup
    {<<"RUNNING", s>> : s \in TERMINAL_JOB_STATUSES}

VALID_JOB_TRANSITIONS ==
    {<<"QUEUED", "RUNNING">>, <<"QUEUED", "CANCELLED">>} \cup
    {<<"RUNNING", s>> : s \in TERMINAL_JOB_STATUSES}

\* The transition changes the row; the equal-status request is a no-op in
\* transition_common_job and every other one raises job.transition_invalid
\* or job.attempts_exhausted.
CanTransition(job, status) ==
    /\ <<job.status, status>> \in VALID_JOB_TRANSITIONS
    /\ status = "RUNNING" => job.attempt_count < job.max_attempts

\* Mutant: the claim counts the attempt a second time.
TransitionedTwice(job, status, worker, t) ==
    [job EXCEPT !.status = status,
                !.attempt_count = IF status = "RUNNING" THEN @ + 2 ELSE @,
                !.completed = @ \/ status \in TERMINAL_JOB_STATUSES,
                !.locked_by = IF status \in TERMINAL_JOB_STATUSES THEN NoWorker ELSE worker]

\* Mutant: the claim does not store its worker.
TransitionedUnlocked(job, status, worker, t) ==
    [job EXCEPT !.status = status,
                !.attempt_count = IF status = "RUNNING" THEN @ + 1 ELSE @,
                !.completed = @ \/ status \in TERMINAL_JOB_STATUSES,
                !.locked_by = NoWorker, !.locked_at = 0]

\* transition_common_job as _update_job_transition stores it: a lock is
\* written only on the way to RUNNING, and a missing worker clears it.
Transitioned(job, status, worker, t) ==
    [job EXCEPT !.status = status,
                !.attempt_count = IF status = "RUNNING" THEN @ + 1 ELSE @,
                !.completed = @ \/ status \in TERMINAL_JOB_STATUSES,
                !.locked_by = IF status \in TERMINAL_JOB_STATUSES THEN NoWorker ELSE worker,
                !.locked_at = IF status \in TERMINAL_JOB_STATUSES \/ worker = NoWorker
                              THEN 0 ELSE t]

----------------------------------------------------------------------------
(* Retry, backoff and dead letter.                                         *)

\* Mutant: off by one, a job whose budget is spent is requeued.
CanRetryOnceMore(job) ==
    job.retryable /\ job.attempt_count <= job.max_attempts

CanRetry(job) ==
    job.retryable /\ job.attempt_count < job.max_attempts

\* initial * multiplier^n
Backoff[n \in Nat] == IF n = 0 THEN InitialDelay ELSE Multiplier * Backoff[n - 1]

\* min(initial * multiplier^(attempt - 1), max).
RetryDelay(attempts) ==
    LET raw == Backoff[IF attempts > 1 THEN attempts - 1 ELSE 0]
    IN  IF raw <= MaxDelay THEN raw ELSE MaxDelay

\* Mutant: the requeue gives the attempt back.
RequeuedRefunded(job, t) ==
    [job EXCEPT !.status = "QUEUED", !.retryable = TRUE, !.error = "retry",
                !.attempt_count = @ - 1, !.available_at = t + RetryDelay(job.attempt_count),
                !.locked_by = NoWorker, !.locked_at = 0, !.completed = FALSE]

\* Mutant: the requeue keeps the lock of the worker that failed.
RequeuedLocked(job, t) ==
    [job EXCEPT !.status = "QUEUED", !.error = "retry",
                !.available_at = t + RetryDelay(job.attempt_count)]

\* Mutant: the backoff is forgotten.
RequeuedAtOnce(job, t) ==
    [job EXCEPT !.status = "QUEUED", !.error = "retry", !.available_at = t,
                !.locked_by = NoWorker, !.locked_at = 0]

Requeued(job, t) ==
    [job EXCEPT !.status = "QUEUED",
                !.retryable = TRUE,
                !.error = "retry",
                !.available_at = t + RetryDelay(job.attempt_count),
                !.locked_by = NoWorker,
                !.locked_at = 0,
                !.completed = FALSE]

DeadLettered(job, t) ==
    [job EXCEPT !.status = "FAILED",
                !.retryable = FALSE,
                !.error = "dead_lettered",
                !.available_at = t,
                !.locked_by = NoWorker,
                !.locked_at = 0,
                !.completed = TRUE]

\* plan_job_retry applied by _update_job_retry_decision.
Retried(job, t) ==
    IF CanRetry(job) THEN Requeued(job, t) ELSE DeadLettered(job, t)

\* Mutant: require_dead_lettered is not enforced.
CanReplayAnyFailure(job) == job.status = "FAILED"

\* plan_dead_letter_replay under the default JobReplayPolicy.
CanReplay(job) ==
    job.status = "FAILED" /\ job.error = "dead_lettered"

----------------------------------------------------------------------------
(* Claim candidates.                                                       *)

IsClaimable(job, type, t) ==
    /\ job.status = "QUEUED"
    /\ job.job_type = type
    /\ job.available_at <= t
    /\ job.attempt_count < job.max_attempts

\* ORDER BY available_at, created_at; the last criterion, job_id, only
\* breaks ties between rows that no property tells apart.
ClaimsBefore(a, b) ==
    \/ a.available_at < b.available_at
    \/ a.available_at = b.available_at /\ a.created_at < b.created_at

----------------------------------------------------------------------------
(* The phase of JobLifecycle a row stands for.                             *)

Phase(job) ==
    CASE job.status = "NONE" -> "absent"
      [] job.status = "QUEUED" -> "waiting"
      [] job.status = "RUNNING" -> "active"
      [] job.status = "SUCCEEDED" -> "succeeded"
      [] job.status = "CANCELLED" -> "cancelled"
      [] job.status = "FAILED" -> IF job.error = "dead_lettered" THEN "dead_lettered" ELSE "failed"
=============================================================================
