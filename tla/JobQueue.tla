------------------------------ MODULE JobQueue ------------------------------
(***************************************************************************)
(* SqlAlchemyJobQueue (nex_runtime/jobs.py) on PostgreSQL and the operator *)
(* routes of nex_runtime/job_control.py.                                   *)
(*                                                                         *)
(* Each operation is one transaction.  Two of them are split where another *)
(* transaction can come between their statements: an enqueue reads before  *)
(* it inserts, and a claim holds the row lock of its candidate until it    *)
(* commits.  The others take the row lock first (SELECT ... FOR UPDATE),   *)
(* so they wait for a claim that holds it and are otherwise atomic.        *)
(***************************************************************************)
EXTENDS JobRecord

CONSTANTS
    Callers,        \* services and operators that enqueue or replay
    MaxAttempts,    \* bound: the largest max_attempts a caller asks for
    MaxTime         \* bound: the last instant of the clock

ASSUME QueueAssumption ==
    /\ MaxAttempts \in Nat \ {0}
    /\ MaxTime \in Nat
    /\ JobTypes # {}
    /\ Keys # {}

VARIABLES
    jobs,       \* the table service_jobs
    call,       \* per caller: the enqueue transaction in flight and the last answer
    claim,      \* per worker: the row its open claim transaction has locked
    now         \* the clock

vars == <<jobs, call, claim, now>>

NoClaim == [job |-> NoJob, at |-> 0]

AbsentJob ==
    [NewJob(CHOOSE y \in JobTypes : TRUE, CHOOSE k \in Keys : TRUE, 1, TRUE, 0, NoJob)
        EXCEPT !.status = "NONE"]

\* step "insert": the selects of _enqueue found nothing and the INSERT is next.
Call == [step  : {"idle", "insert"},
         job   : JobIds \cup {NoJob},
         row   : Job,
         result: {"none", "stored", "existing", "duplicate_id"},
         answer: JobIds \cup {NoJob}]

\* The variables have their types, and no row breaks the CHECK constraint
\* ck_service_jobs_attempts (attempt_count <= max_attempts).
TypeOK ==
    /\ jobs \in [JobIds -> Job]
    /\ \A j \in JobIds : jobs[j].attempt_count <= jobs[j].max_attempts
    /\ call \in [Callers -> Call]
    /\ claim \in [Workers -> [job : JobIds \cup {NoJob}, at : 0..MaxTime]]
    /\ now \in 0..MaxTime

Init ==
    /\ jobs = [j \in JobIds |-> AbsentJob]
    /\ call = [c \in Callers |-> [step |-> "idle", job |-> NoJob, row |-> AbsentJob,
                                  result |-> "none", answer |-> NoJob]]
    /\ claim = [w \in Workers |-> NoClaim]
    /\ now = 0

Exists(j) == jobs[j].status # "NONE"

SameKey(a, b) == a.job_type = b.job_type /\ a.key = b.key

\* Mutant: SELECT without FOR UPDATE / SKIP LOCKED.
RowFreeUnlocked(j) == j \in JobIds

\* No open claim transaction holds the row lock of j.
RowFree(j) == \A w \in Workers : claim[w].job # j

Tick ==
    /\ now < MaxTime
    /\ now' = now + 1
    /\ UNCHANGED <<jobs, call, claim>>

----------------------------------------------------------------------------
(* Enqueue.                                                                *)

\* What the caller was told about the row it asked to store: of the request
\* only the key and the refused id are remembered.
Answered(row, result, refused, answer) ==
    [step |-> "idle", job |-> refused,
     row |-> [AbsentJob EXCEPT !.job_type = row.job_type, !.key = row.key],
     result |-> result, answer |-> answer]

\* The statements of _enqueue up to the INSERT.
EnqueueSelect(c, j, row) ==
    /\ call[c].step = "idle"
    /\ \/ \E e \in JobIds :
            /\ Exists(e) /\ SameKey(jobs[e], row)
            /\ call' = [call EXCEPT ![c] = Answered(row, "existing", NoJob, e)]
       \/ /\ \A e \in JobIds : ~(Exists(e) /\ SameKey(jobs[e], row))
          /\ Exists(j)
          /\ call' = [call EXCEPT ![c] = Answered(row, "duplicate_id", j, NoJob)]
       \/ /\ \A e \in JobIds : ~(Exists(e) /\ SameKey(jobs[e], row))
          /\ ~Exists(j)
          /\ call' = [call EXCEPT ![c] = [step |-> "insert", job |-> j, row |-> row,
                                          result |-> "none", answer |-> NoJob]]
    /\ UNCHANGED <<jobs, claim, now>>

\* Mutants: the unique index, or the primary key, is missing.
ConflictsById(j, row) == Exists(j)
ConflictsByKey(j, row) == \E e \in JobIds : Exists(e) /\ SameKey(jobs[e], row)

\* The primary key or ux_service_jobs_idempotency refuses the row.
Conflicts(j, row) ==
    Exists(j) \/ \E e \in JobIds : Exists(e) /\ SameKey(jobs[e], row)

\* The INSERT commits, or IntegrityError becomes job.duplicate_id.
EnqueueInsert(c) ==
    /\ call[c].step = "insert"
    /\ LET j == call[c].job
           row == call[c].row
       IN  \/ /\ ~Conflicts(j, row)
              /\ jobs' = [jobs EXCEPT ![j] = row]
              /\ call' = [call EXCEPT ![c] = Answered(row, "stored", NoJob, j)]
           \/ /\ Conflicts(j, row)
              /\ call' = [call EXCEPT ![c] = Answered(row, "duplicate_id", j, NoJob)]
              /\ UNCHANGED jobs
    /\ UNCHANGED <<claim, now>>

Enqueue(c, j) ==
    \E y \in JobTypes, k \in Keys, m \in 1..MaxAttempts, r \in BOOLEAN :
        EnqueueSelect(c, j, NewJob(y, k, m, r, now, NoJob))

\* replay_service_job: the source is read and planned, then enqueued.  The
\* source row is terminal, so reading it together with the selects is exact.
Replay(c, source, j) ==
    /\ CanReplay(jobs[source])
    /\ \E k \in Keys :
        EnqueueSelect(c, j, NewJob(jobs[source].job_type, k, jobs[source].max_attempts,
                                   TRUE, now, source))

----------------------------------------------------------------------------
(* Claim.                                                                  *)

\* _select_claim_candidate: the first claimable row that SKIP LOCKED leaves.
IsCandidate(j, y) ==
    /\ RowFree(j)
    /\ IsClaimable(jobs[j], y, now)
    /\ \A e \in JobIds :
        RowFree(e) /\ IsClaimable(jobs[e], y, now) => ~ClaimsBefore(jobs[e], jobs[j])

ClaimSelect(w, y) ==
    /\ claim[w] = NoClaim
    /\ \E j \in JobIds :
        /\ IsCandidate(j, y)
        /\ claim' = [claim EXCEPT ![w] = [job |-> j, at |-> now]]
    /\ UNCHANGED <<jobs, call, now>>

ClaimCommit(w) ==
    /\ claim[w] # NoClaim
    /\ jobs' = [jobs EXCEPT ![claim[w].job] =
                    Transitioned(@, "RUNNING", w, claim[w].at)]
    /\ claim' = [claim EXCEPT ![w] = NoClaim]
    /\ UNCHANGED <<call, now>>

\* The session is rolled back, or its connection is lost.
ClaimRollback(w) ==
    /\ claim[w] # NoClaim
    /\ claim' = [claim EXCEPT ![w] = NoClaim]
    /\ UNCHANGED <<jobs, call, now>>

----------------------------------------------------------------------------
(* Operations by job id.  None of them names the worker that asks.         *)

Write(j, row) ==
    /\ RowFree(j)
    /\ jobs' = [jobs EXCEPT ![j] = row]
    /\ UNCHANGED <<call, claim, now>>

\* start_job, complete_job, fail_job and cancel_job.
TransitionJob(j, status) ==
    /\ CanTransition(jobs[j], status)
    /\ Write(j, Transitioned(jobs[j], status, NoWorker, now))

\* retry_job; an operator may supply the instant of the failure.
RetryJob(j) ==
    /\ jobs[j].status = "RUNNING"
    /\ \E t \in 0..MaxTime : Write(j, Retried(jobs[j], t))

DeadLetterJob(j) ==
    /\ jobs[j].status = "RUNNING"
    /\ Write(j, DeadLettered(jobs[j], now))

----------------------------------------------------------------------------
Next ==
    \/ Tick
    \/ \E c \in Callers :
        \/ EnqueueInsert(c)
        \/ \E j \in JobIds : Enqueue(c, j)
        \/ \E source, j \in JobIds : Replay(c, source, j)
    \/ \E w \in Workers :
        \/ ClaimCommit(w)
        \/ ClaimRollback(w)
        \/ \E y \in JobTypes : ClaimSelect(w, y)
    \/ \E j \in JobIds :
        \/ RetryJob(j)
        \/ DeadLetterJob(j)
        \/ \E s \in JOB_STATUSES \ {"QUEUED"} : TransitionJob(j, s)

Spec == Init /\ [][Next]_vars

----------------------------------------------------------------------------
(* Properties.                                                             *)

\* A QUEUED row can always be claimed once its time comes: it has an attempt
\* left, and a row that waits for a retry is still marked retryable.  A row
\* requeued with its budget spent would match no claim query ever again.
QueuedIsClaimable ==
    \A j \in JobIds : jobs[j].status = "QUEUED" =>
        /\ jobs[j].attempt_count < jobs[j].max_attempts
        /\ jobs[j].attempt_count > 0 => jobs[j].retryable

\* Until a claim commits, the row it selected stays the row it saw: no other
\* worker claims it and no cancel, retry or completion changes it.
ClaimIsCurrent ==
    \A w \in Workers : claim[w] # NoClaim =>
        /\ claim[w].job \in JobIds
        /\ CanTransition(jobs[claim[w].job], "RUNNING")
        /\ \A v \in Workers \ {w} : claim[v].job # claim[w].job

\* The lock columns name a worker only while the job runs, and the lock was
\* taken no later than now, so a lease computed from them never starts late.
LockMeansRunning ==
    \A j \in JobIds : jobs[j].locked_by # NoWorker =>
        jobs[j].status = "RUNNING" /\ jobs[j].locked_at <= now

\* A replay copies a job that is dead-lettered and stays so: the source is
\* still a dead letter of the same type and budget whatever happens to the copy.
LineageIsDeadLetter ==
    \A j \in JobIds : Exists(j) /\ jobs[j].lineage # NoJob =>
        LET source == jobs[jobs[j].lineage] IN
        /\ source.status = "FAILED" /\ source.error = "dead_lettered"
        /\ source.job_type = jobs[j].job_type
        /\ source.max_attempts = jobs[j].max_attempts

\* The dead-letter marker, which makes a row replayable, is on FAILED,
\* completed rows that refuse a retry and never on one that may still run, and
\* the source of every replay keeps it.
DeadLetterIsFinal ==
    /\ \A j \in JobIds : jobs[j].error = "dead_lettered" =>
        jobs[j].status = "FAILED" /\ ~jobs[j].retryable /\ jobs[j].completed
    /\ LineageIsDeadLetter

\* One row per (job_type, idempotency_key), whatever the callers race.
OneJobPerKey ==
    \A i, j \in JobIds : Exists(i) /\ Exists(j) /\ SameKey(jobs[i], jobs[j]) => i = j

\* A caller that got a job back got the one stored under the key it asked for.
AnswerHasKey ==
    \A c \in Callers : call[c].answer # NoJob =>
        Exists(call[c].answer) /\ SameKey(jobs[call[c].answer], call[c].row)

\* Every job behaves as JobLifecycle promises.
Lifecycle == INSTANCE JobLifecycle WITH
    phase <- [j \in JobIds |-> Phase(jobs[j])],
    used <- [j \in JobIds |-> jobs[j].attempt_count],
    budget <- [j \in JobIds |-> jobs[j].max_attempts]

\* The table implements the per-job promise: starts are counted against the
\* budget, a requeue needs an attempt left, terminal rows never change.
FollowsLifecycle == Lifecycle!Spec
=============================================================================
