--------------------------- MODULE IngestionWorker ---------------------------
(***************************************************************************)
(* Durable ingestion: admission, the worker that takes a run through its   *)
(* checkpoints (ingestion_worker.py), the recovery of expired leases, and  *)
(* operators who cancel and retry the job underneath.                      *)
(*                                                                         *)
(* A job and its run are rows of two stores that no transaction covers     *)
(* together.  Each transaction is one step; between two of them a process  *)
(* acts on the rows it read before, and it may die.  Time is relative, as  *)
(* in WorkerExecution.                                                     *)
(***************************************************************************)
EXTENDS IngestionRun

CONSTANTS
    Processes,      \* workers, and requests that recover a lease
    IdOf,           \* the worker_id of each process
    OperatorActions \* which of "cancel" and "retry" operators use

ASSUME IngestionAssumption ==
    /\ IdOf \in [Processes -> Workers]
    /\ OperatorActions \subseteq {"cancel", "retry"}
    /\ JobTypes # {} /\ Keys # {}

VARIABLES
    jobs,       \* the table service_jobs; a job id stands for its upload too
    runs,       \* the table cx_ingest_runs, by job_id
    proc,       \* per process: the execution or recovery in progress
    admission   \* per upload: how far admit_durable_ingestion got

vars == <<jobs, runs, proc, admission>>

AbsentJob ==
    [NewJob(CHOOSE y \in JobTypes : TRUE, CHOOSE k \in Keys : TRUE,
            MaxAttempts, TRUE, 0, NoJob) EXCEPT !.status = "NONE"]

\* attempt and run are the rows as they were last read; mine is the attempt of
\* the run this process claimed or found expired, which nothing reads.
Process == [pc      : {"down", "idle", "claimed", "found", "guard", "step", "completing", "failing",
                       "recording", "settling", "cancelling", "cancelled", "reading"},
            job     : JobIds \cup {NoJob},
            attempt : 0..MaxAttempts,
            run     : Run,
            id      : Workers \cup {NoWorker},
            at      : -MaxDelay..0,
            failure : {"none", "transient", "permanent"},
            mine    : Nat]

IdleProcess == [pc |-> "idle", job |-> NoJob, attempt |-> 0, run |-> AbsentRun,
                id |-> NoWorker, at |-> 0, failure |-> "none", mine |-> 0]

\* The variables have their types, a row's attempts stay within its budget and
\* a process that works on a job has claimed it at an attempt the row counted.
TypeOK ==
    /\ jobs \in [JobIds -> Job]
    /\ runs \in [JobIds -> Run]
    /\ proc \in [Processes -> Process]
    /\ admission \in [JobIds -> {"none", "enqueued", "admitted"}]
    /\ \A j \in JobIds : jobs[j].attempt_count <= jobs[j].max_attempts
    /\ \A p \in Processes : proc[p].pc # "idle" =>
        /\ proc[p].job # NoJob
        /\ proc[p].attempt \in 1..jobs[proc[p].job].attempt_count

Init ==
    /\ jobs = [j \in JobIds |-> AbsentJob]
    /\ runs = [j \in JobIds |-> AbsentRun]
    /\ proc = [p \in Processes |-> IdleProcess]
    /\ admission = [j \in JobIds |-> "none"]

----------------------------------------------------------------------------
(* Time.                                                                   *)

Earlier(t, floor) == IF t > floor THEN t - 1 ELSE floor

Expiry(run) ==
    IF run.lease_owner = NoWorker THEN 0 ELSE Earlier(run.lease_expires_at, -MaxDelay)

\* Bounds: the clock a worker reads for its claim is still current when it has
\* found and claimed the run, a recovery reads the run before its clock is more
\* than MaxDelay old, and later nothing tells that clock, or a lease of that
\* age, from an older one.
Tick ==
    /\ \A p \in Processes :
        /\ proc[p].pc \notin {"claimed", "found"}
        /\ proc[p].pc = "reading" => proc[p].at > -MaxDelay
    /\ jobs' = [j \in JobIds |-> [jobs[j] EXCEPT !.available_at = Earlier(@, 0)]]
    /\ runs' = [j \in JobIds |-> [runs[j] EXCEPT !.lease_expires_at = Expiry(runs[j]),
                                                 !.retry_at = Earlier(@, 0)]]
    /\ proc' = [p \in Processes |-> [proc[p] EXCEPT
                    !.at = IF proc[p].pc \in {"idle", "down"} THEN 0 ELSE Earlier(@, -MaxDelay)]]
    /\ UNCHANGED admission

----------------------------------------------------------------------------
(* admit_durable_ingestion: two idempotent writes, the job first.          *)

EnqueueJob(j) ==
    /\ admission[j] = "none"
    /\ admission' = [admission EXCEPT ![j] = "enqueued"]
    /\ jobs' = [jobs EXCEPT ![j] =
                    IF @.status = "NONE" THEN [@ EXCEPT !.status = "QUEUED"] ELSE @]
    /\ UNCHANGED <<runs, proc>>

CreateRun(j) ==
    /\ admission[j] = "enqueued"
    /\ admission' = [admission EXCEPT ![j] = "admitted"]
    /\ runs' = [runs EXCEPT ![j] = IF @.status = "NONE" THEN NewRun ELSE @]
    /\ UNCHANGED <<jobs, proc>>

\* The request dies between the writes, or the second one fails.
AbandonAdmission(j) ==
    /\ admission[j] = "enqueued"
    /\ admission' = [admission EXCEPT ![j] = "none"]
    /\ UNCHANGED <<jobs, runs, proc>>

----------------------------------------------------------------------------
(* The steps of a process.                                                 *)

Become(p, process) ==
    /\ proc' = [proc EXCEPT ![p] = process]
    /\ UNCHANGED admission

\* The call returns or raises; the rows stay as they are.
Stop(p) == Become(p, IdleProcess)

WriteRun(p, row) == runs' = [runs EXCEPT ![proc[p].job] = row]

\* Mutant: save does not compare the version.
CurrentAlways(p) == p \in Processes

\* UPDATE ... WHERE checkpoint_version = :expected_checkpoint_version finds
\* the row that was read.
Current(p) == runs[proc[p].job].checkpoint_version = proc[p].run.checkpoint_version

\* claim_next_job
Claim(p) ==
    /\ proc[p].pc = "idle"
    /\ \E j \in JobIds :
        /\ IsClaimable(jobs[j], jobs[j].job_type, 0)
        /\ jobs' = [jobs EXCEPT ![j] = Transitioned(@, "RUNNING", IdOf[p], 0)]
        /\ Become(p, [IdleProcess EXCEPT !.pc = "claimed", !.job = j, !.id = IdOf[p],
                                         !.attempt = jobs'[j].attempt_count])
    /\ UNCHANGED runs

\* find_by_job_id; a job without a run is failed.
FindRun(p) ==
    /\ proc[p].pc = "claimed"
    /\ LET run == runs[proc[p].job] IN
       IF run.status = "NONE"
       THEN Become(p, [proc[p] EXCEPT !.pc = "settling", !.failure = "permanent"])
       ELSE Become(p, [proc[p] EXCEPT !.pc = "found", !.run = run])
    /\ UNCHANGED <<jobs, runs>>

\* A WAITING_RETRY run is requeued first, if its deadline has passed.
RequeueRun(p) ==
    /\ proc[p].pc = "found" /\ proc[p].run.status = "WAITING_RETRY"
    /\ LET requeued == RequeuedRun(proc[p].run) IN
       \/ /\ proc[p].run.retry_at <= 0 /\ Current(p)
          /\ WriteRun(p, requeued)
          /\ Become(p, [proc[p] EXCEPT !.run = requeued])
       \/ /\ ~(proc[p].run.retry_at <= 0 /\ Current(p))
          /\ Stop(p)
          /\ UNCHANGED runs
    /\ UNCHANGED jobs

\* Only a QUEUED run can be claimed; anything else leaves the job RUNNING.
ClaimRun(p) ==
    /\ proc[p].pc = "found" /\ proc[p].run.status # "WAITING_RETRY"
    /\ LET claimed == Claimed(proc[p].run, proc[p].id, proc[p].at) IN
       \/ /\ proc[p].run.status = "QUEUED" /\ Current(p)
          /\ WriteRun(p, claimed)
          /\ Become(p, [proc[p] EXCEPT !.pc = "guard", !.run = claimed,
                                       !.mine = claimed.attempt_count])
       \/ /\ ~(proc[p].run.status = "QUEUED" /\ Current(p))
          /\ Stop(p)
          /\ UNCHANGED runs
    /\ UNCHANGED jobs

\* _require_job_active before every checkpoint.
Guard(p) ==
    /\ proc[p].pc = "guard"
    /\ LET status == jobs[proc[p].job].status IN
       CASE status = "RUNNING"   -> Become(p, [proc[p] EXCEPT !.pc = "step"])
         [] status = "CANCELLED" -> Become(p, [proc[p] EXCEPT !.pc = "cancelling"])
         [] OTHER                -> Stop(p)
    /\ UNCHANGED <<jobs, runs>>

Failing(p, failure) ==
    Become(p, [proc[p] EXCEPT !.pc = "failing", !.failure = failure])

\* execute_ingestion_checkpoint: the handler's error says whether it may be
\* retried, a stale version may not, an unavailable store may, and its save
\* may have been committed all the same.
RunStep(p) ==
    /\ proc[p].pc = "step"
    /\ LET passed == StepCompleted(proc[p].run) IN
       \/ /\ Current(p)
          /\ WriteRun(p, passed)
          /\ \/ Become(p, [proc[p] EXCEPT !.run = passed,
                    !.pc = IF passed.status = "SUCCEEDED" THEN "completing" ELSE "guard"])
             \/ Failing(p, "transient")
       \/ /\ ~Current(p)
          /\ Failing(p, "permanent")
          /\ UNCHANGED runs
       \/ /\ \E failure \in {"transient", "permanent"} : Failing(p, failure)
          /\ UNCHANGED runs
    /\ UNCHANGED jobs

\* Mutant: the job is completed as soon as the last checkpoint is attempted.
CompleteEarly(p) ==
    /\ proc[p].pc \in {"step", "completing"}
    /\ jobs' = [jobs EXCEPT ![proc[p].job] =
                    IF @.status = "RUNNING"
                    THEN Transitioned(@, "SUCCEEDED", NoWorker, 0) ELSE @]
    /\ Stop(p)
    /\ UNCHANGED runs

\* complete_job
Complete(p) ==
    /\ proc[p].pc = "completing"
    /\ jobs' = [jobs EXCEPT ![proc[p].job] =
                    IF @.status = "RUNNING"
                    THEN Transitioned(@, "SUCCEEDED", NoWorker, 0) ELSE @]
    /\ Stop(p)
    /\ UNCHANGED runs

----------------------------------------------------------------------------
(* Failure, cancellation and recovery.                                     *)

\* Mutant: the failure is recorded on the copy that the step started from.
ReadFailedStale(p) ==
    /\ proc[p].pc = "failing"
    /\ Become(p, [proc[p] EXCEPT !.pc = "recording"])
    /\ UNCHANGED <<jobs, runs>>

\* The run is read again before the failure is recorded.
ReadFailed(p) ==
    /\ proc[p].pc = "failing"
    /\ Become(p, [proc[p] EXCEPT !.pc = "recording", !.run = runs[proc[p].job]])
    /\ UNCHANGED <<jobs, runs>>

\* plan_job_retry on the job as it was claimed or read.
MayRetry(process) == process.failure = "transient" /\ process.attempt < MaxAttempts

\* _record_worker_failure saves the run first, under the worker id of the
\* execution or of the owner whose lease expired.
RecordFailure(p) ==
    /\ proc[p].pc = "recording"
    /\ LET retry == MayRetry(proc[p])
           failed == StepFailed(proc[p].run, retry, proc[p].at + RetryDelay(proc[p].attempt))
       IN  \/ /\ HasLease(proc[p].run, proc[p].id) /\ Current(p)
              /\ WriteRun(p, failed)
              /\ Become(p, [proc[p] EXCEPT !.pc = "settling", !.run = failed,
                        !.failure = IF retry THEN "transient" ELSE "permanent"])
           \/ /\ ~(HasLease(proc[p].run, proc[p].id) /\ Current(p))
              /\ Stop(p)
              /\ UNCHANGED runs
    /\ UNCHANGED jobs

\* Then the job, which plans its own retry: retry_job or fail_job, and both
\* refuse a row that is not RUNNING.
SettleJob(p) ==
    /\ proc[p].pc = "settling"
    /\ jobs' = [jobs EXCEPT ![proc[p].job] =
            IF @.status # "RUNNING" THEN @
            ELSE IF proc[p].failure = "transient" THEN Retried(@, proc[p].at)
            ELSE Transitioned(@, "FAILED", NoWorker, 0)]
    /\ Stop(p)
    /\ UNCHANGED runs

\* _settle_worker_cancellation reads the run again and cancels it, lease or not.
ReadCancelled(p) ==
    /\ proc[p].pc = "cancelling"
    /\ Become(p, [proc[p] EXCEPT !.pc = "cancelled", !.run = runs[proc[p].job]])
    /\ UNCHANGED <<jobs, runs>>

CancelRun(p) ==
    /\ proc[p].pc = "cancelled"
    /\ IF proc[p].run.status \notin TERMINAL_INGESTION_RUN_STATUSES /\ Current(p)
       THEN WriteRun(p, CancelledRun(proc[p].run))
       ELSE UNCHANGED runs
    /\ Stop(p)
    /\ UNCHANGED jobs

\* recover_expired_ingestion_job, from the start of a worker process, the
\* recovery route or the reconciliation handler: the job is read first.
Recover(p, j) ==
    /\ proc[p].pc = "idle"
    /\ jobs[j].status = "RUNNING"
    /\ Become(p, [IdleProcess EXCEPT !.pc = "reading", !.job = j,
                                     !.attempt = jobs[j].attempt_count])
    /\ UNCHANGED <<jobs, runs>>

LeaseDue(run, at) == run.lease_expires_at <= at

FindExpired(p) ==
    /\ proc[p].pc = "reading"
    /\ LET run == runs[proc[p].job] IN
       IF run.status = "RUNNING" /\ LeaseDue(run, proc[p].at)
       THEN Become(p, [proc[p] EXCEPT !.pc = "recording", !.run = run, !.failure = "transient",
                                      !.id = run.lease_owner, !.mine = run.attempt_count])
       ELSE Stop(p)
    /\ UNCHANGED <<jobs, runs>>

\* The process is killed, or an unavailable store ends it in its work.
Crash(p) ==
    /\ proc[p].pc \notin {"idle", "down"}
    /\ Become(p, [IdleProcess EXCEPT !.pc = "down", !.job = proc[p].job,
                                     !.attempt = proc[p].attempt])
    /\ UNCHANGED <<jobs, runs>>

\* It is started again; what startup recovers is a Recover of its own.
Restart(p) ==
    /\ proc[p].pc = "down"
    /\ Stop(p)
    /\ UNCHANGED <<jobs, runs>>

----------------------------------------------------------------------------
(* Operators act on the job only.                                          *)

OperatorCancel(j) ==
    /\ "cancel" \in OperatorActions
    /\ CanTransition(jobs[j], "CANCELLED")
    /\ jobs' = [jobs EXCEPT ![j] = Transitioned(@, "CANCELLED", NoWorker, 0)]
    /\ UNCHANGED <<runs, proc, admission>>

OperatorRetry(j) ==
    /\ "retry" \in OperatorActions
    /\ jobs[j].status = "RUNNING"
    /\ jobs' = [jobs EXCEPT ![j] = Retried(@, 0)]
    /\ UNCHANGED <<runs, proc, admission>>

----------------------------------------------------------------------------
Work(p) ==
    \/ FindRun(p) \/ RequeueRun(p) \/ ClaimRun(p) \/ Guard(p) \/ RunStep(p)
    \/ Complete(p) \/ ReadFailed(p) \/ RecordFailure(p) \/ SettleJob(p)
    \/ ReadCancelled(p) \/ CancelRun(p) \/ FindExpired(p)

Next ==
    \/ Tick
    \/ \E j \in JobIds :
        \/ EnqueueJob(j) \/ CreateRun(j) \/ AbandonAdmission(j)
        \/ OperatorCancel(j) \/ OperatorRetry(j)
    \/ \E p \in Processes : Claim(p) \/ Work(p) \/ Crash(p) \/ Restart(p)
    \/ \E p \in Processes, j \in JobIds : Recover(p, j)

Spec == Init /\ [][Next]_vars

\* Time passes, a process that is not killed goes on, and some worker polls.
\* Nothing obliges a process to start again, or anyone to ask for a recovery.
Fairness ==
    /\ SF_vars(Tick)
    /\ \A p \in Processes : WF_vars(Work(p))
    /\ SF_vars(\E p \in Processes : Claim(p))

FairSpec == Spec /\ Fairness

----------------------------------------------------------------------------
(* Properties.                                                             *)

\* docs/slices/0926: "completes the queue job only after the run reaches
\* SUCCEEDED", although complete_job names neither worker nor attempt and
\* recoveries, operators and a second worker may have come between.  Nor is a
\* run ever started more often than its job, so the budget of the job bounds
\* the run, whose own claim does not look at it.
StaysInStep ==
    \A j \in JobIds :
        /\ jobs[j].status = "SUCCEEDED" => runs[j].status = "SUCCEEDED"
        /\ runs[j].attempt_count <= jobs[j].attempt_count

\* docs/slices/0926: "synchronized JobQueue backoff and WAITING_RETRY run
\* state": a job that can be claimed finds its run due, never a retry_not_ready
\* that would leave the job RUNNING, although the two delays are computed apart
\* (as long as no operator retries the job in between).
RetryInStep ==
    \A j \in JobIds :
        IsClaimable(jobs[j], jobs[j].job_type, 0) /\ runs[j].status = "WAITING_RETRY"
        => runs[j].retry_at <= 0

\* While no operator interferes, a job and a run that are both final agree,
\* whichever process wrote which of them.
TerminalsAgree ==
    \A j \in JobIds :
        /\ jobs[j].status \in TERMINAL_JOB_STATUSES
        /\ runs[j].status \in TERMINAL_INGESTION_RUN_STATUSES
        => jobs[j].status = runs[j].status

\* Stale writers, recoveries and operators keep the promise of the contract.
Contract == INSTANCE IngestionContract WITH
    Runs <- JobIds, Budget <- MaxAttempts,
    phase <- [j \in JobIds |-> RunPhase(runs[j])],
    done <- [j \in JobIds |-> runs[j].passed],
    used <- [j \in JobIds |-> runs[j].attempt_count]

FollowsContract == Contract!Spec

\* Every execution that a failure ends leaves a job that can be claimed again:
\* the worker loop, which only polls for queued jobs (background_process.py),
\* brings each of them to an end however often handlers, saves and versions
\* fail on the way.  The exceptions are an execution that is killed, whose pair
\* waits for a recovery that no loop asks for, and a last checkpoint committed
\* but answered with an error, which leaves a RUNNING job of a SUCCEEDED run.
QueuedComesToAnEnd ==
    \A j \in JobIds :
        jobs[j].status = "QUEUED"
        ~> \/ jobs[j].status \in TERMINAL_JOB_STATUSES
           \/ runs[j].status = "SUCCEEDED"
           \/ \E p \in Processes : proc[p].pc = "down" /\ proc[p].job = j

\* Checkpoints are written by the execution whose attempt the run counts, and
\* failures by that execution or by a recovery of that attempt.
StaleWriterIsRejected ==
    [][\A p \in Processes :
        proc'[p].pc # proc[p].pc /\ proc[p].pc \in {"step", "recording"} /\ runs' # runs
        => runs[proc[p].job].attempt_count = proc[p].mine]_vars
=============================================================================
