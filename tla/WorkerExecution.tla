-------------------------- MODULE WorkerExecution --------------------------
(***************************************************************************)
(* NeX-CX workers on the job queue: the bounded batch of worker_runtime.py,*)
(* the leases it runs under, its heartbeats and shutdown latch, operators  *)
(* who cancel and retry, and the reconciliation of abandoned jobs.         *)
(*                                                                         *)
(* Each transaction on service_jobs is one step (JobQueue shows why a      *)
(* claim may be one), and so is each heartbeat with the step it reports.   *)
(* Time is relative: the present instant is 0 and Tick moves every stored  *)
(* timestamp one unit into the past, no further than a reader can tell.    *)
(***************************************************************************)
EXTENDS JobRecord, FiniteSets

CONSTANTS
    Reconcilers,    \* reconciliation requests that may run side by side
    Specialized,    \* SPECIALIZED_RECOVERY_JOB_TYPES without a handler
    OperatorActions,\* which of "cancel" and "retry" operators use
    LeaseTTL,       \* CxWorkerLeasePolicy.ttl_seconds
    StaleAfter,     \* heartbeat_stale_after_seconds
    LostReports,    \* statuses whose report the heartbeat store may lose
    MaxAttempts     \* bound: the largest max_attempts of a job

ASSUME WorkerAssumption ==
    /\ Specialized \subseteq JobTypes
    /\ OperatorActions \subseteq {"cancel", "retry"}
    /\ LostReports \subseteq {"STARTING", "IDLE", "BUSY", "STOPPING", "STOPPED", "ERROR"}
    /\ LeaseTTL \in Nat \ {0}
    /\ StaleAfter \in Nat \ {0}
    /\ MaxAttempts \in Nat \ {0}

VARIABLES
    jobs,       \* the table service_jobs
    worker,     \* per worker id: the process that runs under it
    beat,       \* the table service_worker_heartbeats
    recon       \* per reconciler: the request it is serving

vars == <<jobs, worker, beat, recon>>

ACTIVE_WORKER_HEARTBEAT_STATUSES == {"STARTING", "IDLE", "BUSY"}
HeartbeatStatuses == ACTIVE_WORKER_HEARTBEAT_STATUSES \cup
    {"STOPPING", "STOPPED", "ERROR", "missing"}

\* pc values at which a process holds a job it has claimed.
Executing == {"claimed", "before", "handling", "after", "completing", "settling"}

Worker == [pc       : {"down", "loop", "claiming"} \cup Executing,
           job      : JobIds \cup {NoJob},
           attempt  : 0..MaxAttempts,
           failure  : {"none", "transient", "permanent"},
           shutdown : BOOLEAN,
           outcome  : {"none", "SUCCEEDED", "CANCELLED", "RETRY_SCHEDULED", "DEAD_LETTERED"}]

Recon == [step    : {"idle", "planning", "applying", "settling"},
          at      : -MaxDelay..0,
          todo    : SUBSET JobIds,
          recover : SUBSET JobIds,
          job     : JobIds \cup {NoJob}]

\* The variables have their types, no job is started more often than its
\* budget allows, and no execution claims an attempt its row never counted.
TypeOK ==
    /\ jobs \in [JobIds -> Job]
    /\ \A j \in JobIds : jobs[j].attempt_count <= jobs[j].max_attempts
    /\ worker \in [Workers -> Worker]
    /\ \A w \in Workers : worker[w].pc \in Executing =>
        /\ worker[w].job # NoJob
        /\ worker[w].attempt \in 1..jobs[worker[w].job].attempt_count
    /\ beat \in [Workers -> [status : HeartbeatStatuses, age : 0..(StaleAfter + 1)]]
    /\ recon \in [Reconcilers -> Recon]

IdleRecon == [step |-> "idle", at |-> 0, todo |-> {}, recover |-> {}, job |-> NoJob]

DownWorker == [pc |-> "down", job |-> NoJob, attempt |-> 0, failure |-> "none",
               shutdown |-> FALSE, outcome |-> "none"]

\* The jobs were enqueued before the workers start.
Init ==
    /\ jobs \in [JobIds -> {NewJob(y, k, m, r, 0, NoJob) :
                    y \in JobTypes, k \in Keys, m \in 1..MaxAttempts, r \in BOOLEAN}]
    /\ worker = [w \in Workers |-> DownWorker]
    /\ beat = [w \in Workers |-> [status |-> "missing", age |-> 0]]
    /\ recon = [r \in Reconcilers |-> IdleRecon]

----------------------------------------------------------------------------
(* Time.                                                                   *)

\* One unit later, as seen from the new present; nothing older than floor.
Earlier(t, floor) == IF t > floor THEN t - 1 ELSE floor

\* An older lock is expired, and a report that is dated by it stale, all the same.
OldestLock == -(IF LeaseTTL > StaleAfter THEN LeaseTTL ELSE StaleAfter + 1)

\* Bound: a clock that was read for a claim or for the entries of a plan is
\* still current when the statement that uses it runs.
Tick ==
    /\ \A w \in Workers : worker[w].pc # "claiming"
    /\ \A r \in Reconcilers : recon[r].step # "planning"
    /\ jobs' = [j \in JobIds |->
            [jobs[j] EXCEPT !.available_at = Earlier(@, 0),
                            !.locked_at = IF jobs[j].locked_by = NoWorker THEN 0
                                          ELSE Earlier(@, OldestLock)]]
    /\ beat' = [w \in Workers |->
            [beat[w] EXCEPT !.age =
                IF @ <= StaleAfter /\ beat[w].status \in ACTIVE_WORKER_HEARTBEAT_STATUSES
                THEN @ + 1 ELSE @]]
    /\ recon' = [r \in Reconcilers |->
            [recon[r] EXCEPT !.at = IF recon[r].step = "idle" THEN 0
                                    ELSE Earlier(@, -MaxDelay)]]
    /\ UNCHANGED worker

----------------------------------------------------------------------------
(* Heartbeats: safe_emit reports the status or swallows the store error.   *)

Report(w, status, age) == beat' = [beat EXCEPT ![w] = [status |-> status, age |-> age]]

Emit(w, status) ==
    \/ Report(w, status, 0)
    \/ status \in LostReports /\ UNCHANGED beat

\* Two reports in a row: the first one stays if the second is lost.
EmitBoth(w, first, second) ==
    \/ Report(w, second, 0)
    \/ second \in LostReports /\ Emit(w, first)

\* lifecycle.busy is dated by the clock that was read for the claim.
EmitBusy(w) ==
    LET age == -jobs[worker[w].job].locked_at
    IN  \/ Report(w, "BUSY", IF age > StaleAfter THEN StaleAfter + 1 ELSE age)
        \/ "BUSY" \in LostReports /\ UNCHANGED beat

\* lifecycle.idle: STOPPING instead once the latch is set.
IdleStatus(w) == IF worker[w].shutdown THEN "STOPPING" ELSE "IDLE"

\* Mutant: a heartbeat counts however old it is.
HeartbeatAvailableAtAnyAge(w) ==
    beat[w].status \in ACTIVE_WORKER_HEARTBEAT_STATUSES

HeartbeatAvailable(w) ==
    /\ beat[w].status \in ACTIVE_WORKER_HEARTBEAT_STATUSES
    /\ beat[w].age <= StaleAfter

LeaseExpired(j, at) == jobs[j].locked_at + LeaseTTL <= at

----------------------------------------------------------------------------
(* run_bounded_worker_batch.                                               *)

Become(w, process) == worker' = [worker EXCEPT ![w] = process]

\* starting, then idle.  The controller is new, or the one of the previous
\* batch with its latch.
Start(w) ==
    /\ worker[w].pc = "down"
    /\ \E latch \in {FALSE, worker[w].shutdown} :
        /\ Become(w, [DownWorker EXCEPT !.pc = "loop", !.shutdown = latch])
        /\ EmitBoth(w, "STARTING", IF latch THEN "STOPPING" ELSE "IDLE")
    /\ UNCHANGED <<jobs, recon>>

\* The batch returns: stopping and stopped are reported after a shutdown.
Return(w) ==
    /\ Become(w, [worker[w] EXCEPT !.pc = "down"])
    /\ IF worker[w].shutdown THEN EmitBoth(w, "STOPPING", "STOPPED") ELSE UNCHANGED beat
    /\ UNCHANGED <<jobs, recon>>

\* Mutant: the loop has no way out once it may not claim.
EndBatchUnlessShutdown(w) ==
    /\ worker[w].pc = "loop"
    /\ ~worker[w].shutdown
    /\ Return(w)

\* MAX_JOBS, MAX_DURATION, FAILURE or SHUTDOWN.
EndBatch(w) ==
    /\ worker[w].pc = "loop"
    /\ Return(w)

CanClaim(w) ==
    /\ worker[w].pc = "loop"
    /\ ~worker[w].shutdown
    /\ Become(w, [worker[w] EXCEPT !.pc = "claiming"])
    /\ UNCHANGED <<jobs, beat, recon>>

\* claim_next_job; which claimable row comes first is left to JobQueue.
Claim(w) ==
    /\ worker[w].pc = "claiming"
    /\ \E y \in JobTypes :
        \/ \E j \in JobIds :
            /\ IsClaimable(jobs[j], y, 0)
            /\ jobs' = [jobs EXCEPT ![j] = Transitioned(@, "RUNNING", w, 0)]
            /\ Become(w, [worker[w] EXCEPT !.pc = "claimed", !.job = j,
                                           !.attempt = jobs'[j].attempt_count,
                                           !.failure = "none", !.outcome = "none"])
            /\ UNCHANGED <<beat, recon>>
        \/ /\ \A j \in JobIds : ~IsClaimable(jobs[j], y, 0)
           /\ Return(w)

\* require_active reads the row again; the lease was taken at the instant it
\* is compared with, so it has not expired.
RequireActive(w) ==
    LET job == jobs[worker[w].job]
    IN  job.status = "RUNNING" /\ job.locked_by = w

\* Mutant: the report is written before the latch is looked at.
BusyReportedFirst(w) ==
    /\ worker[w].pc = "claimed"
    /\ IF RequireActive(w) THEN EmitBusy(w) ELSE UNCHANGED beat
    /\ Become(w, IF RequireActive(w) /\ ~worker[w].shutdown
                 THEN [worker[w] EXCEPT !.pc = "before"]
                 ELSE [DownWorker EXCEPT !.shutdown = worker[w].shutdown])
    /\ UNCHANGED <<jobs, recon>>

\* require_active, then lifecycle.busy.  Both raise outside the try block:
\* the batch ends with the row and the heartbeat as they are.
Busy(w) ==
    /\ worker[w].pc = "claimed"
    /\ IF RequireActive(w) /\ ~worker[w].shutdown
       THEN Become(w, [worker[w] EXCEPT !.pc = "before"]) /\ EmitBusy(w)
       ELSE Become(w, [DownWorker EXCEPT !.shutdown = worker[w].shutdown]) /\ UNCHANGED beat
    /\ UNCHANGED <<jobs, recon>>

\* _execute_claimed returned an outcome.
Finished(w, outcome) ==
    /\ Become(w, [worker[w] EXCEPT !.pc = "loop", !.outcome = outcome,
                                   !.attempt = 0, !.failure = "none"])
    /\ Emit(w, IdleStatus(w))

\* _execute_claimed raised: lifecycle.failed, and the batch ends.
Raised(w) ==
    /\ Become(w, [DownWorker EXCEPT !.shutdown = worker[w].shutdown])
    /\ Emit(w, "ERROR")

\* CxCancellationToken.checkpoint, before, inside and after the handler.  It
\* reads the status of the row, not its lock.
Checkpoint(w) ==
    /\ worker[w].pc \in {"before", "handling", "after"}
    /\ LET status == jobs[worker[w].job].status IN
       \/ /\ status = "RUNNING"
          /\ Become(w, [worker[w] EXCEPT
                !.pc = IF @ = "after" THEN "completing" ELSE "handling"])
          /\ UNCHANGED beat
       \/ /\ status = "CANCELLED"
          /\ Finished(w, "CANCELLED")
       \/ /\ status \notin {"RUNNING", "CANCELLED"}
          /\ Raised(w)
    /\ UNCHANGED <<jobs, recon>>

\* The handler returns, or raises an error that classify_worker_failure
\* calls transient, permanent or poison.
HandlerEnds(w) ==
    /\ worker[w].pc = "handling"
    /\ \/ Become(w, [worker[w] EXCEPT !.pc = "after"])
       \/ \E f \in {"transient", "permanent"} :
            Become(w, [worker[w] EXCEPT !.pc = "settling", !.failure = f])
    /\ UNCHANGED <<jobs, beat, recon>>

\* Mutant: a refused completion is reported as a success.
CompleteUnchecked(w) ==
    /\ worker[w].pc = "completing"
    /\ jobs' = [jobs EXCEPT ![worker[w].job] =
                    IF @.status = "RUNNING"
                    THEN Transitioned(@, "SUCCEEDED", NoWorker, 0) ELSE @]
    /\ Finished(w, "SUCCEEDED")
    /\ UNCHANGED recon

\* complete_job: it names the job, not the worker.  A row that is already
\* SUCCEEDED is returned as it is; any other refusal, and a store that is
\* unavailable before or after the commit, is a transient failure.
Complete(w) ==
    /\ worker[w].pc = "completing"
    /\ LET j == worker[w].job
           completed == [jobs EXCEPT ![j] = Transitioned(@, "SUCCEEDED", NoWorker, 0)]
       IN  \/ /\ jobs[j].status = "RUNNING"
              /\ jobs' = completed
              /\ Finished(w, "SUCCEEDED")
           \/ /\ jobs[j].status = "SUCCEEDED"
              /\ Finished(w, "SUCCEEDED")
              /\ UNCHANGED jobs
           \/ /\ \/ UNCHANGED jobs
                 \/ jobs[j].status = "RUNNING" /\ jobs' = completed
              /\ Become(w, [worker[w] EXCEPT !.pc = "settling", !.failure = "transient"])
              /\ UNCHANGED beat
    /\ UNCHANGED recon

\* The row settle_worker_failure stores.
Settled(job, failure, t) ==
    IF failure = "transient" THEN Retried(job, t) ELSE DeadLettered(job, t)

\* settle_worker_failure names the job only; a row that is not RUNNING
\* refuses it and the error is raised.
Settle(w) ==
    /\ worker[w].pc = "settling"
    /\ LET j == worker[w].job
           row == Settled(jobs[j], worker[w].failure, 0)
       IN  \/ /\ jobs[j].status = "RUNNING"
              /\ jobs' = [jobs EXCEPT ![j] = row]
              /\ Finished(w, IF row.status = "QUEUED" THEN "RETRY_SCHEDULED"
                                                     ELSE "DEAD_LETTERED")
           \/ /\ jobs[j].status # "RUNNING"
              /\ Raised(w)
              /\ UNCHANGED jobs
    /\ UNCHANGED recon

\* request_shutdown comes from another thread or a signal handler.  A report
\* that had looked at the latch before may be written after its STOPPING.
RequestShutdown(w) ==
    /\ worker[w].pc # "down"
    /\ ~worker[w].shutdown
    /\ Become(w, [worker[w] EXCEPT !.shutdown = TRUE])
    /\ \/ Emit(w, "STOPPING")
       \/ worker[w].pc \in {"loop", "before"} /\ UNCHANGED beat
    /\ UNCHANGED <<jobs, recon>>

\* The process is killed, or an error of a store ends the batch.
Crash(w) ==
    /\ worker[w].pc # "down"
    /\ Become(w, DownWorker)
    /\ UNCHANGED <<jobs, beat, recon>>

----------------------------------------------------------------------------
(* Operators: job_control routes and request_worker_cancellation.          *)

OperatorCancel(j) ==
    /\ "cancel" \in OperatorActions
    /\ CanTransition(jobs[j], "CANCELLED")
    /\ jobs' = [jobs EXCEPT ![j] = Transitioned(@, "CANCELLED", NoWorker, 0)]
    /\ UNCHANGED <<worker, beat, recon>>

OperatorRetry(j) ==
    /\ "retry" \in OperatorActions
    /\ jobs[j].status = "RUNNING"
    /\ jobs' = [jobs EXCEPT ![j] = Retried(@, 0)]
    /\ UNCHANGED <<worker, beat, recon>>

----------------------------------------------------------------------------
(* Reconciliation: POST /internal/v1/workers/reconcile.                    *)

Serve(r, request) ==
    /\ recon' = [recon EXCEPT ![r] = request]
    /\ UNCHANGED <<worker, beat>>

\* list_jobs(status=RUNNING).
StartPlan(r) ==
    /\ recon[r].step = "idle"
    /\ \E j \in JobIds : jobs[j].status = "RUNNING"
    /\ Serve(r, [IdleRecon EXCEPT !.step = "planning",
                    !.todo = {j \in JobIds : jobs[j].status = "RUNNING"}])
    /\ UNCHANGED jobs

\* _plan_job: RECOVER, or one of the actions that leave the job alone
\* (MANUAL_REVIEW without a lock, WAIT_HEARTBEAT, WAIT_LEASE, HEALTHY).
PlannedForRecovery(j, at) ==
    /\ jobs[j].locked_by # NoWorker
    /\ LeaseExpired(j, at)
    /\ ~HeartbeatAvailable(jobs[j].locked_by)

PlanJob(r) ==
    /\ recon[r].step = "planning"
    /\ \E j \in recon[r].todo :
        Serve(r, [recon[r] EXCEPT
            !.todo = @ \ {j},
            !.step = IF recon[r].todo = {j} THEN "applying" ELSE @,
            !.recover = IF PlannedForRecovery(j, recon[r].at) THEN @ \cup {j} ELSE @])
    /\ UNCHANGED jobs

\* apply_worker_reconciliation_plan reads the job again, but its status only:
\* ALREADY_SETTLED, HANDLER_REQUIRED, or on to the settlement.
ApplyRead(r) ==
    /\ recon[r].step = "applying"
    /\ \E j \in recon[r].recover :
        LET rest == [recon[r] EXCEPT !.recover = @ \ {j}]
        IN  IF jobs[j].status = "RUNNING" /\ jobs[j].job_type \notin Specialized
            THEN Serve(r, [rest EXCEPT !.step = "settling", !.job = j])
            ELSE Serve(r, rest)
    /\ UNCHANGED jobs

\* Mutant: the row is settled as it was read, whatever became of it.
ApplySettleUnchecked(r) ==
    /\ recon[r].step = "settling"
    /\ jobs' = [jobs EXCEPT ![recon[r].job] = Settled(@, "transient", recon[r].at)]
    /\ Serve(r, [recon[r] EXCEPT !.step = "applying", !.job = NoJob])

\* settle_worker_failure with ExpiredWorkerLeaseFailure at the instant of the
\* plan; a row that is no longer RUNNING ends the request with an error.
ApplySettle(r) ==
    /\ recon[r].step = "settling"
    /\ LET j == recon[r].job IN
       \/ /\ jobs[j].status = "RUNNING"
          /\ jobs' = [jobs EXCEPT ![j] = Settled(@, "transient", recon[r].at)]
          /\ Serve(r, [recon[r] EXCEPT !.step = "applying", !.job = NoJob])
       \/ /\ jobs[j].status # "RUNNING"
          /\ Serve(r, IdleRecon)
          /\ UNCHANGED jobs

EndReconcile(r) ==
    /\ recon[r].step = "applying"
    /\ recon[r].recover = {}
    /\ Serve(r, IdleRecon)
    /\ UNCHANGED jobs

----------------------------------------------------------------------------
Run(w) ==
    \/ EndBatch(w) \/ CanClaim(w) \/ Claim(w) \/ Busy(w) \/ Checkpoint(w)
    \/ HandlerEnds(w) \/ Complete(w) \/ Settle(w)

Reconcile(r) ==
    \/ StartPlan(r) \/ PlanJob(r) \/ ApplyRead(r) \/ ApplySettle(r) \/ EndReconcile(r)

Next ==
    \/ Tick
    \/ \E w \in Workers : Start(w) \/ Run(w) \/ RequestShutdown(w) \/ Crash(w)
    \/ \E j \in JobIds : OperatorCancel(j) \/ OperatorRetry(j)
    \/ \E r \in Reconcilers : Reconcile(r)

Spec == Init /\ [][Next]_vars

\* Time passes; a process that is not killed runs on and its handlers return;
\* reconciliation is requested while jobs run and each request is served to
\* its end.  Nothing obliges a worker to start again, or an operator to act.
Fairness ==
    /\ SF_vars(Tick)
    /\ \A w \in Workers : WF_vars(Run(w))
    /\ \A r \in Reconcilers : WF_vars(Reconcile(r))

FairSpec == Spec /\ Fairness

----------------------------------------------------------------------------
(* Properties.                                                             *)

\* Two executions never share an attempt: a job that is recovered or retried
\* while its first worker still runs is executed under a new attempt number,
\* so the budget bounds the executions and not only the claims.
AttemptHasOneWorker ==
    \A v, w \in Workers :
        /\ v # w
        /\ worker[v].pc \in Executing /\ worker[w].pc \in Executing
        /\ worker[v].job = worker[w].job
        => worker[v].attempt # worker[w].attempt

\* While a worker executes the current attempt of a RUNNING job the lock names
\* it, so reconciliation judges the job by the heartbeat of the right worker.
HolderIsLocked ==
    \A w \in Workers : worker[w].pc \in Executing =>
        LET job == jobs[worker[w].job]
        IN  job.status = "RUNNING" /\ job.attempt_count = worker[w].attempt
                => job.locked_by = w

\* What a batch reported as final stays true of the row for good, whoever else
\* settles, cancels or recovers the job meanwhile.
OutcomeIsDurable ==
    \A w \in Workers : worker[w].outcome # "none" =>
        LET job == jobs[worker[w].job] IN
        /\ worker[w].outcome = "SUCCEEDED" => job.status = "SUCCEEDED"
        /\ worker[w].outcome = "CANCELLED" => job.status = "CANCELLED"
        /\ worker[w].outcome = "DEAD_LETTERED" =>
              job.status = "FAILED" /\ job.error = "dead_lettered"

\* A job that a worker had claimed when the shutdown came, and leaves RUNNING
\* as it returns, is not shielded by a heartbeat of that worker, whatever
\* reports were written late: once its lease has expired, a plan recovers it
\* (as long as the store loses neither STOPPING nor ERROR).
ShutdownShieldsNoJob ==
    \A w \in Workers, j \in JobIds :
        /\ worker[w].pc = "down" /\ worker[w].shutdown
        /\ jobs[j].status = "RUNNING" /\ jobs[j].locked_by = w
        /\ LeaseExpired(j, 0)
        => PlannedForRecovery(j, 0)

\* Claims, executions, operators and stale recoveries, in any order, keep the
\* promise of JobLifecycle for every job.
Lifecycle == INSTANCE JobLifecycle WITH
    phase <- [j \in JobIds |-> Phase(jobs[j])],
    used <- [j \in JobIds |-> jobs[j].attempt_count],
    budget <- [j \in JobIds |-> jobs[j].max_attempts]

FollowsLifecycle == [][Lifecycle!Next]_(Lifecycle!vars)

\* A job whose worker process is gone, and whose type needs no handler of its
\* own, is settled by reconciliation, unless a
\* process starts again under the same worker id and its heartbeats stand in
\* for the lost one's.
AbandonedIsRecovered ==
    \A j \in JobIds, w \in Workers :
        /\ jobs[j].status = "RUNNING" /\ jobs[j].locked_by = w
        /\ jobs[j].job_type \notin Specialized
        /\ worker[w].pc = "down"
        ~> jobs[j].status # "RUNNING" \/ worker[w].pc # "down"

\* A worker that is told to shut down returns, whatever it was doing.
ShutdownDrains ==
    \A w \in Workers :
        worker[w].shutdown /\ worker[w].pc # "down" ~> worker[w].pc = "down"

----------------------------------------------------------------------------
(* What the slice documents say and the code does not keep.                *)

\* docs/slices/0978: "without allowing a stale or merely slow worker to create
\* duplicate execution": no job is in two handlers at once.
NoDuplicateExecution ==
    \A v, w \in Workers :
        v # w /\ worker[v].pc = "handling" /\ worker[w].pc = "handling"
        => worker[v].job # worker[w].job
=============================================================================
