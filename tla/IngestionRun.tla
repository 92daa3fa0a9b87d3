----------------------------- MODULE IngestionRun -----------------------------
(***************************************************************************)
(* One row of cx_ingest_runs and the transitions of                        *)
(* nex_cx/ingestion_orchestration.py that compute the next row.  Each one  *)
(* bumps checkpoint_version, on which the repository compares and swaps.   *)
(*                                                                         *)
(* step_states is the number of checkpoints passed: the pipeline is linear,*)
(* the steps before current_step are SUCCEEDED or SKIPPED, those after it  *)
(* are PENDING, and the state of current_step follows from the run's own.  *)
(* An absent retry_at or lease is 0, which only a WAITING_RETRY or RUNNING *)
(* run is asked for.                                                       *)
(***************************************************************************)
EXTENDS JobRecord

CONSTANTS
    Steps,          \* length of INGESTION_PIPELINE_STEPS
    MaxAttempts,    \* IngestionOrchestrationPolicy.max_attempts, of job and run
    RunLeaseTTL     \* IngestionWorkerPolicy.lease_ttl_seconds

ASSUME RunAssumption ==
    /\ Steps \in Nat \ {0}
    /\ MaxAttempts \in Nat \ {0}
    /\ RunLeaseTTL \in Nat \ {0}

TERMINAL_INGESTION_RUN_STATUSES == {"SUCCEEDED", "FAILED", "CANCELLED"}
INGESTION_RUN_STATUSES ==
    {"QUEUED", "RUNNING", "WAITING_RETRY"} \cup TERMINAL_INGESTION_RUN_STATUSES

\* "NONE" marks a job without a run.
Run == [status             : INGESTION_RUN_STATUSES \cup {"NONE"},
        passed             : 0..Steps,
        attempt_count      : Nat,
        checkpoint_version : Nat,
        lease_owner        : Workers \cup {NoWorker},
        lease_expires_at   : Int,
        retry_at           : Int]

AbsentRun == [status |-> "NONE", passed |-> 0, attempt_count |-> 0, checkpoint_version |-> 0,
              lease_owner |-> NoWorker, lease_expires_at |-> 0, retry_at |-> 0]

\* build_ingestion_run
NewRun == [AbsentRun EXCEPT !.status = "QUEUED"]

\* claim_ingestion_run, which does not look at the budget.
Claimed(run, owner, t) ==
    [run EXCEPT !.status = "RUNNING", !.attempt_count = @ + 1,
                !.checkpoint_version = @ + 1, !.lease_owner = owner,
                !.lease_expires_at = t + RunLeaseTTL, !.retry_at = 0]

\* Released by every transition that ends an execution.
Released(run, status) ==
    [run EXCEPT !.status = status, !.checkpoint_version = @ + 1,
                !.lease_owner = NoWorker, !.lease_expires_at = 0]

\* Mutant: the lease may belong to anyone.
HasAnyLease(run, owner) == run.status = "RUNNING" /\ owner \in Workers

\* _require_active_lease: the owner is compared, the expiry is not.
HasLease(run, owner) ==
    run.status = "RUNNING" /\ run.lease_owner = owner

\* complete_ingestion_step: the next step is announced as RUNNING, after the
\* last one the run is SUCCEEDED.
StepCompleted(run) ==
    LET after == [run EXCEPT !.passed = @ + 1]
    IN  IF after.passed = Steps THEN Released(after, "SUCCEEDED")
        ELSE [after EXCEPT !.checkpoint_version = @ + 1]

\* fail_ingestion_step
StepFailed(run, retryable, retry_at) ==
    IF retryable /\ run.attempt_count < MaxAttempts
    THEN [Released(run, "WAITING_RETRY") EXCEPT !.retry_at = retry_at]
    ELSE Released(run, "FAILED")

\* requeue_ingestion_run keeps the step and the attempt count.
RequeuedRun(run) ==
    [run EXCEPT !.status = "QUEUED", !.checkpoint_version = @ + 1, !.retry_at = 0]

\* cancel_ingestion_run takes back the announced step; it needs no lease.
CancelledRun(run) == [Released(run, "CANCELLED") EXCEPT !.retry_at = 0]

\* The phase of IngestionContract a row stands for.
RunPhase(run) ==
    CASE run.status = "NONE" -> "absent"
      [] run.status = "QUEUED" -> "queued"
      [] run.status = "RUNNING" -> "running"
      [] run.status = "WAITING_RETRY" -> "waiting"
      [] run.status = "SUCCEEDED" -> "succeeded"
      [] run.status = "FAILED" -> "failed"
      [] run.status = "CANCELLED" -> "cancelled"
=============================================================================
