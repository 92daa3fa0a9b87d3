--------------------------- MODULE ArtifactRender ---------------------------
(***************************************************************************)
(* The render jobs of one artifact of NeX-AE: admission, cancellation and  *)
(* reconciliation by request, the synchronous render route, and the worker *)
(* that run_worker_once drives.  Every request has a row in the record of  *)
(* the artifact and, if it was admitted, a job of the same id in the queue.*)
(*                                                                         *)
(* The store has one way to write: it loads the whole record, changes it   *)
(* in memory and upserts every part of it.  So a save is two steps here,   *)
(* the copy and Write, and whatever was saved in between is overwritten    *)
(* with what the copy holds.                                               *)
(***************************************************************************)
EXTENDS JobRecord, FiniteSets

CONSTANTS
    Requests,       \* requests that may be in flight at once, of any route
    Operators,      \* which of "cancel" and "retry" the job routes are used for
    MaxAttempts,    \* max_attempts of the render request
    Faults,         \* which of "crash" and "outage" happen
    MaxFaults       \* bound: how many of them

Processes == Workers \cup Requests

ASSUME RenderAssumption ==
    /\ MaxAttempts \in Nat \ {0}
    /\ MaxFaults \in Nat
    /\ JobTypes # {} /\ Keys # {}
    /\ Operators \subseteq {"cancel", "retry"}
    /\ Faults \subseteq {"crash", "outage"}
    /\ Workers \cap Requests = {}

VARIABLES
    jobs,       \* the table service_jobs
    artifact,   \* the stored record of the artifact
    process,    \* what each worker and each request is doing
    faults      \* faults so far

vars == <<jobs, artifact, process, faults>>

RENDER_JOB_STATUSES == {"QUEUED", "RUNNING", "COMPLETED", "FAILED", "CANCELLED"}

\* The files of a version are told apart by the request whose formats they
\* are; version numbers count from 1 and 0 is no current version.
Artifact == [status : {"DRAFT", "RENDERING", "READY", "FAILED"},
             current: Nat,
             files  : SUBSET (Nat \X JobIds),
             rows   : [JobIds -> RENDER_JOB_STATUSES \cup {"NONE"}]]

NewArtifact == [status |-> "DRAFT", current |-> 0, files |-> {},
                rows |-> [j \in JobIds |-> "NONE"]]

Versions(a) == {f[1] : f \in a.files}

\* "saving" and "writing" are the two halves of a save; next is what follows.
Steps == {"idle", "claimed", "admitting", "enqueue", "checking", "rechecking", "drafting",
          "publishing", "completing", "failing", "raised", "closing",
          "cancelling", "inspecting", "saving", "writing"}

Process == [pc     : Steps,
            job    : JobIds \cup {NoJob},
            seen   : Nat,   \* versions of the record the render starts from
            row    : RENDER_JOB_STATUSES \cup {"NONE"},    \* read, or to be saved
            copy   : Artifact,
            next   : Steps,
            failure: {"none", "transient", "permanent"}]

Idle == [pc |-> "idle", job |-> NoJob, seen |-> 0, row |-> "NONE",
         copy |-> NewArtifact, next |-> "idle", failure |-> "none"]

\* The variables have their types, and the retries of the handler, of the
\* runner and of operators together never start an attempt beyond the budget
\* of a job, nor queue a job that has none left and could not be claimed.
TypeOK ==
    /\ jobs \in [JobIds -> Job]
    /\ \A j \in JobIds :
        /\ jobs[j].attempt_count <= jobs[j].max_attempts
        /\ jobs[j].status = "QUEUED" => jobs[j].attempt_count < jobs[j].max_attempts
    /\ artifact \in Artifact
    /\ process \in [Processes -> Process]
    /\ faults \in 0..MaxFaults

\* build_async_artifact_render_queue_job
RenderJob == NewJob(CHOOSE y \in JobTypes : TRUE, CHOOSE k \in Keys : TRUE,
                    MaxAttempts, TRUE, 0, NoJob)

Init ==
    /\ jobs = [j \in JobIds |-> [RenderJob EXCEPT !.status = "NONE"]]
    /\ artifact = NewArtifact
    /\ process = [p \in Processes |-> Idle]
    /\ faults = 0

Become(p, state) == process' = [process EXCEPT ![p] = state]

\* p at another step, with nothing but its job and the version count it
\* started from, or with the job alone.
At(p, pc) == [Idle EXCEPT !.pc = pc, !.job = process[p].job, !.seen = process[p].seen]
Only(p, pc) == [Idle EXCEPT !.pc = pc, !.job = process[p].job]

SetJob(j, row) == jobs' = [jobs EXCEPT ![j] = row]
OnlyProcess == UNCHANGED <<jobs, artifact, faults>>

----------------------------------------------------------------------------
(* Saving.                                                                 *)

\* save_render_job_state is asked to store status for the job of p.
Save(p, status, next) ==
    Become(p, [At(p, "saving") EXCEPT !.row = status, !.next = next])

\* The record that p is going to write, after which it is at next.
Copied(p, copy, next) ==
    Become(p, [At(p, "writing") EXCEPT !.copy = copy, !.next = next])

SaveState(p) ==
    /\ process[p].pc = "saving"
    /\ Copied(p, [artifact EXCEPT !.rows[process[p].job] = process[p].row], process[p].next)
    /\ OnlyProcess

\* Mutant: the save deletes what the copy does not hold.
Replaced(a, copy) == copy

\* _persist_artifact_record: nothing is ever deleted, everything the copy
\* holds is overwritten.
Upserted(a, copy) ==
    [copy EXCEPT !.files = @ \cup a.files,
                 !.rows = [j \in JobIds |-> IF @[j] = "NONE" THEN a.rows[j] ELSE @[j]]]

Write(p) ==
    /\ process[p].pc = "writing"
    /\ artifact' = Upserted(artifact, process[p].copy)
    /\ Become(p, CASE process[p].next = "idle" -> Idle
                   [] process[p].next = "drafting" -> At(p, "drafting")
                   [] OTHER -> Only(p, process[p].next))
    /\ UNCHANGED <<jobs, faults>>

\* The record with its status FAILED, for a job that ended.
Close(p) ==
    /\ process[p].pc = "closing"
    /\ Copied(p, [artifact EXCEPT !.status = "FAILED"],
              IF p \in Workers THEN "raised" ELSE "idle")
    /\ OnlyProcess

----------------------------------------------------------------------------
(* How a request or a job begins: the row is read, and decides.  A route   *)
(* that only answers from what it read is left out.                        *)

Begin(r, state) ==
    /\ process[r].pc = "idle"
    /\ Become(r, state)
    /\ OnlyProcess

\* admit_async_artifact_render
BeginAdmit(r, j) ==
    Begin(r, [Idle EXCEPT !.job = j, !.pc = IF artifact.rows[j] = "NONE"
                                            THEN "admitting" ELSE "enqueue"])

\* The synchronous route renders only what has no row, and answers with any
\* row there is.  It reads the record first; as rows are never deleted, a row
\* that is absent afterwards was absent then, and both are read at that moment.
BeginRender(r, j) ==
    /\ artifact.rows[j] = "NONE"
    /\ Begin(r, [Idle EXCEPT !.job = j, !.pc = "drafting",
                             !.seen = Cardinality(Versions(artifact))])

BeginCancel(r, j) ==
    /\ artifact.rows[j] # "NONE"
    /\ Begin(r, [Idle EXCEPT !.job = j, !.pc = "cancelling", !.row = artifact.rows[j]])

BeginReconcile(r, j) ==
    Begin(r, [Idle EXCEPT !.job = j, !.pc = "inspecting", !.row = artifact.rows[j]])

\* claim_next_job
Claim(w, j) ==
    /\ process[w].pc = "idle"
    /\ IsClaimable(jobs[j], jobs[j].job_type, 0)
    /\ SetJob(j, Transitioned(jobs[j], "RUNNING", w, 0))
    /\ Become(w, [Idle EXCEPT !.pc = "claimed", !.job = j])
    /\ UNCHANGED <<artifact, faults>>

\* The record is read before the row; a version published in between is as
\* good as one published right after.  A job never exists without its row.
Load(w) ==
    /\ process[w].pc = "claimed"
    /\ LET row == artifact.rows[process[w].job] IN
       Become(w, IF row = "COMPLETED" THEN Only(w, "completing")
                 ELSE [Only(w, "checking") EXCEPT !.row = row,
                            !.seen = Cardinality(Versions(artifact))])
    /\ OnlyProcess

----------------------------------------------------------------------------
(* Admission, cancellation and reconciliation.                             *)

\* save_initial_render_job looks for the row again.
Admit(c) ==
    /\ process[c].pc = "admitting"
    /\ LET j == process[c].job IN
       IF artifact.rows[j] # "NONE" THEN Become(c, Only(c, "enqueue"))
       ELSE Copied(c, [artifact EXCEPT !.rows[j] = "QUEUED", !.status = "RENDERING"], "enqueue")
    /\ OnlyProcess

\* get_job and enqueue: one job per render, whatever its status.
Enqueue(c) ==
    /\ process[c].pc = "enqueue"
    /\ LET j == process[c].job IN
       IF jobs[j].status = "NONE" THEN SetJob(j, RenderJob) ELSE UNCHANGED jobs
    /\ Become(c, Idle)
    /\ UNCHANGED <<artifact, faults>>

\* Mutant: a refused cancellation is saved all the same.
CancelUnchecked(c) ==
    /\ process[c].pc = "cancelling"
    /\ LET job == jobs[process[c].job] IN
       IF CanTransition(job, "CANCELLED")
       THEN SetJob(process[c].job, Transitioned(job, "CANCELLED", NoWorker, 0))
       ELSE UNCHANGED jobs
    /\ Save(c, "CANCELLED", "idle")
    /\ UNCHANGED <<artifact, faults>>

\* cancel_async_artifact_render: refused without a job and for one that
\* succeeded or failed; the row is saved unless it was CANCELLED when read.
Cancel(c) ==
    /\ process[c].pc = "cancelling"
    /\ LET job == jobs[process[c].job] IN
       IF CanTransition(job, "CANCELLED") \/ job.status = "CANCELLED"
       THEN /\ IF job.status = "CANCELLED" THEN UNCHANGED jobs
               ELSE SetJob(process[c].job, Transitioned(job, "CANCELLED", NoWorker, 0))
            /\ IF process[c].row = "CANCELLED" THEN Become(c, Idle)
                                               ELSE Save(c, "CANCELLED", "idle")
       ELSE Become(c, Idle) /\ UNCHANGED jobs
    /\ UNCHANGED <<artifact, faults>>

\* Mutant: a failure is never repaired.
RepairsButFailure(job, row) ==
    {s \in {"QUEUED"}    : job.status = s /\ row \in {"RUNNING", "FAILED"}} \cup
    {s \in {"RUNNING"}   : job.status = s /\ row = "QUEUED"} \cup
    {s \in {"CANCELLED"} : job.status = s /\ row \in {"QUEUED", "RUNNING", "FAILED"}}

\* _recovery_decision: the status a drifted row is repaired to, if any.
Repairs(job, row) ==
    {s \in {"QUEUED"}    : job.status = s /\ row \in {"RUNNING", "FAILED"}} \cup
    {s \in {"RUNNING"}   : job.status = s /\ row = "QUEUED"} \cup
    {s \in {"CANCELLED"} : job.status = s /\ row \in {"QUEUED", "RUNNING", "FAILED"}} \cup
    {s \in {"FAILED"}    : job.status = s /\ row \in {"QUEUED", "RUNNING"}}

\* reconcile_async_artifact_render.  The inspection that precedes the one
\* modelled here can only make it answer ALREADY_SETTLED instead.
Reconcile(r) ==
    /\ process[r].pc = "inspecting"
    /\ LET repairs == Repairs(jobs[process[r].job], process[r].row) IN
       \/ repairs = {} /\ Become(r, Idle)
       \/ \E s \in repairs : Save(r, s, IF s = "FAILED" THEN "closing" ELSE "idle")
    /\ OnlyProcess

----------------------------------------------------------------------------
(* Rendering: AsyncArtifactRenderWorkerHandler and the synchronous route.  *)

\* _cancelled_result, and the row saved as RUNNING before CX is called.
CheckCancelled(w) ==
    /\ process[w].pc \in {"checking", "rechecking"}
    /\ LET cancelled == jobs[process[w].job].status = "CANCELLED" IN
       \/ cancelled /\ process[w].row # "CANCELLED" /\ Save(w, "CANCELLED", "idle")
       \/ cancelled /\ process[w].row = "CANCELLED" /\ Become(w, Idle)
       \/ ~cancelled /\ process[w].pc = "checking" /\ Save(w, "RUNNING", "drafting")
       \/ ~cancelled /\ process[w].pc = "rechecking" /\ Become(w, At(w, "publishing"))
    /\ OnlyProcess

Failing(w, failure) ==
    Become(w, [Only(w, "failing") EXCEPT !.failure = failure])

\* get_structured_draft, and the row as save_render_job_state returned it.
CallCx(p) ==
    /\ process[p].pc = "drafting"
    /\ \/ p \in Requests /\ (Become(p, At(p, "publishing")) \/ Become(p, Idle))
       \/ /\ p \in Workers
          /\ \/ Become(p, [At(p, "rechecking") EXCEPT !.row = artifact.rows[process[p].job]])
             \/ \E failure \in {"transient", "permanent"} : Failing(p, failure)
    /\ OnlyProcess

\* build_markdown_render_result numbers the version after those it started
\* from, and apply_markdown_render adds it to the record of now.
Publish(p) ==
    /\ process[p].pc = "publishing"
    /\ LET version == process[p].seen + 1
           j == process[p].job
       IN  Copied(p, [status |-> "READY", current |-> version,
                      files |-> artifact.files \cup {<<version, j>>},
                      rows |-> [artifact.rows EXCEPT ![j] = "COMPLETED"]],
                  IF p \in Workers THEN "completing" ELSE "idle")
    /\ OnlyProcess

\* complete_job
Complete(w) ==
    /\ process[w].pc = "completing"
    /\ LET job == jobs[process[w].job] IN
       IF job.status \in {"RUNNING", "SUCCEEDED"}
       THEN /\ SetJob(process[w].job, IF job.status = "SUCCEEDED" THEN job
                                      ELSE Transitioned(job, "SUCCEEDED", NoWorker, 0))
            /\ Become(w, Idle)
       ELSE Become(w, Only(w, "raised")) /\ UNCHANGED jobs
    /\ UNCHANGED <<artifact, faults>>

\* _fail settles the job before the row.
Fail(w) ==
    /\ process[w].pc = "failing"
    /\ LET job == jobs[process[w].job]
           settled == IF process[w].failure = "transient" THEN Retried(job, 0)
                      ELSE DeadLettered(job, 0)
       IN  IF job.status = "RUNNING"
           THEN /\ SetJob(process[w].job, settled)
                /\ IF settled.status = "FAILED" THEN Save(w, "FAILED", "closing")
                                                ELSE Save(w, "QUEUED", "raised")
           ELSE Become(w, Only(w, "raised")) /\ UNCHANGED jobs
    /\ UNCHANGED <<artifact, faults>>

\* run_worker_once retries the job of a handler that raised, whoever runs it
\* by now, and _safe_retry_job takes a refusal for an answer.
RunnerRetry(w) ==
    /\ process[w].pc = "raised"
    /\ LET job == jobs[process[w].job] IN
       IF job.status = "RUNNING" THEN SetJob(process[w].job, Retried(job, 0))
                                 ELSE UNCHANGED jobs
    /\ Become(w, Idle)
    /\ UNCHANGED <<artifact, faults>>

----------------------------------------------------------------------------
(* Operators and faults.                                                   *)

OperatorCancel(j) ==
    /\ "cancel" \in Operators
    /\ CanTransition(jobs[j], "CANCELLED")
    /\ SetJob(j, Transitioned(jobs[j], "CANCELLED", NoWorker, 0))
    /\ UNCHANGED <<artifact, process, faults>>

OperatorRetry(j) ==
    /\ "retry" \in Operators
    /\ jobs[j].status = "RUNNING"
    /\ SetJob(j, Retried(jobs[j], 0))
    /\ UNCHANGED <<artifact, process, faults>>

Fault(kind) ==
    /\ kind \in Faults
    /\ faults < MaxFaults
    /\ faults' = faults + 1

\* The process is gone, or a request was answered with an error.
Crash(p) ==
    /\ Fault("crash")
    /\ process[p].pc # "idle"
    /\ Become(p, Idle)
    /\ UNCHANGED <<jobs, artifact>>

\* A store or the queue is unavailable to a worker (503), and what it was
\* asked to write may have been committed.  Only inside the handler's try is
\* the failure settled by the handler, elsewhere it is raised to the runner.
Outage(w) ==
    /\ Fault("outage")
    /\ process[w].pc \notin {"idle", "drafting", "raised"}
    /\ IF process[w].pc \in {"rechecking", "publishing"} \/ process[w].next = "completing"
       THEN Failing(w, "transient") ELSE Become(w, Only(w, "raised"))
    /\ \/ UNCHANGED artifact
       \/ process[w].pc = "writing" /\ artifact' = Upserted(artifact, process[w].copy)
    /\ UNCHANGED jobs

----------------------------------------------------------------------------

\* Everything a process does once it has begun.
Proceed(p) ==
    \/ Load(p) \/ Admit(p) \/ Enqueue(p) \/ Cancel(p) \/ Reconcile(p)
    \/ CheckCancelled(p) \/ CallCx(p) \/ Publish(p) \/ Complete(p) \/ Fail(p)
    \/ RunnerRetry(p) \/ SaveState(p) \/ Write(p) \/ Close(p)

Next ==
    \/ \E p \in Processes : Proceed(p) \/ Crash(p)
    \/ \E j \in JobIds :
        \/ \E r \in Requests :
            BeginAdmit(r, j) \/ BeginRender(r, j) \/ BeginCancel(r, j) \/ BeginReconcile(r, j)
        \/ \E w \in Workers : Claim(w, j)
        \/ OperatorCancel(j) \/ OperatorRetry(j)
    \/ \E w \in Workers : Outage(w)

Spec == Init /\ [][Next]_vars

----------------------------------------------------------------------------
(* Properties.                                                             *)

\* docs/slices/1078: recovery "never synthesizes artifact versions, rendered
\* files, private payloads, or successful completion".  A job that succeeded
\* and a row that is COMPLETED have their files, and the version an artifact
\* that is READY shows has its own, whichever copies were saved over them.
SucceededIsPublished ==
    /\ \A j \in JobIds :
        jobs[j].status = "SUCCEEDED" \/ artifact.rows[j] = "COMPLETED"
        => \E v \in Versions(artifact) : <<v, j>> \in artifact.files
    /\ artifact.status = "READY" => artifact.current \in Versions(artifact)

\* docs/slices/1075: "Successful and failed terminal renders cannot be
\* cancelled".  A row says CANCELLED only of a job that was cancelled,
\* although the worker, the cancel route and reconciliation save it from what
\* they read earlier.
CancelledIsFinal ==
    \A j \in JobIds : artifact.rows[j] = "CANCELLED" => jobs[j].status = "CANCELLED"

\* Work that began goes on unless it crashes, workers poll, and every render
\* is reconciled again and again.
Fairness ==
    /\ \A w \in Workers : WF_vars(Proceed(w) \/ \E j \in JobIds : Claim(w, j))
    /\ \A r \in Requests : WF_vars(Proceed(r))
    /\ \A r \in Requests, j \in JobIds : SF_vars(BeginReconcile(r, j))

LiveSpec == Spec /\ Fairness

\* docs/slices/1078: "deterministic reconciliation for ... cancellation, and
\* terminal failure state drift".  The row of a job that failed or was
\* cancelled ends up saying so, unless it is COMPLETED, whatever stale copies
\* of the record were saved after the job ended.  (With one request at a time:
\* two reconciliations that overlap for ever may undo each other's rows.)
DriftIsRepaired ==
    \A j \in JobIds, s \in {"FAILED", "CANCELLED"} :
        jobs[j].status = s ~> [](artifact.rows[j] \in {s, "COMPLETED"})
=============================================================================
