---------------------------- MODULE WorkerProofs ----------------------------
(***************************************************************************)
(* Safety of WorkerExecution for every number of jobs, workers and         *)
(* reconcilers, every lease, backoff and heartbeat loss.                   *)
(*                                                                         *)
(* The inductive invariant adds to the checked properties that rows are    *)
(* well formed (RowOK) and that an outcome or a settlement names a job.    *)
(* The argument has two parts: every step but Claim leaves each row Steady *)
(* and lets each process only carry on with what it holds (CoreStep), and  *)
(* Claim alone uses a new attempt number and writes the lock with it.      *)
(* Without reconciliation and operators' retries, no two processes execute *)
(* one job (Apart).                                                        *)
(* A worker that was told to shut down has no active heartbeat once it is  *)
(* down (Silent), so it shields none of the jobs it leaves behind.         *)
(***************************************************************************)
EXTENDS WorkerExecution, JobRecordProofs, TLAPS

\* What a step that starts nothing may do to a row.
Steady(old, new) ==
    /\ new.attempt_count = old.attempt_count
    /\ new.max_attempts = old.max_attempts
    /\ \/ /\ new.status = old.status
          /\ new.locked_by = old.locked_by
          /\ new.error = old.error
       \/ old.status \in {"QUEUED", "RUNNING"} /\ new.status # "RUNNING"

\* The row agrees with an outcome a batch reported.
OutcomeHolds(outcome, job) ==
    /\ outcome = "SUCCEEDED" => job.status = "SUCCEEDED"
    /\ outcome = "CANCELLED" => job.status = "CANCELLED"
    /\ outcome = "DEAD_LETTERED" => job.status = "FAILED" /\ job.error = "dead_lettered"

\* Rows are well formed and no budget exceeds the bound on attempts.
RowsOK ==
    /\ jobs \in [JobIds -> Job]
    /\ \A j \in JobIds : RowOK(jobs[j], 0) /\ jobs[j].max_attempts <= MaxAttempts

ProcessesOK ==
    /\ worker \in [Workers -> Worker]
    /\ \A w \in Workers :
        /\ worker[w].pc \in Executing =>
            /\ worker[w].job \in JobIds
            /\ worker[w].attempt \in 1..jobs[worker[w].job].attempt_count
        /\ worker[w].outcome # "none" =>
            /\ worker[w].job \in JobIds
            /\ OutcomeHolds(worker[w].outcome, jobs[worker[w].job])

\* The table and the processes.
CoreOK == RowsOK /\ ProcessesOK /\ AttemptHasOneWorker /\ HolderIsLocked

BeatsOK == beat \in [Workers -> [status : HeartbeatStatuses, age : 0..(StaleAfter + 1)]]

ReconOK ==
    /\ recon \in [Reconcilers -> Recon]
    /\ \A r \in Reconcilers : recon[r].step = "settling" => recon[r].job \in JobIds

IInv == CoreOK /\ BeatsOK /\ ReconOK

LEMMA IInvImplies == IInv => TypeOK /\ AttemptHasOneWorker /\ HolderIsLocked /\ OutcomeIsDurable
  <1> SUFFICES ASSUME IInv PROVE TypeOK /\ OutcomeIsDurable
    BY DEF IInv, CoreOK
  <1>1. TypeOK
    BY RecordAssumption
       DEF IInv, CoreOK, RowsOK, ProcessesOK, BeatsOK, ReconOK, RowOK, TypeOK
  <1>2. OutcomeIsDurable
    BY DEF IInv, CoreOK, ProcessesOK, OutcomeIsDurable, OutcomeHolds
  <1> QED
    BY <1>1, <1>2

----------------------------------------------------------------------------
(* Rows.                                                                   *)

LEMMA EndedSteady ==
    ASSUME NEW job, RowOK(job, 0), NEW s \in JOB_STATUSES, s # "RUNNING", CanTransition(job, s)
    PROVE  LET row == Transitioned(job, s, NoWorker, 0) IN
           RowOK(row, 0) /\ Steady(job, row) /\ row.status = s
  <1> DEFINE row == Transitioned(job, s, NoWorker, 0)
  <1>1. RowOK(row, 0) /\ Evolves(job, row)
    BY TransitionedOK
  <1>2. row.status = s /\ row.attempt_count = job.attempt_count
    BY DEF RowOK, Job, Transitioned
  <1> QED
    BY <1>1, <1>2 DEF Steady, Evolves

LEMMA DeadLetteredSteady ==
    ASSUME NEW job, RowOK(job, 0), job.status = "RUNNING", NEW u \in Int
    PROVE  LET row == DeadLettered(job, u) IN
           RowOK(row, 0) /\ Steady(job, row) /\ row.status = "FAILED" /\ row.error = "dead_lettered"
  <1> DEFINE row == DeadLettered(job, u)
  <1>1. RowOK(row, 0)
    BY DeadLetteredOK
  <1>2. row.status = "FAILED" /\ row.error = "dead_lettered"
        /\ row.attempt_count = job.attempt_count /\ row.max_attempts = job.max_attempts
    BY DEF RowOK, Job, DeadLettered
  <1> QED
    BY <1>1, <1>2 DEF Steady

LEMMA RequeuedSteady ==
    ASSUME NEW job, RowOK(job, 0), job.status = "RUNNING", CanRetry(job), NEW u \in Int
    PROVE  LET row == Requeued(job, u) IN
           RowOK(row, 0) /\ Steady(job, row) /\ row.status = "QUEUED"
  <1> DEFINE row == Requeued(job, u)
  <1>1. RowOK(row, 0)
    BY RequeuedOK
  <1>2. row.status = "QUEUED"
        /\ row.attempt_count = job.attempt_count /\ row.max_attempts = job.max_attempts
    BY DEF RowOK, Job, Requeued
  <1> QED
    BY <1>1, <1>2 DEF Steady

\* What settle_worker_failure stores is either waiting again or a dead letter.
LEMMA SettledSteady ==
    ASSUME NEW job, RowOK(job, 0), job.status = "RUNNING", NEW f, NEW u \in Int
    PROVE  LET row == Settled(job, f, u) IN
           /\ RowOK(row, 0) /\ Steady(job, row)
           /\ row.status = "QUEUED" \/ OutcomeHolds("DEAD_LETTERED", row)
  <1> DEFINE row == Settled(job, f, u)
  <1>1. CASE f = "transient" /\ CanRetry(job)
    BY <1>1, RequeuedSteady DEF Settled, Retried
  <1>2. CASE ~(f = "transient" /\ CanRetry(job))
    <2>1. row = DeadLettered(job, u)
      BY <1>2 DEF Settled, Retried
    <2> QED
      BY <2>1, DeadLetteredSteady DEF OutcomeHolds
  <1> QED
    BY <1>1, <1>2

----------------------------------------------------------------------------
(* Steps that start nothing.                                               *)

\* Every row is Steady, and a row that stays in place is.
SteadyTable ==
    /\ RowsOK'
    /\ \A j \in JobIds : Steady(jobs[j], jobs'[j])

\* The process p becomes q: it keeps its attempt or drops it, and what it
\* reports is what it had reported or what the row says after the step.
Carries(p, q) ==
    /\ q \in Worker
    /\ q.pc \in Executing =>
        p.pc \in Executing /\ q.job = p.job /\ q.attempt = p.attempt
    /\ q.outcome # "none" =>
        \/ q.outcome = p.outcome /\ q.job = p.job
        \/ q.job \in JobIds /\ OutcomeHolds(q.outcome, jobs'[q.job])

\* A row that still runs after a Steady change is the row it was, and an
\* outcome it agreed with it still agrees with.
LEMMA SteadyKeeps ==
    ASSUME NEW old, NEW new, Steady(old, new), NEW o
    PROVE  /\ new.attempt_count = old.attempt_count
           /\ new.status = "RUNNING" => old.status = "RUNNING" /\ new.locked_by = old.locked_by
           /\ OutcomeHolds(o, old) => OutcomeHolds(o, new)
  BY DEF Steady, OutcomeHolds

LEMMA CoreStep ==
    ASSUME CoreOK, SteadyTable, worker' \in [Workers -> Worker],
           \A w \in Workers : Carries(worker[w], worker'[w])
    PROVE  CoreOK'
  <1>1. RowsOK'
    BY DEF SteadyTable
  <1>2. \A j \in JobIds : jobs'[j].attempt_count = jobs[j].attempt_count
    BY DEF SteadyTable, Steady
  <1>3. \A w \in Workers : worker'[w].pc \in Executing =>
            /\ worker[w].pc \in Executing
            /\ worker'[w].job = worker[w].job
            /\ worker'[w].attempt = worker[w].attempt
            /\ worker[w].job \in JobIds
            /\ worker[w].attempt \in 1..jobs[worker[w].job].attempt_count
    BY DEF Carries, CoreOK, ProcessesOK
  <1>4. ProcessesOK'
    <2> SUFFICES ASSUME NEW w \in Workers, worker'[w].outcome # "none"
                 PROVE  /\ worker'[w].job \in JobIds
                        /\ OutcomeHolds(worker'[w].outcome, jobs'[worker'[w].job])
      BY <1>2, <1>3 DEF ProcessesOK
    <2>1. CASE worker'[w].outcome = worker[w].outcome /\ worker'[w].job = worker[w].job
      <3>1. worker[w].job \in JobIds /\ OutcomeHolds(worker[w].outcome, jobs[worker[w].job])
        BY <2>1 DEF CoreOK, ProcessesOK
      <3> QED
        BY <2>1, <3>1, SteadyKeeps DEF SteadyTable
    <2> QED
      BY <2>1 DEF Carries
  <1>5. AttemptHasOneWorker'
    BY <1>3 DEF CoreOK, AttemptHasOneWorker
  <1>6. HolderIsLocked'
    <2> SUFFICES ASSUME NEW w \in Workers, worker'[w].pc \in Executing,
                        jobs'[worker'[w].job].status = "RUNNING",
                        jobs'[worker'[w].job].attempt_count = worker'[w].attempt
                 PROVE  jobs'[worker'[w].job].locked_by = w
      BY DEF HolderIsLocked
    <2> DEFINE j == worker[w].job
    <2>1. worker'[w].job = j /\ j \in JobIds /\ Steady(jobs[j], jobs'[j])
      BY <1>3 DEF SteadyTable
    <2>2. jobs[j].status = "RUNNING" /\ jobs'[j].locked_by = jobs[j].locked_by
          /\ jobs[j].attempt_count = worker[w].attempt
      BY <1>3, <2>1, SteadyKeeps
    <2> QED
      BY <1>3, <2>1, <2>2 DEF CoreOK, HolderIsLocked
  <1> QED
    BY <1>1, <1>4, <1>5, <1>6 DEF CoreOK

LEMMA SameTable == ASSUME RowsOK, UNCHANGED jobs PROVE SteadyTable
  BY DEF RowsOK, SteadyTable, Steady

LEMMA OneRow ==
    ASSUME RowsOK, NEW j \in JobIds, NEW row, RowOK(row, 0), Steady(jobs[j], row),
           jobs' = [jobs EXCEPT ![j] = row]
    PROVE  SteadyTable
  <1>1. \A i \in JobIds : jobs'[i] = IF i = j THEN row ELSE jobs[i]
    BY DEF RowsOK
  <1>2. jobs' \in [JobIds -> Job]
    BY DEF RowsOK, RowOK
  <1>3. \A i \in JobIds : RowOK(jobs'[i], 0) /\ jobs'[i].max_attempts <= MaxAttempts
    BY <1>1 DEF RowsOK, Steady
  <1>4. \A i \in JobIds : Steady(jobs[i], jobs'[i])
    BY <1>1 DEF Steady
  <1> QED
    BY <1>2, <1>3, <1>4 DEF RowsOK, SteadyTable

LEMMA SameProcess == ASSUME NEW p \in Worker PROVE Carries(p, p)
  BY DEF Carries

\* A step that moves one process, or none.
LEMMA OneProcess ==
    ASSUME CoreOK, SteadyTable, NEW w \in Workers, NEW q, Carries(worker[w], q),
           Become(w, q)
    PROVE  CoreOK'
  <1>1. worker \in [Workers -> Worker]
    BY DEF CoreOK, ProcessesOK
  <1>2. \A v \in Workers : worker'[v] = IF v = w THEN q ELSE worker[v]
    BY <1>1 DEF Become
  <1>3. worker' \in [Workers -> Worker]
    BY <1>1 DEF Become, Carries
  <1>4. \A v \in Workers : Carries(worker[v], worker'[v])
    BY <1>1, <1>2, SameProcess
  <1> QED
    BY <1>3, <1>4, CoreStep

LEMMA NoProcess == ASSUME CoreOK, SteadyTable, UNCHANGED worker PROVE CoreOK'
  <1>1. worker \in [Workers -> Worker]
    BY DEF CoreOK, ProcessesOK
  <1>2. \A v \in Workers : Carries(worker[v], worker'[v])
    BY <1>1, SameProcess
  <1> QED
    BY <1>1, <1>2, CoreStep

----------------------------------------------------------------------------
(* Processes.                                                              *)

PCs == {"down", "loop", "claiming"} \cup Executing

LEMMA Moved ==
    ASSUME NEW p \in Worker, NEW c \in PCs, c \in Executing => p.pc \in Executing
    PROVE  Carries(p, [p EXCEPT !.pc = c])
  <1> DEFINE q == [p EXCEPT !.pc = c]
  <1>1. q \in Worker
    BY DEF Worker, PCs
  <1>2. /\ q.pc = c /\ q.job = p.job /\ q.attempt = p.attempt /\ q.outcome = p.outcome
    BY DEF Worker
  <1> QED
    BY <1>1, <1>2 DEF Carries

LEMMA FailedHandler ==
    ASSUME NEW p \in Worker, p.pc \in Executing, NEW f \in {"transient", "permanent"}
    PROVE  Carries(p, [p EXCEPT !.pc = "settling", !.failure = f])
  <1> DEFINE c == "settling"
             q == [p EXCEPT !.pc = c, !.failure = f]
  <1>1. c \in {"down", "loop", "claiming"} \cup Executing /\ f \in {"none", "transient", "permanent"}
    BY DEF Executing
  <1>2. q \in Worker
    <2> HIDE DEF c
    <2> QED BY <1>1 DEF Worker
  <1>3. q.job = p.job /\ q.attempt = p.attempt /\ q.outcome = p.outcome
    BY DEF Worker
  <1> QED
    BY <1>2, <1>3 DEF Carries

LEMMA Latched ==
    ASSUME NEW p \in Worker, NEW l \in BOOLEAN
    PROVE  Carries(p, [p EXCEPT !.shutdown = l])
  <1> DEFINE q == [p EXCEPT !.shutdown = l]
  <1>1. q \in Worker
    BY DEF Worker
  <1>2. q.pc = p.pc /\ q.job = p.job /\ q.attempt = p.attempt /\ q.outcome = p.outcome
    BY DEF Worker
  <1> QED
    BY <1>1, <1>2 DEF Carries

\* A new or a dead process holds nothing.
LEMMA Fresh ==
    ASSUME NEW p \in Worker, NEW q \in Worker, q.pc \in {"down", "loop"}, q.outcome = "none"
    PROVE  Carries(p, q)
  BY DEF Carries, Executing

LEMMA FreshProcess ==
    ASSUME NEW p \in Worker, NEW l \in BOOLEAN
    PROVE  /\ Carries(p, DownWorker)
           /\ Carries(p, [DownWorker EXCEPT !.shutdown = l])
           /\ Carries(p, [DownWorker EXCEPT !.pc = "loop", !.shutdown = l])
  <1> DEFINE c == "loop"
             down == [DownWorker EXCEPT !.shutdown = l]
             loop == [DownWorker EXCEPT !.pc = c, !.shutdown = l]
  <1>1. DownWorker \in Worker
    BY WorkerAssumption DEF DownWorker, Worker
  <1>2. c \in {"down", "loop", "claiming"} \cup Executing
    OBVIOUS
  <1>3. down \in Worker
    BY <1>1 DEF Worker
  <1>4. loop \in Worker
    <2> HIDE DEF c
    <2> QED BY <1>1, <1>2 DEF Worker
  <1>5. /\ DownWorker.pc = "down" /\ DownWorker.outcome = "none"
        /\ down.pc = "down" /\ down.outcome = "none"
        /\ loop.pc = "loop" /\ loop.outcome = "none"
    BY DEF DownWorker
  <1> HIDE DEF down, loop
  <1>6. Carries(p, DownWorker) /\ Carries(p, down) /\ Carries(p, loop)
    BY <1>1, <1>3, <1>4, <1>5, Fresh
  <1> QED
    BY <1>6 DEF down, loop

LEMMA FinishedProcess ==
    ASSUME NEW p \in Worker, p.job \in JobIds,
           NEW o \in {"SUCCEEDED", "CANCELLED", "RETRY_SCHEDULED", "DEAD_LETTERED"},
           OutcomeHolds(o, jobs'[p.job])
    PROVE  Carries(p, [p EXCEPT !.pc = "loop", !.outcome = o, !.attempt = 0, !.failure = "none"])
  <1> DEFINE c == "loop"  a == 0  f == "none"
             q == [p EXCEPT !.pc = c, !.outcome = o, !.attempt = a, !.failure = f]
  <1>1. /\ c \in {"down", "loop", "claiming"} \cup Executing
        /\ a \in 0..MaxAttempts /\ f \in {"none", "transient", "permanent"}
        /\ o \in {"none", "SUCCEEDED", "CANCELLED", "RETRY_SCHEDULED", "DEAD_LETTERED"}
    BY WorkerAssumption
  <1>2. q \in Worker
    <2> HIDE DEF c, a, f
    <2> QED BY <1>1 DEF Worker
  <1>3. q.pc = "loop" /\ q.job = p.job /\ q.outcome = o
    BY DEF Worker
  <1> QED
    BY <1>2, <1>3 DEF Carries, Executing

----------------------------------------------------------------------------
(* Heartbeats.                                                             *)

LEMMA ReportOK ==
    ASSUME BeatsOK, NEW w \in Workers, NEW s \in HeartbeatStatuses,
           NEW a \in 0..(StaleAfter + 1), Report(w, s, a)
    PROVE  BeatsOK'
  <1>1. [status |-> s, age |-> a] \in [status : HeartbeatStatuses, age : 0..(StaleAfter + 1)]
    OBVIOUS
  <1> QED
    BY <1>1 DEF Report, BeatsOK

LEMMA EmitOK ==
    ASSUME BeatsOK, NEW w \in Workers, NEW s \in HeartbeatStatuses,
           Emit(w, s) \/ UNCHANGED beat
    PROVE  BeatsOK'
  <1>1. CASE UNCHANGED beat
    BY <1>1 DEF BeatsOK
  <1>2. CASE Report(w, s, 0)
    <2>1. 0 \in 0..(StaleAfter + 1)
      BY WorkerAssumption
    <2> QED
      BY <1>2, <2>1, ReportOK
  <1> QED
    BY <1>1, <1>2 DEF Emit

LEMMA EmitBothOK ==
    ASSUME BeatsOK, NEW w \in Workers, NEW s \in HeartbeatStatuses, NEW t \in HeartbeatStatuses,
           EmitBoth(w, s, t)
    PROVE  BeatsOK'
  <1>1. Emit(w, s) \/ Emit(w, t)
    BY DEF EmitBoth, Emit
  <1> QED
    BY <1>1, EmitOK

LEMMA IdleStatusType == \A w \in Workers : IdleStatus(w) \in HeartbeatStatuses
  BY DEF IdleStatus, HeartbeatStatuses, ACTIVE_WORKER_HEARTBEAT_STATUSES

LEMMA Statuses ==
    {"STARTING", "IDLE", "BUSY", "STOPPING", "STOPPED", "ERROR", "missing"}
        \subseteq HeartbeatStatuses
  BY DEF HeartbeatStatuses, ACTIVE_WORKER_HEARTBEAT_STATUSES

----------------------------------------------------------------------------
(* Time.                                                                   *)

LEMMA EarlierType ==
    ASSUME NEW t \in Int, NEW f \in Int
    PROVE  Earlier(t, f) \in Int /\ (t <= 0 /\ f <= 0 => Earlier(t, f) <= 0)
  BY DEF Earlier

LEMMA TickInv == IInv /\ Tick => IInv'
  <1> SUFFICES ASSUME IInv, Tick PROVE IInv'
    OBVIOUS
  <1>1. SteadyTable
    <2> SUFFICES ASSUME NEW j \in JobIds
                 PROVE  RowOK(jobs'[j], 0) /\ Steady(jobs[j], jobs'[j])
      BY DEF Tick, SteadyTable, RowsOK, RowOK, Steady, IInv, CoreOK
    <2> DEFINE a == Earlier(jobs[j].available_at, 0)
               l == IF jobs[j].locked_by = NoWorker THEN 0
                    ELSE Earlier(jobs[j].locked_at, OldestLock)
               row == [jobs[j] EXCEPT !.available_at = a, !.locked_at = l]
    <2>1. RowOK(jobs[j], 0) /\ jobs[j] \in Job
      BY DEF IInv, CoreOK, RowsOK
    <2>2. jobs[j].available_at \in Int /\ jobs[j].locked_at \in Int
      BY <2>1 DEF Job
    <2>3. a \in Int /\ l \in Int /\ (jobs[j].locked_at <= 0 => l <= 0)
      <3> DEFINE f == OldestLock
      <3>1. f \in Int /\ f <= 0
        BY WorkerAssumption DEF OldestLock
      <3> HIDE DEF f
      <3>2. Earlier(jobs[j].locked_at, f) \in Int
            /\ (jobs[j].locked_at <= 0 => Earlier(jobs[j].locked_at, f) <= 0)
        BY <2>2, <3>1, EarlierType
      <3>3. a \in Int
        BY <2>2 DEF Earlier
      <3> QED
        BY <3>2, <3>3 DEF f
    <2>4. jobs'[j] = row
      BY DEF Tick
    <2> HIDE DEF a, l
    <2>5. row \in Job
      BY <2>1, <2>3 DEF Job
    <2>6. /\ row.status = jobs[j].status /\ row.locked_by = jobs[j].locked_by
          /\ row.error = jobs[j].error /\ row.attempt_count = jobs[j].attempt_count
          /\ row.max_attempts = jobs[j].max_attempts /\ row.locked_at = l
      BY <2>1 DEF Job
    <2>7. (row.retryable <=> jobs[j].retryable) /\ (row.completed <=> jobs[j].completed)
      BY <2>1 DEF Job
    <2> HIDE DEF row
    <2>8. RowOK(row, 0)
      BY <2>1, <2>3, <2>5, <2>6, <2>7 DEF RowOK
    <2>9. Steady(jobs[j], row)
      BY <2>6 DEF Steady
    <2> QED
      BY <2>4, <2>8, <2>9
  <1>2. CoreOK'
    BY <1>1, NoProcess DEF IInv, Tick
  <1>3. BeatsOK'
    <2> SUFFICES ASSUME NEW w \in Workers
                 PROVE  beat'[w] \in [status : HeartbeatStatuses, age : 0..(StaleAfter + 1)]
      BY DEF Tick, BeatsOK
    <2> DEFINE n == IF beat[w].age <= StaleAfter /\ beat[w].status \in ACTIVE_WORKER_HEARTBEAT_STATUSES
                    THEN beat[w].age + 1 ELSE beat[w].age
    <2>1. beat[w] \in [status : HeartbeatStatuses, age : 0..(StaleAfter + 1)]
      BY DEF IInv, BeatsOK
    <2>2. n \in 0..(StaleAfter + 1)
      BY <2>1, WorkerAssumption
    <2>3. beat'[w] = [beat[w] EXCEPT !.age = n]
      BY DEF Tick
    <2> HIDE DEF n
    <2> QED
      BY <2>1, <2>2, <2>3
  <1>4. ReconOK'
    <2> SUFFICES ASSUME NEW r \in Reconcilers
                 PROVE  recon'[r] \in Recon /\ (recon'[r].step = "settling" => recon'[r].job \in JobIds)
      BY DEF Tick, ReconOK
    <2> DEFINE t == IF recon[r].step = "idle" THEN 0 ELSE Earlier(recon[r].at, -MaxDelay)
    <2>1. recon[r] \in Recon /\ (recon[r].step = "settling" => recon[r].job \in JobIds)
      BY DEF IInv, ReconOK
    <2>2. t \in -MaxDelay..0
      BY <2>1, RecordAssumption DEF Recon, Earlier
    <2>3. recon'[r] = [recon[r] EXCEPT !.at = t]
      BY DEF Tick
    <2> HIDE DEF t
    <2> QED
      BY <2>1, <2>2, <2>3 DEF Recon
  <1> QED
    BY <1>2, <1>3, <1>4 DEF IInv

----------------------------------------------------------------------------
(* Steps of a worker.                                                      *)

\* What a worker step may rely on.
LEMMA InvWorker ==
    ASSUME IInv, NEW w \in Workers
    PROVE  /\ CoreOK /\ RowsOK /\ BeatsOK /\ ReconOK
           /\ worker[w] \in Worker /\ worker[w].shutdown \in BOOLEAN
           /\ worker[w].pc \in Executing =>
                worker[w].job \in JobIds /\ RowOK(jobs[worker[w].job], 0)
  BY DEF IInv, CoreOK, RowsOK, ProcessesOK, Worker

\* A step that moves one process and leaves the reports well formed.
LEMMA ProcessStep ==
    ASSUME IInv, SteadyTable, NEW w \in Workers, NEW q, Carries(worker[w], q),
           Become(w, q), BeatsOK', UNCHANGED recon
    PROVE  IInv'
  <1>1. CoreOK'
    BY OneProcess DEF IInv
  <1>2. ReconOK'
    BY DEF IInv, ReconOK
  <1> QED
    BY <1>1, <1>2 DEF IInv

\* A step that moves one process and reports at most one status.
LEMMA WorkerStep ==
    ASSUME IInv, SteadyTable, NEW w \in Workers, NEW q, Carries(worker[w], q),
           Become(w, q), NEW s \in HeartbeatStatuses, Emit(w, s) \/ UNCHANGED beat,
           UNCHANGED recon
    PROVE  IInv'
  <1>1. BeatsOK'
    BY EmitOK DEF IInv
  <1> QED
    BY <1>1, ProcessStep

LEMMA StartInv == ASSUME IInv, NEW w \in Workers, Start(w) PROVE IInv'
  <1>1. PICK latch \in {FALSE, worker[w].shutdown} :
            /\ Become(w, [DownWorker EXCEPT !.pc = "loop", !.shutdown = latch])
            /\ EmitBoth(w, "STARTING", IF latch THEN "STOPPING" ELSE "IDLE")
    BY DEF Start
  <1> DEFINE s == IF latch THEN "STOPPING" ELSE "IDLE"
             q == [DownWorker EXCEPT !.pc = "loop", !.shutdown = latch]
  <1>2. latch \in BOOLEAN
    BY InvWorker
  <1>3. SteadyTable
    BY InvWorker, SameTable DEF Start
  <1>4. s \in HeartbeatStatuses /\ "STARTING" \in HeartbeatStatuses
    BY Statuses
  <1>5. Carries(worker[w], q)
    BY <1>2, InvWorker, FreshProcess
  <1>6. Become(w, q) /\ EmitBoth(w, "STARTING", s)
    BY <1>1
  <1> HIDE DEF q, s
  <1>7. BeatsOK'
    BY <1>4, <1>6, InvWorker, EmitBothOK
  <1> QED
    BY <1>3, <1>5, <1>6, <1>7, ProcessStep DEF Start

LEMMA ReturnInv == ASSUME IInv, NEW w \in Workers, Return(w) PROVE IInv'
  <1> DEFINE q == [worker[w] EXCEPT !.pc = "down"]
  <1>1. SteadyTable
    BY InvWorker, SameTable DEF Return
  <1>2. Carries(worker[w], q)
    BY InvWorker, Moved DEF PCs, Executing
  <1>3. Become(w, q) /\ (EmitBoth(w, "STOPPING", "STOPPED") \/ UNCHANGED beat)
    BY DEF Return
  <1>4. BeatsOK'
    BY <1>3, Statuses, InvWorker, EmitBothOK DEF BeatsOK
  <1> HIDE DEF q
  <1> QED
    BY <1>1, <1>2, <1>3, <1>4, ProcessStep DEF Return

LEMMA CanClaimInv == ASSUME IInv, NEW w \in Workers, CanClaim(w) PROVE IInv'
  <1> DEFINE q == [worker[w] EXCEPT !.pc = "claiming"]
             s == "IDLE"
  <1>1. SteadyTable
    BY InvWorker, SameTable DEF CanClaim
  <1>2. Carries(worker[w], q)
    BY InvWorker, Moved DEF PCs, Executing
  <1>3. Become(w, q) /\ (Emit(w, s) \/ UNCHANGED beat)
    BY DEF CanClaim
  <1>4. s \in HeartbeatStatuses
    BY Statuses
  <1> HIDE DEF q, s
  <1> QED
    BY <1>1, <1>2, <1>3, <1>4, WorkerStep DEF CanClaim

\* The age of the report is that of the lock, as far as a reader can tell.
LEMMA BusyReport ==
    ASSUME IInv, NEW w \in Workers, worker[w].pc = "claimed", RequireActive(w), EmitBusy(w)
    PROVE  BeatsOK'
  <1> DEFINE age == -jobs[worker[w].job].locked_at
             a == IF age > StaleAfter THEN StaleAfter + 1 ELSE age
  <1>1. RowOK(jobs[worker[w].job], 0) /\ jobs[worker[w].job].locked_by # NoWorker
    BY InvWorker, RecordAssumption DEF Executing, RequireActive
  <1>2. age \in Int /\ age >= 0
    BY <1>1 DEF RowOK, Job
  <1> HIDE DEF age
  <1>3. a \in 0..(StaleAfter + 1)
    BY <1>2, WorkerAssumption
  <1>4. Report(w, "BUSY", a) \/ UNCHANGED beat
    BY DEF EmitBusy, age
  <1> HIDE DEF a
  <1> QED
    BY <1>3, <1>4, InvWorker, Statuses, ReportOK DEF BeatsOK

LEMMA BusyInv == ASSUME IInv, NEW w \in Workers, Busy(w) PROVE IInv'
  <1> DEFINE q == [worker[w] EXCEPT !.pc = "before"]
             d == [DownWorker EXCEPT !.shutdown = worker[w].shutdown]
  <1>1. SteadyTable
    BY InvWorker, SameTable DEF Busy
  <1>2. Carries(worker[w], q)
    BY InvWorker, Moved DEF PCs, Executing, Busy
  <1>3. Carries(worker[w], d)
    BY InvWorker, FreshProcess
  <1>4. /\ Become(w, q) \/ Become(w, d)
        /\ (RequireActive(w) /\ EmitBusy(w)) \/ UNCHANGED beat
    BY DEF Busy
  <1>5. BeatsOK'
    BY <1>4, InvWorker, BusyReport DEF Busy, BeatsOK
  <1> HIDE DEF q, d
  <1> QED
    BY <1>1, <1>2, <1>3, <1>4, <1>5, ProcessStep DEF Busy

\* _execute_claimed returned an outcome that the row bears out.
LEMMA FinishedInv ==
    ASSUME IInv, SteadyTable, NEW w \in Workers, worker[w].job \in JobIds,
           NEW o \in {"SUCCEEDED", "CANCELLED", "RETRY_SCHEDULED", "DEAD_LETTERED"},
           OutcomeHolds(o, jobs'[worker[w].job]), Finished(w, o), UNCHANGED recon
    PROVE  IInv'
  <1> DEFINE q == [worker[w] EXCEPT !.pc = "loop", !.outcome = o,
                                    !.attempt = 0, !.failure = "none"]
             s == IdleStatus(w)
  <1>1. Carries(worker[w], q)
    BY InvWorker, FinishedProcess
  <1>2. Become(w, q) /\ Emit(w, s)
    BY DEF Finished
  <1>3. s \in HeartbeatStatuses
    BY IdleStatusType
  <1> HIDE DEF q, s
  <1> QED
    BY <1>1, <1>2, <1>3, WorkerStep

LEMMA RaisedInv ==
    ASSUME IInv, SteadyTable, NEW w \in Workers, Raised(w), UNCHANGED recon
    PROVE  IInv'
  <1> DEFINE d == [DownWorker EXCEPT !.shutdown = worker[w].shutdown]
             s == "ERROR"
  <1>1. Carries(worker[w], d)
    BY InvWorker, FreshProcess
  <1>2. Become(w, d) /\ Emit(w, s)
    BY DEF Raised
  <1>3. s \in HeartbeatStatuses
    BY Statuses
  <1> HIDE DEF d, s
  <1> QED
    BY <1>1, <1>2, <1>3, WorkerStep

LEMMA CheckpointInv == ASSUME IInv, NEW w \in Workers, Checkpoint(w) PROVE IInv'
  <1>1. SteadyTable /\ worker[w].job \in JobIds /\ worker[w].pc \in Executing /\ UNCHANGED <<jobs, recon>>
    BY InvWorker, SameTable DEF Checkpoint, Executing
  <1>2. CASE jobs[worker[w].job].status = "RUNNING"
    <2> DEFINE c == IF worker[w].pc = "after" THEN "completing" ELSE "handling"
               q == [worker[w] EXCEPT !.pc = c]
               s == "IDLE"
    <2>1. c \in PCs
      BY DEF PCs, Executing
    <2>2. Become(w, q) /\ UNCHANGED beat
      BY <1>2 DEF Checkpoint
    <2>3. s \in HeartbeatStatuses
      BY Statuses
    <2> HIDE DEF c, s
    <2>4. Carries(worker[w], q)
      BY <1>1, <2>1, InvWorker, Moved
    <2> HIDE DEF q
    <2> QED
      BY <1>1, <2>2, <2>3, <2>4, WorkerStep
  <1>3. CASE jobs[worker[w].job].status = "CANCELLED"
    <2>1. Finished(w, "CANCELLED")
      BY <1>3 DEF Checkpoint
    <2>2. OutcomeHolds("CANCELLED", jobs'[worker[w].job])
      BY <1>1, <1>3 DEF OutcomeHolds
    <2> QED
      BY <1>1, <2>1, <2>2, FinishedInv
  <1>4. CASE jobs[worker[w].job].status \notin {"RUNNING", "CANCELLED"}
    BY <1>1, <1>4, RaisedInv DEF Checkpoint
  <1> QED
    BY <1>2, <1>3, <1>4

\* A process that holds a job goes on to settle a failure.
LEMMA FailedInv ==
    ASSUME IInv, SteadyTable, NEW w \in Workers, worker[w].pc \in Executing,
           NEW f \in {"transient", "permanent"},
           Become(w, [worker[w] EXCEPT !.pc = "settling", !.failure = f]),
           UNCHANGED <<beat, recon>>
    PROVE  IInv'
  <1> DEFINE q == [worker[w] EXCEPT !.pc = "settling", !.failure = f]
             s == "IDLE"
  <1>1. Carries(worker[w], q)
    BY InvWorker, FailedHandler
  <1>2. Become(w, q) /\ s \in HeartbeatStatuses
    BY Statuses
  <1> HIDE DEF q, s
  <1> QED
    BY <1>1, <1>2, WorkerStep

LEMMA HandlerEndsInv == ASSUME IInv, NEW w \in Workers, HandlerEnds(w) PROVE IInv'
  <1>1. SteadyTable /\ worker[w].pc \in Executing /\ UNCHANGED <<beat, recon>>
    BY InvWorker, SameTable DEF HandlerEnds, Executing
  <1>2. CASE Become(w, [worker[w] EXCEPT !.pc = "after"])
    <2> DEFINE q == [worker[w] EXCEPT !.pc = "after"]
               s == "IDLE"
    <2>1. Carries(worker[w], q)
      BY <1>1, InvWorker, Moved DEF PCs, Executing
    <2>2. Become(w, q) /\ s \in HeartbeatStatuses
      BY <1>2, Statuses
    <2> HIDE DEF q, s
    <2> QED
      BY <1>1, <2>1, <2>2, WorkerStep
  <1>3. ASSUME NEW f \in {"transient", "permanent"},
               Become(w, [worker[w] EXCEPT !.pc = "settling", !.failure = f])
        PROVE  IInv'
    BY <1>1, <1>3, FailedInv
  <1> QED
    BY <1>2, <1>3 DEF HandlerEnds

\* The row complete_job stores.
LEMMA CompletedTable ==
    ASSUME RowsOK, NEW j \in JobIds, jobs[j].status = "RUNNING",
           jobs' = [jobs EXCEPT ![j] = Transitioned(jobs[j], "SUCCEEDED", NoWorker, 0)]
    PROVE  SteadyTable /\ OutcomeHolds("SUCCEEDED", jobs'[j])
  <1> DEFINE s == "SUCCEEDED"
             row == Transitioned(jobs[j], s, NoWorker, 0)
  <1>1. /\ RowOK(jobs[j], 0) /\ s \in JOB_STATUSES /\ s # "RUNNING"
        /\ CanTransition(jobs[j], s)
    BY DEF RowsOK, JOB_STATUSES, TERMINAL_JOB_STATUSES, CanTransition, VALID_JOB_TRANSITIONS
  <1>2. RowOK(row, 0) /\ Steady(jobs[j], row) /\ row.status = s
    <2> HIDE DEF s
    <2> QED BY <1>1, EndedSteady
  <1>3. jobs' = [jobs EXCEPT ![j] = row]
    OBVIOUS
  <1>4. row.status = "SUCCEEDED"
    BY <1>2
  <1> HIDE DEF row
  <1>5. SteadyTable
    BY <1>2, <1>3, OneRow
  <1>6. jobs'[j] = row
    BY <1>3 DEF RowsOK
  <1> QED
    BY <1>4, <1>5, <1>6 DEF OutcomeHolds

LEMMA CompleteInv == ASSUME IInv, NEW w \in Workers, Complete(w) PROVE IInv'
  <1> DEFINE j == worker[w].job
             completed == jobs' = [jobs EXCEPT ![j] = Transitioned(jobs[j], "SUCCEEDED", NoWorker, 0)]
  <1>1. RowsOK /\ j \in JobIds /\ worker[w].pc \in Executing /\ UNCHANGED recon
    BY InvWorker DEF Complete, Executing
  <1>2. CASE jobs[j].status = "RUNNING" /\ completed /\ Finished(w, "SUCCEEDED")
    BY <1>1, <1>2, CompletedTable, FinishedInv
  <1>3. CASE jobs[j].status = "SUCCEEDED" /\ Finished(w, "SUCCEEDED") /\ UNCHANGED jobs
    BY <1>1, <1>3, SameTable, FinishedInv DEF OutcomeHolds
  <1>4. CASE /\ UNCHANGED jobs \/ (jobs[j].status = "RUNNING" /\ completed)
             /\ Become(w, [worker[w] EXCEPT !.pc = "settling", !.failure = "transient"])
             /\ UNCHANGED beat
    BY <1>1, <1>4, CompletedTable, SameTable, FailedInv
  <1> QED
    BY <1>2, <1>3, <1>4 DEF Complete

\* A row settled as a failure, by its worker or by reconciliation.
LEMMA SettledTable ==
    ASSUME RowsOK, NEW j \in JobIds, jobs[j].status = "RUNNING", NEW f, NEW u \in Int,
           jobs' = [jobs EXCEPT ![j] = Settled(jobs[j], f, u)]
    PROVE  SteadyTable /\ jobs'[j] = Settled(jobs[j], f, u)
  <1> DEFINE row == Settled(jobs[j], f, u)
  <1>1. RowOK(row, 0) /\ Steady(jobs[j], row)
    BY SettledSteady DEF RowsOK
  <1>2. jobs' = [jobs EXCEPT ![j] = row]
    OBVIOUS
  <1> HIDE DEF row
  <1>3. SteadyTable /\ jobs'[j] = row
    BY <1>1, <1>2, OneRow DEF RowsOK
  <1> QED
    BY <1>3 DEF row

LEMMA SettleInv == ASSUME IInv, NEW w \in Workers, Settle(w) PROVE IInv'
  <1> DEFINE j == worker[w].job
             row == Settled(jobs[j], worker[w].failure, 0)
             o == IF row.status = "QUEUED" THEN "RETRY_SCHEDULED" ELSE "DEAD_LETTERED"
  <1>1. RowsOK /\ j \in JobIds /\ UNCHANGED recon /\ RowOK(jobs[j], 0)
    BY InvWorker DEF Settle, Executing
  <1>2. CASE jobs[j].status = "RUNNING"
    <2>1. jobs' = [jobs EXCEPT ![j] = row] /\ Finished(w, o)
      BY <1>2 DEF Settle
    <2>2. SteadyTable /\ jobs'[j] = row
      <3> DEFINE f == worker[w].failure
                 u == 0
      <3>1. jobs' = [jobs EXCEPT ![j] = Settled(jobs[j], f, u)] /\ u \in Int
        BY <2>1
      <3> HIDE DEF f, u
      <3>2. SteadyTable /\ jobs'[j] = Settled(jobs[j], f, u)
        BY <1>1, <1>2, <3>1, SettledTable
      <3> QED
        BY <3>2 DEF f, u
    <2>3. row.status = "QUEUED" \/ OutcomeHolds("DEAD_LETTERED", row)
      BY <1>1, <1>2, SettledSteady
    <2> HIDE DEF row
    <2>4. OutcomeHolds(o, jobs'[j]) /\ o \in {"SUCCEEDED", "CANCELLED", "RETRY_SCHEDULED", "DEAD_LETTERED"}
      BY <2>2, <2>3 DEF OutcomeHolds
    <2> HIDE DEF o
    <2> QED
      BY <1>1, <2>1, <2>2, <2>4, FinishedInv
  <1>3. CASE jobs[j].status # "RUNNING"
    BY <1>1, <1>3, SameTable, RaisedInv DEF Settle
  <1> QED
    BY <1>2, <1>3

LEMMA RequestShutdownInv == ASSUME IInv, NEW w \in Workers, RequestShutdown(w) PROVE IInv'
  <1> DEFINE l == TRUE
             q == [worker[w] EXCEPT !.shutdown = l]
             s == "STOPPING"
  <1>1. SteadyTable
    BY InvWorker, SameTable DEF RequestShutdown
  <1>2. /\ Become(w, q) /\ (Emit(w, s) \/ UNCHANGED beat)
        /\ s \in HeartbeatStatuses /\ l \in BOOLEAN
    BY Statuses DEF RequestShutdown
  <1> HIDE DEF l, s
  <1>3. Carries(worker[w], q)
    BY <1>2, InvWorker, Latched
  <1> HIDE DEF q
  <1> QED
    BY <1>1, <1>2, <1>3, WorkerStep DEF RequestShutdown

LEMMA CrashInv == ASSUME IInv, NEW w \in Workers, Crash(w) PROVE IInv'
  <1> DEFINE q == DownWorker
             s == "IDLE"
  <1>1. SteadyTable
    BY InvWorker, SameTable DEF Crash
  <1>2. Become(w, q) /\ s \in HeartbeatStatuses
    BY Statuses DEF Crash
  <1>3. Carries(worker[w], q)
    BY InvWorker, FreshProcess
  <1> HIDE DEF q, s
  <1> QED
    BY <1>1, <1>2, <1>3, WorkerStep DEF Crash

----------------------------------------------------------------------------
(* Claim: the one step that starts an attempt.                             *)

\* The claimed row counts one attempt more and is locked by the claimer.
LEMMA ClaimedRow ==
    ASSUME NEW job, RowOK(job, 0), NEW y, IsClaimable(job, y, 0), NEW w \in Workers
    PROVE  LET row == Transitioned(job, "RUNNING", w, 0) IN
           /\ RowOK(row, 0)
           /\ row.status = "RUNNING" /\ row.locked_by = w
           /\ row.attempt_count = job.attempt_count + 1
           /\ job.attempt_count \in Nat
           /\ job.status = "QUEUED" /\ row.max_attempts = job.max_attempts
  <1> DEFINE s == "RUNNING"
             u == 0
             row == Transitioned(job, s, w, u)
  <1>1. /\ s \in JOB_STATUSES /\ CanTransition(job, s)
        /\ w \in Workers \cup {NoWorker} /\ u \in Int /\ u <= 0
    BY DEF JOB_STATUSES, CanTransition, VALID_JOB_TRANSITIONS, IsClaimable
  <1>2. RowOK(row, 0)
    <2> HIDE DEF s, u
    <2>1. 0 \in Int
      OBVIOUS
    <2> QED BY <1>1, <2>1, TransitionedOK
  <1>3. /\ row.status = "RUNNING" /\ row.locked_by = w
        /\ row.attempt_count = job.attempt_count + 1
        /\ row.max_attempts = job.max_attempts
    BY DEF RowOK, Job, Transitioned, TERMINAL_JOB_STATUSES
  <1> QED
    BY <1>2, <1>3 DEF RowOK, Job, IsClaimable

\* The process holds attempt n of job j.
Claims(q, j, n) ==
    q \in Worker /\ q.pc = "claimed" /\ q.job = j /\ q.attempt = n /\ q.outcome = "none"

LEMMA ClaimingProcess ==
    ASSUME NEW p \in Worker, NEW j \in JobIds, NEW n \in 0..MaxAttempts
    PROVE  Claims([p EXCEPT !.pc = "claimed", !.job = j, !.attempt = n,
                            !.failure = "none", !.outcome = "none"], j, n)
  <1> DEFINE c == "claimed"  f == "none"  o == "none"
             q == [p EXCEPT !.pc = c, !.job = j, !.attempt = n, !.failure = f, !.outcome = o]
  <1>1. /\ c \in {"down", "loop", "claiming"} \cup Executing
        /\ f \in {"none", "transient", "permanent"}
        /\ o \in {"none", "SUCCEEDED", "CANCELLED", "RETRY_SCHEDULED", "DEAD_LETTERED"}
    BY DEF Executing
  <1>2. q \in Worker
    <2> HIDE DEF c, f, o
    <2> QED BY <1>1 DEF Worker
  <1> QED
    BY <1>2 DEF Worker, Claims

\* A row is claimed: its attempt number is new, so no other execution shares
\* it, and every other execution of the job is no longer the current one.
LEMMA ClaimRowInv ==
    ASSUME IInv, NEW w \in Workers, NEW j \in JobIds, NEW y, IsClaimable(jobs[j], y, 0),
           jobs' = [jobs EXCEPT ![j] = Transitioned(jobs[j], "RUNNING", w, 0)],
           Become(w, [worker[w] EXCEPT !.pc = "claimed", !.job = j,
                                       !.attempt = jobs'[j].attempt_count,
                                       !.failure = "none", !.outcome = "none"]),
           UNCHANGED <<beat, recon>>
    PROVE  IInv'
  <1> DEFINE row == Transitioned(jobs[j], "RUNNING", w, 0)
             n == jobs'[j].attempt_count
             q == [worker[w] EXCEPT !.pc = "claimed", !.job = j, !.attempt = n,
                                    !.failure = "none", !.outcome = "none"]
  <1>1. RowsOK /\ RowOK(jobs[j], 0) /\ worker[w] \in Worker /\ worker \in [Workers -> Worker]
    BY InvWorker DEF RowsOK, IInv, CoreOK, ProcessesOK
  <1>2. /\ RowOK(row, 0)
        /\ row.status = "RUNNING" /\ row.locked_by = w
        /\ row.attempt_count = jobs[j].attempt_count + 1
        /\ jobs[j].attempt_count \in Nat
        /\ jobs[j].status = "QUEUED" /\ row.max_attempts = jobs[j].max_attempts
    BY <1>1, ClaimedRow
  <1> HIDE DEF row
  <1>3. \A i \in JobIds : jobs'[i] = IF i = j THEN row ELSE jobs[i]
    BY <1>1 DEF RowsOK, row
  <1>4. RowsOK'
    <2>1. jobs' \in [JobIds -> Job]
      BY <1>1, <1>2 DEF RowsOK, RowOK, row
    <2> QED
      BY <1>1, <1>2, <1>3, <2>1 DEF RowsOK
  <1>5. n = jobs[j].attempt_count + 1 /\ n \in 1..MaxAttempts
    <2>1. row.attempt_count <= row.max_attempts /\ row.max_attempts <= MaxAttempts
          /\ row.max_attempts \in Nat
      BY <1>1, <1>2 DEF RowOK, RowsOK, Job
    <2> QED
      BY <1>2, <1>3, <2>1, WorkerAssumption
  <1> HIDE DEF n
  <1>6. q \in Worker /\ q.pc = "claimed" /\ q.job = j /\ q.attempt = n /\ q.outcome = "none"
    <2>1. n \in 0..MaxAttempts /\ worker[w] \in Worker
      BY <1>1, <1>5, WorkerAssumption
    <2>2. Claims(q, j, n)
      BY <2>1, ClaimingProcess
    <2> QED
      BY <2>2 DEF Claims
  <1>7. \A v \in Workers : worker'[v] = IF v = w THEN q ELSE worker[v]
    BY <1>1 DEF Become, n
  <1>8. worker' \in [Workers -> Worker]
    <2>1. worker' = [worker EXCEPT ![w] = q]
      BY DEF Become, n
    <2> HIDE DEF q
    <2> QED
      BY <1>1, <1>6, <2>1
  <1> HIDE DEF q
  <1>9. ASSUME NEW v \in Workers, v # w, worker'[v].pc \in Executing
        PROVE  /\ worker[v].pc \in Executing
               /\ worker'[v].job = worker[v].job /\ worker'[v].attempt = worker[v].attempt
               /\ worker[v].job \in JobIds
               /\ worker[v].attempt \in 1..jobs[worker[v].job].attempt_count
    BY <1>7, <1>9 DEF IInv, CoreOK, ProcessesOK
  <1>10. ProcessesOK'
    <2> SUFFICES ASSUME NEW v \in Workers
                 PROVE  /\ worker'[v].pc \in Executing =>
                            /\ worker'[v].job \in JobIds
                            /\ worker'[v].attempt \in 1..jobs'[worker'[v].job].attempt_count
                        /\ worker'[v].outcome # "none" =>
                            /\ worker'[v].job \in JobIds
                            /\ OutcomeHolds(worker'[v].outcome, jobs'[worker'[v].job])
      BY <1>8 DEF ProcessesOK
    <2>1. CASE v = w
      <3>1. jobs'[j].attempt_count = n
        BY DEF n
      <3> QED
        BY <1>5, <1>6, <1>7, <2>1, <3>1
    <2>2. CASE v # w
      <3>1. worker'[v] = worker[v]
        BY <1>7, <2>2
      <3>2. worker[v].outcome # "none" =>
                /\ worker[v].job \in JobIds
                /\ OutcomeHolds(worker[v].outcome, jobs'[worker[v].job])
        BY <1>2, <1>3 DEF IInv, CoreOK, ProcessesOK, OutcomeHolds
      <3>3. worker[v].pc \in Executing =>
                worker[v].attempt \in 1..jobs'[worker[v].job].attempt_count
        <4> SUFFICES ASSUME worker[v].pc \in Executing
                     PROVE  worker[v].attempt \in 1..jobs'[worker[v].job].attempt_count
          OBVIOUS
        <4>1. /\ worker[v].job \in JobIds
              /\ worker[v].attempt \in 1..jobs[worker[v].job].attempt_count
          BY <1>9, <2>2, <3>1
        <4>2. CASE worker[v].job = j
          BY <1>2, <1>3, <4>1, <4>2
        <4>3. CASE worker[v].job # j
          BY <1>3, <4>1, <4>3
        <4> QED
          BY <4>2, <4>3
      <3> QED
        BY <1>9, <2>2, <3>1, <3>2, <3>3
    <2> QED
      BY <2>1, <2>2
  <1>11. AttemptHasOneWorker'
    <2> SUFFICES ASSUME NEW u \in Workers, NEW v \in Workers, u # v,
                        worker'[u].pc \in Executing, worker'[v].pc \in Executing,
                        worker'[u].job = worker'[v].job
                 PROVE  worker'[u].attempt # worker'[v].attempt
      BY DEF AttemptHasOneWorker
    <2>1. ASSUME NEW x \in Workers, x # w, worker'[x].pc \in Executing, worker'[x].job = j
          PROVE  worker'[x].attempt # n
      <3>1. worker[x].attempt \in 1..jobs[j].attempt_count /\ worker'[x].attempt = worker[x].attempt
        BY <1>9, <2>1
      <3> QED
        BY <1>2, <1>5, <3>1
    <2>2. worker'[w].job = j /\ worker'[w].attempt = n
      BY <1>6, <1>7
    <2>3. CASE u = w
      BY <2>1, <2>2, <2>3
    <2>4. CASE v = w
      BY <2>1, <2>2, <2>4
    <2>5. CASE u # w /\ v # w
      BY <1>9, <2>5 DEF IInv, CoreOK, AttemptHasOneWorker
    <2> QED
      BY <2>3, <2>4, <2>5
  <1>12. HolderIsLocked'
    <2> SUFFICES ASSUME NEW v \in Workers, worker'[v].pc \in Executing,
                        jobs'[worker'[v].job].status = "RUNNING",
                        jobs'[worker'[v].job].attempt_count = worker'[v].attempt
                 PROVE  jobs'[worker'[v].job].locked_by = v
      BY DEF HolderIsLocked
    <2>1. CASE v = w
      BY <1>2, <1>3, <1>6, <1>7, <2>1
    <2>2. CASE v # w /\ worker[v].job = j
      <3>1. worker[v].attempt \in 1..jobs[j].attempt_count
            /\ jobs'[j].attempt_count = worker[v].attempt
        BY <1>9, <2>2
      <3> QED
        BY <1>2, <1>3, <3>1
    <2>3. CASE v # w /\ worker[v].job # j
      BY <1>3, <1>9, <2>3 DEF IInv, CoreOK, HolderIsLocked
    <2> QED
      BY <2>1, <2>2, <2>3
  <1>13. BeatsOK' /\ ReconOK'
    BY DEF IInv, BeatsOK, ReconOK
  <1> QED
    BY <1>4, <1>10, <1>11, <1>12, <1>13 DEF IInv, CoreOK

LEMMA ClaimInv == ASSUME IInv, NEW w \in Workers, Claim(w) PROVE IInv'
  <1>1. ASSUME Return(w) PROVE IInv'
    BY <1>1, ReturnInv
  <1> QED
    BY <1>1, ClaimRowInv DEF Claim

----------------------------------------------------------------------------
(* Operators and reconcilers.                                              *)

LEMMA OperatorCancelInv == ASSUME IInv, NEW j \in JobIds, OperatorCancel(j) PROVE IInv'
  <1> DEFINE s == "CANCELLED"
             row == Transitioned(jobs[j], s, NoWorker, 0)
  <1>1. /\ RowsOK /\ RowOK(jobs[j], 0) /\ s \in JOB_STATUSES /\ s # "RUNNING"
        /\ CanTransition(jobs[j], s) /\ jobs' = [jobs EXCEPT ![j] = row]
    BY DEF IInv, CoreOK, RowsOK, OperatorCancel, JOB_STATUSES, TERMINAL_JOB_STATUSES
  <1>2. RowOK(row, 0) /\ Steady(jobs[j], row)
    <2> HIDE DEF s
    <2> QED BY <1>1, EndedSteady
  <1> HIDE DEF row
  <1>3. SteadyTable
    BY <1>1, <1>2, OneRow
  <1> QED
    BY <1>3, NoProcess DEF OperatorCancel, IInv, BeatsOK, ReconOK

LEMMA OperatorRetryInv == ASSUME IInv, NEW j \in JobIds, OperatorRetry(j) PROVE IInv'
  <1> DEFINE f == "transient"
             u == 0
  <1>1. /\ RowsOK /\ jobs[j].status = "RUNNING" /\ u \in Int
        /\ jobs' = [jobs EXCEPT ![j] = Settled(jobs[j], f, u)]
    BY DEF IInv, CoreOK, OperatorRetry, Settled
  <1> HIDE DEF f, u
  <1>2. SteadyTable
    BY <1>1, SettledTable
  <1> QED
    BY <1>2, NoProcess DEF OperatorRetry, IInv, BeatsOK, ReconOK

\* A step of one reconciler that leaves the table Steady.
LEMMA ServeInv ==
    ASSUME IInv, SteadyTable, NEW r \in Reconcilers, NEW request, request \in Recon,
           request.step = "settling" => request.job \in JobIds, Serve(r, request)
    PROVE  IInv'
  <1>1. CoreOK'
    BY NoProcess DEF Serve, IInv
  <1>2. ReconOK'
    BY DEF Serve, IInv, ReconOK
  <1> QED
    BY <1>1, <1>2 DEF Serve, IInv, BeatsOK

LEMMA IdleReconType == IdleRecon \in Recon /\ IdleRecon.step = "idle"
  BY RecordAssumption DEF IdleRecon, Recon

LEMMA StartPlanInv == ASSUME IInv, NEW r \in Reconcilers, StartPlan(r) PROVE IInv'
  <1> DEFINE c == "planning"
             todo == {j \in JobIds : jobs[j].status = "RUNNING"}
             q == [IdleRecon EXCEPT !.step = c, !.todo = todo]
  <1>1. SteadyTable
    BY SameTable DEF StartPlan, IInv, CoreOK
  <1>2. todo \subseteq JobIds
    OBVIOUS
  <1>3. q \in Recon /\ q.step = "planning"
    <2> HIDE DEF todo
    <2> QED BY <1>2, IdleReconType DEF Recon
  <1>4. Serve(r, q)
    BY DEF StartPlan
  <1> HIDE DEF q
  <1> QED
    BY <1>1, <1>3, <1>4, ServeInv

LEMMA PlanJobInv == ASSUME IInv, NEW r \in Reconcilers, PlanJob(r) PROVE IInv'
  <1>1. SteadyTable /\ recon[r] \in Recon /\ recon[r].step = "planning"
    BY SameTable DEF PlanJob, IInv, CoreOK, ReconOK
  <1>2. PICK j \in recon[r].todo :
        Serve(r, [recon[r] EXCEPT
            !.todo = @ \ {j},
            !.step = IF recon[r].todo = {j} THEN "applying" ELSE @,
            !.recover = IF PlannedForRecovery(j, recon[r].at) THEN @ \cup {j} ELSE @])
    BY DEF PlanJob
  <1> DEFINE t == recon[r].todo \ {j}
             c == IF recon[r].todo = {j} THEN "applying" ELSE recon[r].step
             v == IF PlannedForRecovery(j, recon[r].at) THEN recon[r].recover \cup {j}
                  ELSE recon[r].recover
             q == [recon[r] EXCEPT !.todo = t, !.step = c, !.recover = v]
  <1>3. t \in SUBSET JobIds /\ v \in SUBSET JobIds /\ c \in {"planning", "applying"}
    BY <1>1 DEF Recon
  <1>4. Serve(r, q)
    BY <1>2
  <1> HIDE DEF t, c, v
  <1>5. q \in Recon /\ q.step # "settling"
    BY <1>1, <1>3 DEF Recon
  <1> HIDE DEF q
  <1> QED
    BY <1>1, <1>4, <1>5, ServeInv

LEMMA ApplyReadInv == ASSUME IInv, NEW r \in Reconcilers, ApplyRead(r) PROVE IInv'
  <1>1. SteadyTable /\ recon[r] \in Recon /\ recon[r].step = "applying"
    BY SameTable DEF ApplyRead, IInv, CoreOK, ReconOK
  <1>2. PICK j \in recon[r].recover :
        LET rest == [recon[r] EXCEPT !.recover = @ \ {j}]
        IN  \/ Serve(r, [rest EXCEPT !.step = "settling", !.job = j])
            \/ Serve(r, rest)
    BY DEF ApplyRead
  <1> DEFINE rest == [recon[r] EXCEPT !.recover = recon[r].recover \ {j}]
             q == [rest EXCEPT !.step = "settling", !.job = j]
  <1>3. j \in JobIds
    BY <1>1 DEF Recon
  <1>4. rest \in Recon /\ rest.step = "applying"
    BY <1>1 DEF Recon
  <1>5. Serve(r, q) \/ Serve(r, rest)
    BY <1>2
  <1> HIDE DEF rest
  <1>6. q \in Recon /\ q.job \in JobIds
    BY <1>3, <1>4 DEF Recon
  <1> HIDE DEF q
  <1> QED
    BY <1>1, <1>4, <1>5, <1>6, ServeInv

LEMMA ApplySettleInv == ASSUME IInv, NEW r \in Reconcilers, ApplySettle(r) PROVE IInv'
  <1> DEFINE j == recon[r].job
             f == "transient"
             u == recon[r].at
             q == [recon[r] EXCEPT !.step = "applying", !.job = NoJob]
  <1>1. RowsOK /\ recon[r] \in Recon /\ j \in JobIds
    BY DEF ApplySettle, IInv, CoreOK, ReconOK
  <1>2. CASE jobs[j].status = "RUNNING"
    <2>1. jobs' = [jobs EXCEPT ![j] = Settled(jobs[j], f, u)] /\ Serve(r, q)
      BY <1>2 DEF ApplySettle
    <2>2. u \in Int
      BY <1>1, RecordAssumption DEF Recon
    <2>3. q \in Recon /\ q.step # "settling"
      BY <1>1 DEF Recon
    <2> HIDE DEF f, u, q
    <2>4. SteadyTable
      BY <1>1, <1>2, <2>1, <2>2, SettledTable
    <2> QED
      BY <2>1, <2>3, <2>4, ServeInv
  <1>3. CASE jobs[j].status # "RUNNING"
    <2>1. UNCHANGED jobs /\ Serve(r, IdleRecon)
      BY <1>3 DEF ApplySettle
    <2> QED
      BY <1>1, <2>1, SameTable, IdleReconType, ServeInv
  <1> QED
    BY <1>2, <1>3

LEMMA EndReconcileInv == ASSUME IInv, NEW r \in Reconcilers, EndReconcile(r) PROVE IInv'
  <1>1. SteadyTable /\ Serve(r, IdleRecon)
    BY SameTable DEF EndReconcile, IInv, CoreOK
  <1> QED
    BY <1>1, IdleReconType, ServeInv

----------------------------------------------------------------------------
(* The invariant.                                                          *)

LEMMA InitInv == Init => IInv
  <1> SUFFICES ASSUME Init PROVE IInv
    OBVIOUS
  <1>1. RowsOK
    <2> DEFINE rows == {NewJob(y, k, m, r, 0, NoJob) :
                    y \in JobTypes, k \in Keys, m \in 1..MaxAttempts, r \in BOOLEAN}
    <2>1. ASSUME NEW row \in rows
          PROVE  RowOK(row, 0) /\ row.max_attempts <= MaxAttempts
      <3>1. PICK y \in JobTypes, k \in Keys, m \in 1..MaxAttempts, r \in BOOLEAN :
                row = NewJob(y, k, m, r, 0, NoJob)
        BY <2>1
      <3>2. m \in Nat \ {0} /\ 0 \in Int
        OBVIOUS
      <3>3. RowOK(NewJob(y, k, m, r, 0, NoJob), 0)
        BY <3>2, NewJobOK
      <3> QED
        BY <3>1, <3>3 DEF NewJob
    <2>2. jobs \in [JobIds -> rows]
      BY DEF Init
    <2> HIDE DEF rows
    <2> QED
      BY <2>1, <2>2 DEF RowsOK, RowOK
  <1>2. DownWorker \in Worker /\ DownWorker.pc \notin Executing /\ DownWorker.outcome = "none"
    BY WorkerAssumption DEF DownWorker, Worker, Executing
  <1>3. worker \in [Workers -> Worker] /\ \A w \in Workers : worker[w] = DownWorker
    BY <1>2 DEF Init
  <1>4. ProcessesOK /\ AttemptHasOneWorker /\ HolderIsLocked
    BY <1>2, <1>3 DEF ProcessesOK, AttemptHasOneWorker, HolderIsLocked
  <1>5. BeatsOK
    <2>1. 0 \in 0..(StaleAfter + 1) /\ "missing" \in HeartbeatStatuses
      BY WorkerAssumption, Statuses
    <2> QED
      BY <2>1 DEF Init, BeatsOK
  <1>6. ReconOK
    BY IdleReconType DEF Init, ReconOK
  <1> QED
    BY <1>1, <1>4, <1>5, <1>6 DEF IInv, CoreOK

LEMMA NextInv == IInv /\ [Next]_vars => IInv'
  <1> SUFFICES ASSUME IInv, [Next]_vars PROVE IInv'
    OBVIOUS
  <1>1. CASE UNCHANGED vars
    <2>1. CoreOK'
      BY <1>1, SameTable, NoProcess DEF vars, IInv, CoreOK
    <2> QED
      BY <1>1, <2>1 DEF vars, IInv, BeatsOK, ReconOK
  <1>2. ASSUME NEW w \in Workers, Run(w) PROVE IInv'
    BY <1>2, ReturnInv, CanClaimInv, ClaimInv, BusyInv, CheckpointInv, HandlerEndsInv,
       CompleteInv, SettleInv DEF Run, EndBatch
  <1>3. ASSUME NEW w \in Workers, Start(w) \/ RequestShutdown(w) \/ Crash(w) PROVE IInv'
    BY <1>3, StartInv, RequestShutdownInv, CrashInv
  <1>4. ASSUME NEW j \in JobIds, OperatorCancel(j) \/ OperatorRetry(j) PROVE IInv'
    BY <1>4, OperatorCancelInv, OperatorRetryInv
  <1>5. ASSUME NEW r \in Reconcilers, Reconcile(r) PROVE IInv'
    BY <1>5, StartPlanInv, PlanJobInv, ApplyReadInv, ApplySettleInv, EndReconcileInv
       DEF Reconcile
  <1> QED
    BY <1>1, <1>2, <1>3, <1>4, <1>5, TickInv DEF Next

LEMMA Invariance == Spec => []IInv
  BY InitInv, NextInv, PTL DEF Spec

\* The variables keep their types, and no job is started more often than its
\* budget allows, whatever workers, operators and reconcilers do.
THEOREM WorkerTypeCorrect == Spec => []TypeOK
  BY Invariance, IInvImplies, PTL

\* However often a job is recovered, retried or cancelled under a worker that
\* still runs it, no two executions share an attempt number.
THEOREM AttemptsAreExclusive == Spec => []AttemptHasOneWorker
  BY Invariance, IInvImplies, PTL

\* The lock names the worker that executes the current attempt of a RUNNING
\* job, which is what reconciliation judges the job by.
THEOREM LockNamesHolder == Spec => []HolderIsLocked
  BY Invariance, IInvImplies, PTL

\* A batch's SUCCEEDED, CANCELLED or DEAD_LETTERED is never taken back by a
\* late completion, a stale recovery or an operator.
THEOREM OutcomesLast == Spec => []OutcomeIsDurable
  BY Invariance, IInvImplies, PTL

----------------------------------------------------------------------------
(* Shutdown and the reports.                                               *)

\* The pc values at which no report of the worker is on its way.
Quiet == {"down", "claiming", "claimed"}

\* A worker that was told to shut down there has no active heartbeat.
Silent ==
    \A w \in Workers : worker[w].shutdown /\ worker[w].pc \in Quiet
        => beat[w].status \notin ACTIVE_WORKER_HEARTBEAT_STATUSES

LossBounded == LostReports \cap {"STOPPING", "ERROR"} = {}

LEMMA ReportStatus ==
    ASSUME BeatsOK, NEW w \in Workers, NEW s, NEW a, Report(w, s, a)
    PROVE  /\ beat'[w].status = s
           /\ \A v \in Workers \ {w} : beat'[v] = beat[v]
  BY DEF Report, BeatsOK

\* What one process reports is silent, and the others keep their reports.
SilentMove(w, q) ==
    /\ q.shutdown /\ q.pc \in Quiet => beat'[w].status \notin ACTIVE_WORKER_HEARTBEAT_STATUSES
    /\ \A v \in Workers \ {w} : beat'[v] = beat[v]

LEMMA SilentStep ==
    ASSUME IInv, Silent, NEW w \in Workers, NEW q, Become(w, q), SilentMove(w, q)
    PROVE  Silent'
  <1>1. worker \in [Workers -> Worker]
    BY DEF IInv, CoreOK, ProcessesOK
  <1>2. \A v \in Workers : worker'[v] = IF v = w THEN q ELSE worker[v]
    BY <1>1 DEF Become
  <1> QED
    BY <1>2 DEF Silent, SilentMove

\* A process that is not quiet, or whose latch is not set, may report anything.
LEMMA LoudMove ==
    ASSUME IInv, NEW w \in Workers, NEW q, q.pc \notin Quiet \/ ~q.shutdown,
           UNCHANGED beat \/ \E s, a : Report(w, s, a)
    PROVE  SilentMove(w, q)
  <1>1. BeatsOK
    BY DEF IInv
  <1> QED
    BY <1>1, ReportStatus DEF SilentMove

LEMMA InactiveMove ==
    ASSUME IInv, NEW w \in Workers, NEW q, NEW s \in {"STOPPING", "STOPPED", "ERROR"},
           Report(w, s, 0)
    PROVE  SilentMove(w, q)
  <1>1. BeatsOK /\ s \notin ACTIVE_WORKER_HEARTBEAT_STATUSES
    BY DEF IInv, ACTIVE_WORKER_HEARTBEAT_STATUSES
  <1> QED
    BY <1>1, ReportStatus DEF SilentMove

\* The process stays quiet under its latch and reports nothing.
LEMMA SameMove ==
    ASSUME Silent, NEW w \in Workers, NEW q, UNCHANGED beat,
           q.shutdown => worker[w].shutdown, worker[w].pc \in Quiet
    PROVE  SilentMove(w, q)
  BY DEF Silent, SilentMove

LEMMA EmitReports ==
    ASSUME NEW w, NEW s, Emit(w, s)
    PROVE  UNCHANGED beat \/ \E t, a : Report(w, t, a)
  BY DEF Emit

LEMMA SilentStart ==
    ASSUME IInv, Silent, NEW w \in Workers, Start(w)
    PROVE  Silent'
  <1>1. PICK latch \in {FALSE, worker[w].shutdown} :
            /\ Become(w, [DownWorker EXCEPT !.pc = "loop", !.shutdown = latch])
            /\ EmitBoth(w, "STARTING", IF latch THEN "STOPPING" ELSE "IDLE")
    BY DEF Start
  <1> DEFINE q == [DownWorker EXCEPT !.pc = "loop", !.shutdown = latch]
  <1>2. q.pc \notin Quiet
    BY DEF DownWorker, Quiet
  <1>3. Become(w, q) /\ (UNCHANGED beat \/ \E s, a : Report(w, s, a))
    BY <1>1 DEF EmitBoth, Emit
  <1> HIDE DEF q
  <1> QED
    BY <1>2, <1>3, LoudMove, SilentStep

\* After a shutdown the batch ends with STOPPING at the least.
LEMMA SilentReturn ==
    ASSUME LossBounded, IInv, Silent, NEW w \in Workers, Return(w)
    PROVE  Silent'
  <1> DEFINE q == [worker[w] EXCEPT !.pc = "down"]
  <1>1. Become(w, q) /\ (q.shutdown <=> worker[w].shutdown)
    BY InvWorker DEF Return, Worker
  <1> HIDE DEF q
  <1>2. CASE worker[w].shutdown
    <2>1. EmitBoth(w, "STOPPING", "STOPPED")
      BY <1>2 DEF Return
    <2>2. Report(w, "STOPPED", 0) \/ Report(w, "STOPPING", 0)
      BY <2>1 DEF EmitBoth, Emit, LossBounded
    <2> QED
      BY <1>1, <2>2, InactiveMove, SilentStep
  <1>3. CASE ~worker[w].shutdown
    BY <1>1, <1>3, LoudMove, SilentStep DEF Return
  <1> QED
    BY <1>2, <1>3

LEMMA SilentRaised ==
    ASSUME LossBounded, IInv, Silent, NEW w \in Workers, Raised(w)
    PROVE  Silent'
  <1> DEFINE q == [DownWorker EXCEPT !.shutdown = worker[w].shutdown]
  <1>1. Become(w, q) /\ Report(w, "ERROR", 0)
    BY DEF Raised, Emit, LossBounded
  <1> HIDE DEF q
  <1> QED
    BY <1>1, InactiveMove, SilentStep

LEMMA SilentFinished ==
    ASSUME IInv, Silent, NEW w \in Workers, NEW o, Finished(w, o)
    PROVE  Silent'
  <1> DEFINE q == [worker[w] EXCEPT !.pc = "loop", !.outcome = o, !.attempt = 0,
                                    !.failure = "none"]
  <1>1. Become(w, q) /\ Emit(w, IdleStatus(w)) /\ q.pc \notin Quiet
    BY InvWorker DEF Finished, Worker, Quiet
  <1> HIDE DEF q
  <1> QED
    BY <1>1, EmitReports, LoudMove, SilentStep

\* A process that takes an execution on without a report.
LEMMA SilentGoesOn ==
    ASSUME IInv, Silent, NEW w \in Workers, UNCHANGED beat, NEW q, Become(w, q),
           q.pc \notin Quiet
    PROVE  Silent'
  BY LoudMove, SilentStep

LEMMA SilentClaims ==
    ASSUME LossBounded, IInv, Silent, NEW w \in Workers, CanClaim(w) \/ Claim(w)
    PROVE  Silent'
  <1> DEFINE p == worker[w]
  <1>1. p \in Worker
    BY InvWorker
  <1>2. CASE CanClaim(w)
    <2> DEFINE q == [p EXCEPT !.pc = "claiming"]
    <2>1. Become(w, q) /\ UNCHANGED beat /\ ~q.shutdown
      BY <1>1, <1>2 DEF CanClaim, Worker
    <2> HIDE DEF q
    <2> QED
      BY <2>1, LoudMove, SilentStep
  <1>3. ASSUME NEW n, NEW j \in JobIds, p.pc = "claiming", UNCHANGED beat,
               Become(w, [p EXCEPT !.pc = "claimed", !.job = j, !.attempt = n,
                                   !.failure = "none", !.outcome = "none"])
        PROVE  Silent'
    <2> DEFINE q == [p EXCEPT !.pc = "claimed", !.job = j, !.attempt = n,
                              !.failure = "none", !.outcome = "none"]
    <2>1. Become(w, q) /\ (q.shutdown <=> p.shutdown)
      BY <1>1, <1>3 DEF Worker
    <2> HIDE DEF q
    <2>2. p.pc \in Quiet
      BY <1>3 DEF Quiet
    <2> QED
      BY <1>3, <2>1, <2>2, SameMove, SilentStep
  <1>4. CASE Claim(w)
    BY <1>3, <1>4, SilentReturn DEF Claim
  <1> QED
    BY <1>2, <1>4

\* The latch is looked at before the report is written.
LEMMA SilentBusy ==
    ASSUME IInv, Silent, NEW w \in Workers, Busy(w)
    PROVE  Silent'
  <1> DEFINE d == [DownWorker EXCEPT !.shutdown = worker[w].shutdown]
             q == [worker[w] EXCEPT !.pc = "before"]
  <1>1. \/ Become(w, d) /\ UNCHANGED beat
        \/ Become(w, q) /\ EmitBusy(w)
    BY DEF Busy
  <1>2. d.shutdown <=> worker[w].shutdown
    BY InvWorker DEF DownWorker, Worker
  <1>3. q.pc \notin Quiet
    BY InvWorker DEF Worker, Quiet
  <1>4. worker[w].pc \in Quiet
    BY DEF Busy, Quiet
  <1> HIDE DEF d, q
  <1>5. CASE Become(w, d) /\ UNCHANGED beat
    BY <1>2, <1>4, <1>5, SameMove, SilentStep
  <1>6. CASE Become(w, q) /\ EmitBusy(w)
    <2>1. UNCHANGED beat \/ \E s, a : Report(w, s, a)
      BY <1>6 DEF EmitBusy
    <2> QED
      BY <1>3, <1>6, <2>1, LoudMove, SilentStep
  <1> QED
    BY <1>1, <1>5, <1>6

LEMMA SilentExecutes ==
    ASSUME LossBounded, IInv, Silent, NEW w \in Workers,
           Checkpoint(w) \/ HandlerEnds(w) \/ Complete(w) \/ Settle(w)
    PROVE  Silent'
  <1> DEFINE p == worker[w]
  <1>1. p \in Worker
    BY InvWorker
  <1>2. ASSUME NEW pc \in {"handling", "after", "completing", "settling"},
               Become(w, [p EXCEPT !.pc = pc]), UNCHANGED beat
        PROVE  Silent'
    <2> DEFINE q == [p EXCEPT !.pc = pc]
    <2>1. Become(w, q) /\ q.pc \notin Quiet
      BY <1>1, <1>2 DEF Worker, Quiet
    <2> HIDE DEF q
    <2> QED
      BY <1>2, <2>1, SilentGoesOn
  <1>3. ASSUME NEW f, Become(w, [p EXCEPT !.pc = "settling", !.failure = f]), UNCHANGED beat
        PROVE  Silent'
    <2> DEFINE q == [p EXCEPT !.pc = "settling", !.failure = f]
    <2>1. Become(w, q) /\ q.pc \notin Quiet
      BY <1>1, <1>3 DEF Worker, Quiet
    <2> HIDE DEF q
    <2> QED
      BY <1>3, <2>1, SilentGoesOn
  <1>4. CASE Checkpoint(w)
    BY <1>2, <1>4, SilentFinished, SilentRaised DEF Checkpoint
  <1>5. CASE HandlerEnds(w)
    BY <1>2, <1>3, <1>5 DEF HandlerEnds
  <1>6. CASE Complete(w)
    BY <1>3, <1>6, SilentFinished DEF Complete
  <1>7. CASE Settle(w)
    BY <1>7, SilentFinished, SilentRaised DEF Settle
  <1> QED
    BY <1>4, <1>5, <1>6, <1>7

\* At a quiet point no other report can come after the STOPPING.
LEMMA SilentRequest ==
    ASSUME LossBounded, IInv, Silent, NEW w \in Workers, RequestShutdown(w)
    PROVE  Silent'
  <1> DEFINE q == [worker[w] EXCEPT !.shutdown = TRUE]
  <1>1. Become(w, q) /\ q.pc = worker[w].pc
    BY InvWorker DEF RequestShutdown, Worker
  <1> HIDE DEF q
  <1>2. CASE Emit(w, "STOPPING")
    <2>1. Report(w, "STOPPING", 0)
      BY <1>2 DEF Emit, LossBounded
    <2> QED
      BY <1>1, <2>1, InactiveMove, SilentStep
  <1>3. CASE worker[w].pc \in {"loop", "before"} /\ UNCHANGED beat
    <2>1. q.pc \notin Quiet
      BY <1>1, <1>3 DEF Quiet
    <2> QED
      BY <1>1, <1>3, <2>1, SilentGoesOn
  <1> QED
    BY <1>2, <1>3 DEF RequestShutdown

LEMMA SilentCrash ==
    ASSUME IInv, Silent, NEW w \in Workers, Crash(w)
    PROVE  Silent'
  <1>1. Become(w, DownWorker) /\ ~DownWorker.shutdown /\ UNCHANGED beat
    BY DEF Crash, DownWorker
  <1> QED
    BY <1>1, LoudMove, SilentStep

\* Time only ages a report.
LEMMA SilentTick == ASSUME IInv, Silent, Tick PROVE Silent'
  <1>1. \A w \in Workers : beat'[w].status = beat[w].status
    BY DEF Tick, IInv, BeatsOK
  <1> QED
    BY <1>1 DEF Silent, Tick

LEMMA SilentNext == ASSUME LossBounded PROVE IInv /\ Silent /\ [Next]_vars => Silent'
  <1> SUFFICES ASSUME IInv, Silent, [Next]_vars PROVE Silent'
    OBVIOUS
  <1>1. CASE UNCHANGED <<worker, beat>>
    BY <1>1 DEF Silent
  <1>2. ASSUME NEW w \in Workers, Start(w) \/ Run(w) \/ RequestShutdown(w) \/ Crash(w)
        PROVE  Silent'
    BY <1>2, SilentStart, SilentReturn, SilentClaims, SilentBusy, SilentExecutes,
       SilentRequest, SilentCrash DEF Run, EndBatch
  <1>3. CASE Tick
    BY <1>3, SilentTick
  <1> QED
    BY <1>1, <1>2, <1>3 DEF Next, vars, OperatorCancel, OperatorRetry, Reconcile, StartPlan,
       PlanJob, ApplyRead, ApplySettle, EndReconcile, Serve

LEMMA SilentEnough == IInv /\ Silent => ShutdownShieldsNoJob
  BY RecordAssumption
     DEF Silent, Quiet, ShutdownShieldsNoJob, PlannedForRecovery, HeartbeatAvailable

\* As long as neither STOPPING nor ERROR is lost, a job that a shutdown left
\* RUNNING is recovered by the first plan after its lease has expired: BUSY and
\* IDLE, written late or lost, never stand in the way.
THEOREM ShutdownShields ==
    ASSUME LossBounded
    PROVE  Spec => []ShutdownShieldsNoJob
  <1>1. Init => Silent
    BY DEF Init, Silent, DownWorker
  <1> QED
    BY <1>1, Invariance, SilentNext, SilentEnough, PTL DEF Spec

----------------------------------------------------------------------------
(* The table implements JobLifecycle.                                      *)

LEMMA SettledAdvances ==
    ASSUME NEW job, RowOK(job, 0), job.status = "RUNNING", NEW f, NEW u
    PROVE  Advances(job, Settled(job, f, u))
  BY RetriedAdvances, DeadLetteredAdvances DEF Settled

\* A row that moves as its job may, or is inserted, is a step of the promise.
LEMMA RowFollows ==
    ASSUME RowsOK, NEW j \in JobIds, NEW row, jobs' = [jobs EXCEPT ![j] = row],
           Advances(jobs[j], row) \/ Submits(jobs[j], row)
    PROVE  Lifecycle!Next
  <1>1. Promised(j, PhasesOf(JobIds, jobs), UsedOf(JobIds, jobs), BudgetsOf(JobIds, jobs),
            PhasesOf(JobIds, jobs'), UsedOf(JobIds, jobs'), BudgetsOf(JobIds, jobs'))
    BY RowIsPromised DEF RowsOK
  <1>2. Lifecycle!Submit(j) \/ Lifecycle!Start(j) \/ Lifecycle!Requeue(j)
        \/ Lifecycle!Finish(j) \/ Lifecycle!Cancel(j)
    BY <1>1 DEF PhasesOf, UsedOf, BudgetsOf, Promised, Lifecycle!Submit, Lifecycle!Start,
        Lifecycle!Requeue, Lifecycle!Finish, Lifecycle!Cancel, Lifecycle!Move, Lifecycle!Ended
  <1> QED
    BY <1>2 DEF Lifecycle!Next

LEMMA TransitionStep ==
    ASSUME IInv, NEW j \in JobIds, NEW s \in JOB_STATUSES, CanTransition(jobs[j], s),
           NEW w, NEW u, jobs' = [jobs EXCEPT ![j] = Transitioned(jobs[j], s, w, u)]
    PROVE  Lifecycle!Next
  BY TransitionedAdvances, RowFollows DEF IInv, CoreOK, RowsOK

LEMMA SettleStep ==
    ASSUME IInv, NEW j \in JobIds, jobs[j].status = "RUNNING", NEW f, NEW u,
           jobs' = [jobs EXCEPT ![j] = Settled(jobs[j], f, u)]
    PROVE  Lifecycle!Next
  BY SettledAdvances, RowFollows DEF IInv, CoreOK, RowsOK

LEMMA TickStutters == ASSUME IInv, Tick PROVE UNCHANGED Lifecycle!vars
  <1>1. ASSUME NEW j \in JobIds
        PROVE  /\ jobs'[j].status = jobs[j].status /\ jobs'[j].error = jobs[j].error
               /\ jobs'[j].attempt_count = jobs[j].attempt_count
               /\ jobs'[j].max_attempts = jobs[j].max_attempts
    BY <1>1 DEF IInv, CoreOK, RowsOK, Tick, Job
  <1>2. \A j \in JobIds : Phase(jobs'[j]) = Phase(jobs[j])
    BY <1>1 DEF Phase
  <1> QED
    BY <1>1, <1>2 DEF Lifecycle!vars

LEMMA CompleteStep ==
    ASSUME IInv, NEW w \in Workers, Complete(w)
    PROVE  [Lifecycle!Next]_Lifecycle!vars
  <1> DEFINE j == worker[w].job
             s == "SUCCEEDED"
             u == 0
  <1>1. j \in JobIds /\ s \in JOB_STATUSES
    BY InvWorker DEF Complete, Executing, JOB_STATUSES, TERMINAL_JOB_STATUSES
  <1>2. CASE UNCHANGED jobs
    BY <1>2 DEF Lifecycle!vars
  <1>3. CASE /\ jobs[j].status = "RUNNING"
             /\ jobs' = [jobs EXCEPT ![j] = Transitioned(jobs[j], s, NoWorker, u)]
    <2>1. CanTransition(jobs[j], s)
      BY <1>3 DEF CanTransition, VALID_JOB_TRANSITIONS, TERMINAL_JOB_STATUSES
    <2> HIDE DEF s, u
    <2> QED
      BY <1>1, <1>3, <2>1, TransitionStep
  <1> QED
    BY <1>2, <1>3 DEF Complete

LEMMA ClaimStep ==
    ASSUME IInv, NEW w \in Workers, Claim(w)
    PROVE  [Lifecycle!Next]_Lifecycle!vars
  <1>1. ASSUME Return(w) PROVE [Lifecycle!Next]_Lifecycle!vars
    BY <1>1 DEF Return, Lifecycle!vars
  <1>2. ASSUME NEW j \in JobIds, NEW y, IsClaimable(jobs[j], y, 0),
               jobs' = [jobs EXCEPT ![j] = Transitioned(jobs[j], "RUNNING", w, 0)]
        PROVE  Lifecycle!Next
    <2> DEFINE s == "RUNNING"
               u == 0
    <2>1. /\ s \in JOB_STATUSES /\ CanTransition(jobs[j], s)
          /\ jobs' = [jobs EXCEPT ![j] = Transitioned(jobs[j], s, w, u)]
      BY <1>2 DEF JOB_STATUSES, CanTransition, VALID_JOB_TRANSITIONS, IsClaimable
    <2> HIDE DEF s, u
    <2> QED
      BY <2>1, TransitionStep
  <1> QED
    BY <1>1, <1>2 DEF Claim

LEMMA SettlementStep ==
    ASSUME IInv,
           \/ \E w \in Workers : Settle(w)
           \/ \E j \in JobIds : OperatorRetry(j)
           \/ \E r \in Reconcilers : ApplySettle(r)
    PROVE  [Lifecycle!Next]_Lifecycle!vars
  <1>1. CASE UNCHANGED jobs
    BY <1>1 DEF Lifecycle!vars
  <1>2. ASSUME NEW w \in Workers, Settle(w) PROVE [Lifecycle!Next]_Lifecycle!vars
    <2> DEFINE f == worker[w].failure
               u == 0
    <2>1. worker[w].job \in JobIds
      BY <1>2, InvWorker DEF Settle, Executing
    <2>2. \/ UNCHANGED jobs
          \/ /\ jobs[worker[w].job].status = "RUNNING"
             /\ jobs' = [jobs EXCEPT ![worker[w].job] = Settled(jobs[worker[w].job], f, u)]
      BY <1>2 DEF Settle
    <2> HIDE DEF f, u
    <2> QED
      BY <1>1, <2>1, <2>2, SettleStep
  <1>3. ASSUME NEW j \in JobIds, OperatorRetry(j) PROVE Lifecycle!Next
    <2> DEFINE f == "transient"
               u == 0
    <2>1. /\ jobs[j].status = "RUNNING"
          /\ jobs' = [jobs EXCEPT ![j] = Settled(jobs[j], f, u)]
      BY <1>3 DEF OperatorRetry, Settled
    <2> HIDE DEF f, u
    <2> QED
      BY <2>1, SettleStep
  <1>4. ASSUME NEW r \in Reconcilers, ApplySettle(r) PROVE [Lifecycle!Next]_Lifecycle!vars
    <2> DEFINE f == "transient"
               u == recon[r].at
    <2>1. recon[r].job \in JobIds
      BY <1>4 DEF ApplySettle, IInv, ReconOK
    <2>2. \/ UNCHANGED jobs
          \/ /\ jobs[recon[r].job].status = "RUNNING"
             /\ jobs' = [jobs EXCEPT ![recon[r].job] = Settled(jobs[recon[r].job], f, u)]
      BY <1>4 DEF ApplySettle
    <2> HIDE DEF f, u
    <2> QED
      BY <1>1, <2>1, <2>2, SettleStep
  <1> QED
    BY <1>2, <1>3, <1>4

LEMMA OperatorCancelStep ==
    ASSUME IInv, NEW j \in JobIds, OperatorCancel(j) PROVE Lifecycle!Next
  <1> DEFINE s == "CANCELLED"
             u == 0
  <1>1. /\ s \in JOB_STATUSES /\ CanTransition(jobs[j], s)
        /\ jobs' = [jobs EXCEPT ![j] = Transitioned(jobs[j], s, NoWorker, u)]
    BY DEF OperatorCancel, JOB_STATUSES, TERMINAL_JOB_STATUSES
  <1> HIDE DEF s, u
  <1> QED
    BY <1>1, TransitionStep

LEMMA StepImplements == IInv /\ [Next]_vars => [Lifecycle!Next]_Lifecycle!vars
  <1> SUFFICES ASSUME IInv, [Next]_vars PROVE [Lifecycle!Next]_Lifecycle!vars
    OBVIOUS
  <1>1. CASE UNCHANGED jobs
    BY <1>1 DEF Lifecycle!vars
  <1>2. ASSUME NEW w \in Workers,
               Start(w) \/ Run(w) \/ RequestShutdown(w) \/ Crash(w)
        PROVE  [Lifecycle!Next]_Lifecycle!vars
    <2>1. CASE Claim(w)
      BY <2>1, ClaimStep
    <2>2. CASE Complete(w)
      BY <2>2, CompleteStep
    <2>3. CASE Settle(w)
      BY <2>3, SettlementStep
    <2> QED
      BY <1>1, <1>2, <2>1, <2>2, <2>3
         DEF Start, Run, EndBatch, Return, CanClaim, Busy, Checkpoint, HandlerEnds,
             RequestShutdown, Crash
  <1>3. ASSUME NEW j \in JobIds, OperatorCancel(j) \/ OperatorRetry(j)
        PROVE  [Lifecycle!Next]_Lifecycle!vars
    BY <1>3, OperatorCancelStep, SettlementStep
  <1>4. ASSUME NEW r \in Reconcilers, Reconcile(r)
        PROVE  [Lifecycle!Next]_Lifecycle!vars
    BY <1>1, <1>4, SettlementStep
       DEF Reconcile, StartPlan, PlanJob, ApplyRead, EndReconcile
  <1> QED
    BY <1>1, <1>2, <1>3, <1>4, TickStutters DEF Next, vars

\* Claims, executions, operators and recoveries planned from stale reads keep
\* the promise of JobLifecycle: every start is paid from the budget, and what
\* has ended stays as it ended.
THEOREM WorkersFollowLifecycle == Spec => FollowsLifecycle
  BY StepImplements, Invariance, PTL DEF Spec, FollowsLifecycle

----------------------------------------------------------------------------
(* Executions without recovery.                                            *)

\* A job somebody executes has not gone back to the queue, and nobody else
\* executes it.
Apart ==
    /\ \A w \in Workers : worker[w].pc \in Executing =>
        jobs[worker[w].job].status \in {"RUNNING", "SUCCEEDED", "CANCELLED"}
    /\ \A v, w \in Workers :
        v # w /\ worker[v].pc \in Executing /\ worker[w].pc \in Executing
        => worker[v].job # worker[w].job

\* A row stays, ends well or is cancelled, but for the job that w gives up.
GivesUp(w, q) ==
    \A j \in JobIds :
        \/ jobs'[j].status \in {jobs[j].status, "SUCCEEDED", "CANCELLED"}
        \/ worker[w].pc \in Executing /\ q.pc \notin Executing /\ worker[w].job = j

LEMMA ApartMoves ==
    ASSUME IInv, Apart, NEW w \in Workers, NEW q, Become(w, q), GivesUp(w, q),
           q.pc \in Executing => worker[w].pc \in Executing /\ q.job = worker[w].job
    PROVE  Apart'
  <1>1. \A v \in Workers : worker'[v] = IF v = w THEN q ELSE worker[v]
    BY DEF Become, IInv, CoreOK, ProcessesOK
  <1>2. ASSUME NEW v \in Workers, worker'[v].pc \in Executing
        PROVE  /\ worker[v].pc \in Executing /\ worker'[v].job = worker[v].job
               /\ worker[v].job \in JobIds
    <2>1. worker[v].pc \in Executing /\ worker'[v].job = worker[v].job
      BY <1>1, <1>2
    <2> QED
      BY <2>1, InvWorker
  <1>3. ASSUME NEW v \in Workers, worker'[v].pc \in Executing
        PROVE  jobs'[worker'[v].job].status \in {"RUNNING", "SUCCEEDED", "CANCELLED"}
    <2> DEFINE j == worker[v].job
    <2>1. j \in JobIds /\ worker[v].pc \in Executing /\ worker'[v].job = j
          /\ jobs[j].status \in {"RUNNING", "SUCCEEDED", "CANCELLED"}
      BY <1>2, <1>3 DEF Apart
    <2>2. ~(worker[w].pc \in Executing /\ q.pc \notin Executing /\ worker[w].job = j)
      BY <1>1, <1>3, <2>1 DEF Apart
    <2> HIDE DEF j
    <2> QED
      BY <2>1, <2>2 DEF GivesUp
  <1>4. \A u, v \in Workers :
            u # v /\ worker'[u].pc \in Executing /\ worker'[v].pc \in Executing
            => worker'[u].job # worker'[v].job
    BY <1>2 DEF Apart
  <1> QED
    BY <1>3, <1>4 DEF Apart

\* The worker reads, decides or stops, and the table stays as it is.
LEMMA ApartReads ==
    ASSUME IInv, Apart, NEW w \in Workers, NEW q, Become(w, q), UNCHANGED jobs,
           q.pc \in Executing => worker[w].pc \in Executing /\ q.job = worker[w].job
    PROVE  Apart'
  BY ApartMoves DEF GivesUp

LEMMA ApartReturns == ASSUME IInv, Apart, NEW w \in Workers, Return(w) PROVE Apart'
  <1> DEFINE q == [worker[w] EXCEPT !.pc = "down"]
  <1>1. Become(w, q) /\ UNCHANGED jobs /\ q.pc = "down"
    BY InvWorker DEF Return, Worker
  <1> HIDE DEF q
  <1> QED
    BY <1>1, ApartReads DEF Executing

\* The process stays at its job, and the row stays or is completed.
LEMMA ApartGoesOn ==
    ASSUME IInv, Apart, NEW w \in Workers, worker[w].pc \in Executing, NEW q, Become(w, q),
           q.job = worker[w].job \/ q.pc \notin Executing,
           \/ UNCHANGED jobs
           \/ jobs' = [jobs EXCEPT ![worker[w].job] = Transitioned(@, "SUCCEEDED", NoWorker, 0)]
    PROVE  Apart'
  <1>1. CASE UNCHANGED jobs
    BY <1>1, ApartReads
  <1>2. CASE jobs' = [jobs EXCEPT ![worker[w].job] = Transitioned(@, "SUCCEEDED", NoWorker, 0)]
    <2>1. ASSUME NEW j \in JobIds
          PROVE  jobs'[j].status \in {jobs[j].status, "SUCCEEDED", "CANCELLED"}
      BY <1>2 DEF IInv, CoreOK, RowsOK, Job, Transitioned
    <2> QED
      BY <2>1, ApartMoves DEF GivesUp
  <1> QED
    BY <1>1, <1>2

LEMMA ApartRuns ==
    ASSUME IInv, Apart, NEW w \in Workers,
           Busy(w) \/ Checkpoint(w) \/ HandlerEnds(w) \/ Complete(w)
    PROVE  Apart'
  <1>1. worker[w].pc \in Executing /\ worker[w] \in Worker
    BY InvWorker DEF Busy, Checkpoint, HandlerEnds, Complete, Executing
  <1>2. \/ UNCHANGED jobs
        \/ jobs' = [jobs EXCEPT ![worker[w].job] = Transitioned(@, "SUCCEEDED", NoWorker, 0)]
    BY DEF Busy, Checkpoint, HandlerEnds, Complete
  <1>3. \E q : Become(w, q) /\ (q.job = worker[w].job \/ q.pc \notin Executing)
    <2>1. ASSUME NEW c, Become(w, [worker[w] EXCEPT !.pc = c])
          PROVE  \E q : Become(w, q) /\ q.job = worker[w].job
      <3> DEFINE q == [worker[w] EXCEPT !.pc = c]
      <3>1. q.job = worker[w].job /\ Become(w, q)
        BY <1>1, <2>1 DEF Worker
      <3> HIDE DEF q
      <3> QED
        BY <3>1
    <2>2. ASSUME NEW f, Become(w, [worker[w] EXCEPT !.pc = "settling", !.failure = f])
          PROVE  \E q : Become(w, q) /\ q.job = worker[w].job
      <3> DEFINE q == [worker[w] EXCEPT !.pc = "settling", !.failure = f]
      <3>1. q.job = worker[w].job /\ Become(w, q)
        BY <1>1, <2>2 DEF Worker
      <3> HIDE DEF q
      <3> QED
        BY <3>1
    <2>3. ASSUME NEW o, Finished(w, o)
          PROVE  \E q : Become(w, q) /\ q.job = worker[w].job
      <3> DEFINE q == [worker[w] EXCEPT !.pc = "loop", !.outcome = o,
                                        !.attempt = 0, !.failure = "none"]
      <3>1. q.job = worker[w].job /\ Become(w, q)
        BY <1>1, <2>3 DEF Worker, Finished
      <3> HIDE DEF q
      <3> QED
        BY <3>1
    <2>4. ASSUME Become(w, [DownWorker EXCEPT !.shutdown = worker[w].shutdown])
          PROVE  \E q : Become(w, q) /\ q.pc \notin Executing
      <3> DEFINE q == [DownWorker EXCEPT !.shutdown = worker[w].shutdown]
      <3>1. q.pc = "down" /\ Become(w, q)
        BY <2>4 DEF DownWorker
      <3> HIDE DEF q
      <3> QED
        BY <3>1 DEF Executing
    <2>5. CASE Busy(w)
      BY <2>1, <2>4, <2>5 DEF Busy
    <2>6. CASE Checkpoint(w)
      BY <2>1, <2>3, <2>4, <2>6 DEF Checkpoint, Raised
    <2>7. CASE HandlerEnds(w)
      BY <2>1, <2>2, <2>7 DEF HandlerEnds
    <2>8. CASE Complete(w)
      BY <2>2, <2>3, <2>8 DEF Complete
    <2> QED
      BY <2>5, <2>6, <2>7, <2>8
  <1> QED
    BY <1>1, <1>2, <1>3, ApartGoesOn

\* settle_worker_failure may requeue the job, and its worker lets go of it.
LEMMA ApartSettles == ASSUME IInv, Apart, NEW w \in Workers, Settle(w) PROVE Apart'
  <1>1. worker[w].pc \in Executing /\ worker[w] \in Worker /\ worker[w].job \in JobIds
    BY InvWorker DEF Settle, Executing
  <1>2. PICK q : Become(w, q) /\ q.pc \notin Executing
    <2>1. ASSUME NEW o, Finished(w, o) PROVE \E q : Become(w, q) /\ q.pc \notin Executing
      <3> DEFINE q == [worker[w] EXCEPT !.pc = "loop", !.outcome = o,
                                        !.attempt = 0, !.failure = "none"]
      <3>1. q.pc = "loop" /\ Become(w, q)
        BY <1>1, <2>1 DEF Worker, Finished
      <3> HIDE DEF q
      <3> QED
        BY <3>1 DEF Executing
    <2>2. ASSUME Raised(w) PROVE \E q : Become(w, q) /\ q.pc \notin Executing
      <3> DEFINE q == [DownWorker EXCEPT !.shutdown = worker[w].shutdown]
      <3>1. q.pc = "down" /\ Become(w, q)
        BY <2>2 DEF DownWorker, Raised
      <3> HIDE DEF q
      <3> QED
        BY <3>1 DEF Executing
    <2> QED
      BY <2>1, <2>2 DEF Settle
  <1>3. \A j \in JobIds : j = worker[w].job \/ jobs'[j] = jobs[j]
    BY DEF Settle, IInv, CoreOK, RowsOK
  <1> QED
    BY <1>1, <1>2, <1>3, ApartMoves DEF GivesUp

\* claim_next_job takes a QUEUED job, which nobody executes.
LEMMA ApartClaims == ASSUME IInv, Apart, NEW w \in Workers, Claim(w) PROVE Apart'
  <1>1. CASE Return(w)
    BY <1>1, ApartReturns
  <1>2. ASSUME NEW y, NEW j \in JobIds, IsClaimable(jobs[j], y, 0),
               jobs' = [jobs EXCEPT ![j] = Transitioned(jobs[j], "RUNNING", w, 0)],
               Become(w, [worker[w] EXCEPT !.pc = "claimed", !.job = j,
                                           !.attempt = jobs'[j].attempt_count,
                                           !.failure = "none", !.outcome = "none"])
        PROVE  Apart'
    <2> DEFINE n == jobs'[j].attempt_count
               q == [worker[w] EXCEPT !.pc = "claimed", !.job = j, !.attempt = n,
                                      !.failure = "none", !.outcome = "none"]
    <2>1. Become(w, q)
      BY <1>2
    <2> HIDE DEF n
    <2>2. q.pc = "claimed" /\ q.job = j
      BY InvWorker DEF Worker
    <2> HIDE DEF q
    <2>3. \A v \in Workers : worker'[v] = IF v = w THEN q ELSE worker[v]
      BY <2>1 DEF Become, IInv, CoreOK, ProcessesOK
    <2>4. jobs[j].status = "QUEUED" /\ jobs'[j].status = "RUNNING"
          /\ \A i \in JobIds \ {j} : jobs'[i] = jobs[i]
      BY <1>2 DEF IInv, CoreOK, RowsOK, IsClaimable, Transitioned, Job
    <2>5. \A v \in Workers : worker[v].pc \in Executing =>
            worker[v].job # j /\ worker[v].job \in JobIds
      BY <2>4, InvWorker DEF Apart
    <2> QED
      BY <2>2, <2>3, <2>4, <2>5 DEF Apart
  <1> QED
    BY <1>1, <1>2 DEF Claim

LEMMA ApartStep ==
    ASSUME Reconcilers = {}, "retry" \notin OperatorActions, IInv, Apart, [Next]_vars
    PROVE  Apart'
  <1>1. CASE UNCHANGED vars
    BY <1>1 DEF vars, Apart
  <1>2. CASE Tick
    <2>1. worker' = worker /\ \A j \in JobIds : jobs'[j].status = jobs[j].status
      BY <1>2 DEF Tick, IInv, CoreOK, RowsOK, Job
    <2> QED
      BY <2>1, InvWorker DEF Apart
  <1>3. ASSUME NEW w \in Workers, Run(w) PROVE Apart'
    <2>1. CASE EndBatch(w)
      BY <2>1, ApartReturns DEF EndBatch
    <2>2. CASE CanClaim(w)
      <3> DEFINE q == [worker[w] EXCEPT !.pc = "claiming"]
      <3>1. q.pc = "claiming" /\ Become(w, q) /\ UNCHANGED jobs
        BY <2>2, InvWorker DEF Worker, CanClaim
      <3> HIDE DEF q
      <3> QED
        BY <3>1, ApartReads DEF Executing
    <2> QED
      BY <1>3, <2>1, <2>2, ApartClaims, ApartRuns, ApartSettles DEF Run
  <1>4. ASSUME NEW w \in Workers, Start(w) \/ RequestShutdown(w) \/ Crash(w) PROVE Apart'
    <2>1. ASSUME NEW q, Become(w, q), q.pc \in Executing => q.pc = worker[w].pc,
                 q.pc \in Executing => q.job = worker[w].job
          PROVE  Apart'
      BY <1>4, <2>1, ApartReads DEF Start, RequestShutdown, Crash
    <2>2. CASE Start(w)
      <3>1. PICK latch : Become(w, [DownWorker EXCEPT !.pc = "loop", !.shutdown = latch])
        BY <2>2 DEF Start
      <3>2. [DownWorker EXCEPT !.pc = "loop", !.shutdown = latch].pc \notin Executing
        BY DEF DownWorker, Executing
      <3> QED
        BY <2>1, <3>1, <3>2
    <2>3. CASE RequestShutdown(w)
      <3>1. Become(w, [worker[w] EXCEPT !.shutdown = TRUE])
        BY <2>3 DEF RequestShutdown
      <3>2. /\ [worker[w] EXCEPT !.shutdown = TRUE].pc = worker[w].pc
            /\ [worker[w] EXCEPT !.shutdown = TRUE].job = worker[w].job
        BY InvWorker DEF Worker
      <3> QED
        BY <2>1, <3>1, <3>2
    <2>4. CASE Crash(w)
      BY <2>1, <2>4 DEF Crash, DownWorker, Executing
    <2> QED
      BY <1>4, <2>2, <2>3, <2>4
  <1>5. ASSUME NEW j \in JobIds, OperatorCancel(j) PROVE Apart'
    <2>1. \A i \in JobIds : jobs'[i].status \in {jobs[i].status, "CANCELLED"}
      BY <1>5 DEF OperatorCancel, IInv, CoreOK, RowsOK, Job, Transitioned
    <2> QED
      BY <1>5, <2>1, InvWorker DEF Apart, OperatorCancel
  <1> QED
    BY <1>1, <1>2, <1>3, <1>4, <1>5 DEF Next, OperatorRetry

\* docs/slices/0978 promises that no job is executed twice at the same time.
\* What breaks the promise is reconciliation, or an operator's retry, and
\* nothing else: where neither is at work the lock, the settlement of failures,
\* crashes, restarts under the same id and cancellations keep it, for every
\* number of workers and jobs.
THEOREM OnlyRecoveryDuplicates ==
    ASSUME Reconcilers = {}, "retry" \notin OperatorActions
    PROVE  Spec => []NoDuplicateExecution
  <1>1. Init => Apart
    BY DEF Init, Apart, DownWorker, Executing
  <1>2. IInv /\ Apart /\ [Next]_vars => Apart'
    BY ApartStep
  <1>3. Apart => NoDuplicateExecution
    BY DEF Apart, NoDuplicateExecution, Executing
  <1> QED
    BY <1>1, <1>2, <1>3, Invariance, PTL DEF Spec
=============================================================================
