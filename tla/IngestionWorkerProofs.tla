----------------------- MODULE IngestionWorkerProofs -----------------------
(***************************************************************************)
(* Durable ingestion for every set of jobs and processes, every pipeline   *)
(* length, budget, delay and lease: types, jobs and runs in step, the      *)
(* contract of a run, the rejection of stale writers, the agreement of job *)
(* and run, and the promise of the job queue kept by all of them together. *)
(*                                                                         *)
(* A process decides on a copy of the run.  The version it compares when   *)
(* it writes says whether the copy still is the row: a row with the same   *)
(* version has the same status, checkpoints, attempts and owner (only its  *)
(* clocks moved), so every write is a legal move of the row itself.        *)
(***************************************************************************)
EXTENDS IngestionWorker, JobRecordProofs, FiniteSetTheorems

----------------------------------------------------------------------------
(* The row of a run.                                                       *)

Unfinished == {"QUEUED", "RUNNING", "WAITING_RETRY"}

RunOK(run) ==
    /\ run \in Run
    /\ run.status \in Unfinished => run.passed < Steps
    /\ run.status = "NONE" =>
        run.passed = 0 /\ run.attempt_count = 0 /\ run.checkpoint_version = 0

\* What no clock changes.
Same(copy, run) ==
    /\ copy.status = run.status
    /\ copy.passed = run.passed
    /\ copy.attempt_count = run.attempt_count
    /\ copy.lease_owner = run.lease_owner

\* The copy is an earlier state of the row, or its present one.
Copied(copy, run) ==
    /\ copy \in Run /\ copy.status # "NONE" /\ run.status # "NONE"
    /\ copy.checkpoint_version <= run.checkpoint_version
    /\ copy.checkpoint_version = run.checkpoint_version => Same(copy, run)

\* The moves of a row.
Starts(old, new, w) ==
    /\ old.status = "QUEUED" /\ new.status = "RUNNING"
    /\ new.attempt_count = old.attempt_count + 1 /\ new.passed = old.passed
    /\ new.lease_owner = w

Passes(old, new) ==
    /\ old.status = "RUNNING" /\ new.attempt_count = old.attempt_count
    /\ old.passed < Steps /\ new.passed = old.passed + 1
    /\ IF new.passed = Steps THEN new.status = "SUCCEEDED"
       ELSE new.status = "RUNNING" /\ new.lease_owner = old.lease_owner

Fails(old, new) ==
    /\ old.status = "RUNNING"
    /\ new.attempt_count = old.attempt_count /\ new.passed = old.passed
    /\ \/ new.status = "FAILED"
       \/ new.status = "WAITING_RETRY" /\ old.attempt_count < MaxAttempts

Requeues(old, new) ==
    /\ old.status = "WAITING_RETRY" /\ new.status = "QUEUED"
    /\ new.attempt_count = old.attempt_count /\ new.passed = old.passed

Cancels(old, new) ==
    /\ old.status \in Unfinished /\ new.status = "CANCELLED"
    /\ new.attempt_count = old.attempt_count /\ new.passed = old.passed

Moved(old, new, w) ==
    /\ new \in Run
    /\ new.checkpoint_version = old.checkpoint_version + 1
    /\ \/ Starts(old, new, w) \/ Passes(old, new) \/ Fails(old, new)
       \/ Requeues(old, new) \/ Cancels(old, new)

\* A process may rely on this of a row that others write.  Only w may have
\* taken the lease meanwhile.
RunKeeps(old, new, w) ==
    /\ old.checkpoint_version <= new.checkpoint_version
    /\ old.status # "NONE" => new.status # "NONE"
    /\ (old.status # "NONE" /\ old.checkpoint_version = new.checkpoint_version) => Same(old, new)
    /\ old.status = "SUCCEEDED" => new.status = "SUCCEEDED"
    /\ (new.status = "RUNNING" /\ new.lease_owner # w) =>
        /\ old.status = "RUNNING" /\ old.lease_owner = new.lease_owner
        /\ old.attempt_count = new.attempt_count

LEMMA MovedKeeps ==
    ASSUME NEW old, RunOK(old), NEW new, NEW w, Moved(old, new, w)
    PROVE  /\ RunOK(new) /\ RunKeeps(old, new, w)
           /\ old.status \in Unfinished /\ new.status # "NONE"
           /\ new.attempt_count \in {old.attempt_count, old.attempt_count + 1}
  <1>1. /\ old \in Run /\ new \in Run /\ new.checkpoint_version = old.checkpoint_version + 1
        /\ old.checkpoint_version \in Nat
        /\ old.status \in Unfinished => old.passed < Steps
    BY DEF Moved, RunOK, Run
  <1>2. old.checkpoint_version < new.checkpoint_version
    BY <1>1
  <1>3. CASE Starts(old, new, w)
    BY <1>1, <1>2, <1>3 DEF Starts, RunOK, RunKeeps, Unfinished
  <1>4. CASE Passes(old, new)
    <2>1. new.passed # Steps => new.passed < Steps
      BY <1>1, <1>4, RunAssumption DEF Passes, Run
    <2> QED
      BY <1>1, <1>2, <1>4, <2>1 DEF Passes, RunOK, RunKeeps, Unfinished
  <1>5. CASE Fails(old, new)
    BY <1>1, <1>2, <1>5 DEF Fails, RunOK, RunKeeps, Unfinished
  <1>6. CASE Requeues(old, new)
    BY <1>1, <1>2, <1>6 DEF Requeues, RunOK, RunKeeps, Unfinished
  <1>7. CASE Cancels(old, new)
    BY <1>1, <1>2, <1>7 DEF Cancels, RunOK, RunKeeps, Unfinished
  <1> QED
    BY <1>3, <1>4, <1>5, <1>6, <1>7 DEF Moved

\* A move of the copy is one of the row, if the versions agree.
LEMMA CopyMoves ==
    ASSUME NEW copy, NEW run, Copied(copy, run),
           copy.checkpoint_version = run.checkpoint_version,
           NEW new, NEW w, Moved(copy, new, w)
    PROVE  Moved(run, new, w)
  BY DEF Copied, Same, Moved, Starts, Passes, Fails, Requeues, Cancels

LEMMA CopyKeeps ==
    ASSUME NEW copy, NEW old, NEW new, NEW w, Copied(copy, old), RunKeeps(old, new, w),
           old \in Run, new \in Run
    PROVE  Copied(copy, new)
  <1>1. /\ copy.checkpoint_version \in Nat /\ old.checkpoint_version \in Nat
        /\ new.checkpoint_version \in Nat
    BY DEF Copied, Run
  <1> QED
    BY <1>1 DEF Copied, RunKeeps, Same

----------------------------------------------------------------------------
(* The transitions of ingestion_orchestration.py.                          *)

LEMMA ClaimedMoves ==
    ASSUME NEW run \in Run, run.status = "QUEUED", NEW w \in Workers, NEW t \in Int
    PROVE  Moved(run, Claimed(run, w, t), w) /\ Claimed(run, w, t).status = "RUNNING"
  <1> DEFINE n == run.attempt_count + 1
             v == run.checkpoint_version + 1
             e == t + RunLeaseTTL
             s == "RUNNING"
             u == w
             z == 0
             new == [run EXCEPT !.status = s, !.attempt_count = n, !.checkpoint_version = v,
                                !.lease_owner = u, !.lease_expires_at = e, !.retry_at = z]
  <1>1. Claimed(run, w, t) = new
    BY DEF Claimed, Run
  <1>2. /\ n \in Nat /\ v \in Nat /\ e \in Int /\ s \in INGESTION_RUN_STATUSES
        /\ u \in Workers /\ z \in Int
    BY RunAssumption DEF Run, INGESTION_RUN_STATUSES
  <1> HIDE DEF n, v, e, s, u, z
  <1>3. /\ new \in Run /\ new.status = s /\ new.attempt_count = n
        /\ new.checkpoint_version = v /\ new.lease_owner = u /\ new.passed = run.passed
    BY <1>2 DEF Run
  <1> HIDE DEF new
  <1> QED
    BY <1>1, <1>3 DEF Moved, Starts, n, v, s, u

\* Released(...) as an update of five columns.
LEMMA ReleasedShape ==
    ASSUME NEW run \in Run, NEW s \in INGESTION_RUN_STATUSES
    PROVE  LET new == Released(run, s) IN
           /\ new \in Run /\ new.status = s
           /\ new.checkpoint_version = run.checkpoint_version + 1
           /\ new.attempt_count = run.attempt_count /\ new.passed = run.passed
  <1> DEFINE v == run.checkpoint_version + 1
             u == NoWorker
             z == 0
             new == [run EXCEPT !.status = s, !.checkpoint_version = v,
                                !.lease_owner = u, !.lease_expires_at = z]
  <1>1. Released(run, s) = new
    BY DEF Released, Run
  <1>2. v \in Nat /\ u \in Workers \cup {NoWorker} /\ z \in Int
    BY DEF Run
  <1> HIDE DEF v, u, z
  <1>3. /\ new \in Run /\ new.status = s /\ new.checkpoint_version = v
        /\ new.attempt_count = run.attempt_count /\ new.passed = run.passed
    BY <1>2 DEF Run
  <1> HIDE DEF new
  <1> QED
    BY <1>1, <1>3 DEF v

LEMMA StepCompletedMoves ==
    ASSUME NEW run \in Run, run.status = "RUNNING", run.passed < Steps, NEW w
    PROVE  /\ Moved(run, StepCompleted(run), w)
           /\ Passes(run, StepCompleted(run))
  <1> DEFINE n == run.passed + 1
             after == [run EXCEPT !.passed = n]
  <1>1. n \in 0..Steps
    BY RunAssumption DEF Run
  <1> HIDE DEF n
  <1>2. /\ after \in Run /\ after.passed = n /\ after.status = run.status
        /\ after.checkpoint_version = run.checkpoint_version
        /\ after.attempt_count = run.attempt_count /\ after.lease_owner = run.lease_owner
    BY <1>1 DEF Run
  <1>3. StepCompleted(run) = IF after.passed = Steps THEN Released(after, "SUCCEEDED")
                             ELSE [after EXCEPT !.checkpoint_version = @ + 1]
    BY DEF StepCompleted, n
  <1> HIDE DEF after
  <1>4. CASE n = Steps
    <2>1. "SUCCEEDED" \in INGESTION_RUN_STATUSES
      BY DEF INGESTION_RUN_STATUSES, TERMINAL_INGESTION_RUN_STATUSES
    <2>2. /\ Released(after, "SUCCEEDED") \in Run
          /\ Released(after, "SUCCEEDED").status = "SUCCEEDED"
          /\ Released(after, "SUCCEEDED").checkpoint_version = run.checkpoint_version + 1
          /\ Released(after, "SUCCEEDED").attempt_count = run.attempt_count
          /\ Released(after, "SUCCEEDED").passed = n
      BY <1>2, <2>1, ReleasedShape
    <2>3. StepCompleted(run) = Released(after, "SUCCEEDED")
      BY <1>2, <1>3, <1>4
    <2> QED
      BY <1>4, <2>2, <2>3 DEF Moved, Passes, n
  <1>5. CASE n # Steps
    <2> DEFINE v == after.checkpoint_version + 1
               new == [after EXCEPT !.checkpoint_version = v]
    <2>1. StepCompleted(run) = new
      BY <1>2, <1>3, <1>5
    <2>2. v \in Nat
      BY <1>2 DEF Run
    <2> HIDE DEF v
    <2>3. /\ new \in Run /\ new.checkpoint_version = v /\ new.passed = n
          /\ new.status = "RUNNING" /\ new.attempt_count = run.attempt_count
          /\ new.lease_owner = run.lease_owner
      BY <1>2, <2>2 DEF Run
    <2> HIDE DEF new
    <2>4. v = run.checkpoint_version + 1
      BY <1>2 DEF v
    <2> QED
      BY <1>5, <2>1, <2>3, <2>4 DEF Moved, Passes, n
  <1> QED
    BY <1>4, <1>5

LEMMA WithRetryAt ==
    ASSUME NEW run \in Run, NEW t \in Int
    PROVE  LET new == [run EXCEPT !.retry_at = t] IN
           /\ new \in Run /\ new.status = run.status
           /\ new.checkpoint_version = run.checkpoint_version
           /\ new.attempt_count = run.attempt_count /\ new.passed = run.passed
  BY DEF Run

LEMMA StepFailedMoves ==
    ASSUME NEW run \in Run, run.status = "RUNNING", NEW retry \in BOOLEAN, NEW t \in Int, NEW w
    PROVE  Moved(run, StepFailed(run, retry, t), w)
  <1>1. /\ "WAITING_RETRY" \in INGESTION_RUN_STATUSES
        /\ "FAILED" \in INGESTION_RUN_STATUSES
    BY DEF INGESTION_RUN_STATUSES, TERMINAL_INGESTION_RUN_STATUSES
  <1> DEFINE waiting == Released(run, "WAITING_RETRY")
             failed == Released(run, "FAILED")
  <1>2. /\ waiting \in Run /\ waiting.status = "WAITING_RETRY"
        /\ waiting.checkpoint_version = run.checkpoint_version + 1
        /\ waiting.attempt_count = run.attempt_count /\ waiting.passed = run.passed
    BY <1>1, ReleasedShape
  <1>3. /\ failed \in Run /\ failed.status = "FAILED"
        /\ failed.checkpoint_version = run.checkpoint_version + 1
        /\ failed.attempt_count = run.attempt_count /\ failed.passed = run.passed
    BY <1>1, ReleasedShape
  <1>4. StepFailed(run, retry, t) = IF retry /\ run.attempt_count < MaxAttempts
                                    THEN [waiting EXCEPT !.retry_at = t] ELSE failed
    BY DEF StepFailed
  <1> HIDE DEF waiting, failed
  <1>5. Moved(run, failed, w)
    BY <1>3 DEF Moved, Fails
  <1>6. run.attempt_count < MaxAttempts => Moved(run, [waiting EXCEPT !.retry_at = t], w)
    BY <1>2, WithRetryAt DEF Moved, Fails
  <1> QED
    BY <1>4, <1>5, <1>6

LEMMA RequeuedRunMoves ==
    ASSUME NEW run \in Run, run.status = "WAITING_RETRY", NEW w
    PROVE  /\ Moved(run, RequeuedRun(run), w)
           /\ RequeuedRun(run).status = "QUEUED"
  <1> DEFINE v == run.checkpoint_version + 1
             s == "QUEUED"
             z == 0
             new == [run EXCEPT !.status = s, !.checkpoint_version = v, !.retry_at = z]
  <1>1. RequeuedRun(run) = new
    BY DEF RequeuedRun, Run
  <1>2. v \in Nat /\ s \in INGESTION_RUN_STATUSES /\ z \in Int
    BY DEF Run, INGESTION_RUN_STATUSES
  <1> HIDE DEF v, s, z
  <1>3. /\ new \in Run /\ new.status = s /\ new.checkpoint_version = v
        /\ new.attempt_count = run.attempt_count /\ new.passed = run.passed
    BY <1>2 DEF Run
  <1> HIDE DEF new
  <1> QED
    BY <1>1, <1>3 DEF Moved, Requeues, v, s

LEMMA CancelledRunMoves ==
    ASSUME NEW run \in Run, run.status \in Unfinished, NEW w
    PROVE  Moved(run, CancelledRun(run), w)
  <1> DEFINE cancelled == Released(run, "CANCELLED")
  <1>1. "CANCELLED" \in INGESTION_RUN_STATUSES
    BY DEF INGESTION_RUN_STATUSES, TERMINAL_INGESTION_RUN_STATUSES
  <1>2. /\ cancelled \in Run /\ cancelled.status = "CANCELLED"
        /\ cancelled.checkpoint_version = run.checkpoint_version + 1
        /\ cancelled.attempt_count = run.attempt_count /\ cancelled.passed = run.passed
    BY <1>1, ReleasedShape
  <1>3. CancelledRun(run) = [cancelled EXCEPT !.retry_at = 0]
    BY DEF CancelledRun
  <1> HIDE DEF cancelled
  <1> DEFINE z == 0
  <1>4. z \in Int
    OBVIOUS
  <1> HIDE DEF z
  <1>5. Moved(run, [cancelled EXCEPT !.retry_at = z], w)
    BY <1>2, <1>4, WithRetryAt DEF Moved, Cancels
  <1> QED
    BY <1>3, <1>5 DEF z

----------------------------------------------------------------------------
(* The invariant.                                                          *)

OneIdEach == \A p, q \in Processes : IdOf[p] = IdOf[q] => p = q

RunsOK(rs) ==
    /\ rs \in [JobIds -> Run]
    /\ \A j \in JobIds : RunOK(rs[j])

JobOK(job, run) ==
    /\ RowOK(job, 0)
    /\ job.max_attempts = MaxAttempts
    /\ job.status = "RUNNING" => job.attempt_count > 0
    /\ job.status = "SUCCEEDED" => run.status = "SUCCEEDED"

JobsOK(js, rs) ==
    /\ js \in [JobIds -> Job]
    /\ \A j \in JobIds : JobOK(js[j], rs[j])

\* Places at which the execution p works under its own id.
Executing == {"claimed", "found", "guard", "step", "failing"}

\* Places without a copy of the run.
Blind == {"down", "idle", "claimed", "settling", "reading"}

\* What a process may rely on at its place.
ProcOK(s, p, js, rs) ==
    /\ s \in Process
    /\ s.pc # "idle" => s.job \in JobIds /\ s.attempt \in 1..js[s.job].attempt_count
    /\ s.pc \in Executing => s.id = IdOf[p]
    /\ s.pc \notin Blind => Copied(s.run, rs[s.job])
    /\ s.pc \in {"guard", "step"} =>
        /\ s.run.status = "RUNNING" /\ s.run.passed < Steps
        /\ s.run.attempt_count = s.mine
    /\ s.pc = "completing" => rs[s.job].status = "SUCCEEDED"
    \* Where every process has an id of its own, a lease tells who holds it.
    /\ (OneIdEach /\ s.pc \in {"guard", "step", "failing"} /\ HasLease(rs[s.job], s.id)) =>
        rs[s.job].attempt_count = s.mine
    /\ (OneIdEach /\ s.pc = "recording" /\ HasLease(s.run, s.id)) =>
        s.run.attempt_count = s.mine

ProcsOK(pr, js, rs) ==
    /\ pr \in [Processes -> Process]
    /\ \A p \in Processes : ProcOK(pr[p], p, js, rs)

\* Executions that claimed the job and have not started the run yet.
Pending(pr, j) == {p \in Processes : pr[p].job = j /\ pr[p].pc \in {"claimed", "found"}}

\* Each of them may still start the run once, and the job has counted it.
Budgeted(pr, js, rs, j) ==
    /\ IsFiniteSet(Pending(pr, j))
    /\ rs[j].attempt_count + Cardinality(Pending(pr, j)) <= js[j].attempt_count

Inv ==
    /\ RunsOK(runs)
    /\ JobsOK(jobs, runs)
    /\ ProcsOK(proc, jobs, runs)
    /\ \A j \in JobIds : Budgeted(proc, jobs, runs, j)
    /\ admission \in [JobIds -> {"none", "enqueued", "admitted"}]

----------------------------------------------------------------------------
(* What other processes keep.                                              *)

TablesKeep(js, rs, js2, rs2, w) ==
    \A j \in JobIds :
        js[j].attempt_count <= js2[j].attempt_count /\ RunKeeps(rs[j], rs2[j], w)

LEMMA RunKeepsItself ==
    ASSUME NEW run \in Run, NEW w
    PROVE  RunKeeps(run, run, w)
  BY DEF RunKeeps, Same, Run

LEMMA ProcKeeps ==
    ASSUME NEW p \in Processes, NEW s, NEW js, NEW rs, NEW js2, NEW rs2, NEW w,
           ProcOK(s, p, js, rs), TablesKeep(js, rs, js2, rs2, w),
           RunsOK(rs), RunsOK(rs2),
           \A j \in JobIds : js[j].attempt_count \in Nat /\ js2[j].attempt_count \in Nat,
           OneIdEach => IdOf[p] # w
    PROVE  ProcOK(s, p, js2, rs2)
  <1>1. CASE s.pc = "idle"
    BY <1>1 DEF ProcOK, Executing, Blind
  <1>2. CASE s.pc # "idle"
    <2> DEFINE j == s.job
               old == rs[j]
               new == rs2[j]
    <2>1. /\ s \in Process /\ j \in JobIds /\ s.attempt \in 1..js[j].attempt_count
          /\ js[j].attempt_count <= js2[j].attempt_count /\ RunKeeps(old, new, w)
          /\ old \in Run /\ new \in Run
      BY <1>2 DEF ProcOK, TablesKeep, RunsOK
    <2>2. s.attempt \in 1..js2[j].attempt_count
      BY <2>1
    <2>3. s.pc \notin Blind => Copied(s.run, new)
      BY <2>1, CopyKeeps DEF ProcOK
    <2>4. s.pc = "completing" => new.status = "SUCCEEDED"
      BY <2>1 DEF ProcOK, RunKeeps
    <2>5. (OneIdEach /\ s.pc \in {"guard", "step", "failing"} /\ HasLease(new, s.id)) =>
            new.attempt_count = s.mine
      <3> SUFFICES ASSUME OneIdEach, s.pc \in {"guard", "step", "failing"}, HasLease(new, s.id)
                   PROVE  new.attempt_count = s.mine
        OBVIOUS
      <3>1. s.id = IdOf[p] /\ s.id # w
        BY DEF ProcOK, Executing
      <3>2. HasLease(old, s.id) /\ old.attempt_count = new.attempt_count
        BY <2>1, <3>1 DEF RunKeeps, HasLease
      <3> QED
        BY <3>2 DEF ProcOK
    <2> HIDE DEF j, old, new
    <2> QED
      BY <2>1, <2>2, <2>3, <2>4, <2>5 DEF ProcOK, j, old, new
  <1> QED
    BY <1>1, <1>2

\* The step of one process, which takes a lease for w if at all.
Acts(p, s, w) ==
    /\ proc' = [proc EXCEPT ![p] = s]
    /\ ProcOK(s, p, jobs', runs')
    /\ w \in {NoWorker, IdOf[p]}

\* No step but a claim makes an execution pending.
Lingers(p, s) ==
    s.pc \in {"claimed", "found"} =>
        proc[p].pc \in {"claimed", "found"} /\ proc[p].job = s.job

LEMMA AttemptsAreNat ==
    ASSUME NEW js, NEW rs, JobsOK(js, rs)
    PROVE  \A j \in JobIds : js[j] \in Job /\ js[j].attempt_count \in Nat
                             /\ js[j].attempt_count <= MaxAttempts
  <1>1. \A j \in JobIds : js[j] \in Job /\ js[j].attempt_count <= js[j].max_attempts
                          /\ js[j].max_attempts = MaxAttempts
    BY DEF JobsOK, JobOK, RowOK
  <1> QED
    BY <1>1 DEF Job

LEMMA ProcsKeep ==
    ASSUME Inv, RunsOK(runs'), JobsOK(jobs', runs'),
           NEW w, TablesKeep(jobs, runs, jobs', runs', w),
           NEW p \in Processes, NEW s, Acts(p, s, w)
    PROVE  ProcsOK(proc', jobs', runs')
  <1>1. \A j \in JobIds : jobs[j].attempt_count \in Nat /\ jobs'[j].attempt_count \in Nat
    BY AttemptsAreNat DEF Inv
  <1>2. /\ proc \in [Processes -> Process] /\ s \in Process
        /\ proc' = [proc EXCEPT ![p] = s]
    BY DEF Inv, ProcsOK, Acts, ProcOK
  <1>3. proc' \in [Processes -> Process]
    BY <1>2
  <1>4. ASSUME NEW r \in Processes PROVE ProcOK(proc'[r], r, jobs', runs')
    <2>1. CASE r = p
      BY <1>2, <2>1 DEF Acts
    <2>2. CASE r # p
      <3>1. OneIdEach => IdOf[r] # w
        <4>1. IdOf[r] \in Workers /\ IdOf[r] # NoWorker
          BY IngestionAssumption, RecordAssumption
        <4>2. OneIdEach => IdOf[r] # IdOf[p]
          BY <2>2 DEF OneIdEach
        <4> QED
          BY <4>1, <4>2 DEF Acts
      <3>2. ProcOK(proc[r], r, jobs, runs) /\ RunsOK(runs)
        BY DEF Inv, ProcsOK
      <3>3. ProcOK(proc[r], r, jobs', runs')
        BY <1>1, <3>1, <3>2, ProcKeeps
      <3> QED
        BY <1>2, <2>2, <3>3
    <2> QED
      BY <2>1, <2>2
  <1> QED
    BY <1>3, <1>4 DEF ProcsOK

----------------------------------------------------------------------------
(* The budget of the run.                                                  *)

LEMMA FewerPending ==
    ASSUME NEW A, NEW B, IsFiniteSet(A), B \subseteq A
    PROVE  /\ IsFiniteSet(B)
           /\ Cardinality(A) \in Nat /\ Cardinality(B) \in Nat
           /\ Cardinality(B) <= Cardinality(A)
  BY FS_Subset, FS_CardinalityType

\* Nobody joins, and the run is not started.
LEMMA BudgetKeeps ==
    ASSUME NEW pr, NEW js, NEW rs, NEW pr2, NEW js2, NEW rs2, NEW j,
           Budgeted(pr, js, rs, j), Pending(pr2, j) \subseteq Pending(pr, j),
           rs2[j].attempt_count = rs[j].attempt_count,
           rs[j].attempt_count \in Nat,
           js[j].attempt_count \in Nat, js2[j].attempt_count \in Nat,
           js[j].attempt_count <= js2[j].attempt_count
    PROVE  Budgeted(pr2, js2, rs2, j)
  <1> DEFINE A == Pending(pr, j)
             B == Pending(pr2, j)
  <1>1. /\ IsFiniteSet(B) /\ Cardinality(A) \in Nat /\ Cardinality(B) \in Nat
        /\ Cardinality(B) <= Cardinality(A)
    BY FewerPending DEF Budgeted
  <1>2. rs[j].attempt_count + Cardinality(A) <= js[j].attempt_count
    BY DEF Budgeted
  <1> HIDE DEF A, B
  <1>3. rs2[j].attempt_count + Cardinality(B) <= js2[j].attempt_count
    BY <1>1, <1>2
  <1> QED
    BY <1>1, <1>3 DEF A, B, Budgeted

LEMMA PendingLingers ==
    ASSUME Inv, NEW p \in Processes, NEW s, proc' = [proc EXCEPT ![p] = s], Lingers(p, s),
           NEW j
    PROVE  Pending(proc', j) \subseteq Pending(proc, j)
  <1>1. proc \in [Processes -> Process]
    BY DEF Inv, ProcsOK
  <1> QED
    BY <1>1 DEF Pending, Lingers

----------------------------------------------------------------------------
(* Steps by what they change.                                              *)

Admitted == admission' \in [JobIds -> {"none", "enqueued", "admitted"}]

AttemptsKeep ==
    \A j \in JobIds :
        /\ runs'[j].attempt_count = runs[j].attempt_count
        /\ jobs[j].attempt_count <= jobs'[j].attempt_count

LEMMA Close ==
    ASSUME Inv, RunsOK(runs'), JobsOK(jobs', runs'), ProcsOK(proc', jobs', runs'),
           \A j \in JobIds : Pending(proc', j) \subseteq Pending(proc, j),
           AttemptsKeep, Admitted
    PROVE  Inv'
  <1>1. \A j \in JobIds : /\ runs[j].attempt_count \in Nat
                          /\ jobs[j].attempt_count \in Nat /\ jobs'[j].attempt_count \in Nat
    BY AttemptsAreNat DEF Inv, RunsOK, Run
  <1>2. \A j \in JobIds : Budgeted(proc', jobs', runs', j)
    BY <1>1, BudgetKeeps DEF Inv, AttemptsKeep
  <1> QED
    BY <1>2 DEF Inv, Admitted

\* A process reads, decides or stops.
LEMMA ReadStep ==
    ASSUME Inv, NEW p \in Processes, NEW s, Become(p, s), UNCHANGED <<jobs, runs>>,
           ProcOK(s, p, jobs, runs), Lingers(p, s)
    PROVE  Inv'
  <1>1. RunsOK(runs') /\ JobsOK(jobs', runs') /\ Admitted /\ AttemptsKeep
    <2>1. \A j \in JobIds : jobs[j].attempt_count \in Nat
      BY AttemptsAreNat DEF Inv
    <2> QED
      BY <2>1 DEF Inv, Become, Admitted, AttemptsKeep
  <1>2. TablesKeep(jobs, runs, jobs', runs', NoWorker)
    <2>1. \A j \in JobIds : RunKeeps(runs[j], runs'[j], NoWorker)
      BY RunKeepsItself DEF Inv, RunsOK
    <2> QED
      BY <1>1, <2>1 DEF TablesKeep, AttemptsKeep
  <1>3. Acts(p, s, NoWorker)
    BY DEF Acts, Become
  <1>4. ProcsOK(proc', jobs', runs')
    BY <1>1, <1>2, <1>3, ProcsKeep
  <1>5. \A j \in JobIds : Pending(proc', j) \subseteq Pending(proc, j)
    BY PendingLingers DEF Become
  <1> QED
    BY <1>1, <1>4, <1>5, Close

\* The row of a run is replaced by a move of it.
LEMMA MovedTables ==
    ASSUME Inv, NEW j \in JobIds, NEW row, NEW w, Moved(runs[j], row, w),
           runs' = [runs EXCEPT ![j] = row], UNCHANGED jobs
    PROVE  /\ RunsOK(runs') /\ JobsOK(jobs', runs')
           /\ TablesKeep(jobs, runs, jobs', runs', w)
           /\ runs'[j] = row
  <1>1. /\ RunsOK(runs) /\ RunOK(runs[j]) /\ runs \in [JobIds -> Run]
    BY DEF Inv, RunsOK
  <1>2. /\ RunOK(row) /\ RunKeeps(runs[j], row, w) /\ runs[j].status \in Unfinished
    BY <1>1, MovedKeeps
  <1>3. row \in Run
    BY DEF Moved
  <1>4. runs'[j] = row /\ \A k \in JobIds \ {j} : runs'[k] = runs[k]
    BY <1>1
  <1>5. RunsOK(runs')
    BY <1>1, <1>2, <1>3, <1>4 DEF RunsOK
  <1>6. JobsOK(jobs', runs')
    <2>1. \A k \in JobIds : JobOK(jobs[k], runs[k])
      BY DEF Inv, JobsOK
    <2>2. JobOK(jobs[j], row)
      BY <1>2, <2>1 DEF JobOK, Unfinished
    <2>3. \A k \in JobIds : JobOK(jobs'[k], runs'[k])
      BY <1>4, <2>1, <2>2
    <2> QED
      BY <2>3 DEF Inv, JobsOK
  <1>7. \A k \in JobIds : RunKeeps(runs[k], runs'[k], w)
    <2>1. \A k \in JobIds : runs[k] \in Run
      BY <1>1
    <2> QED
      BY <1>2, <1>4, <2>1, RunKeepsItself
  <1>8. \A k \in JobIds : jobs[k].attempt_count <= jobs'[k].attempt_count
    BY AttemptsAreNat DEF Inv
  <1> QED
    BY <1>4, <1>5, <1>6, <1>7, <1>8 DEF TablesKeep

\* A process writes a run, but for its claim.
LEMMA WriteStep ==
    ASSUME Inv, NEW p \in Processes, NEW s, NEW j \in JobIds, NEW row,
           Moved(runs[j], row, NoWorker), row.attempt_count = runs[j].attempt_count,
           runs' = [runs EXCEPT ![j] = row], UNCHANGED jobs, Become(p, s),
           ProcOK(s, p, jobs', runs'), Lingers(p, s)
    PROVE  Inv'
  <1>1. /\ RunsOK(runs') /\ JobsOK(jobs', runs') /\ runs'[j] = row
        /\ TablesKeep(jobs, runs, jobs', runs', NoWorker)
    BY MovedTables
  <1>2. Acts(p, s, NoWorker)
    BY DEF Acts, Become
  <1>3. ProcsOK(proc', jobs', runs')
    BY <1>1, <1>2, ProcsKeep
  <1>4. \A k \in JobIds : Pending(proc', k) \subseteq Pending(proc, k)
    BY PendingLingers DEF Become
  <1>5. AttemptsKeep
    <2>1. \A k \in JobIds \ {j} : runs'[k] = runs[k]
      BY DEF Inv, RunsOK
    <2> QED
      BY <1>1, <2>1 DEF AttemptsKeep, TablesKeep
  <1>6. Admitted
    BY DEF Inv, Admitted, Become
  <1> QED
    BY <1>1, <1>3, <1>4, <1>5, <1>6, Close

\* The row of a job is replaced by one that its run allows.
LEMMA JobTables ==
    ASSUME Inv, NEW j \in JobIds, NEW row, JobOK(row, runs[j]),
           jobs[j].attempt_count <= row.attempt_count,
           jobs' = [jobs EXCEPT ![j] = row], UNCHANGED runs
    PROVE  /\ RunsOK(runs') /\ JobsOK(jobs', runs') /\ jobs'[j] = row
           /\ TablesKeep(jobs, runs, jobs', runs', NoWorker)
           /\ AttemptsKeep
  <1>1. jobs \in [JobIds -> Job] /\ \A k \in JobIds : JobOK(jobs[k], runs[k])
    BY DEF Inv, JobsOK
  <1>2. row \in Job
    BY DEF JobOK, RowOK
  <1>3. /\ jobs'[j] = row /\ jobs' \in [JobIds -> Job]
        /\ \A k \in JobIds \ {j} : jobs'[k] = jobs[k]
    BY <1>1, <1>2
  <1>4. JobsOK(jobs', runs')
    BY <1>1, <1>3 DEF JobsOK
  <1>5. RunsOK(runs')
    BY DEF Inv
  <1>6. \A k \in JobIds : jobs[k].attempt_count <= jobs'[k].attempt_count
    BY <1>3, AttemptsAreNat DEF Inv
  <1>7. \A k \in JobIds : RunKeeps(runs[k], runs'[k], NoWorker)
    BY RunKeepsItself DEF Inv, RunsOK
  <1> QED
    BY <1>3, <1>4, <1>5, <1>6, <1>7 DEF TablesKeep, AttemptsKeep

\* An operator or an admission writes a job, no process takes part.
LEMMA ProcsWatch ==
    ASSUME Inv, UNCHANGED proc, RunsOK(runs'), JobsOK(jobs', runs'),
           TablesKeep(jobs, runs, jobs', runs', NoWorker)
    PROVE  /\ ProcsOK(proc', jobs', runs')
           /\ \A j \in JobIds : Pending(proc', j) \subseteq Pending(proc, j)
  <1>1. \A j \in JobIds : jobs[j].attempt_count \in Nat /\ jobs'[j].attempt_count \in Nat
    BY AttemptsAreNat DEF Inv
  <1>2. ASSUME NEW p \in Processes PROVE ProcOK(proc[p], p, jobs', runs')
    <2>1. IdOf[p] # NoWorker
      BY IngestionAssumption, RecordAssumption
    <2>2. ProcOK(proc[p], p, jobs, runs) /\ RunsOK(runs)
      BY DEF Inv, ProcsOK
    <2> QED
      BY <1>1, <2>1, <2>2, ProcKeeps
  <1> QED
    BY <1>2 DEF Inv, ProcsOK

\* A process writes its job and stops.
LEMMA IdleOK ==
    ASSUME NEW p \in Processes, NEW js, NEW rs
    PROVE  ProcOK(IdleProcess, p, js, rs) /\ Lingers(p, IdleProcess)
  <1>1. /\ IdleProcess.pc = "idle" /\ IdleProcess.job = NoJob /\ IdleProcess.attempt = 0
        /\ IdleProcess.run = AbsentRun /\ IdleProcess.id = NoWorker /\ IdleProcess.at = 0
        /\ IdleProcess.failure = "none" /\ IdleProcess.mine = 0
    BY DEF IdleProcess
  <1>2. AbsentRun \in Run
    BY RunAssumption DEF AbsentRun, Run
  <1>3. IdleProcess \in Process
    BY <1>2, RunAssumption, RecordAssumption DEF IdleProcess, Process
  <1> QED
    BY <1>1, <1>3 DEF ProcOK, Executing, Blind, Lingers

LEMMA StopStep ==
    ASSUME Inv, NEW p \in Processes, Stop(p), UNCHANGED <<jobs, runs>>
    PROVE  Inv'
  BY IdleOK, ReadStep DEF Stop

LEMMA JobStep ==
    ASSUME Inv, NEW p \in Processes, Stop(p), UNCHANGED runs, NEW j \in JobIds, NEW row,
           jobs' = [jobs EXCEPT ![j] = row], JobOK(row, runs[j]),
           jobs[j].attempt_count <= row.attempt_count
    PROVE  Inv'
  <1>1. /\ RunsOK(runs') /\ JobsOK(jobs', runs')
        /\ TablesKeep(jobs, runs, jobs', runs', NoWorker) /\ AttemptsKeep
    BY JobTables
  <1>2. /\ Acts(p, IdleProcess, NoWorker) /\ Lingers(p, IdleProcess)
        /\ proc' = [proc EXCEPT ![p] = IdleProcess] /\ Admitted
    BY IdleOK DEF Acts, Stop, Become, Inv, Admitted
  <1>3. ProcsOK(proc', jobs', runs')
    BY <1>1, <1>2, ProcsKeep
  <1>4. \A k \in JobIds : Pending(proc', k) \subseteq Pending(proc, k)
    BY <1>2, PendingLingers
  <1> QED
    BY <1>1, <1>2, <1>3, <1>4, Close

----------------------------------------------------------------------------
(* The row of a job.                                                       *)

LEMMA JobRowMoves ==
    ASSUME NEW j, RowOK(j, 0), j.max_attempts = MaxAttempts
    PROVE  /\ \A s \in JOB_STATUSES, w \in Workers \cup {NoWorker} :
                CanTransition(j, s) =>
                    LET row == Transitioned(j, s, w, 0) IN
                    /\ RowOK(row, 0) /\ row.max_attempts = MaxAttempts /\ row.status = s
                    /\ row.attempt_count = IF s = "RUNNING" THEN j.attempt_count + 1
                                                            ELSE j.attempt_count
           /\ \A t \in Int :
                j.status = "RUNNING" =>
                    LET row == Retried(j, t) IN
                    /\ RowOK(row, 0) /\ row.max_attempts = MaxAttempts
                    /\ row.status \in {"QUEUED", "FAILED"}
                    /\ row.attempt_count = j.attempt_count
  <1>0. 0 \in Int /\ 0 <= 0 /\ j \in Job
    BY DEF RowOK
  <1>1. ASSUME NEW s \in JOB_STATUSES, NEW w \in Workers \cup {NoWorker}, CanTransition(j, s)
        PROVE  LET row == Transitioned(j, s, w, 0) IN
               /\ RowOK(row, 0) /\ row.max_attempts = MaxAttempts /\ row.status = s
               /\ row.attempt_count = IF s = "RUNNING" THEN j.attempt_count + 1
                                                       ELSE j.attempt_count
    <2> DEFINE row == Transitioned(j, s, w, 0)
    <2>1. RowOK(row, 0) /\ Evolves(j, row)
      BY <1>0, <1>1, TransitionedOK
    <2>2. /\ row.status = s
          /\ row.attempt_count = IF s = "RUNNING" THEN j.attempt_count + 1 ELSE j.attempt_count
      BY <1>0 DEF Job, Transitioned
    <2> HIDE DEF row
    <2>3. RowOK(row, 0) /\ row.max_attempts = MaxAttempts /\ row.status = s
          /\ row.attempt_count = IF s = "RUNNING" THEN j.attempt_count + 1 ELSE j.attempt_count
      BY <2>1, <2>2 DEF Evolves
    <2> QED
      BY <2>3 DEF row
  <1>2. ASSUME NEW t \in Int, j.status = "RUNNING"
        PROVE  LET row == Retried(j, t) IN
               /\ RowOK(row, 0) /\ row.max_attempts = MaxAttempts
               /\ row.status \in {"QUEUED", "FAILED"}
               /\ row.attempt_count = j.attempt_count
    <2> DEFINE row == Retried(j, t)
    <2>1. RowOK(row, 0) /\ Evolves(j, row)
      BY <1>0, <1>2, RetriedOK
    <2>2. /\ Requeued(j, t).status = "QUEUED" /\ DeadLettered(j, t).status = "FAILED"
          /\ Requeued(j, t).attempt_count = j.attempt_count
          /\ DeadLettered(j, t).attempt_count = j.attempt_count
      BY <1>0 DEF Job, Requeued, DeadLettered
    <2>3. row.status \in {"QUEUED", "FAILED"} /\ row.attempt_count = j.attempt_count
      BY <2>2 DEF Retried
    <2> HIDE DEF row
    <2>4. /\ RowOK(row, 0) /\ row.max_attempts = MaxAttempts
          /\ row.status \in {"QUEUED", "FAILED"} /\ row.attempt_count = j.attempt_count
      BY <2>1, <2>3 DEF Evolves
    <2> QED
      BY <2>4 DEF row
  <1> QED
    BY <1>1, <1>2

\* Facts every action starts from.
LEMMA JobHere ==
    ASSUME Inv, NEW j \in JobIds
    PROVE  /\ jobs[j] \in Job /\ JobOK(jobs[j], runs[j]) /\ RowOK(jobs[j], 0)
           /\ jobs[j].max_attempts = MaxAttempts /\ jobs[j].attempt_count \in Nat
           /\ runs[j] \in Run /\ RunOK(runs[j])
  <1>1. jobs[j] \in Job /\ JobOK(jobs[j], runs[j]) /\ runs[j] \in Run /\ RunOK(runs[j])
    BY DEF Inv, JobsOK, RunsOK
  <1> QED
    BY <1>1 DEF JobOK, Job

\* A settled or cancelled row asks nothing of its run.
LEMMA SettledJobOK ==
    ASSUME Inv, NEW j \in JobIds, jobs[j].status = "RUNNING", NEW t \in Int
    PROVE  /\ JobOK(Retried(jobs[j], t), runs[j])
           /\ Retried(jobs[j], t).attempt_count = jobs[j].attempt_count
  <1> DEFINE row == Retried(jobs[j], t)
  <1>1. /\ RowOK(row, 0) /\ row.max_attempts = MaxAttempts
        /\ row.status \in {"QUEUED", "FAILED"} /\ row.attempt_count = jobs[j].attempt_count
    BY JobHere, JobRowMoves
  <1> HIDE DEF row
  <1>2. JobOK(row, runs[j])
    BY <1>1 DEF JobOK
  <1> QED
    BY <1>1, <1>2 DEF row

LEMMA EndedJobOK ==
    ASSUME Inv, NEW j \in JobIds, NEW s \in TERMINAL_JOB_STATUSES, CanTransition(jobs[j], s),
           s = "SUCCEEDED" => runs[j].status = "SUCCEEDED"
    PROVE  /\ JobOK(Transitioned(jobs[j], s, NoWorker, 0), runs[j])
           /\ Transitioned(jobs[j], s, NoWorker, 0).attempt_count = jobs[j].attempt_count
  <1> DEFINE row == Transitioned(jobs[j], s, NoWorker, 0)
  <1>1. s \in JOB_STATUSES /\ s # "RUNNING" /\ NoWorker \in Workers \cup {NoWorker}
    BY DEF JOB_STATUSES, TERMINAL_JOB_STATUSES
  <1>2. /\ RowOK(row, 0) /\ row.max_attempts = MaxAttempts
        /\ row.status = s /\ row.attempt_count = jobs[j].attempt_count
    BY <1>1, JobHere, JobRowMoves
  <1> HIDE DEF row
  <1>3. JobOK(row, runs[j])
    BY <1>1, <1>2 DEF JobOK
  <1> QED
    BY <1>2, <1>3 DEF row

----------------------------------------------------------------------------
(* Admission and operators.                                                *)

LEMMA EnqueueJobStep ==
    ASSUME Inv, NEW j \in JobIds, EnqueueJob(j)
    PROVE  Inv'
  <1>1. /\ UNCHANGED <<runs, proc>> /\ Admitted
        /\ jobs' = [jobs EXCEPT ![j] =
                        IF @.status = "NONE" THEN [@ EXCEPT !.status = "QUEUED"] ELSE @]
    BY DEF EnqueueJob, Admitted, Inv
  <1>2. PICK old : old = jobs[j]
    OBVIOUS
  <1> DEFINE queued == [old EXCEPT !.status = "QUEUED"]
             row == IF old.status = "NONE" THEN queued ELSE old
  <1>3. jobs' = [jobs EXCEPT ![j] = row]
    BY <1>1, <1>2
  <1>4. old \in Job /\ JobOK(old, runs[j]) /\ RowOK(old, 0) /\ old.attempt_count \in Nat
    BY <1>2, JobHere
  <1>5. JobOK(row, runs[j]) /\ jobs[j].attempt_count <= row.attempt_count
    <2>1. CASE old.status = "NONE"
      <3>1. /\ queued \in Job /\ queued.status = "QUEUED"
            /\ queued.attempt_count = old.attempt_count
            /\ queued.max_attempts = old.max_attempts
            /\ queued.error = old.error /\ queued.locked_by = old.locked_by
        BY <1>4 DEF Job, JOB_STATUSES
      <3>2. /\ old.attempt_count = 0 /\ old.error # "dead_lettered"
            /\ old.locked_by = NoWorker /\ old.max_attempts = MaxAttempts
        BY <1>4, <2>1 DEF JobOK, RowOK
      <3> HIDE DEF queued
      <3>3. JobOK(queued, runs[j])
        BY <3>1, <3>2, RunAssumption DEF JobOK, RowOK
      <3> QED
        BY <1>2, <1>4, <2>1, <3>1, <3>2, <3>3
    <2>2. CASE old.status # "NONE"
      BY <1>2, <1>4, <2>2
    <2> QED
      BY <2>1, <2>2
  <1> HIDE DEF row
  <1>6. /\ RunsOK(runs') /\ JobsOK(jobs', runs')
        /\ TablesKeep(jobs, runs, jobs', runs', NoWorker) /\ AttemptsKeep
    BY <1>1, <1>3, <1>5, JobTables
  <1> QED
    BY <1>1, <1>6, ProcsWatch, Close

LEMMA NewRunOK ==
    /\ NewRun \in Run /\ RunOK(NewRun) /\ NewRun.status = "QUEUED"
    /\ NewRun.checkpoint_version = 0 /\ NewRun.attempt_count = 0 /\ NewRun.passed = 0
  BY RunAssumption
     DEF NewRun, AbsentRun, Run, RunOK, INGESTION_RUN_STATUSES, Unfinished

LEMMA CreateRunStep ==
    ASSUME Inv, NEW j \in JobIds, CreateRun(j)
    PROVE  Inv'
  <1>1. UNCHANGED <<jobs, proc>> /\ Admitted
    BY DEF CreateRun, Admitted, Inv
  <1>2. /\ runs \in [JobIds -> Run] /\ RunOK(runs[j])
        /\ \A k \in JobIds : runs[k] \in Run /\ RunOK(runs[k]) /\ JobOK(jobs[k], runs[k])
    BY DEF Inv, RunsOK, JobsOK
  <1> DEFINE row == IF runs[j].status = "NONE" THEN NewRun ELSE runs[j]
  <1>3. runs' = [runs EXCEPT ![j] = row]
    BY DEF CreateRun
  <1>4. /\ row \in Run /\ RunOK(row) /\ row.attempt_count = runs[j].attempt_count
        /\ RunKeeps(runs[j], row, NoWorker) /\ JobOK(jobs[j], row)
    <2>1. CASE runs[j].status = "NONE"
      <3>1. runs[j].checkpoint_version = 0 /\ runs[j].attempt_count = 0
        BY <1>2, <2>1 DEF RunOK
      <3>2. RunKeeps(runs[j], NewRun, NoWorker)
        BY <2>1, <3>1, NewRunOK DEF RunKeeps
      <3>3. JobOK(jobs[j], NewRun)
        BY <1>2, <2>1 DEF JobOK
      <3> QED
        BY <2>1, <3>1, <3>2, <3>3, NewRunOK
    <2>2. CASE runs[j].status # "NONE"
      BY <1>2, <2>2, RunKeepsItself
    <2> QED
      BY <2>1, <2>2
  <1> HIDE DEF row
  <1>5. runs'[j] = row /\ \A k \in JobIds \ {j} : runs'[k] = runs[k]
    BY <1>2, <1>3
  <1>6. runs' \in [JobIds -> Run]
    BY <1>2, <1>3, <1>4
  <1>7. /\ RunsOK(runs') /\ JobsOK(jobs', runs')
    <2>1. \A k \in JobIds : RunOK(runs'[k]) /\ JobOK(jobs'[k], runs'[k])
      BY <1>1, <1>2, <1>4, <1>5
    <2> QED
      BY <1>1, <1>6, <2>1 DEF RunsOK, JobsOK, Inv
  <1>8. TablesKeep(jobs, runs, jobs', runs', NoWorker) /\ AttemptsKeep
    <2>1. \A k \in JobIds : jobs[k].attempt_count <= jobs'[k].attempt_count
      BY <1>1, JobHere
    <2>2. \A k \in JobIds : RunKeeps(runs[k], runs'[k], NoWorker)
      BY <1>2, <1>4, <1>5, RunKeepsItself
    <2>3. \A k \in JobIds : runs'[k].attempt_count = runs[k].attempt_count
      BY <1>4, <1>5
    <2> QED
      BY <2>1, <2>2, <2>3 DEF TablesKeep, AttemptsKeep
  <1> QED
    BY <1>1, <1>7, <1>8, ProcsWatch, Close

LEMMA AbandonAdmissionStep ==
    ASSUME Inv, NEW j \in JobIds, AbandonAdmission(j)
    PROVE  Inv'
  <1>1. UNCHANGED <<jobs, runs, proc>> /\ Admitted
    BY DEF AbandonAdmission, Admitted, Inv
  <1> QED
    BY <1>1 DEF Inv, Admitted

LEMMA OperatorStep ==
    ASSUME Inv, NEW j \in JobIds, OperatorCancel(j) \/ OperatorRetry(j)
    PROVE  Inv'
  <1>1. UNCHANGED <<runs, proc>> /\ Admitted
    BY DEF OperatorCancel, OperatorRetry, Admitted, Inv
  <1>2. jobs[j].attempt_count <= jobs[j].attempt_count
    BY JobHere
  <1>3. CASE OperatorCancel(j)
    <2> DEFINE row == Transitioned(jobs[j], "CANCELLED", NoWorker, 0)
    <2>1. jobs' = [jobs EXCEPT ![j] = row]
      BY <1>3 DEF OperatorCancel
    <2>2. "CANCELLED" \in TERMINAL_JOB_STATUSES /\ CanTransition(jobs[j], "CANCELLED")
      BY <1>3 DEF OperatorCancel, TERMINAL_JOB_STATUSES
    <2>3. JobOK(row, runs[j]) /\ jobs[j].attempt_count <= row.attempt_count
      BY <1>2, <2>2, EndedJobOK
    <2> HIDE DEF row
    <2> QED
      BY <1>1, <2>1, <2>3, JobTables, ProcsWatch, Close
  <1>4. CASE OperatorRetry(j)
    <2> DEFINE row == Retried(jobs[j], 0)
    <2>1. jobs' = [jobs EXCEPT ![j] = row] /\ jobs[j].status = "RUNNING" /\ 0 \in Int
      BY <1>4 DEF OperatorRetry
    <2>2. JobOK(row, runs[j]) /\ jobs[j].attempt_count <= row.attempt_count
      BY <1>2, <2>1, SettledJobOK
    <2> HIDE DEF row
    <2> QED
      BY <1>1, <2>1, <2>2, JobTables, ProcsWatch, Close
  <1> QED
    BY <1>3, <1>4

----------------------------------------------------------------------------
(* Time only changes the clocks.                                           *)

LEMMA TickedJob ==
    ASSUME NEW job, NEW run, JobOK(job, run), NEW a \in Int
    PROVE  LET new == [job EXCEPT !.available_at = a] IN
           /\ new \in Job /\ JobOK(new, run) /\ new.attempt_count = job.attempt_count
  <1> DEFINE new == [job EXCEPT !.available_at = a]
  <1>1. job \in Job
    BY DEF JobOK, RowOK
  <1>2. /\ new \in Job /\ new.status = job.status /\ new.attempt_count = job.attempt_count
        /\ new.max_attempts = job.max_attempts /\ new.retryable = job.retryable
        /\ new.error = job.error /\ new.locked_by = job.locked_by
        /\ new.locked_at = job.locked_at /\ new.completed = job.completed
    BY <1>1 DEF Job
  <1> HIDE DEF new
  <1>3. JobOK(new, run)
    BY <1>2 DEF JobOK, RowOK
  <1> QED
    BY <1>2, <1>3 DEF new

LEMMA TickedRun ==
    ASSUME NEW run, RunOK(run), NEW e \in Int, NEW r \in Int
    PROVE  LET new == [run EXCEPT !.lease_expires_at = e, !.retry_at = r] IN
           /\ new \in Run /\ RunOK(new) /\ Same(run, new) /\ RunKeeps(run, new, NoWorker)
  <1> DEFINE new == [run EXCEPT !.lease_expires_at = e, !.retry_at = r]
  <1>1. run \in Run
    BY DEF RunOK
  <1>2. /\ new \in Run /\ new.status = run.status /\ new.attempt_count = run.attempt_count
        /\ new.passed = run.passed /\ new.lease_owner = run.lease_owner
        /\ new.checkpoint_version = run.checkpoint_version
        /\ run.checkpoint_version \in Nat
    BY <1>1 DEF Run
  <1> HIDE DEF new
  <1>3. RunOK(new) /\ Same(run, new) /\ RunKeeps(run, new, NoWorker)
    BY <1>2 DEF RunOK, Same, RunKeeps
  <1> QED
    BY <1>2, <1>3 DEF new

LEMMA TickedProc ==
    ASSUME NEW s, NEW p, NEW js, NEW rs, ProcOK(s, p, js, rs), NEW a \in -MaxDelay..0
    PROVE  LET new == [s EXCEPT !.at = a] IN
           /\ ProcOK(new, p, js, rs) /\ new.pc = s.pc /\ new.job = s.job
  <1> DEFINE new == [s EXCEPT !.at = a]
  <1>1. s \in Process
    BY DEF ProcOK
  <1>2. /\ new \in Process /\ new.pc = s.pc /\ new.job = s.job /\ new.attempt = s.attempt
        /\ new.run = s.run /\ new.id = s.id /\ new.failure = s.failure /\ new.mine = s.mine
    BY <1>1 DEF Process
  <1> HIDE DEF new
  <1>3. ProcOK(new, p, js, rs)
    BY <1>2 DEF ProcOK
  <1> QED
    BY <1>2, <1>3 DEF new

LEMMA EarlierType ==
    /\ \A t \in Int : Earlier(t, 0) \in Int /\ Earlier(t, -MaxDelay) \in Int
    /\ \A t \in -MaxDelay..0 : Earlier(t, -MaxDelay) \in -MaxDelay..0
    /\ 0 \in -MaxDelay..0
  BY RecordAssumption DEF Earlier

LEMMA TickStep ==
    ASSUME Inv, Tick
    PROVE  Inv'
  <1> DEFINE job(j) == [jobs[j] EXCEPT !.available_at = Earlier(jobs[j].available_at, 0)]
             run(j) == [runs[j] EXCEPT !.lease_expires_at = Expiry(runs[j]),
                                       !.retry_at = Earlier(runs[j].retry_at, 0)]
             now(p) == IF proc[p].pc \in {"idle", "down"} THEN 0
                      ELSE Earlier(proc[p].at, -MaxDelay)
             state(p) == [proc[p] EXCEPT !.at = now(p)]
  <1>1. /\ jobs' = [j \in JobIds |-> job(j)] /\ runs' = [j \in JobIds |-> run(j)]
        /\ proc' = [p \in Processes |-> state(p)] /\ Admitted
    BY DEF Tick, Inv, Admitted
  <1>2. ASSUME NEW j \in JobIds
        PROVE  /\ job(j) \in Job /\ JobOK(job(j), runs[j])
               /\ job(j).attempt_count = jobs[j].attempt_count
    <2>1. JobOK(jobs[j], runs[j]) /\ Earlier(jobs[j].available_at, 0) \in Int
      BY JobHere, EarlierType DEF Job
    <2> QED
      BY <2>1, TickedJob
  <1>3. ASSUME NEW j \in JobIds
        PROVE  /\ run(j) \in Run /\ RunOK(run(j)) /\ Same(runs[j], run(j))
               /\ RunKeeps(runs[j], run(j), NoWorker)
    <2>1. /\ RunOK(runs[j]) /\ Earlier(runs[j].retry_at, 0) \in Int
          /\ Expiry(runs[j]) \in Int
      BY JobHere, EarlierType DEF Run, Expiry
    <2> QED
      BY <2>1, TickedRun
  <1>4. ASSUME NEW p \in Processes
        PROVE  /\ ProcOK(state(p), p, jobs, runs)
               /\ state(p).pc = proc[p].pc /\ state(p).job = proc[p].job
    <2>1. ProcOK(proc[p], p, jobs, runs)
      BY DEF Inv, ProcsOK
    <2>2. now(p) \in -MaxDelay..0
      BY <2>1, EarlierType DEF ProcOK, Process
    <2> HIDE DEF now
    <2> QED
      BY <2>1, <2>2, TickedProc
  <1> HIDE DEF job, run, state
  <1>5. /\ \A j \in JobIds : jobs'[j] = job(j) /\ runs'[j] = run(j)
        /\ \A p \in Processes : proc'[p] = state(p)
    BY <1>1
  <1>6. RunsOK(runs')
    BY <1>1, <1>3, <1>5 DEF RunsOK
  <1>7. JobsOK(jobs', runs')
    <2>1. \A j \in JobIds : JobOK(jobs'[j], runs'[j])
      BY <1>2, <1>3, <1>5 DEF JobOK, Same
    <2> QED
      BY <1>1, <1>2, <2>1 DEF JobsOK
  <1>8. AttemptsKeep /\ TablesKeep(jobs, runs, jobs', runs', NoWorker)
    <2>1. \A j \in JobIds : jobs[j].attempt_count <= jobs'[j].attempt_count
      BY <1>2, <1>5, JobHere
    <2> QED
      BY <1>3, <1>5, <2>1 DEF AttemptsKeep, TablesKeep, Same
  <1>9. ProcsOK(proc', jobs', runs')
    <2>1. \A j \in JobIds : jobs[j].attempt_count \in Nat /\ jobs'[j].attempt_count \in Nat
      BY <1>7, AttemptsAreNat DEF Inv
    <2>2. ASSUME NEW p \in Processes PROVE ProcOK(state(p), p, jobs', runs')
      <3>1. IdOf[p] # NoWorker
        BY IngestionAssumption, RecordAssumption
      <3>2. RunsOK(runs)
        BY DEF Inv
      <3> QED
        BY <1>4, <1>6, <1>8, <2>1, <3>1, <3>2, ProcKeeps
    <2>3. proc' \in [Processes -> Process]
      <3>1. \A p \in Processes : state(p) \in Process
        BY <1>4 DEF ProcOK
      <3> QED
        BY <1>1, <3>1
    <2> QED
      BY <1>5, <2>2, <2>3 DEF ProcsOK
  <1>10. \A j \in JobIds : Pending(proc', j) \subseteq Pending(proc, j)
    BY <1>4, <1>5 DEF Pending
  <1> QED
    BY <1>1, <1>6, <1>7, <1>8, <1>9, <1>10, Close

----------------------------------------------------------------------------
(* The states a process is put in.                                         *)

Places == {"down", "idle", "claimed", "found", "guard", "step", "completing", "failing",
           "recording", "settling", "cancelling", "cancelled", "reading"}

Failures == {"none", "transient", "permanent"}

\* The updates that occur, by the columns they set.
WithPlace(s, pc) == [s EXCEPT !.pc = pc]
WithRun(s, pc, run) == [s EXCEPT !.pc = pc, !.run = run]
WithFailure(s, pc, failure) == [s EXCEPT !.pc = pc, !.failure = failure]
WithClaim(s, j, w, n) == [s EXCEPT !.pc = "claimed", !.job = j, !.id = w, !.attempt = n]
WithStart(s, run, n) == [s EXCEPT !.pc = "guard", !.run = run, !.mine = n]
WithOutcome(s, run, failure) ==
    [s EXCEPT !.pc = "settling", !.run = run, !.failure = failure]
WithExpired(s, run) ==
    [s EXCEPT !.pc = "recording", !.run = run, !.failure = "transient",
              !.id = run.lease_owner, !.mine = run.attempt_count]
WithRecovery(s, j, n) == [s EXCEPT !.pc = "reading", !.job = j, !.attempt = n]
WithDeath(s, j, n) == [s EXCEPT !.pc = "down", !.job = j, !.attempt = n]

LEMMA WithPlaceType ==
    ASSUME NEW s \in Process, NEW pc \in Places, NEW new, new = WithPlace(s, pc)
    PROVE  /\ new \in Process /\ new.pc = pc /\ new.job = s.job
           /\ new.attempt = s.attempt /\ new.run = s.run /\ new.id = s.id
           /\ new.failure = s.failure /\ new.mine = s.mine
  BY DEF Process, Places, WithPlace

LEMMA WithRunType ==
    ASSUME NEW s \in Process, NEW pc \in Places, NEW run \in Run,
           NEW new, new = WithRun(s, pc, run)
    PROVE  /\ new \in Process /\ new.pc = pc /\ new.job = s.job
           /\ new.attempt = s.attempt /\ new.run = run /\ new.id = s.id
           /\ new.failure = s.failure /\ new.mine = s.mine
  BY DEF Process, Places, WithRun

LEMMA WithFailureType ==
    ASSUME NEW s \in Process, NEW pc \in Places, NEW failure \in Failures,
           NEW new, new = WithFailure(s, pc, failure)
    PROVE  /\ new \in Process /\ new.pc = pc /\ new.job = s.job
           /\ new.attempt = s.attempt /\ new.run = s.run /\ new.id = s.id
           /\ new.mine = s.mine /\ new.failure = failure
  BY DEF Process, Places, Failures, WithFailure

LEMMA WithClaimType ==
    ASSUME NEW s \in Process, NEW j \in JobIds, NEW w \in Workers, NEW n \in 1..MaxAttempts,
           NEW new, new = WithClaim(s, j, w, n)
    PROVE  /\ new \in Process /\ new.pc = "claimed" /\ new.job = j /\ new.id = w
           /\ new.attempt = n
  <1>1. n \in 0..MaxAttempts
    BY RunAssumption
  <1> QED
    BY <1>1 DEF Process, WithClaim

LEMMA WithStartType ==
    ASSUME NEW s \in Process, NEW run \in Run, NEW n \in Nat,
           NEW new, new = WithStart(s, run, n)
    PROVE  /\ new \in Process /\ new.pc = "guard" /\ new.job = s.job
           /\ new.attempt = s.attempt /\ new.run = run /\ new.id = s.id /\ new.mine = n
  BY DEF Process, WithStart

LEMMA WithOutcomeType ==
    ASSUME NEW s \in Process, NEW run \in Run, NEW failure \in Failures,
           NEW new, new = WithOutcome(s, run, failure)
    PROVE  /\ new \in Process /\ new.pc = "settling" /\ new.job = s.job
           /\ new.attempt = s.attempt /\ new.failure = failure /\ new.at = s.at
  BY DEF Process, Failures, WithOutcome

LEMMA WithExpiredType ==
    ASSUME NEW s \in Process, NEW run \in Run, NEW new, new = WithExpired(s, run)
    PROVE  /\ new \in Process /\ new.pc = "recording" /\ new.job = s.job
           /\ new.attempt = s.attempt /\ new.run = run /\ new.mine = run.attempt_count
  <1> DEFINE w == run.lease_owner
             n == run.attempt_count
  <1>1. w \in Workers \cup {NoWorker} /\ n \in Nat
    BY DEF Run
  <1>2. new = [s EXCEPT !.pc = "recording", !.run = run, !.failure = "transient",
                        !.id = w, !.mine = n]
    BY DEF WithExpired
  <1> HIDE DEF w, n
  <1>3. /\ new \in Process /\ new.pc = "recording" /\ new.job = s.job
        /\ new.attempt = s.attempt /\ new.run = run /\ new.mine = n
    BY <1>1, <1>2 DEF Process
  <1> QED
    BY <1>3 DEF n

LEMMA WithRecoveryType ==
    ASSUME NEW s \in Process, NEW j \in JobIds, NEW n \in 1..MaxAttempts,
           NEW new, new = WithRecovery(s, j, n)
    PROVE  /\ new \in Process /\ new.pc = "reading" /\ new.job = j /\ new.attempt = n
  <1>1. n \in 0..MaxAttempts
    BY RunAssumption
  <1> QED
    BY <1>1 DEF Process, WithRecovery

LEMMA WithDeathType ==
    ASSUME NEW s \in Process, NEW j \in JobIds, NEW n \in 0..MaxAttempts,
           NEW new, new = WithDeath(s, j, n)
    PROVE  /\ new \in Process /\ new.pc = "down" /\ new.job = j /\ new.attempt = n
  BY DEF Process, WithDeath

\* Facts every action of a process starts from.
LEMMA Here ==
    ASSUME Inv, NEW p \in Processes, proc[p].pc # "idle"
    PROVE  /\ proc[p] \in Process /\ ProcOK(proc[p], p, jobs, runs)
           /\ proc[p].job \in JobIds
           /\ proc[p].attempt \in 1..jobs[proc[p].job].attempt_count
           /\ proc[p].run \in Run
           /\ runs[proc[p].job] \in Run /\ RunOK(runs[proc[p].job])
  <1>1. proc[p] \in Process /\ ProcOK(proc[p], p, jobs, runs)
    BY DEF Inv, ProcsOK
  <1>2. proc[p].job \in JobIds /\ proc[p].attempt \in 1..jobs[proc[p].job].attempt_count
    BY <1>1 DEF ProcOK
  <1> QED
    BY <1>1, <1>2 DEF Process, Inv, RunsOK

LEMMA FreshCopy ==
    ASSUME NEW run \in Run, run.status # "NONE"
    PROVE  Copied(run, run)
  BY DEF Copied, Same, Run

----------------------------------------------------------------------------
(* Claims.                                                                 *)

LEMMA ClaimStep ==
    ASSUME Inv, NEW p \in Processes, Claim(p)
    PROVE  Inv'
  <1>1. PICK j \in JobIds :
            /\ IsClaimable(jobs[j], jobs[j].job_type, 0)
            /\ jobs' = [jobs EXCEPT ![j] = Transitioned(@, "RUNNING", IdOf[p], 0)]
            /\ Become(p, [IdleProcess EXCEPT !.pc = "claimed", !.job = j, !.id = IdOf[p],
                                             !.attempt = jobs'[j].attempt_count])
    BY DEF Claim
  <1>2. proc[p].pc = "idle" /\ UNCHANGED <<runs, admission>> /\ IdOf[p] \in Workers
    BY <1>1, IngestionAssumption DEF Claim, Become
  <1> DEFINE row == Transitioned(jobs[j], "RUNNING", IdOf[p], 0)
             n == jobs'[j].attempt_count
             s == [IdleProcess EXCEPT !.pc = "claimed", !.job = j, !.id = IdOf[p], !.attempt = n]
  <1>3. /\ RowOK(row, 0) /\ row.max_attempts = MaxAttempts /\ row.status = "RUNNING"
        /\ row.attempt_count = jobs[j].attempt_count + 1
    <2>1. "RUNNING" \in JOB_STATUSES /\ CanTransition(jobs[j], "RUNNING")
      BY <1>1 DEF IsClaimable, CanTransition, VALID_JOB_TRANSITIONS, JOB_STATUSES
    <2> QED
      BY <1>2, <2>1, JobHere, JobRowMoves
  <1>4. jobs' = [jobs EXCEPT ![j] = row] /\ UNCHANGED runs
    BY <1>1, <1>2
  <1> HIDE DEF row
  <1>5. JobOK(row, runs[j]) /\ jobs[j].attempt_count <= row.attempt_count
    BY <1>3, JobHere DEF JobOK
  <1>6. /\ RunsOK(runs') /\ JobsOK(jobs', runs') /\ jobs'[j] = row
        /\ TablesKeep(jobs, runs, jobs', runs', NoWorker) /\ AttemptsKeep
    BY <1>4, <1>5, JobTables
  <1>7. n \in 1..MaxAttempts /\ n = jobs'[j].attempt_count
    BY <1>3, <1>6, JobHere, AttemptsAreNat DEF Inv
  <1> HIDE DEF n
  <1>8. /\ s \in Process /\ s.pc = "claimed" /\ s.job = j /\ s.id = IdOf[p] /\ s.attempt = n
    <2>1. IdleProcess \in Process
      BY IdleOK DEF ProcOK
    <2> QED
      <3>1. s = WithClaim(IdleProcess, j, IdOf[p], n)
        BY DEF WithClaim
      <3> HIDE DEF s
      <3> QED
        BY <1>2, <1>7, <2>1, <3>1, WithClaimType
  <1>9. proc' = [proc EXCEPT ![p] = s]
    BY <1>1 DEF Become, n
  <1> HIDE DEF s
  <1>10. Acts(p, s, NoWorker)
    BY <1>7, <1>8, <1>9 DEF Acts, ProcOK, Executing, Blind
  <1>11. ProcsOK(proc', jobs', runs')
    BY <1>6, <1>10, ProcsKeep
  <1>12. ASSUME NEW k \in JobIds PROVE Budgeted(proc', jobs', runs', k)
    <2>1. proc \in [Processes -> Process]
      BY DEF Inv, ProcsOK
    <2>2. /\ runs[k].attempt_count \in Nat /\ jobs[k].attempt_count \in Nat
          /\ jobs'[k].attempt_count \in Nat /\ runs' = runs
          /\ jobs[k].attempt_count <= jobs'[k].attempt_count
      BY <1>2, <1>6, JobHere, AttemptsAreNat DEF AttemptsKeep, Run
    <2>3. Budgeted(proc, jobs, runs, k)
      BY DEF Inv
    <2>4. CASE k = j
      <3> DEFINE A == Pending(proc, j)
      <3>1. Pending(proc', j) = A \cup {p} /\ p \notin A
        BY <1>2, <1>8, <1>9, <2>1 DEF Pending
      <3>2. IsFiniteSet(A) /\ runs[j].attempt_count + Cardinality(A) <= jobs[j].attempt_count
        BY <2>3, <2>4 DEF Budgeted
      <3> HIDE DEF A
      <3>3. /\ IsFiniteSet(A \cup {p}) /\ Cardinality(A \cup {p}) = Cardinality(A) + 1
            /\ Cardinality(A) \in Nat
        BY <3>1, <3>2, FS_AddElement, FS_CardinalityType
      <3>4. runs'[j].attempt_count + Cardinality(A \cup {p}) <= jobs'[j].attempt_count
        BY <1>3, <1>6, <2>2, <2>4, <3>2, <3>3
      <3> QED
        BY <2>4, <3>1, <3>3, <3>4 DEF Budgeted
    <2>5. CASE k # j
      <3>1. Pending(proc', k) \subseteq Pending(proc, k)
        BY <1>2, <1>8, <1>9, <2>1, <2>5 DEF Pending
      <3>2. runs'[k].attempt_count = runs[k].attempt_count
        BY <1>2
      <3> QED
        BY <2>2, <2>3, <3>1, <3>2, BudgetKeeps
    <2> QED
      BY <2>4, <2>5
  <1> QED
    BY <1>2, <1>6, <1>11, <1>12 DEF Inv

LEMMA FindRunStep ==
    ASSUME Inv, NEW p \in Processes, FindRun(p)
    PROVE  Inv'
  <1>1. /\ proc[p].pc = "claimed" /\ UNCHANGED <<jobs, runs>>
    BY DEF FindRun
  <1>2. PICK run : run = runs[proc[p].job]
    OBVIOUS
  <1>3. /\ proc[p] \in Process /\ ProcOK(proc[p], p, jobs, runs) /\ run \in Run
    BY <1>1, <1>2, Here
  <1>4. CASE run.status = "NONE"
    <2> DEFINE s == [proc[p] EXCEPT !.pc = "settling", !.failure = "permanent"]
    <2>1. Become(p, s)
      BY <1>2, <1>4 DEF FindRun
    <2>2. /\ s \in Process /\ s.pc = "settling" /\ s.job = proc[p].job
          /\ s.attempt = proc[p].attempt
      <3>1. "settling" \in Places /\ "permanent" \in Failures
        BY DEF Places, Failures
      <3>2. s = WithFailure(proc[p], "settling", "permanent")
        BY DEF WithFailure
      <3> HIDE DEF s
      <3> QED
        BY <1>3, <3>1, <3>2, WithFailureType
    <2> HIDE DEF s
    <2>3. ProcOK(s, p, jobs, runs) /\ Lingers(p, s)
      BY <1>1, <1>3, <2>2 DEF ProcOK, Lingers, Executing, Blind
    <2> QED
      BY <1>1, <2>1, <2>3, ReadStep
  <1>5. CASE run.status # "NONE"
    <2> DEFINE s == [proc[p] EXCEPT !.pc = "found", !.run = run]
    <2>1. Become(p, s)
      BY <1>2, <1>5 DEF FindRun
    <2>2. /\ s \in Process /\ s.pc = "found" /\ s.job = proc[p].job
          /\ s.attempt = proc[p].attempt /\ s.run = run /\ s.id = proc[p].id
      <3>1. "found" \in Places
        BY DEF Places
      <3>2. s = WithRun(proc[p], "found", run)
        BY DEF WithRun
      <3> HIDE DEF s
      <3> QED
        BY <1>3, <3>1, <3>2, WithRunType
    <2> HIDE DEF s
    <2>3. ProcOK(s, p, jobs, runs) /\ Lingers(p, s)
      <3>1. Copied(run, run)
        BY <1>3, <1>5, FreshCopy
      <3> QED
        BY <1>1, <1>2, <1>3, <2>2, <3>1 DEF ProcOK, Lingers, Executing, Blind
    <2> QED
      BY <1>1, <2>1, <2>3, ReadStep
  <1> QED
    BY <1>4, <1>5

\* The step writes the run of p by a move, and only starts it within budget.
WritesRun(p) ==
    \E row, w :
        /\ Moved(runs[proc[p].job], row, w)
        /\ runs' = [runs EXCEPT ![proc[p].job] = row]
        /\ \/ row.attempt_count = runs[proc[p].job].attempt_count
           \/ runs[proc[p].job].attempt_count < MaxAttempts

LEMMA CurrentMoves ==
    ASSUME Inv, NEW p \in Processes, proc[p].pc \notin Blind, Current(p),
           NEW row, NEW w, Moved(proc[p].run, row, w)
    PROVE  /\ Moved(runs[proc[p].job], row, w)
           /\ Same(proc[p].run, runs[proc[p].job])
  <1>1. proc[p].pc # "idle"
    BY DEF Blind
  <1>2. Copied(proc[p].run, runs[proc[p].job])
    BY <1>1, Here DEF ProcOK
  <1> QED
    BY <1>2, CopyMoves DEF Current, Copied

LEMMA RequeueRunStep ==
    ASSUME Inv, NEW p \in Processes, RequeueRun(p)
    PROVE  Inv' /\ (UNCHANGED runs \/ WritesRun(p))
  <1>1. proc[p].pc = "found" /\ proc[p].run.status = "WAITING_RETRY" /\ UNCHANGED jobs
    BY DEF RequeueRun
  <1>2. /\ proc[p] \in Process /\ ProcOK(proc[p], p, jobs, runs)
        /\ proc[p].job \in JobIds /\ proc[p].run \in Run
    BY <1>1, Here
  <1> DEFINE j == proc[p].job
             row == RequeuedRun(proc[p].run)
             s == [proc[p] EXCEPT !.run = row]
  <1>3. CASE Stop(p) /\ UNCHANGED runs
    BY <1>1, <1>3, StopStep
  <1>4. CASE Current(p) /\ WriteRun(p, row) /\ Become(p, s)
    <2>1. Moved(proc[p].run, row, NoWorker) /\ row.status = "QUEUED"
      BY <1>1, <1>2, RequeuedRunMoves
    <2>2. runs' = [runs EXCEPT ![j] = row] /\ Become(p, s)
      BY <1>4 DEF WriteRun
    <2> HIDE DEF row
    <2>3. row \in Run
      BY <2>1 DEF Moved
    <2>4. /\ s \in Process /\ s.pc = "found" /\ s.job = j /\ s.attempt = proc[p].attempt
          /\ s.run = row /\ s.id = proc[p].id
      BY <1>1, <1>2, <2>3 DEF Process
    <2> HIDE DEF s
    <2>5. Moved(runs[j], row, NoWorker)
      BY <1>1, <1>4, <2>1, CurrentMoves DEF Blind
    <2>6. row.attempt_count = runs[j].attempt_count
      BY <2>1, <2>5 DEF Moved, Starts, Passes, Fails, Requeues, Cancels
    <2>7. runs'[j] = row
      BY <1>1, <1>2, <2>2, <2>5, MovedTables
    <2>8. ProcOK(s, p, jobs', runs') /\ Lingers(p, s)
      <3>1. Copied(row, row)
        BY <2>1, <2>3, FreshCopy
      <3> QED
        BY <1>1, <1>2, <2>4, <2>7, <3>1 DEF ProcOK, Lingers, Executing, Blind
    <2>9. WritesRun(p)
      BY <2>2, <2>5, <2>6 DEF WritesRun
    <2> HIDE DEF j
    <2> QED
      BY <1>1, <1>2, <2>2, <2>5, <2>6, <2>8, <2>9, WriteStep DEF j
  <1> QED
    BY <1>3, <1>4 DEF RequeueRun

LEMMA ClaimRunStep ==
    ASSUME Inv, NEW p \in Processes, ClaimRun(p)
    PROVE  Inv' /\ (UNCHANGED runs \/ WritesRun(p))
  <1>1. proc[p].pc = "found" /\ UNCHANGED jobs
    BY DEF ClaimRun
  <1>2. /\ proc[p] \in Process /\ ProcOK(proc[p], p, jobs, runs)
        /\ proc[p].job \in JobIds /\ proc[p].run \in Run /\ runs[proc[p].job] \in Run
    BY <1>1, Here
  <1>3. proc[p].id = IdOf[p] /\ IdOf[p] \in Workers /\ proc[p].at \in Int
    BY <1>1, <1>2, IngestionAssumption, RecordAssumption DEF ProcOK, Executing, Process
  <1> DEFINE j == proc[p].job
             row == Claimed(proc[p].run, proc[p].id, proc[p].at)
             n == row.attempt_count
             s == [proc[p] EXCEPT !.pc = "guard", !.run = row, !.mine = n]
  <1>4. CASE Stop(p) /\ UNCHANGED runs
    BY <1>1, <1>4, StopStep
  <1>5. CASE /\ proc[p].run.status = "QUEUED" /\ Current(p)
             /\ WriteRun(p, row) /\ Become(p, s)
    <2>1. Moved(proc[p].run, row, IdOf[p]) /\ row.status = "RUNNING"
      BY <1>2, <1>3, <1>5, ClaimedMoves
    <2>2. runs' = [runs EXCEPT ![j] = row] /\ Become(p, s)
      BY <1>5 DEF WriteRun
    <2> HIDE DEF row
    <2>3. Moved(runs[j], row, IdOf[p]) /\ Same(proc[p].run, runs[j])
      BY <1>1, <1>5, <2>1, CurrentMoves DEF Blind
    <2>4. Starts(runs[j], row, IdOf[p]) /\ row \in Run
      BY <1>5, <2>1, <2>3 DEF Moved, Same, Passes, Fails, Requeues, Cancels, Unfinished
    <2>5. /\ row.status = "RUNNING" /\ row.lease_owner = IdOf[p]
          /\ row.attempt_count = runs[j].attempt_count + 1 /\ n \in Nat
      BY <2>4 DEF Starts, Run
    <2>6. /\ s \in Process /\ s.pc = "guard" /\ s.job = j /\ s.attempt = proc[p].attempt
          /\ s.run = row /\ s.id = proc[p].id /\ s.mine = n
      <3>1. s = WithStart(proc[p], row, n)
        BY DEF WithStart
      <3>2. n \in Nat /\ row \in Run
        BY <2>4, <2>5
      <3> HIDE DEF s, n
      <3> QED
        BY <1>2, <3>1, <3>2, WithStartType
    <2> HIDE DEF s
    <2>7. /\ RunsOK(runs') /\ JobsOK(jobs', runs') /\ runs'[j] = row
          /\ TablesKeep(jobs, runs, jobs', runs', IdOf[p])
      BY <1>1, <1>2, <2>2, <2>3, MovedTables
    <2>8. RunOK(row) /\ row.passed < Steps
      BY <1>2, <2>5, <2>7 DEF RunsOK, RunOK, Unfinished
    <2>9. ProcOK(s, p, jobs', runs')
      <3>1. Copied(row, row)
        BY <2>4, <2>5, FreshCopy
      <3> QED
        BY <1>1, <1>2, <1>3, <2>5, <2>6, <2>7, <2>8, <3>1 DEF ProcOK, Executing, Blind
    <2>10. Acts(p, s, IdOf[p])
      BY <2>2, <2>9 DEF Acts, Become
    <2>11. ProcsOK(proc', jobs', runs')
      BY <2>7, <2>10, ProcsKeep
    <2> DEFINE A == Pending(proc, j)
    <2>12. /\ p \in A /\ IsFiniteSet(A) /\ Cardinality(A) \in Nat
           /\ runs[j].attempt_count + Cardinality(A) <= jobs[j].attempt_count
           /\ IsFiniteSet(A \ {p}) /\ Cardinality(A \ {p}) = Cardinality(A) - 1
      <3>1. p \in A
        BY <1>1 DEF Pending
      <3>2. /\ IsFiniteSet(A)
            /\ runs[j].attempt_count + Cardinality(A) <= jobs[j].attempt_count
        BY <1>2 DEF Inv, Budgeted
      <3> HIDE DEF A
      <3> QED
        BY <3>1, <3>2, FS_RemoveElement, FS_CardinalityType
    <2>13. /\ proc \in [Processes -> Process] /\ proc' = [proc EXCEPT ![p] = s]
      BY <2>2 DEF Inv, ProcsOK, Become
    <2>14. /\ \A k \in JobIds : /\ runs[k].attempt_count \in Nat
                                /\ jobs[k].attempt_count \in Nat
                                /\ jobs[k].attempt_count <= MaxAttempts
           /\ jobs' = jobs
      BY <1>1, JobHere, AttemptsAreNat DEF Inv, Run
    <2>15. ASSUME NEW k \in JobIds PROVE Budgeted(proc', jobs', runs', k)
      <3>1. CASE k = j
        <4> DEFINE B == A \ {p}
        <4>1. Pending(proc', j) = B
          BY <2>6, <2>13 DEF Pending
        <4>2. /\ IsFiniteSet(B)
              /\ runs'[j].attempt_count + Cardinality(B) <= jobs'[j].attempt_count
          <5>1. /\ runs[j].attempt_count \in Nat /\ jobs[j].attempt_count \in Nat
                /\ runs'[j].attempt_count = runs[j].attempt_count + 1 /\ jobs' = jobs
            BY <1>2, <2>5, <2>7, <2>14
          <5> HIDE DEF A, j
          <5> QED
            BY <2>12, <5>1
        <4> HIDE DEF B
        <4> QED
          BY <3>1, <4>1, <4>2 DEF Budgeted
      <3>2. CASE k # j
        <4>1. Pending(proc', k) \subseteq Pending(proc, k)
          BY <2>6, <2>13, <3>2 DEF Pending
        <4>2. runs'[k] = runs[k] /\ jobs' = jobs /\ jobs[k].attempt_count <= jobs'[k].attempt_count
          BY <2>2, <2>14, <3>2 DEF Inv, RunsOK
        <4>3. Budgeted(proc, jobs, runs, k)
          BY DEF Inv
        <4> QED
          BY <2>14, <4>1, <4>2, <4>3, BudgetKeeps
      <3> QED
        BY <3>1, <3>2
    <2>16. Inv'
      BY <2>2, <2>7, <2>11, <2>15 DEF Inv, Become
    <2>17. runs[j].attempt_count < MaxAttempts
      <3>1. /\ runs[j].attempt_count \in Nat /\ jobs[j].attempt_count \in Nat
            /\ jobs[j].attempt_count <= MaxAttempts
        BY <1>2, <2>14
      <3>2. Cardinality(A) # 0
        BY <2>12, FS_EmptySet
      <3> HIDE DEF A, j
      <3> QED
        BY <2>12, <3>1, <3>2, RunAssumption
    <2>18. WritesRun(p)
      BY <2>2, <2>3, <2>17 DEF WritesRun
    <2> QED
      BY <2>16, <2>18
  <1> QED
    BY <1>4, <1>5 DEF ClaimRun

----------------------------------------------------------------------------
(* Checkpoints.                                                            *)

LEMMA GuardStep ==
    ASSUME Inv, NEW p \in Processes, Guard(p)
    PROVE  Inv'
  <1>1. proc[p].pc = "guard" /\ UNCHANGED <<jobs, runs>>
    BY DEF Guard
  <1>2. proc[p] \in Process /\ ProcOK(proc[p], p, jobs, runs)
    BY <1>1, Here
  <1>3. PICK pc \in {"step", "cancelling", "idle"} :
            IF pc = "idle" THEN Stop(p) ELSE Become(p, [proc[p] EXCEPT !.pc = pc])
    BY DEF Guard
  <1>4. CASE pc = "idle"
    BY <1>1, <1>3, <1>4, StopStep
  <1>5. CASE pc # "idle"
    <2> DEFINE s == [proc[p] EXCEPT !.pc = pc]
    <2>1. /\ s \in Process /\ s.pc = pc /\ s.job = proc[p].job
          /\ s.attempt = proc[p].attempt /\ s.run = proc[p].run /\ s.id = proc[p].id
          /\ s.mine = proc[p].mine
      <3>1. pc \in Places /\ s = WithPlace(proc[p], pc)
        BY DEF Places, WithPlace
      <3> HIDE DEF s
      <3> QED
        BY <1>2, <3>1, WithPlaceType
    <2>2. Become(p, s)
      BY <1>3, <1>5
    <2> HIDE DEF s
    <2>3. ProcOK(s, p, jobs, runs) /\ Lingers(p, s)
      BY <1>1, <1>2, <1>3, <1>5, <2>1 DEF ProcOK, Lingers, Executing, Blind
    <2> QED
      BY <1>1, <2>2, <2>3, ReadStep
  <1> QED
    BY <1>4, <1>5

\* A failing execution keeps its old copy, whatever became of the row.
LEMMA FailingProc ==
    ASSUME Inv, NEW p \in Processes, proc[p].pc = "step",
           NEW failure \in {"transient", "permanent"}, Failing(p, failure), NEW rs,
           NEW w, RunKeeps(runs[proc[p].job], rs[proc[p].job], w), w = NoWorker,
           rs[proc[p].job] \in Run
    PROVE  \E s : Become(p, s) /\ ProcOK(s, p, jobs, rs) /\ Lingers(p, s)
  <1>1. /\ proc[p] \in Process /\ ProcOK(proc[p], p, jobs, runs)
        /\ runs[proc[p].job] \in Run
    BY Here
  <1> DEFINE s == [proc[p] EXCEPT !.pc = "failing", !.failure = failure]
             old == runs[proc[p].job]
             new == rs[proc[p].job]
  <1>2. /\ s \in Process /\ s.pc = "failing" /\ s.job = proc[p].job
        /\ s.attempt = proc[p].attempt /\ s.run = proc[p].run /\ s.id = proc[p].id
        /\ s.mine = proc[p].mine
    <2>1. "failing" \in Places /\ failure \in Failures /\ s = WithFailure(proc[p], "failing", failure)
      BY DEF Places, Failures, WithFailure
    <2> HIDE DEF s
    <2> QED
      BY <1>1, <2>1, WithFailureType
  <1>3. Become(p, s)
    BY DEF Failing
  <1>4. Copied(proc[p].run, old) /\ proc[p].id = IdOf[p]
    BY <1>1 DEF ProcOK, Blind, Executing
  <1>5. Copied(proc[p].run, new)
    BY <1>1, <1>4, CopyKeeps
  <1>6. proc[p].id # NoWorker
    BY <1>4, IngestionAssumption, RecordAssumption
  <1>7. (OneIdEach /\ HasLease(new, proc[p].id)) => new.attempt_count = proc[p].mine
    BY <1>1, <1>6 DEF HasLease, RunKeeps, ProcOK
  <1> HIDE DEF s
  <1>8. ProcOK(s, p, jobs, rs) /\ Lingers(p, s)
    BY <1>1, <1>2, <1>5, <1>7 DEF ProcOK, Lingers, Executing, Blind
  <1> QED
    BY <1>3, <1>8

LEMMA RunStepStep ==
    ASSUME Inv, NEW p \in Processes, RunStep(p)
    PROVE  Inv' /\ (UNCHANGED runs \/ WritesRun(p))
  <1>1. proc[p].pc = "step" /\ UNCHANGED jobs
    BY DEF RunStep
  <1>2. /\ proc[p] \in Process /\ ProcOK(proc[p], p, jobs, runs)
        /\ proc[p].job \in JobIds /\ proc[p].run \in Run /\ runs[proc[p].job] \in Run
    BY <1>1, Here
  <1>3. proc[p].run.status = "RUNNING" /\ proc[p].run.passed < Steps
        /\ proc[p].run.attempt_count = proc[p].mine /\ proc[p].id = IdOf[p]
    BY <1>1, <1>2 DEF ProcOK, Executing
  <1> DEFINE j == proc[p].job
             row == StepCompleted(proc[p].run)
             pc == IF row.status = "SUCCEEDED" THEN "completing" ELSE "guard"
             s == [proc[p] EXCEPT !.run = row, !.pc = pc]
  <1>4. ASSUME NEW failure \in {"transient", "permanent"}, Failing(p, failure), UNCHANGED runs
        PROVE  Inv' /\ UNCHANGED runs
    <2>1. RunKeeps(runs[j], runs[j], NoWorker)
      BY <1>2, RunKeepsItself
    <2>2. PICK t : Become(p, t) /\ ProcOK(t, p, jobs, runs) /\ Lingers(p, t)
      BY <1>1, <1>2, <1>4, <2>1, FailingProc
    <2> QED
      BY <1>1, <1>4, <2>2, ReadStep
  <1>5. CASE /\ Current(p) /\ WriteRun(p, row)
             /\ Become(p, s) \/ Failing(p, "transient")
    <2>1. Moved(proc[p].run, row, NoWorker) /\ Passes(proc[p].run, row)
      BY <1>2, <1>3, StepCompletedMoves
    <2>2. runs' = [runs EXCEPT ![j] = row]
      BY <1>5 DEF WriteRun
    <2>3. /\ pc \in Places /\ pc \in {"completing", "guard"}
          /\ pc = "completing" => row.status = "SUCCEEDED"
          /\ pc = "guard" => row.status # "SUCCEEDED"
      BY DEF Places
    <2> HIDE DEF row, pc
    <2>4. Moved(runs[j], row, NoWorker) /\ Same(proc[p].run, runs[j]) /\ row \in Run
      BY <1>1, <1>5, <2>1, CurrentMoves DEF Blind, Moved
    <2>5. row.attempt_count = runs[j].attempt_count /\ row.attempt_count = proc[p].mine
      BY <1>3, <2>1, <2>4 DEF Passes, Same
    <2>6. /\ RunsOK(runs') /\ runs'[j] = row
          /\ TablesKeep(jobs, runs, jobs', runs', NoWorker)
      BY <1>1, <1>2, <2>2, <2>4, MovedTables
    <2>7. WritesRun(p)
      BY <2>2, <2>4, <2>5 DEF WritesRun
    <2>8. \E t : Become(p, t) /\ ProcOK(t, p, jobs', runs') /\ Lingers(p, t)
      <3>1. CASE Become(p, s)
        <4>1. /\ s \in Process /\ s.pc = pc /\ s.job = j
              /\ s.attempt = proc[p].attempt /\ s.run = row /\ s.id = proc[p].id
              /\ s.mine = proc[p].mine
          <5>1. s = WithRun(proc[p], pc, row)
            BY DEF WithRun
          <5> HIDE DEF s
          <5> QED
            BY <1>2, <2>3, <2>4, <5>1, WithRunType
        <4> HIDE DEF s
        <4>2. pc = "guard" => row.status = "RUNNING" /\ row.passed < Steps
          <5>1. RunOK(row)
            BY <1>2, <2>6 DEF RunsOK
          <5> QED
            BY <2>1, <2>3, <5>1 DEF Passes, RunOK, Unfinished
        <4>3. Copied(row, row)
          <5>1. row.status # "NONE"
            BY <2>1 DEF Passes
          <5> QED
            BY <2>4, <5>1, FreshCopy
        <4>4. ProcOK(s, p, jobs', runs') /\ Lingers(p, s)
          <5>1. s.job \in JobIds /\ s.attempt \in 1..jobs'[s.job].attempt_count
            BY <1>1, <1>2, <4>1, Here
          <5>2. runs'[s.job] = row
            BY <2>6, <4>1
          <5>3. s.pc \in {"guard", "completing"}
            BY <2>3, <4>1
          <5> QED
            BY <1>3, <2>3, <2>5, <4>1, <4>2, <4>3, <5>1, <5>2, <5>3
               DEF ProcOK, Lingers, Executing, Blind
        <4> QED
          BY <3>1, <4>4
      <3>2. CASE Failing(p, "transient")
        <4>1. RunKeeps(runs[j], runs'[j], NoWorker)
          BY <1>2, <2>6 DEF TablesKeep
        <4>2. PICK t : Become(p, t) /\ ProcOK(t, p, jobs, runs') /\ Lingers(p, t)
          BY <1>1, <2>4, <2>6, <3>2, <4>1, FailingProc
        <4> QED
          BY <1>1, <4>2
      <3> QED
        BY <1>5, <3>1, <3>2
    <2>9. PICK t : Become(p, t) /\ ProcOK(t, p, jobs', runs') /\ Lingers(p, t)
      BY <2>8
    <2> HIDE DEF j
    <2> QED
      BY <1>1, <1>2, <2>2, <2>4, <2>5, <2>7, <2>9, WriteStep DEF j
  <1>6. \/ /\ Current(p) /\ WriteRun(p, row)
           /\ Become(p, s) \/ Failing(p, "transient")
        \/ \E failure \in {"transient", "permanent"} : Failing(p, failure) /\ UNCHANGED runs
    BY DEF RunStep
  <1> QED
    BY <1>4, <1>5, <1>6

LEMMA CompleteStep ==
    ASSUME Inv, NEW p \in Processes, Complete(p)
    PROVE  Inv'
  <1>1. proc[p].pc = "completing" /\ UNCHANGED runs /\ Stop(p)
    BY DEF Complete
  <1>2. /\ proc[p].job \in JobIds /\ ProcOK(proc[p], p, jobs, runs)
    BY <1>1, Here
  <1> DEFINE j == proc[p].job
             row == IF jobs[j].status = "RUNNING"
                    THEN Transitioned(jobs[j], "SUCCEEDED", NoWorker, 0) ELSE jobs[j]
  <1>3. runs[j].status = "SUCCEEDED"
    BY <1>1, <1>2 DEF ProcOK
  <1>4. jobs' = [jobs EXCEPT ![j] = row]
    BY DEF Complete
  <1>5. JobOK(row, runs[j]) /\ jobs[j].attempt_count <= row.attempt_count
    <2>1. JobOK(jobs[j], runs[j]) /\ jobs[j].attempt_count <= jobs[j].attempt_count
      BY <1>2, JobHere
    <2>2. CASE jobs[j].status = "RUNNING"
      <3>1. "SUCCEEDED" \in TERMINAL_JOB_STATUSES /\ CanTransition(jobs[j], "SUCCEEDED")
        BY <2>2 DEF CanTransition, VALID_JOB_TRANSITIONS, TERMINAL_JOB_STATUSES
      <3>2. /\ JobOK(Transitioned(jobs[j], "SUCCEEDED", NoWorker, 0), runs[j])
            /\ Transitioned(jobs[j], "SUCCEEDED", NoWorker, 0).attempt_count
                 = jobs[j].attempt_count
        BY <1>2, <1>3, <3>1, EndedJobOK
      <3> QED
        BY <2>1, <2>2, <3>2
    <2> QED
      BY <2>1, <2>2
  <1> HIDE DEF row, j
  <1> QED
    BY <1>1, <1>2, <1>4, <1>5, JobStep DEF j

----------------------------------------------------------------------------
(* Failure, cancellation and recovery.                                     *)

\* The run is read again, for a failure or a cancellation.
LEMMA ReadAgainStep ==
    ASSUME Inv, NEW p \in Processes, ReadFailed(p) \/ ReadCancelled(p)
    PROVE  Inv'
  <1>1. PICK pc \in {"recording", "cancelled"} :
            /\ proc[p].pc = IF pc = "recording" THEN "failing" ELSE "cancelling"
            /\ Become(p, [proc[p] EXCEPT !.pc = pc, !.run = runs[proc[p].job]])
    BY DEF ReadFailed, ReadCancelled
  <1>2. UNCHANGED <<jobs, runs>>
    BY DEF ReadFailed, ReadCancelled
  <1>3. PICK run : run = runs[proc[p].job]
    OBVIOUS
  <1>4. proc[p].pc # "idle" /\ proc[p].pc \notin Blind
    BY <1>1 DEF Blind
  <1>5. /\ proc[p] \in Process /\ ProcOK(proc[p], p, jobs, runs) /\ run \in Run
    BY <1>3, <1>4, Here
  <1> DEFINE s == [proc[p] EXCEPT !.pc = pc, !.run = run]
  <1>6. Become(p, s)
    BY <1>1, <1>3
  <1>7. /\ s \in Process /\ s.pc = pc /\ s.job = proc[p].job
        /\ s.attempt = proc[p].attempt /\ s.run = run /\ s.id = proc[p].id
        /\ s.mine = proc[p].mine
    <2>1. pc \in Places /\ s = WithRun(proc[p], pc, run)
      BY DEF Places, WithRun
    <2> HIDE DEF s
    <2> QED
      BY <1>5, <2>1, WithRunType
  <1> HIDE DEF s
  <1>8. Copied(run, run)
    <2>1. run.status # "NONE"
      BY <1>3, <1>4, <1>5 DEF ProcOK, Copied
    <2> QED
      BY <1>5, <2>1, FreshCopy
  <1>9. pc = "recording" => proc[p].pc = "failing"
    BY <1>1
  <1>10. (OneIdEach /\ s.pc = "recording" /\ HasLease(s.run, s.id)) =>
            s.run.attempt_count = s.mine
    BY <1>3, <1>5, <1>7, <1>9 DEF ProcOK
  <1>11. s.pc \in {"recording", "cancelled"}
    BY <1>7
  <1>12. s.job \in JobIds /\ s.attempt \in 1..jobs[s.job].attempt_count
    BY <1>4, <1>5, <1>7, Here
  <1>13. Copied(s.run, runs[s.job])
    BY <1>3, <1>7, <1>8
  <1>14. ProcOK(s, p, jobs, runs) /\ Lingers(p, s)
    BY <1>7, <1>10, <1>11, <1>12, <1>13 DEF ProcOK, Lingers, Executing
  <1> QED
    BY <1>2, <1>6, <1>14, ReadStep

LEMMA RecordFailureStep ==
    ASSUME Inv, NEW p \in Processes, RecordFailure(p)
    PROVE  Inv' /\ (UNCHANGED runs \/ WritesRun(p))
  <1>1. proc[p].pc = "recording" /\ UNCHANGED jobs
    BY DEF RecordFailure
  <1>2. /\ proc[p] \in Process /\ ProcOK(proc[p], p, jobs, runs)
        /\ proc[p].job \in JobIds /\ proc[p].run \in Run
    BY <1>1, Here
  <1> DEFINE j == proc[p].job
             retry == MayRetry(proc[p])
             at == proc[p].at + RetryDelay(proc[p].attempt)
             row == StepFailed(proc[p].run, retry, at)
             failure == IF retry THEN "transient" ELSE "permanent"
             s == [proc[p] EXCEPT !.pc = "settling", !.run = row, !.failure = failure]
  <1>3. CASE Stop(p) /\ UNCHANGED runs
    BY <1>1, <1>3, StopStep
  <1>4. CASE /\ HasLease(proc[p].run, proc[p].id) /\ Current(p)
             /\ WriteRun(p, row) /\ Become(p, s)
    <2>1. Moved(proc[p].run, row, NoWorker)
      <3>1. proc[p].run.status = "RUNNING"
        BY <1>4 DEF HasLease
      <3>2. retry \in BOOLEAN
        BY DEF MayRetry
      <3>3. at \in Int
        <4>1. proc[p].at \in Int /\ proc[p].attempt \in Nat
          BY <1>2, RecordAssumption, RunAssumption DEF Process
        <4>2. RetryDelay(proc[p].attempt) \in Int
          BY <4>1, RetryDelayGrows, RecordAssumption
        <4> QED
          BY <4>1, <4>2
      <3> HIDE DEF retry, at
      <3> QED
        BY <1>2, <3>1, <3>2, <3>3, StepFailedMoves
    <2>2. runs' = [runs EXCEPT ![j] = row]
      BY <1>4 DEF WriteRun
    <2>3. failure \in Failures
      BY DEF Failures
    <2> HIDE DEF row, failure
    <2>4. Moved(runs[j], row, NoWorker) /\ Same(proc[p].run, runs[j]) /\ row \in Run
      BY <1>1, <1>4, <2>1, CurrentMoves DEF Blind, Moved
    <2>5. row.attempt_count = runs[j].attempt_count
      <3>1. runs[j].status = "RUNNING"
        BY <1>4, <2>4 DEF Same, HasLease
      <3> QED
        BY <2>4, <3>1 DEF Moved, Starts, Passes, Fails, Requeues, Cancels
    <2>6. s \in Process /\ s.pc = "settling" /\ s.job = j /\ s.attempt = proc[p].attempt
      <3>1. s = WithOutcome(proc[p], row, failure)
        BY DEF WithOutcome
      <3> HIDE DEF s
      <3> QED
        BY <1>2, <2>3, <2>4, <3>1, WithOutcomeType
    <2>7. Become(p, s)
      BY <1>4 DEF failure
    <2> HIDE DEF s
    <2>8. ProcOK(s, p, jobs', runs') /\ Lingers(p, s)
      BY <1>1, <1>2, <2>6 DEF ProcOK, Lingers, Executing, Blind
    <2>9. WritesRun(p)
      BY <2>2, <2>4, <2>5 DEF WritesRun
    <2> HIDE DEF j
    <2> QED
      BY <1>1, <1>2, <2>2, <2>4, <2>5, <2>7, <2>8, <2>9, WriteStep DEF j
  <1> QED
    BY <1>3, <1>4 DEF RecordFailure

LEMMA SettleJobStep ==
    ASSUME Inv, NEW p \in Processes, SettleJob(p)
    PROVE  Inv'
  <1>1. proc[p].pc = "settling" /\ UNCHANGED runs /\ Stop(p)
    BY DEF SettleJob
  <1>2. /\ proc[p].job \in JobIds /\ proc[p].at \in Int
    <2>1. proc[p].at \in -MaxDelay..0
      BY <1>1, Here DEF Process
    <2> QED
      BY <1>1, <2>1, Here, RecordAssumption
  <1> DEFINE j == proc[p].job
             retried == Retried(jobs[j], proc[p].at)
             failed == Transitioned(jobs[j], "FAILED", NoWorker, 0)
  <1>3. PICK row :
            /\ jobs' = [jobs EXCEPT ![j] = row]
            /\ row = IF jobs[j].status # "RUNNING" THEN jobs[j]
                     ELSE IF proc[p].failure = "transient" THEN retried ELSE failed
    BY DEF SettleJob
  <1>4. JobOK(row, runs[j]) /\ jobs[j].attempt_count <= row.attempt_count
    <2>1. JobOK(jobs[j], runs[j]) /\ jobs[j].attempt_count <= jobs[j].attempt_count
      BY <1>2, JobHere
    <2>2. CASE jobs[j].status = "RUNNING"
      <3>1. JobOK(retried, runs[j]) /\ retried.attempt_count = jobs[j].attempt_count
        BY <1>2, <2>2, SettledJobOK
      <3>2. JobOK(failed, runs[j]) /\ failed.attempt_count = jobs[j].attempt_count
        <4>1. "FAILED" \in TERMINAL_JOB_STATUSES /\ CanTransition(jobs[j], "FAILED")
          BY <2>2 DEF CanTransition, VALID_JOB_TRANSITIONS, TERMINAL_JOB_STATUSES
        <4> QED
          BY <1>2, <4>1, EndedJobOK
      <3> HIDE DEF retried, failed, j
      <3> QED
        BY <1>3, <2>1, <3>1, <3>2
    <2> HIDE DEF retried, failed, j
    <2>3. CASE jobs[j].status # "RUNNING"
      BY <1>3, <2>1, <2>3
    <2> QED
      BY <2>2, <2>3
  <1> HIDE DEF j
  <1> QED
    BY <1>1, <1>2, <1>3, <1>4, JobStep DEF j

LEMMA CancelRunStep ==
    ASSUME Inv, NEW p \in Processes, CancelRun(p)
    PROVE  Inv' /\ (UNCHANGED runs \/ WritesRun(p))
  <1>1. proc[p].pc = "cancelled" /\ Stop(p) /\ UNCHANGED jobs
    BY DEF CancelRun
  <1>2. /\ ProcOK(proc[p], p, jobs, runs) /\ proc[p].job \in JobIds /\ proc[p].run \in Run
    BY <1>1, Here
  <1> DEFINE j == proc[p].job
             row == CancelledRun(proc[p].run)
  <1>3. CASE UNCHANGED runs
    BY <1>1, <1>3, StopStep
  <1>4. CASE /\ proc[p].run.status \notin TERMINAL_INGESTION_RUN_STATUSES /\ Current(p)
             /\ WriteRun(p, row)
    <2>1. proc[p].run.status \in Unfinished
      <3>1. proc[p].run.status # "NONE"
        BY <1>1, <1>2 DEF ProcOK, Blind, Copied
      <3> QED
        BY <1>2, <1>4, <3>1 DEF Run, INGESTION_RUN_STATUSES, Unfinished
    <2>2. Moved(proc[p].run, row, NoWorker)
      BY <1>2, <2>1, CancelledRunMoves
    <2>3. row.status = "CANCELLED"
      BY DEF CancelledRun, Released, Run
    <2>4. runs' = [runs EXCEPT ![j] = row]
      BY <1>4 DEF WriteRun
    <2> HIDE DEF row
    <2>5. Moved(runs[j], row, NoWorker)
      BY <1>1, <1>4, <2>2, CurrentMoves DEF Blind
    <2>6. row.attempt_count = runs[j].attempt_count
      BY <2>3, <2>5 DEF Moved, Starts, Passes, Fails, Requeues, Cancels
    <2>7. WritesRun(p)
      BY <2>4, <2>5, <2>6 DEF WritesRun
    <2>8. /\ ProcOK(IdleProcess, p, jobs', runs') /\ Lingers(p, IdleProcess)
          /\ Become(p, IdleProcess)
      BY <1>1, IdleOK DEF Stop
    <2> HIDE DEF j
    <2> QED
      BY <1>1, <1>2, <2>4, <2>5, <2>6, <2>7, <2>8, WriteStep DEF j
  <1> QED
    BY <1>3, <1>4 DEF CancelRun

LEMMA RecoverStep ==
    ASSUME Inv, NEW p \in Processes, NEW j \in JobIds, Recover(p, j)
    PROVE  Inv'
  <1>1. proc[p].pc = "idle" /\ jobs[j].status = "RUNNING" /\ UNCHANGED <<jobs, runs>>
    BY DEF Recover
  <1> DEFINE n == jobs[j].attempt_count
             s == [IdleProcess EXCEPT !.pc = "reading", !.job = j, !.attempt = n]
  <1>2. n \in 1..MaxAttempts
    <2>1. n \in Nat /\ n > 0
      BY <1>1, JobHere DEF JobOK
    <2>2. n <= MaxAttempts
      BY AttemptsAreNat DEF Inv
    <2> HIDE DEF n
    <2> QED
      BY <2>1, <2>2, RunAssumption
  <1>3. n \in 1..jobs[j].attempt_count
    BY <1>2
  <1>4. Become(p, s)
    BY DEF Recover
  <1> HIDE DEF n
  <1>5. /\ s \in Process /\ s.pc = "reading" /\ s.job = j /\ s.attempt = n
    <2>1. IdleProcess \in Process
      BY IdleOK DEF ProcOK
    <2>2. s = WithRecovery(IdleProcess, j, n)
      BY DEF WithRecovery
    <2> HIDE DEF s
    <2> QED
      BY <1>2, <2>1, <2>2, WithRecoveryType
  <1> HIDE DEF s
  <1>6. ProcOK(s, p, jobs, runs) /\ Lingers(p, s)
    BY <1>3, <1>5 DEF ProcOK, Lingers, Executing, Blind
  <1> QED
    BY <1>1, <1>4, <1>6, ReadStep

LEMMA FindExpiredStep ==
    ASSUME Inv, NEW p \in Processes, FindExpired(p)
    PROVE  Inv'
  <1>1. proc[p].pc = "reading" /\ UNCHANGED <<jobs, runs>>
    BY DEF FindExpired
  <1>2. PICK run : run = runs[proc[p].job]
    OBVIOUS
  <1>3. /\ proc[p] \in Process /\ ProcOK(proc[p], p, jobs, runs) /\ run \in Run
        /\ proc[p].job \in JobIds /\ proc[p].attempt \in 1..jobs[proc[p].job].attempt_count
    BY <1>1, <1>2, Here
  <1> DEFINE s == [proc[p] EXCEPT !.pc = "recording", !.run = run, !.failure = "transient",
                                  !.id = run.lease_owner, !.mine = run.attempt_count]
  <1>4. CASE Stop(p)
    BY <1>1, <1>4, StopStep
  <1>5. CASE run.status = "RUNNING" /\ Become(p, s)
    <2>1. /\ s \in Process /\ s.pc = "recording" /\ s.job = proc[p].job
          /\ s.attempt = proc[p].attempt /\ s.run = run /\ s.mine = run.attempt_count
      <3>1. s = WithExpired(proc[p], run)
        BY DEF WithExpired
      <3> HIDE DEF s
      <3> QED
        BY <1>3, <3>1, WithExpiredType
    <2>2. Become(p, s)
      BY <1>5
    <2> HIDE DEF s
    <2>3. Copied(run, run)
      BY <1>3, <1>5, FreshCopy
    <2>4. ProcOK(s, p, jobs, runs) /\ Lingers(p, s)
      BY <1>2, <1>3, <2>1, <2>3 DEF ProcOK, Lingers, Executing, Blind
    <2> QED
      BY <1>1, <2>2, <2>4, ReadStep
  <1> QED
    BY <1>2, <1>4, <1>5 DEF FindExpired

LEMMA CrashStep ==
    ASSUME Inv, NEW p \in Processes, Crash(p)
    PROVE  Inv'
  <1> DEFINE s == WithDeath(IdleProcess, proc[p].job, proc[p].attempt)
  <1>1. Become(p, s) /\ UNCHANGED <<jobs, runs>> /\ proc[p].pc # "idle"
    BY DEF Crash, WithDeath
  <1>2. /\ proc[p] \in Process /\ proc[p].job \in JobIds
        /\ proc[p].attempt \in 1..jobs[proc[p].job].attempt_count
    BY <1>1, Here
  <1>3. IdleProcess \in Process /\ proc[p].attempt \in 0..MaxAttempts
    BY <1>2, IdleOK DEF ProcOK, Process
  <1>4. s \in Process /\ s.pc = "down" /\ s.job = proc[p].job /\ s.attempt = proc[p].attempt
    BY <1>2, <1>3, WithDeathType
  <1> HIDE DEF s
  <1>5. ProcOK(s, p, jobs, runs) /\ Lingers(p, s)
    BY <1>2, <1>4 DEF ProcOK, Lingers, Executing, Blind
  <1> QED
    BY <1>1, <1>5, ReadStep

LEMMA RestartStep ==
    ASSUME Inv, NEW p \in Processes, Restart(p)
    PROVE  Inv'
  BY StopStep DEF Restart

----------------------------------------------------------------------------
(* The invariant holds.                                                    *)

LEMMA AbsentJobOK ==
    /\ RowOK(AbsentJob, 0) /\ AbsentJob.status = "NONE"
    /\ AbsentJob.max_attempts = MaxAttempts /\ AbsentJob.attempt_count = 0
  <1> DEFINE y == CHOOSE y \in JobTypes : TRUE
             k == CHOOSE k \in Keys : TRUE
             new == NewJob(y, k, MaxAttempts, TRUE, 0, NoJob)
             absent == [new EXCEPT !.status = "NONE"]
  <1>1. y \in JobTypes /\ k \in Keys /\ MaxAttempts \in Nat \ {0}
    BY IngestionAssumption, RunAssumption
  <1>2. AbsentJob = absent
    BY DEF AbsentJob
  <1> HIDE DEF y, k
  <1>3. /\ new \in Job /\ new.max_attempts = MaxAttempts
        /\ new.attempt_count = 0 /\ new.error = "none" /\ new.locked_by = NoWorker
    BY <1>1, RecordAssumption DEF NewJob, Job, JOB_STATUSES
  <1> HIDE DEF new
  <1>4. /\ absent \in Job /\ absent.status = "NONE" /\ absent.max_attempts = MaxAttempts
        /\ absent.attempt_count = 0 /\ absent.error = "none" /\ absent.locked_by = NoWorker
    BY <1>3 DEF Job
  <1> HIDE DEF absent
  <1>5. RowOK(absent, 0)
    BY <1>1, <1>4 DEF RowOK
  <1> QED
    BY <1>2, <1>4, <1>5

LEMMA InitHolds == Init => Inv
  <1> SUFFICES ASSUME Init PROVE Inv
    OBVIOUS
  <1>1. AbsentRun \in Run /\ RunOK(AbsentRun) /\ AbsentRun.attempt_count = 0
    BY RunAssumption DEF AbsentRun, Run, RunOK, Unfinished
  <1>2. RunsOK(runs) /\ \A j \in JobIds : runs[j].attempt_count = 0
    BY <1>1 DEF Init, RunsOK
  <1>3. JobsOK(jobs, runs) /\ \A j \in JobIds : jobs[j].attempt_count = 0
    <2>1. \A j \in JobIds : jobs[j] = AbsentJob
      BY DEF Init
    <2>2. AbsentJob \in Job /\ \A run : JobOK(AbsentJob, run)
      BY AbsentJobOK DEF JobOK, RowOK
    <2>3. jobs \in [JobIds -> Job]
      BY <2>2 DEF Init
    <2> QED
      BY <2>1, <2>2, <2>3, AbsentJobOK DEF JobsOK
  <1>4. ProcsOK(proc, jobs, runs)
    <2>1. \A p \in Processes : ProcOK(IdleProcess, p, jobs, runs)
      BY IdleOK
    <2>2. \A p \in Processes : IdleProcess \in Process
      BY <2>1 DEF ProcOK
    <2> QED
      BY <2>1, <2>2 DEF Init, ProcsOK
  <1>5. ASSUME NEW j \in JobIds PROVE Budgeted(proc, jobs, runs, j)
    <2>1. Pending(proc, j) = {}
      BY DEF Init, Pending, IdleProcess
    <2>2. IsFiniteSet({}) /\ Cardinality({}) = 0
      BY FS_EmptySet
    <2> QED
      BY <1>2, <1>3, <2>1, <2>2 DEF Budgeted
  <1> QED
    BY <1>2, <1>3, <1>4, <1>5 DEF Init, Inv

LEMMA UnchangedHolds ==
    ASSUME Inv, UNCHANGED vars
    PROVE  Inv'
  BY DEF Inv, vars

\* A step of an execution or a recovery keeps the invariant, and the run it
\* writes, if any, by a move.
LEMMA WorkStep ==
    ASSUME Inv, NEW p \in Processes, Work(p)
    PROVE  Inv' /\ (UNCHANGED runs \/ WritesRun(p))
  <1>1. CASE FindRun(p)
    BY <1>1, FindRunStep DEF FindRun
  <1>2. CASE RequeueRun(p)
    BY <1>2, RequeueRunStep
  <1>3. CASE ClaimRun(p)
    BY <1>3, ClaimRunStep
  <1>4. CASE Guard(p)
    BY <1>4, GuardStep DEF Guard
  <1>5. CASE RunStep(p)
    BY <1>5, RunStepStep
  <1>6. CASE Complete(p)
    BY <1>6, CompleteStep DEF Complete
  <1>7. CASE ReadFailed(p) \/ ReadCancelled(p)
    BY <1>7, ReadAgainStep DEF ReadFailed, ReadCancelled
  <1>8. CASE RecordFailure(p)
    BY <1>8, RecordFailureStep
  <1>9. CASE SettleJob(p)
    BY <1>9, SettleJobStep DEF SettleJob
  <1>10. CASE CancelRun(p)
    BY <1>10, CancelRunStep
  <1>11. CASE FindExpired(p)
    BY <1>11, FindExpiredStep DEF FindExpired
  <1> QED
    BY <1>1, <1>2, <1>3, <1>4, <1>5, <1>6, <1>7, <1>8, <1>9, <1>10, <1>11 DEF Work

\* Every other step but CreateRun and Tick leaves the runs alone.
Others ==
    \/ \E j \in JobIds :
        EnqueueJob(j) \/ AbandonAdmission(j) \/ OperatorCancel(j) \/ OperatorRetry(j)
    \/ \E p \in Processes :
        Claim(p) \/ Crash(p) \/ Restart(p) \/ \E j \in JobIds : Recover(p, j)

LEMMA OtherStep ==
    ASSUME Inv, Others
    PROVE  Inv' /\ UNCHANGED runs
  <1>1. ASSUME NEW j \in JobIds, EnqueueJob(j) PROVE Inv' /\ UNCHANGED runs
    BY <1>1, EnqueueJobStep DEF EnqueueJob
  <1>2. ASSUME NEW j \in JobIds, AbandonAdmission(j) PROVE Inv' /\ UNCHANGED runs
    BY <1>2, AbandonAdmissionStep DEF AbandonAdmission
  <1>3. ASSUME NEW j \in JobIds, OperatorCancel(j) \/ OperatorRetry(j)
        PROVE  Inv' /\ UNCHANGED runs
    BY <1>3, OperatorStep DEF OperatorCancel, OperatorRetry
  <1>4. ASSUME NEW p \in Processes, Claim(p) PROVE Inv' /\ UNCHANGED runs
    BY <1>4, ClaimStep DEF Claim
  <1>5. ASSUME NEW p \in Processes, Crash(p) \/ Restart(p) PROVE Inv' /\ UNCHANGED runs
    BY <1>5, CrashStep, RestartStep DEF Crash, Restart
  <1>6. ASSUME NEW p \in Processes, NEW j \in JobIds, Recover(p, j)
        PROVE  Inv' /\ UNCHANGED runs
    BY <1>6, RecoverStep DEF Recover
  <1> QED
    BY <1>1, <1>2, <1>3, <1>4, <1>5, <1>6 DEF Others

LEMMA NextSplits ==
    ASSUME [Next]_vars
    PROVE  \/ UNCHANGED vars \/ Tick \/ Others
           \/ \E j \in JobIds : CreateRun(j)
           \/ \E p \in Processes : Work(p)
  BY DEF Next, Others

LEMMA StepHolds == Inv /\ [Next]_vars => Inv'
  <1> SUFFICES ASSUME Inv, [Next]_vars PROVE Inv'
    OBVIOUS
  <1>1. CASE UNCHANGED vars
    BY <1>1, UnchangedHolds
  <1>2. CASE Tick
    BY <1>2, TickStep
  <1>3. CASE Others
    BY <1>3, OtherStep
  <1>4. ASSUME NEW j \in JobIds, CreateRun(j) PROVE Inv'
    BY <1>4, CreateRunStep
  <1>5. ASSUME NEW p \in Processes, Work(p) PROVE Inv'
    BY <1>5, WorkStep
  <1> QED
    BY <1>1, <1>2, <1>3, <1>4, <1>5, NextSplits

LEMMA InvHolds == Spec => []Inv
  <1>1. Init => Inv
    BY InitHolds
  <1>2. Inv /\ [Next]_vars => Inv'
    BY StepHolds
  <1> QED
    BY <1>1, <1>2, PTL DEF Spec

----------------------------------------------------------------------------
(* Theorems.                                                               *)

\* The variables have their types, no job and so no execution counts more
\* attempts than max_attempts (claim_next_job refuses an exhausted row), and a
\* process at work names a job and an attempt that claim_next_job counted.
THEOREM IngestionTypeCorrect == Spec => []TypeOK
  <1>1. Inv => TypeOK
    <2> SUFFICES ASSUME Inv PROVE TypeOK
      OBVIOUS
    <2>1. /\ jobs \in [JobIds -> Job] /\ runs \in [JobIds -> Run]
          /\ proc \in [Processes -> Process]
          /\ admission \in [JobIds -> {"none", "enqueued", "admitted"}]
      BY DEF Inv, JobsOK, RunsOK, ProcsOK
    <2>2. \A j \in JobIds : jobs[j].attempt_count <= jobs[j].max_attempts
      BY JobHere DEF RowOK
    <2>3. ASSUME NEW p \in Processes, proc[p].pc # "idle"
          PROVE  /\ proc[p].job # NoJob
                 /\ proc[p].attempt \in 1..jobs[proc[p].job].attempt_count
      BY <2>3, Here, RecordAssumption
    <2> QED
      BY <2>1, <2>2, <2>3 DEF TypeOK
  <1> QED
    BY <1>1, InvHolds, PTL

\* complete_job never closes a job whose run has not passed its checkpoints,
\* though recoveries, operators and other workers act between the two stores;
\* and claim_ingestion_run, which does not look at the budget, starts the run
\* at most once for each claim of the job.
THEOREM JobAndRunStayInStep == Spec => []StaysInStep
  <1>1. Inv => StaysInStep
    <2> SUFFICES ASSUME Inv, NEW j \in JobIds
                 PROVE  /\ jobs[j].status = "SUCCEEDED" => runs[j].status = "SUCCEEDED"
                        /\ runs[j].attempt_count <= jobs[j].attempt_count
      BY DEF StaysInStep
    <2>1. jobs[j].status = "SUCCEEDED" => runs[j].status = "SUCCEEDED"
      BY JobHere DEF JobOK
    <2>2. /\ IsFiniteSet(Pending(proc, j))
          /\ runs[j].attempt_count + Cardinality(Pending(proc, j)) <= jobs[j].attempt_count
      BY DEF Inv, Budgeted
    <2>3. /\ Cardinality(Pending(proc, j)) \in Nat
          /\ runs[j].attempt_count \in Nat /\ jobs[j].attempt_count \in Nat
      BY <2>2, FS_CardinalityType, JobHere DEF Run
    <2>4. runs[j].attempt_count <= jobs[j].attempt_count
      BY <2>2, <2>3
    <2> QED
      BY <2>1, <2>4
  <1> QED
    BY <1>1, InvHolds, PTL

----------------------------------------------------------------------------
(* The contract.                                                           *)

LEMMA PhaseOf ==
    ASSUME NEW run \in Run
    PROVE  /\ run.status = "NONE" => RunPhase(run) = "absent"
           /\ run.status = "QUEUED" => RunPhase(run) = "queued"
           /\ run.status = "RUNNING" => RunPhase(run) = "running"
           /\ run.status = "WAITING_RETRY" => RunPhase(run) = "waiting"
           /\ run.status = "SUCCEEDED" => RunPhase(run) = "succeeded"
           /\ run.status = "FAILED" => RunPhase(run) = "failed"
           /\ run.status = "CANCELLED" => RunPhase(run) = "cancelled"
  BY DEF RunPhase

\* Clocks and versions do not show.
LEMMA ContractStutters ==
    ASSUME \A j \in JobIds :
               /\ runs'[j].status = runs[j].status /\ runs'[j].passed = runs[j].passed
               /\ runs'[j].attempt_count = runs[j].attempt_count
    PROVE  UNCHANGED Contract!vars
  <1>1. \A j \in JobIds : RunPhase(runs'[j]) = RunPhase(runs[j])
    BY DEF RunPhase
  <1> QED
    BY <1>1 DEF Contract!vars

\* What the contract sees of a row that is written.
LEMMA ContractSees ==
    ASSUME NEW j \in JobIds, NEW row, runs \in [JobIds -> Run],
           runs' = [runs EXCEPT ![j] = row]
    PROVE  LET phase == [k \in JobIds |-> RunPhase(runs[k])]
               done == [k \in JobIds |-> runs[k].passed]
               used == [k \in JobIds |-> runs[k].attempt_count]
           IN  /\ [k \in JobIds |-> RunPhase(runs'[k])] = [phase EXCEPT ![j] = RunPhase(row)]
               /\ [k \in JobIds |-> runs'[k].passed] = [done EXCEPT ![j] = row.passed]
               /\ [k \in JobIds |-> runs'[k].attempt_count]
                    = [used EXCEPT ![j] = row.attempt_count]
  OBVIOUS

LEMMA MoveFollows ==
    ASSUME NEW j \in JobIds, NEW row, NEW w, RunsOK(runs), Moved(runs[j], row, w),
           runs' = [runs EXCEPT ![j] = row],
           row.attempt_count = runs[j].attempt_count \/ runs[j].attempt_count < MaxAttempts
    PROVE  Contract!Next
  <1> DEFINE old == runs[j]
             phase == [k \in JobIds |-> RunPhase(runs[k])]
             done == [k \in JobIds |-> runs[k].passed]
             used == [k \in JobIds |-> runs[k].attempt_count]
             phase2 == [k \in JobIds |-> RunPhase(runs'[k])]
             done2 == [k \in JobIds |-> runs'[k].passed]
             used2 == [k \in JobIds |-> runs'[k].attempt_count]
  <1>1. /\ old \in Run /\ row \in Run /\ runs \in [JobIds -> Run]
    BY DEF RunsOK, Moved
  <1>2. /\ phase2 = [phase EXCEPT ![j] = RunPhase(row)]
        /\ done2 = [done EXCEPT ![j] = row.passed]
        /\ used2 = [used EXCEPT ![j] = row.attempt_count]
    BY <1>1, ContractSees
  <1>3. /\ phase[j] = RunPhase(old) /\ done[j] = old.passed /\ used[j] = old.attempt_count
        /\ old.passed \in Nat /\ old.attempt_count \in Nat
    BY <1>1, RunAssumption DEF Run
  <1>4. row.passed = old.passed => done2 = done
    BY <1>2, <1>3
  <1>5. row.attempt_count = old.attempt_count => used2 = used
    BY <1>2, <1>3
  <1>6. CASE Starts(old, row, w)
    <2>1. /\ RunPhase(old) = "queued" /\ RunPhase(row) = "running" /\ old.attempt_count < MaxAttempts
      BY <1>1, <1>3, <1>6, PhaseOf DEF Starts
    <2>2. Contract!Start(j)
      <3> HIDE DEF phase, done, used, phase2, done2, used2
      <3>1. /\ phase[j] \in {"queued"} /\ phase2 = [phase EXCEPT ![j] = "running"]
            /\ used[j] < MaxAttempts /\ used2 = [used EXCEPT ![j] = @ + 1] /\ done2 = done
        BY <1>2, <1>3, <1>4, <1>6, <2>1 DEF Starts
      <3> QED
        BY <3>1 DEF Contract!Start, Contract!Move, phase, done, used, phase2, done2, used2
    <2> QED
      BY <2>2 DEF Contract!Next
  <1>7. CASE Passes(old, row)
    <2>1. /\ RunPhase(old) = "running"
          /\ RunPhase(row) = IF old.passed + 1 = Steps THEN "succeeded" ELSE "running"
      BY <1>1, <1>7, PhaseOf DEF Passes
    <2>2. Contract!Pass(j)
      <3> HIDE DEF phase, done, used, phase2, done2, used2
      <3>1. /\ phase[j] \in {"running"}
            /\ phase2 = [phase EXCEPT ![j] = IF done[j] + 1 = Steps THEN "succeeded" ELSE "running"]
            /\ done2 = [done EXCEPT ![j] = @ + 1] /\ used2 = used
        BY <1>2, <1>3, <1>5, <1>7, <2>1 DEF Passes
      <3> QED
        BY <3>1 DEF Contract!Pass, Contract!Move, phase, done, used, phase2, done2, used2
    <2> QED
      BY <2>2 DEF Contract!Next
  <1>8. CASE Fails(old, row)
    <2>1. /\ RunPhase(old) = "running"
          /\ \/ RunPhase(row) = "failed"
             \/ RunPhase(row) = "waiting" /\ old.attempt_count < MaxAttempts
      BY <1>1, <1>8, PhaseOf DEF Fails
    <2>2. Contract!Fail(j)
      <3> HIDE DEF phase, done, used, phase2, done2, used2
      <3>1. /\ phase[j] \in {"running"} /\ done2 = done /\ used2 = used
            /\ \/ phase2 = [phase EXCEPT ![j] = "failed"]
               \/ used[j] < MaxAttempts /\ phase2 = [phase EXCEPT ![j] = "waiting"]
        BY <1>2, <1>3, <1>4, <1>5, <1>8, <2>1 DEF Fails
      <3> QED
        BY <3>1 DEF Contract!Fail, Contract!Move, phase, done, used, phase2, done2, used2
    <2> QED
      BY <2>2 DEF Contract!Next
  <1>9. CASE Requeues(old, row)
    <2>1. RunPhase(old) = "waiting" /\ RunPhase(row) = "queued"
      BY <1>1, <1>9, PhaseOf DEF Requeues
    <2>2. Contract!Requeue(j)
      <3> HIDE DEF phase, done, used, phase2, done2, used2
      <3>1. /\ phase[j] \in {"waiting"} /\ phase2 = [phase EXCEPT ![j] = "queued"]
            /\ done2 = done /\ used2 = used
        BY <1>2, <1>3, <1>4, <1>5, <1>9, <2>1 DEF Requeues
      <3> QED
        BY <3>1 DEF Contract!Requeue, Contract!Move, phase, done, used, phase2, done2, used2
    <2> QED
      BY <2>2 DEF Contract!Next
  <1>10. CASE Cancels(old, row)
    <2>1. RunPhase(old) \in Contract!Live /\ RunPhase(row) = "cancelled"
      BY <1>1, <1>10, PhaseOf DEF Cancels, Unfinished, Contract!Live
    <2>2. Contract!Cancel(j)
      <3> HIDE DEF phase, done, used, phase2, done2, used2
      <3>1. /\ phase[j] \in Contract!Live /\ phase2 = [phase EXCEPT ![j] = "cancelled"]
            /\ done2 = done /\ used2 = used
        BY <1>2, <1>3, <1>4, <1>5, <1>10, <2>1 DEF Cancels
      <3> QED
        BY <3>1 DEF Contract!Cancel, Contract!Move, phase, done, used, phase2, done2, used2
    <2> QED
      BY <2>2 DEF Contract!Next
  <1> QED
    BY <1>6, <1>7, <1>8, <1>9, <1>10 DEF Moved

LEMMA CreateRunFollows ==
    ASSUME Inv, NEW j \in JobIds, CreateRun(j)
    PROVE  [Contract!Next]_(Contract!vars)
  <1>1. runs \in [JobIds -> Run] /\ RunOK(runs[j]) /\ runs[j] \in Run
    BY DEF Inv, RunsOK
  <1>2. CASE runs[j].status # "NONE"
    <2>1. runs' = runs
      BY <1>1, <1>2 DEF CreateRun
    <2> QED
      BY <2>1, ContractStutters
  <1>3. CASE runs[j].status = "NONE"
    <2> DEFINE row == NewRun
               phase == [k \in JobIds |-> RunPhase(runs[k])]
               done == [k \in JobIds |-> runs[k].passed]
               used == [k \in JobIds |-> runs[k].attempt_count]
               phase2 == [k \in JobIds |-> RunPhase(runs'[k])]
               done2 == [k \in JobIds |-> runs'[k].passed]
               used2 == [k \in JobIds |-> runs'[k].attempt_count]
    <2>1. runs' = [runs EXCEPT ![j] = row]
      BY <1>3 DEF CreateRun
    <2>2. /\ row.passed = runs[j].passed /\ row.attempt_count = runs[j].attempt_count
          /\ RunPhase(runs[j]) = "absent" /\ RunPhase(row) = "queued"
      BY <1>1, <1>3, NewRunOK, PhaseOf DEF RunOK
    <2> HIDE DEF row
    <2>3. /\ phase2 = [phase EXCEPT ![j] = RunPhase(row)]
          /\ done2 = [done EXCEPT ![j] = row.passed]
          /\ used2 = [used EXCEPT ![j] = row.attempt_count]
      BY <1>1, <2>1, ContractSees
    <2>4. phase[j] = "absent" /\ done2 = done /\ used2 = used
      BY <2>2, <2>3
    <2>5. Contract!Admit(j)
      <3> HIDE DEF phase, done, used, phase2, done2, used2
      <3>1. phase[j] \in {"absent"} /\ phase2 = [phase EXCEPT ![j] = "queued"]
            /\ done2 = done /\ used2 = used
        BY <2>2, <2>3, <2>4
      <3> QED
        BY <3>1 DEF Contract!Admit, Contract!Move, phase, done, used, phase2, done2, used2
    <2> QED
      BY <2>5 DEF Contract!Next
  <1> QED
    BY <1>2, <1>3

LEMMA StepFollows == Inv /\ [Next]_vars => [Contract!Next]_(Contract!vars)
  <1> SUFFICES ASSUME Inv, [Next]_vars PROVE [Contract!Next]_(Contract!vars)
    OBVIOUS
  <1>1. CASE UNCHANGED runs
    BY <1>1, ContractStutters
  <1>2. CASE Tick
    <2>1. ASSUME NEW j \in JobIds
          PROVE  /\ runs'[j].status = runs[j].status /\ runs'[j].passed = runs[j].passed
                 /\ runs'[j].attempt_count = runs[j].attempt_count
      <3>1. runs[j] \in Run
        BY JobHere
      <3> QED
        BY <1>2, <3>1 DEF Tick, Run
    <2> QED
      BY <2>1, ContractStutters
  <1>3. ASSUME NEW j \in JobIds, CreateRun(j) PROVE [Contract!Next]_(Contract!vars)
    BY <1>3, CreateRunFollows
  <1>4. ASSUME NEW p \in Processes, Work(p) PROVE [Contract!Next]_(Contract!vars)
    <2>1. CASE UNCHANGED runs
      BY <2>1, ContractStutters
    <2>2. CASE WritesRun(p)
      <3>1. proc[p].job \in JobIds /\ RunsOK(runs)
        <4>1. proc[p].pc # "idle"
          BY <1>4 DEF Work, FindRun, RequeueRun, ClaimRun, Guard, RunStep, Complete,
                      ReadFailed, RecordFailure, SettleJob, ReadCancelled, CancelRun, FindExpired
        <4> QED
          BY <4>1, Here DEF Inv
      <3>2. PICK row, w :
                /\ Moved(runs[proc[p].job], row, w)
                /\ runs' = [runs EXCEPT ![proc[p].job] = row]
                /\ \/ row.attempt_count = runs[proc[p].job].attempt_count
                   \/ runs[proc[p].job].attempt_count < MaxAttempts
        BY <2>2 DEF WritesRun
      <3> QED
        BY <3>1, <3>2, MoveFollows
    <2> QED
      BY <1>4, <2>1, <2>2, WorkStep
  <1>5. CASE Others
    BY <1>1, <1>5, OtherStep
  <1>6. CASE UNCHANGED vars
    BY <1>1, <1>6 DEF vars
  <1> QED
    BY <1>2, <1>3, <1>4, <1>5, <1>6, NextSplits

\* Whatever stale workers, recoveries and operators interleave, save admits only
\* the moves the contract of a run promises: checkpoints in order and never
\* lost, terminal runs left alone, and no start beyond max_attempts although
\* claim_ingestion_run does not look at the budget.
THEOREM RunFollowsContract == Spec => FollowsContract
  <1>1. Init => Contract!Init
    BY PhaseOf DEF Init, Contract!Init, AbsentRun, RunPhase
  <1>2. Inv /\ [Next]_vars => [Contract!Next]_(Contract!vars)
    BY StepFollows
  <1> QED
    BY <1>1, <1>2, InvHolds, PTL DEF Spec, FollowsContract, Contract!Spec

----------------------------------------------------------------------------
(* Stale writers.                                                          *)

\* Where every process has an id of its own, the owner compared by
\* _require_active_lease and the version compared by save leave a checkpoint or
\* a failure to the execution whose attempt the run counts, or to a recovery of
\* that attempt.
THEOREM StaleWritersRejected ==
    ASSUME OneIdEach
    PROVE  Spec => StaleWriterIsRejected
  <1>1. Inv /\ [Next]_vars =>
            [\A p \in Processes :
                proc'[p].pc # proc[p].pc /\ proc[p].pc \in {"step", "recording"} /\ runs' # runs
                => runs[proc[p].job].attempt_count = proc[p].mine]_vars
    <2> SUFFICES ASSUME Inv, [Next]_vars, NEW p \in Processes,
                        proc'[p].pc # proc[p].pc, proc[p].pc \in {"step", "recording"},
                        runs' # runs
                 PROVE  runs[proc[p].job].attempt_count = proc[p].mine
      OBVIOUS
    <2>1. ASSUME NEW q \in Processes, Work(q)
          PROVE  q = p
      <3>1. PICK s : Become(q, s)
        BY <2>1 DEF Work, FindRun, RequeueRun, ClaimRun, Guard, RunStep, Failing, Complete,
                    ReadFailed, RecordFailure, SettleJob, ReadCancelled, CancelRun,
                    FindExpired, Stop
      <3> QED
        BY <3>1 DEF Become, Inv, ProcsOK
    <2>2. Work(p)
      <3>1. ~UNCHANGED vars
        BY DEF vars
      <3>2. ~Tick
        <4> SUFFICES ASSUME Tick PROVE FALSE
          OBVIOUS
        <4>1. PICK now : proc'[p] = [proc[p] EXCEPT !.at = now]
          BY DEF Tick
        <4>2. proc'[p].pc = proc[p].pc
          BY <4>1 DEF Inv, ProcsOK, Process
        <4> QED
          BY <4>2
      <3>3. ~Others
        BY OtherStep
      <3>4. ~ \E j \in JobIds : CreateRun(j)
        BY DEF CreateRun
      <3> QED
        BY <2>1, <3>1, <3>2, <3>3, <3>4, NextSplits
    <2>3. /\ ProcOK(proc[p], p, jobs, runs) /\ Copied(proc[p].run, runs[proc[p].job])
      BY Here DEF ProcOK, Blind
    <2>4. Current(p) => Same(proc[p].run, runs[proc[p].job])
      BY <2>3 DEF Current, Copied
    <2>5. CASE proc[p].pc = "step"
      <3>1. RunStep(p)
        BY <2>2, <2>5 DEF Work, FindRun, RequeueRun, ClaimRun, Guard, Complete,
                          ReadFailed, RecordFailure, SettleJob, ReadCancelled, CancelRun,
                          FindExpired
      <3>2. Current(p)
        BY <3>1 DEF RunStep
      <3> QED
        BY <2>3, <2>4, <2>5, <3>2 DEF ProcOK, Same
    <2>6. CASE proc[p].pc = "recording"
      <3>1. RecordFailure(p)
        BY <2>2, <2>6 DEF Work, FindRun, RequeueRun, ClaimRun, Guard, RunStep, Complete,
                          ReadFailed, SettleJob, ReadCancelled, CancelRun, FindExpired
      <3>2. Current(p) /\ HasLease(proc[p].run, proc[p].id)
        BY <3>1 DEF RecordFailure
      <3> QED
        BY <2>3, <2>4, <2>6, <3>2 DEF ProcOK, Same
    <2> QED
      BY <2>5, <2>6
  <1> QED
    BY <1>1, InvHolds, PTL DEF Spec, StaleWriterIsRejected

----------------------------------------------------------------------------
(* Jobs and runs agree.                                                    *)
(*                                                                         *)
(* As long as no operator retries a job, whoever may settle it is alone:   *)
(* a claim of the job gives one execution the right to start the run, and  *)
(* only the process that recorded the failure of a RUNNING run may requeue *)
(* or fail the job.  The two rights are never held at once, nor while the  *)
(* run is RUNNING.  A job that was cancelled is past all this.             *)

\* Places at which a process holds the right.
Holding == {"claimed", "found", "settling"}

Unstarted == {"NONE", "QUEUED", "WAITING_RETRY"}

\* The backoff of the run is over when that of the job is.
DueBy(run, t) == run.retry_at <= 0 \/ run.retry_at <= t

PairOK(job, run) ==
    /\ job.status \in {"NONE", "QUEUED"} => run.status \in Unstarted
    /\ job.status = "NONE" => run.status = "NONE"
    /\ run.status = "RUNNING" => job.status \in {"RUNNING", "CANCELLED"}
    /\ job.status = "FAILED" => run.status \in Unstarted \cup {"FAILED"}
    /\ run.status = "CANCELLED" => job.status = "CANCELLED"
    /\ (job.status = "QUEUED" /\ run.status = "WAITING_RETRY") => DueBy(run, job.available_at)

\* What a process at its place may rely on.
HolderOK(s, job, run) ==
    /\ s.pc \in {"cancelling", "cancelled"} => job.status = "CANCELLED"
    /\ (s.pc \in Holding /\ job.status # "CANCELLED") =>
        /\ job.status = "RUNNING"
        /\ run.status \in Unstarted \cup {"FAILED"}
        /\ s.pc # "settling" => run.status \in Unstarted
        /\ (s.pc = "settling" /\ s.failure = "transient" /\ run.status = "FAILED") =>
            run.attempt_count >= MaxAttempts
        /\ (s.pc = "settling" /\ run.status = "WAITING_RETRY") =>
            DueBy(run, s.at + RetryDelay(s.attempt))

\* Two processes that hold the right to one job, unless it was cancelled, are one.
Alone(pr, js) ==
    \A p, q \in Processes :
        (pr[p].pc \in Holding /\ pr[q].pc \in Holding /\ pr[p].job = pr[q].job
            /\ js[pr[p].job].status # "CANCELLED") => p = q

Paired(js, rs, pr, ad) ==
    /\ \A j \in JobIds : PairOK(js[j], rs[j])
    /\ \A j \in JobIds : ad[j] = "enqueued" => js[j].status # "NONE"
    /\ \A p \in Processes : HolderOK(pr[p], js[pr[p].job], rs[pr[p].job])
    /\ Alone(pr, js)

NowPaired == Paired(jobs, runs, proc, admission)

LEMMA IdleHolds ==
    ASSUME NEW s, s.pc \notin Holding \cup {"cancelling", "cancelled"}
    PROVE  \A job, run : HolderOK(s, job, run)
  BY DEF HolderOK

LEMMA IdlePlace == IdleProcess.pc = "idle" /\ "idle" \notin Holding
  BY DEF IdleProcess, Holding

LEMMA ActivePairOK ==
    ASSUME NEW job, NEW run, job.status \in {"RUNNING", "CANCELLED"},
           run.status = "CANCELLED" => job.status = "CANCELLED"
    PROVE  PairOK(job, run)
  BY DEF PairOK

\* A cancelled job asks nothing of the processes that hold it.
LEMMA CancelledHolderOK ==
    ASSUME NEW s, NEW job, NEW run, job.status = "CANCELLED"
    PROVE  HolderOK(s, job, run)
  BY DEF HolderOK

\* A process reads, decides or stops.
LEMMA PairedReads ==
    ASSUME Inv, NowPaired, NEW p \in Processes, NEW s, Become(p, s), UNCHANGED <<jobs, runs>>,
           HolderOK(s, jobs[s.job], runs[s.job]),
           s.pc \in Holding => proc[p].pc \in Holding /\ proc[p].job = s.job
    PROVE  NowPaired'
  <1>1. /\ proc'[p] = s /\ \A q \in Processes \ {p} : proc'[q] = proc[q]
        /\ jobs' = jobs /\ runs' = runs /\ admission' = admission
    BY DEF Inv, ProcsOK, Become
  <1>2. \A q \in Processes : HolderOK(proc'[q], jobs'[proc'[q].job], runs'[proc'[q].job])
    BY <1>1 DEF NowPaired, Paired
  <1>3. Alone(proc', jobs')
    BY <1>1 DEF NowPaired, Paired, Alone
  <1> QED
    BY <1>1, <1>2, <1>3 DEF NowPaired, Paired

LEMMA PairedStops ==
    ASSUME Inv, NowPaired, NEW p \in Processes, Stop(p), UNCHANGED <<jobs, runs>>
    PROVE  NowPaired'
  BY IdlePlace, IdleHolds, PairedReads DEF Stop, Holding

\* What the processes but p may rely on, once job and run are the rows of j.
Clear(p, j, job, run) ==
    \A q \in Processes : (q # p /\ proc[q].job = j) =>
        /\ HolderOK(proc[q], job, run)
        /\ proc[q].pc \in Holding => job.status = "CANCELLED"

\* Nobody else holds the right that p holds.
LEMMA OthersAreClear ==
    ASSUME NowPaired, NEW p \in Processes, proc[p].pc \in Holding,
           NEW job, NEW run, jobs[proc[p].job].status = "CANCELLED" => job.status = "CANCELLED"
    PROVE  Clear(p, proc[p].job, job, run)
  <1> DEFINE j == proc[p].job
  <1> SUFFICES ASSUME NEW q \in Processes, q # p, proc[q].job = j
               PROVE  /\ HolderOK(proc[q], job, run)
                      /\ proc[q].pc \in Holding => job.status = "CANCELLED"
    BY DEF Clear
  <1>1. CASE job.status = "CANCELLED"
    BY <1>1, CancelledHolderOK
  <1>2. CASE job.status # "CANCELLED"
    <2>1. jobs[j].status # "CANCELLED"
      BY <1>2
    <2>2. proc[q].pc \notin Holding
      BY <2>1 DEF NowPaired, Paired, Alone
    <2>3. proc[q].pc \notin {"cancelling", "cancelled"}
      BY <2>1 DEF NowPaired, Paired, HolderOK
    <2> QED
      BY <2>2, <2>3, IdleHolds
  <1> QED
    BY <1>1, <1>2

\* Nobody holds it while the run is RUNNING or ended well, nor before the job
\* is claimed or after it ended.
LEMMA AllAreClear ==
    ASSUME NowPaired, NEW j, NEW p, NEW job, NEW run,
           runs[j].status \in {"RUNNING", "SUCCEEDED"} \/ jobs[j].status # "RUNNING",
           jobs[j].status = "CANCELLED" => job.status = "CANCELLED"
    PROVE  Clear(p, j, job, run)
  <1> SUFFICES ASSUME NEW q \in Processes, proc[q].job = j
               PROVE  /\ HolderOK(proc[q], job, run)
                      /\ proc[q].pc \in Holding => job.status = "CANCELLED"
    BY DEF Clear
  <1>1. CASE job.status = "CANCELLED"
    BY <1>1, CancelledHolderOK
  <1>2. CASE job.status # "CANCELLED"
    <2>1. jobs[j].status # "CANCELLED" /\ HolderOK(proc[q], jobs[j], runs[j])
      BY <1>2 DEF NowPaired, Paired
    <2>2. proc[q].pc \notin Holding \cup {"cancelling", "cancelled"}
      BY <2>1 DEF HolderOK, Unstarted
    <2> QED
      BY <2>2, IdleHolds
  <1> QED
    BY <1>1, <1>2

Replaces(j, job, run) ==
    jobs' = [jobs EXCEPT ![j] = job] /\ runs' = [runs EXCEPT ![j] = run]

\* The rows of j are replaced, and p goes to s.
LEMMA PairedWrites ==
    ASSUME Inv, NowPaired, NEW p \in Processes, NEW s, Become(p, s),
           NEW j \in JobIds, NEW job, NEW run,
           Replaces(j, job, run),
           PairOK(job, run), jobs[j].status # "NONE" => job.status # "NONE",
           jobs[j].status = "CANCELLED" => job.status = "CANCELLED",
           Clear(p, j, job, run), s.pc = "idle" \/ (s.job = j /\ HolderOK(s, job, run))
    PROVE  NowPaired'
  <1>1. /\ proc'[p] = s /\ \A q \in Processes \ {p} : proc'[q] = proc[q]
        /\ jobs'[j] = job /\ runs'[j] = run /\ admission' = admission
        /\ \A k \in JobIds \ {j} : jobs'[k] = jobs[k] /\ runs'[k] = runs[k]
    BY DEF Inv, ProcsOK, JobsOK, RunsOK, Become, Replaces
  <1>2. ASSUME NEW q \in Processes
        PROVE  HolderOK(proc'[q], jobs'[proc'[q].job], runs'[proc'[q].job])
    <2>1. CASE q = p
      <3>1. s.pc = "idle" => HolderOK(s, jobs'[s.job], runs'[s.job])
        BY IdleHolds DEF Holding
      <3> QED
        BY <1>1, <2>1, <3>1
    <2>2. CASE q # p /\ proc[q].job = j
      BY <1>1, <2>2 DEF Clear
    <2>3. CASE q # p /\ proc[q].pc = "idle"
      BY <1>1, <2>3, IdleHolds DEF Holding
    <2>4. CASE q # p /\ proc[q].job # j /\ proc[q].pc # "idle"
      <3>1. proc[q].job \in JobIds
        BY <2>4, Here
      <3> QED
        BY <1>1, <2>4, <3>1 DEF NowPaired, Paired
    <2> QED
      BY <2>1, <2>2, <2>3, <2>4
  <1>3. ASSUME NEW q \in Processes, NEW r \in Processes,
               proc'[q].pc \in Holding, proc'[r].pc \in Holding, proc'[q].job = proc'[r].job,
               jobs'[proc'[q].job].status # "CANCELLED"
        PROVE  q = r
    <2>1. CASE proc'[q].job = j
      <3>1. \A o \in Processes \ {p} : proc[o].job = j => proc[o].pc \notin Holding
        BY <1>1, <1>3, <2>1 DEF Clear
      <3> QED
        BY <1>1, <1>3, <2>1, <3>1
    <2>2. CASE proc'[q].job # j
      <3>0. s.pc \in Holding => s.job = j
        BY DEF Holding
      <3>1. q # p /\ r # p /\ proc'[q] = proc[q] /\ proc'[r] = proc[r]
        BY <1>1, <1>3, <2>2, <3>0
      <3>2. proc[q].job \in JobIds
        BY <1>3, <3>1, Here DEF Holding
      <3>3. jobs[proc[q].job].status # "CANCELLED"
        BY <1>1, <1>3, <2>2, <3>1, <3>2
      <3> QED
        BY <1>3, <3>1, <3>3 DEF NowPaired, Paired, Alone
    <2> QED
      BY <2>1, <2>2
  <1>4. \A k \in JobIds : /\ PairOK(jobs'[k], runs'[k])
                          /\ admission'[k] = "enqueued" => jobs'[k].status # "NONE"
    BY <1>1 DEF NowPaired, Paired
  <1> QED
    BY <1>2, <1>3, <1>4 DEF NowPaired, Paired, Alone

\* The rows of j are replaced, and no process takes part.
LEMMA PairedWatched ==
    ASSUME Inv, NowPaired, UNCHANGED proc, NEW j \in JobIds, NEW job, NEW run,
           Replaces(j, job, run),
           PairOK(job, run), jobs[j].status # "NONE" => job.status # "NONE",
           jobs[j].status = "CANCELLED" => job.status = "CANCELLED",
           \A p \in Processes : proc[p].job = j => HolderOK(proc[p], job, run),
           \A k \in JobIds : admission'[k] = "enqueued" =>
                admission[k] = "enqueued" \/ (k = j /\ job.status # "NONE")
    PROVE  NowPaired'
  <1>1. /\ proc' = proc /\ jobs'[j] = job /\ runs'[j] = run
        /\ \A k \in JobIds \ {j} : jobs'[k] = jobs[k] /\ runs'[k] = runs[k]
    BY DEF Inv, JobsOK, RunsOK, Replaces
  <1>2. ASSUME NEW q \in Processes
        PROVE  HolderOK(proc'[q], jobs'[proc'[q].job], runs'[proc'[q].job])
    <2>1. CASE proc[q].job = j
      BY <1>1, <2>1
    <2>2. CASE proc[q].pc = "idle"
      BY <1>1, <2>2, IdleHolds DEF Holding
    <2>3. CASE proc[q].job # j /\ proc[q].pc # "idle"
      <3>1. proc[q].job \in JobIds
        BY <2>3, Here
      <3> QED
        BY <1>1, <2>3, <3>1 DEF NowPaired, Paired
    <2> QED
      BY <2>1, <2>2, <2>3
  <1>3. ASSUME NEW q \in Processes, NEW r \in Processes,
               proc'[q].pc \in Holding, proc'[r].pc \in Holding, proc'[q].job = proc'[r].job,
               jobs'[proc'[q].job].status # "CANCELLED"
        PROVE  q = r
    <2>1. proc[q].job \in JobIds
      BY <1>1, <1>3, Here DEF Holding
    <2>2. jobs[proc[q].job].status # "CANCELLED"
      BY <1>1, <1>3, <2>1
    <2> QED
      BY <1>1, <1>3, <2>2 DEF NowPaired, Paired, Alone
  <1>4. \A k \in JobIds : /\ PairOK(jobs'[k], runs'[k])
                          /\ admission'[k] = "enqueued" => jobs'[k].status # "NONE"
    BY <1>1 DEF NowPaired, Paired
  <1> QED
    BY <1>2, <1>3, <1>4 DEF NowPaired, Paired, Alone

LEMMA EnqueueJobPairs ==
    ASSUME Inv, NowPaired, NEW j \in JobIds, EnqueueJob(j)
    PROVE  NowPaired'
  <1>1. /\ UNCHANGED <<runs, proc>> /\ admission' = [admission EXCEPT ![j] = "enqueued"]
        /\ jobs' = [jobs EXCEPT ![j] =
                        IF @.status = "NONE" THEN [@ EXCEPT !.status = "QUEUED"] ELSE @]
    BY DEF EnqueueJob
  <1>2. PICK old : old = jobs[j]
    OBVIOUS
  <1> DEFINE queued == [old EXCEPT !.status = "QUEUED"]
             row == IF old.status = "NONE" THEN queued ELSE old
  <1>3. Replaces(j, row, runs[j])
    BY <1>1, <1>2 DEF Inv, RunsOK, Replaces
  <1>4. old \in Job /\ PairOK(old, runs[j])
    BY <1>2, JobHere DEF NowPaired, Paired
  <1>5. /\ row.status # "NONE" /\ (old.status # "NONE" => row = old)
        /\ old.status = "NONE" => row.status = "QUEUED"
    BY <1>4 DEF Job
  <1> HIDE DEF row
  <1>6. PairOK(row, runs[j])
    BY <1>4, <1>5 DEF PairOK, Unstarted
  <1>7. ASSUME NEW p \in Processes, proc[p].job = j PROVE HolderOK(proc[p], row, runs[j])
    <2>1. HolderOK(proc[p], old, runs[j])
      BY <1>2, <1>7 DEF NowPaired, Paired
    <2> QED
      BY <1>5, <2>1 DEF HolderOK
  <1>8. \A k \in JobIds : admission'[k] = "enqueued" => admission[k] = "enqueued" \/ k = j
    BY <1>1 DEF Inv
  <1> QED
    BY <1>1, <1>2, <1>3, <1>5, <1>6, <1>7, <1>8, PairedWatched

LEMMA CreateRunPairs ==
    ASSUME Inv, NowPaired, NEW j \in JobIds, CreateRun(j)
    PROVE  NowPaired'
  <1> DEFINE row == IF runs[j].status = "NONE" THEN NewRun ELSE runs[j]
  <1>1. /\ UNCHANGED <<jobs, proc>> /\ admission' = [admission EXCEPT ![j] = "admitted"]
        /\ runs' = [runs EXCEPT ![j] = row] /\ admission[j] = "enqueued"
    BY DEF CreateRun
  <1>2. Replaces(j, jobs[j], row)
    BY <1>1 DEF Inv, JobsOK, Replaces
  <1>3. PairOK(jobs[j], runs[j]) /\ jobs[j].status # "NONE"
    BY <1>1 DEF NowPaired, Paired
  <1>4. runs[j].status = "NONE" => row.status = "QUEUED"
    BY NewRunOK
  <1>5. runs[j].status # "NONE" => row = runs[j]
    OBVIOUS
  <1> HIDE DEF row
  <1>6. PairOK(jobs[j], row)
    BY <1>3, <1>4, <1>5 DEF PairOK, Unstarted
  <1>7. ASSUME NEW p \in Processes, proc[p].job = j PROVE HolderOK(proc[p], jobs[j], row)
    <2>1. HolderOK(proc[p], jobs[j], runs[j])
      BY <1>7 DEF NowPaired, Paired
    <2> QED
      BY <1>4, <1>5, <2>1 DEF HolderOK, Unstarted
  <1>8. \A k \in JobIds : admission'[k] = "enqueued" => admission[k] = "enqueued"
    BY <1>1 DEF Inv
  <1> QED
    BY <1>1, <1>2, <1>6, <1>7, <1>8, PairedWatched

LEMMA OperatorCancelPairs ==
    ASSUME Inv, NowPaired, NEW j \in JobIds, OperatorCancel(j)
    PROVE  NowPaired'
  <1> DEFINE row == Transitioned(jobs[j], "CANCELLED", NoWorker, 0)
  <1>1. /\ UNCHANGED <<runs, proc, admission>> /\ jobs' = [jobs EXCEPT ![j] = row]
    BY DEF OperatorCancel
  <1>2. row.status = "CANCELLED"
    BY JobHere DEF Transitioned, Job
  <1> HIDE DEF row
  <1>3. Replaces(j, row, runs[j])
    BY <1>1 DEF Inv, RunsOK, Replaces
  <1>4. PairOK(row, runs[j]) /\ \A p \in Processes : HolderOK(proc[p], row, runs[j])
    BY <1>2, ActivePairOK, CancelledHolderOK
  <1> QED
    BY <1>1, <1>2, <1>3, <1>4, PairedWatched

LEMMA AbandonAdmissionPairs ==
    ASSUME Inv, NowPaired, NEW j \in JobIds, AbandonAdmission(j)
    PROVE  NowPaired'
  <1>1. UNCHANGED <<jobs, runs, proc>> /\ admission' = [admission EXCEPT ![j] = "none"]
    BY DEF AbandonAdmission
  <1>2. \A k \in JobIds : admission'[k] = "enqueued" => admission[k] = "enqueued"
    BY <1>1 DEF Inv
  <1> QED
    BY <1>1, <1>2 DEF NowPaired, Paired

\* Both backoffs and the clock of a settling process run down alike.
LEMMA TickPairs ==
    ASSUME Inv, NowPaired, Tick
    PROVE  NowPaired'
  <1>1. ASSUME NEW j \in JobIds
        PROVE  /\ jobs'[j].status = jobs[j].status
               /\ jobs'[j].available_at = Earlier(jobs[j].available_at, 0)
               /\ runs'[j].status = runs[j].status
               /\ runs'[j].attempt_count = runs[j].attempt_count
               /\ runs'[j].retry_at = Earlier(runs[j].retry_at, 0)
               /\ jobs[j].available_at \in Int /\ runs[j].retry_at \in Int
    <2>1. jobs[j] \in Job /\ runs[j] \in Run
      BY JobHere
    <2> QED
      BY <2>1 DEF Tick, Job, Run
  <1>2. ASSUME NEW p \in Processes
        PROVE  /\ proc'[p].pc = proc[p].pc /\ proc'[p].job = proc[p].job
               /\ proc'[p].attempt = proc[p].attempt /\ proc'[p].failure = proc[p].failure
               /\ proc[p].pc \notin {"idle", "down"} =>
                    proc'[p].at = Earlier(proc[p].at, -MaxDelay)
               /\ proc[p].at \in Int /\ proc[p].attempt \in Nat /\ -MaxDelay <= proc[p].at
    <2>1. proc[p] \in Process
      BY DEF Inv, ProcsOK
    <2>2. PICK now : /\ proc'[p] = [proc[p] EXCEPT !.at = now]
                     /\ proc[p].pc \notin {"idle", "down"} =>
                           now = Earlier(proc[p].at, -MaxDelay)
      BY DEF Tick
    <2> QED
      BY <2>1, <2>2, RecordAssumption, RunAssumption DEF Process
  <1>3. ASSUME NEW j \in JobIds PROVE PairOK(jobs'[j], runs'[j])
    <2>1. PairOK(jobs[j], runs[j])
      BY DEF NowPaired, Paired
    <2>2. DueBy(runs[j], jobs[j].available_at) => DueBy(runs'[j], jobs'[j].available_at)
      BY <1>1 DEF DueBy, Earlier
    <2> QED
      BY <1>1, <2>1, <2>2 DEF PairOK
  <1>4. ASSUME NEW p \in Processes
        PROVE  HolderOK(proc'[p], jobs'[proc'[p].job], runs'[proc'[p].job])
    <2>1. CASE proc[p].pc \in {"idle", "down"}
      BY <1>2, <2>1, IdleHolds DEF Holding
    <2>2. CASE proc[p].pc \notin {"idle", "down"}
      <3> DEFINE j == proc[p].job
                 d == RetryDelay(proc[p].attempt)
      <3>1. j \in JobIds /\ HolderOK(proc[p], jobs[j], runs[j])
        BY <2>2, Here DEF NowPaired, Paired
      <3>2. d \in 0..MaxDelay
        BY <1>2, RetryDelayGrows
      <3>3. DueBy(runs[j], proc[p].at + d) => DueBy(runs'[j], proc'[p].at + d)
        <4>1. /\ proc'[p].at = Earlier(proc[p].at, -MaxDelay)
              /\ runs'[j].retry_at = Earlier(runs[j].retry_at, 0)
              /\ runs[j].retry_at \in Int /\ proc[p].at \in Int /\ -MaxDelay <= proc[p].at
          BY <1>1, <1>2, <2>2, <3>1
        <4> HIDE DEF j, d
        <4> QED
          BY <3>2, <4>1, RecordAssumption DEF DueBy, Earlier
      <3>4. /\ jobs'[j].status = jobs[j].status /\ runs'[j].status = runs[j].status
            /\ runs'[j].attempt_count = runs[j].attempt_count
        BY <1>1, <3>1
      <3>5. /\ proc'[p].pc = proc[p].pc /\ proc'[p].job = j
            /\ proc'[p].failure = proc[p].failure /\ RetryDelay(proc'[p].attempt) = d
        BY <1>2
      <3> HIDE DEF j, d
      <3>6. HolderOK(proc'[p], jobs'[j], runs'[j])
        <4>1. HolderOK(proc[p], jobs[j], runs[j]) /\ d = RetryDelay(proc[p].attempt)
          BY <3>1 DEF d
        <4> QED
          BY <3>3, <3>4, <3>5, <4>1 DEF HolderOK
      <3> QED
        BY <3>5, <3>6
    <2> QED
      BY <2>1, <2>2
  <1>5. ASSUME NEW q \in Processes, NEW r \in Processes,
               proc'[q].pc \in Holding, proc'[r].pc \in Holding, proc'[q].job = proc'[r].job,
               jobs'[proc'[q].job].status # "CANCELLED"
        PROVE  q = r
    <2>1. proc[q].job \in JobIds
      BY <1>2, <1>5, Here DEF Holding
    <2>2. jobs[proc[q].job].status # "CANCELLED"
      BY <1>1, <1>2, <1>5, <2>1
    <2> QED
      BY <1>2, <1>5, <2>2 DEF NowPaired, Paired, Alone
  <1>6. \A j \in JobIds : admission'[j] = "enqueued" => jobs'[j].status # "NONE"
    BY <1>1 DEF Tick, NowPaired, Paired
  <1> QED
    BY <1>3, <1>4, <1>5, <1>6 DEF NowPaired, Paired, Alone

\* At a place without the right, and not cancelling, nothing is relied on.
LEMMA PairedMoves ==
    ASSUME Inv, NowPaired, NEW p \in Processes, NEW s, Become(p, s), UNCHANGED <<jobs, runs>>,
           s.pc \notin Holding \cup {"cancelling", "cancelled"}
    PROVE  NowPaired'
  BY IdleHolds, PairedReads

LEMMA FindRunPairs ==
    ASSUME Inv, NowPaired, NEW p \in Processes, FindRun(p)
    PROVE  NowPaired'
  <1>1. /\ proc[p].pc = "claimed" /\ UNCHANGED <<jobs, runs>>
    BY DEF FindRun
  <1>2. PICK run : run = runs[proc[p].job]
    OBVIOUS
  <1>3. proc[p] \in Process /\ run \in Run /\ HolderOK(proc[p], jobs[proc[p].job], run)
    BY <1>1, <1>2, Here DEF NowPaired, Paired
  <1>4. CASE run.status = "NONE"
    <2> DEFINE s == [proc[p] EXCEPT !.pc = "settling", !.failure = "permanent"]
    <2>1. Become(p, s)
      BY <1>2, <1>4 DEF FindRun
    <2>2. s.pc = "settling" /\ s.job = proc[p].job /\ s.failure = "permanent"
      BY <1>3 DEF Process
    <2> HIDE DEF s
    <2>3. HolderOK(s, jobs[s.job], runs[s.job])
      BY <1>1, <1>2, <1>3, <1>4, <2>2 DEF HolderOK, Holding, Unstarted
    <2> QED
      BY <1>1, <2>1, <2>2, <2>3, PairedReads DEF Holding
  <1>5. CASE run.status # "NONE"
    <2> DEFINE s == [proc[p] EXCEPT !.pc = "found", !.run = run]
    <2>1. Become(p, s)
      BY <1>2, <1>5 DEF FindRun
    <2>2. s.pc = "found" /\ s.job = proc[p].job
      BY <1>3 DEF Process
    <2> HIDE DEF s
    <2>3. HolderOK(s, jobs[s.job], runs[s.job])
      BY <1>1, <1>2, <1>3, <2>2 DEF HolderOK, Holding
    <2> QED
      BY <1>1, <2>1, <2>2, <2>3, PairedReads DEF Holding
  <1> QED
    BY <1>4, <1>5

LEMMA GuardPairs ==
    ASSUME Inv, NowPaired, NEW p \in Processes, Guard(p)
    PROVE  NowPaired'
  <1>1. proc[p].pc = "guard" /\ UNCHANGED <<jobs, runs>>
    BY DEF Guard
  <1>2. proc[p] \in Process
    BY <1>1, Here
  <1>3. \/ Become(p, [proc[p] EXCEPT !.pc = "step"])
        \/ /\ Become(p, [proc[p] EXCEPT !.pc = "cancelling"])
           /\ jobs[proc[p].job].status = "CANCELLED"
        \/ Stop(p)
    BY DEF Guard
  <1>4. CASE Become(p, [proc[p] EXCEPT !.pc = "step"])
    <2>1. [proc[p] EXCEPT !.pc = "step"].pc = "step"
      BY <1>2 DEF Process
    <2> QED
      BY <1>1, <1>4, <2>1, PairedMoves DEF Holding
  <1>5. CASE /\ Become(p, [proc[p] EXCEPT !.pc = "cancelling"])
             /\ jobs[proc[p].job].status = "CANCELLED"
    <2> DEFINE s == [proc[p] EXCEPT !.pc = "cancelling"]
    <2>1. s.pc = "cancelling" /\ s.job = proc[p].job /\ Become(p, s)
      BY <1>2, <1>5 DEF Process
    <2> HIDE DEF s
    <2>2. HolderOK(s, jobs[s.job], runs[s.job])
      BY <1>5, <2>1, CancelledHolderOK
    <2> QED
      BY <1>1, <2>1, <2>2, PairedReads DEF Holding
  <1> QED
    BY <1>1, <1>3, <1>4, <1>5, PairedStops

LEMMA ReadAgainPairs ==
    ASSUME Inv, NowPaired, NEW p \in Processes, ReadFailed(p) \/ ReadCancelled(p)
    PROVE  NowPaired'
  <1>1. PICK pc \in {"recording", "cancelled"}, run \in {runs[proc[p].job]} :
            /\ proc[p].pc = IF pc = "recording" THEN "failing" ELSE "cancelling"
            /\ Become(p, [proc[p] EXCEPT !.pc = pc, !.run = run])
    BY DEF ReadFailed, ReadCancelled
  <1>2. UNCHANGED <<jobs, runs>>
    BY DEF ReadFailed, ReadCancelled
  <1> DEFINE s == [proc[p] EXCEPT !.pc = pc, !.run = run]
  <1>3. s.pc = pc /\ s.job = proc[p].job /\ Become(p, s)
    <2>1. proc[p] \in Process
      BY <1>1, Here
    <2> QED
      BY <1>1, <2>1 DEF Process
  <1> HIDE DEF s
  <1>4. CASE pc = "recording"
    BY <1>2, <1>3, <1>4, PairedMoves DEF Holding
  <1>5. CASE pc = "cancelled"
    <2>1. jobs[proc[p].job].status = "CANCELLED"
      BY <1>1, <1>5 DEF NowPaired, Paired, HolderOK
    <2>2. HolderOK(s, jobs[s.job], runs[s.job])
      BY <1>3, <2>1, CancelledHolderOK
    <2> QED
      BY <1>2, <1>3, <1>5, <2>2, PairedReads DEF Holding
  <1> QED
    BY <1>4, <1>5

LEMMA RecoveryPairs ==
    ASSUME Inv, NowPaired, NEW p \in Processes,
           FindExpired(p) \/ \E j \in JobIds : Recover(p, j)
    PROVE  NowPaired'
  <1>1. UNCHANGED <<jobs, runs>>
    BY DEF FindExpired, Recover
  <1>2. CASE Stop(p)
    BY <1>1, <1>2, PairedStops
  <1>3. ASSUME NEW s, Become(p, s), s.pc \in {"reading", "recording"}
        PROVE  NowPaired'
    BY <1>1, <1>3, PairedMoves DEF Holding
  <1>4. CASE FindExpired(p)
    <2> DEFINE run == runs[proc[p].job]
               s == [proc[p] EXCEPT !.pc = "recording", !.run = run, !.failure = "transient",
                                    !.id = run.lease_owner, !.mine = run.attempt_count]
    <2>1. Stop(p) \/ Become(p, s)
      BY <1>4 DEF FindExpired
    <2>2. s.pc = "recording"
      <3>1. proc[p] \in Process
        BY <1>4, Here DEF FindExpired
      <3> HIDE DEF run
      <3> QED
        BY <3>1 DEF Process
    <2> HIDE DEF s
    <2> QED
      BY <1>2, <1>3, <2>1, <2>2
  <1>5. ASSUME NEW j \in JobIds, Recover(p, j) PROVE NowPaired'
    <2> DEFINE n == jobs[j].attempt_count
               s == [IdleProcess EXCEPT !.pc = "reading", !.job = j, !.attempt = n]
    <2>1. Become(p, s)
      BY <1>5 DEF Recover
    <2>2. s.pc = "reading"
      BY DEF IdleProcess
    <2> HIDE DEF s
    <2> QED
      BY <1>3, <2>1, <2>2
  <1> QED
    BY <1>4, <1>5

----------------------------------------------------------------------------
(* The steps that write.                                                   *)

\* The execution that holds the right to the job starts its run, and loses it.
LEMMA StartPairs ==
    ASSUME Inv, NowPaired, NEW p \in Processes, RequeueRun(p) \/ ClaimRun(p)
    PROVE  NowPaired'
  <1>1. proc[p].pc = "found" /\ UNCHANGED jobs
    BY DEF RequeueRun, ClaimRun
  <1>2. /\ proc[p] \in Process /\ proc[p].job \in JobIds /\ proc[p].run \in Run
    BY <1>1, Here
  <1>3. PICK j : j = proc[p].job
    OBVIOUS
  <1>4. /\ HolderOK(proc[p], jobs[j], runs[j]) /\ jobs[j].status \in {"RUNNING", "CANCELLED"}
        /\ proc[p].pc \in Holding
    BY <1>1, <1>3 DEF NowPaired, Paired, HolderOK, Holding
  <1>5. CASE Stop(p) /\ UNCHANGED runs
    BY <1>1, <1>5, PairedStops
  <1>6. ASSUME NEW row, NEW s, runs' = [runs EXCEPT ![j] = row], Become(p, s),
               row.status \in {"QUEUED", "RUNNING"}, s.job = j,
               s.pc \in {"found", "guard"}, s.pc = "found" => row.status = "QUEUED"
        PROVE  NowPaired'
    <2>1. Replaces(j, jobs[j], row)
      BY <1>1, <1>6 DEF Inv, JobsOK, Replaces
    <2>2. PairOK(jobs[j], row)
      BY <1>4, <1>6, ActivePairOK
    <2>3. HolderOK(s, jobs[j], row)
      BY <1>4, <1>6 DEF HolderOK, Holding, Unstarted
    <2>4. Clear(p, j, jobs[j], row)
      BY <1>3, <1>4, OthersAreClear
    <2> QED
      BY <1>2, <1>3, <1>6, <2>1, <2>2, <2>3, <2>4, PairedWrites
  <1>7. CASE RequeueRun(p)
    <2> DEFINE row == RequeuedRun(proc[p].run)
               s == [proc[p] EXCEPT !.run = row]
    <2>1. \/ Stop(p) /\ UNCHANGED runs
          \/ runs' = [runs EXCEPT ![j] = row] /\ Become(p, s)
      BY <1>3, <1>7 DEF RequeueRun, WriteRun
    <2>2. row.status = "QUEUED"
      BY <1>2, <1>7, RequeuedRunMoves DEF RequeueRun
    <2> HIDE DEF row
    <2>3. s.job = j /\ s.pc = "found"
      BY <1>1, <1>2, <1>3 DEF Process
    <2> HIDE DEF s
    <2> QED
      BY <1>5, <1>6, <2>1, <2>2, <2>3
  <1>8. CASE ClaimRun(p)
    <2> DEFINE row == Claimed(proc[p].run, proc[p].id, proc[p].at)
               n == row.attempt_count
               s == [proc[p] EXCEPT !.pc = "guard", !.run = row, !.mine = n]
    <2>1. \/ Stop(p) /\ UNCHANGED runs
          \/ runs' = [runs EXCEPT ![j] = row] /\ Become(p, s)
      BY <1>3, <1>8 DEF ClaimRun, WriteRun
    <2>2. row.status = "RUNNING"
      BY <1>2 DEF Claimed, Run
    <2> HIDE DEF row, n
    <2>3. s.job = j /\ s.pc = "guard"
      BY <1>1, <1>2, <1>3 DEF Process
    <2> HIDE DEF s
    <2> QED
      BY <1>5, <1>6, <2>1, <2>2, <2>3
  <1> QED
    BY <1>7, <1>8

\* A checkpoint is passed by a RUNNING run, to which nobody holds the right.
LEMMA RunStepPairs ==
    ASSUME Inv, NowPaired, NEW p \in Processes, RunStep(p)
    PROVE  NowPaired'
  <1>1. proc[p].pc = "step" /\ UNCHANGED jobs
    BY DEF RunStep
  <1>2. /\ proc[p] \in Process /\ ProcOK(proc[p], p, jobs, runs)
        /\ proc[p].job \in JobIds /\ proc[p].run \in Run /\ runs[proc[p].job] \in Run
    BY <1>1, Here
  <1>3. proc[p].run.status = "RUNNING" /\ proc[p].run.passed < Steps
    BY <1>1, <1>2 DEF ProcOK
  <1>4. PICK j : j = proc[p].job
    OBVIOUS
  <1> DEFINE row == StepCompleted(proc[p].run)
             pc == IF row.status = "SUCCEEDED" THEN "completing" ELSE "guard"
  <1>5. /\ runs' = runs \/ (runs' = [runs EXCEPT ![j] = row] /\ Current(p))
        /\ \/ \E failure \in {"transient", "permanent"} :
                Become(p, [proc[p] EXCEPT !.pc = "failing", !.failure = failure])
           \/ Become(p, [proc[p] EXCEPT !.run = row, !.pc = pc])
    BY <1>4 DEF RunStep, Failing, WriteRun
  <1>6. Moved(proc[p].run, row, NoWorker) /\ Passes(proc[p].run, row)
    BY <1>2, <1>3, StepCompletedMoves
  <1>7. pc \in {"completing", "guard"}
    OBVIOUS
  <1> HIDE DEF row, pc
  <1>8. PICK s : Become(p, s) /\ s.pc \in {"failing", "completing", "guard"} /\ s.job = j
    <2>1. CASE Become(p, [proc[p] EXCEPT !.run = row, !.pc = pc])
      <3> DEFINE t == [proc[p] EXCEPT !.run = row, !.pc = pc]
      <3>1. t.pc = pc /\ t.job = j /\ Become(p, t)
        BY <1>2, <1>4, <2>1 DEF Process
      <3> HIDE DEF t
      <3> QED
        BY <1>7, <3>1
    <2>2. ASSUME NEW failure, Become(p, [proc[p] EXCEPT !.pc = "failing", !.failure = failure])
          PROVE  \E t : Become(p, t) /\ t.pc = "failing" /\ t.job = j
      <3> DEFINE t == [proc[p] EXCEPT !.pc = "failing", !.failure = failure]
      <3>1. t.pc = "failing" /\ t.job = j /\ Become(p, t)
        BY <1>2, <1>4, <2>2 DEF Process
      <3> HIDE DEF t
      <3> QED
        BY <3>1
    <2> QED
      BY <1>5, <2>1, <2>2
  <1>9. CASE runs' = runs
    BY <1>1, <1>8, <1>9, PairedMoves DEF Holding
  <1>10. CASE runs' = [runs EXCEPT ![j] = row] /\ Current(p)
    <2>1. Same(proc[p].run, runs[j])
      BY <1>1, <1>4, <1>6, <1>10, CurrentMoves DEF Blind
    <2>2. runs[j].status = "RUNNING" /\ row.status \in {"RUNNING", "SUCCEEDED"}
      BY <1>3, <1>6, <2>1 DEF Same, Passes
    <2>3. jobs[j].status \in {"RUNNING", "CANCELLED"}
      BY <1>2, <1>4, <2>2 DEF NowPaired, Paired, PairOK
    <2>4. PairOK(jobs[j], row) /\ Clear(p, j, jobs[j], row)
      BY <2>2, <2>3, ActivePairOK, AllAreClear
    <2>5. Replaces(j, jobs[j], row)
      BY <1>1, <1>10 DEF Inv, JobsOK, Replaces
    <2>6. HolderOK(s, jobs[j], row)
      BY <1>8, IdleHolds DEF Holding
    <2> QED
      BY <1>2, <1>4, <1>8, <2>4, <2>5, <2>6, PairedWrites
  <1> QED
    BY <1>5, <1>9, <1>10

\* fail_ingestion_step ends the attempt of a RUNNING run: its caller alone may
\* settle the job, and its deadline is the one it gave the run.
LEMMA RecordFailurePairs ==
    ASSUME Inv, NowPaired, NEW p \in Processes, RecordFailure(p)
    PROVE  NowPaired'
  <1>1. proc[p].pc = "recording" /\ UNCHANGED jobs
    BY DEF RecordFailure
  <1>2. /\ proc[p] \in Process /\ proc[p].job \in JobIds /\ proc[p].run \in Run
        /\ runs[proc[p].job] \in Run
    BY <1>1, Here
  <1>3. PICK j : j = proc[p].job
    OBVIOUS
  <1> DEFINE retry == MayRetry(proc[p])
             at == proc[p].at + RetryDelay(proc[p].attempt)
             row == StepFailed(proc[p].run, retry, at)
             failure == IF retry THEN "transient" ELSE "permanent"
             s == [proc[p] EXCEPT !.pc = "settling", !.run = row, !.failure = failure]
  <1>4. CASE Stop(p) /\ UNCHANGED runs
    BY <1>1, <1>4, PairedStops
  <1>5. CASE /\ HasLease(proc[p].run, proc[p].id) /\ Current(p)
             /\ WriteRun(p, row) /\ Become(p, s)
    <2>1. at \in Int /\ retry \in BOOLEAN /\ proc[p].run.status = "RUNNING"
      <3>1. proc[p].at \in Int /\ RetryDelay(proc[p].attempt) \in Int
        BY <1>2, RetryDelayGrows, RecordAssumption, RunAssumption DEF Process
      <3> QED
        BY <1>5, <3>1 DEF MayRetry, HasLease
    <2>2. runs' = [runs EXCEPT ![j] = row] /\ Become(p, s)
      BY <1>3, <1>5 DEF WriteRun, failure
    <2>3. /\ failure \in Failures
          /\ failure = "transient" => retry
      BY DEF Failures
    <2>4. /\ row.status \in {"WAITING_RETRY", "FAILED"}
          /\ row.status = "WAITING_RETRY" => row.retry_at = at
          /\ (retry /\ row.status = "FAILED") => row.attempt_count >= MaxAttempts
          /\ Moved(proc[p].run, row, NoWorker)
      <3>1. Moved(proc[p].run, row, NoWorker)
        <4> HIDE DEF at, retry
        <4> QED
          BY <1>2, <2>1, StepFailedMoves
      <3>2. PICK run : run = proc[p].run
        OBVIOUS
      <3>3. run \in Run /\ row = StepFailed(run, retry, at)
        BY <1>2, <3>2
      <3> HIDE DEF row, at, retry
      <3>4. run.attempt_count \in Nat /\ MaxAttempts \in Nat
        BY <3>3, RunAssumption DEF Run
      <3>5. CASE retry /\ run.attempt_count < MaxAttempts
        <4>1. row = [Released(run, "WAITING_RETRY") EXCEPT !.retry_at = at]
          BY <3>3, <3>5 DEF StepFailed
        <4>2. row.status = "WAITING_RETRY" /\ row.retry_at = at
          BY <3>3, <4>1 DEF Released, Run
        <4> QED
          BY <3>1, <4>2
      <3>6. CASE ~(retry /\ run.attempt_count < MaxAttempts)
        <4>1. row = Released(run, "FAILED")
          BY <3>3, <3>6 DEF StepFailed
        <4>2. row.status = "FAILED" /\ row.attempt_count = run.attempt_count
          BY <3>3, <4>1 DEF Released, Run
        <4>3. retry => row.attempt_count >= MaxAttempts
          BY <3>4, <3>6, <4>2
        <4> QED
          BY <3>1, <4>2, <4>3
      <3> QED
        BY <3>5, <3>6
    <2> HIDE DEF row, failure
    <2>5. runs[j].status = "RUNNING"
      <3>1. Same(proc[p].run, runs[j])
        BY <1>1, <1>3, <1>5, <2>4, CurrentMoves DEF Blind
      <3> QED
        BY <2>1, <3>1 DEF Same
    <2>6. jobs[j].status \in {"RUNNING", "CANCELLED"}
      BY <1>2, <1>3, <2>5 DEF NowPaired, Paired, PairOK
    <2>7. /\ s.pc = "settling" /\ s.job = j /\ s.failure = failure
          /\ s.at = proc[p].at /\ s.attempt = proc[p].attempt
      <3>1. s = WithOutcome(proc[p], row, failure) /\ row \in Run
        BY <2>4 DEF WithOutcome, Moved
      <3> HIDE DEF s
      <3> QED
        BY <1>2, <1>3, <2>3, <3>1, WithOutcomeType
    <2> HIDE DEF s
    <2>8. HolderOK(s, jobs[j], row)
      <3>1. at = s.at + RetryDelay(s.attempt)
        BY <2>7
      <3>2. row.status = "WAITING_RETRY" => DueBy(row, at)
        BY <2>1, <2>4 DEF DueBy
      <3> HIDE DEF at, retry
      <3> QED
        BY <2>3, <2>4, <2>6, <2>7, <3>1, <3>2 DEF HolderOK, Holding, Unstarted
    <2>9. PairOK(jobs[j], row) /\ Clear(p, j, jobs[j], row)
      BY <2>4, <2>5, <2>6, ActivePairOK, AllAreClear
    <2>10. Replaces(j, jobs[j], row)
      BY <1>1, <2>2 DEF Inv, JobsOK, Replaces
    <2> QED
      BY <1>2, <1>3, <2>2, <2>7, <2>8, <2>9, <2>10, PairedWrites
  <1> QED
    BY <1>4, <1>5 DEF RecordFailure

\* A job that is being cancelled takes its run along, or leaves it as it is.
LEMMA CancelRunPairs ==
    ASSUME Inv, NowPaired, NEW p \in Processes, CancelRun(p)
    PROVE  NowPaired'
  <1>1. proc[p].pc = "cancelled" /\ Stop(p) /\ UNCHANGED jobs
    BY DEF CancelRun
  <1>2. PICK j \in JobIds : j = proc[p].job
    BY <1>1, Here
  <1>3. jobs[j].status = "CANCELLED"
    BY <1>1, <1>2 DEF NowPaired, Paired, HolderOK
  <1>4. CASE UNCHANGED runs
    BY <1>1, <1>4, PairedStops
  <1>5. ASSUME NEW row, runs' = [runs EXCEPT ![j] = row] PROVE NowPaired'
    <2>1. Replaces(j, jobs[j], row)
      BY <1>1, <1>5 DEF Inv, JobsOK, Replaces
    <2>2. PairOK(jobs[j], row) /\ Clear(p, j, jobs[j], row)
      BY <1>3, ActivePairOK, AllAreClear
    <2> QED
      BY <1>1, <2>1, <2>2, IdlePlace, PairedWrites DEF Stop
  <1> QED
    BY <1>2, <1>4, <1>5 DEF CancelRun, WriteRun

\* complete_job finds the run SUCCEEDED, and nobody holds the right to the job.
LEMMA CompletePairs ==
    ASSUME Inv, NowPaired, NEW p \in Processes, Complete(p)
    PROVE  NowPaired'
  <1>1. proc[p].pc = "completing" /\ UNCHANGED runs /\ Stop(p)
    BY DEF Complete
  <1>2. PICK j \in JobIds : j = proc[p].job
    BY <1>1, Here
  <1>3. runs[j].status = "SUCCEEDED"
    BY <1>1, <1>2, Here DEF ProcOK
  <1> DEFINE row == Transitioned(jobs[j], "SUCCEEDED", NoWorker, 0)
  <1>4. \/ jobs[j].status = "RUNNING" /\ jobs' = [jobs EXCEPT ![j] = row]
        \/ UNCHANGED jobs
    BY <1>2 DEF Complete, Inv, JobsOK
  <1>5. row.status = "SUCCEEDED"
    BY JobHere DEF Transitioned, Job
  <1> HIDE DEF row
  <1>6. CASE UNCHANGED jobs
    BY <1>1, <1>6, PairedStops
  <1>7. CASE jobs[j].status = "RUNNING" /\ jobs' = [jobs EXCEPT ![j] = row]
    <2>1. Replaces(j, row, runs[j])
      BY <1>1, <1>7 DEF Inv, RunsOK, Replaces
    <2>2. PairOK(row, runs[j]) /\ Clear(p, j, row, runs[j])
      BY <1>3, <1>5, <1>7, AllAreClear DEF PairOK
    <2> QED
      BY <1>1, <1>5, <1>7, <2>1, <2>2, IdlePlace, PairedWrites DEF Stop
  <1> QED
    BY <1>4, <1>6, <1>7

\* The job is requeued no earlier than the run waits for, because the backoff
\* never shrinks as attempts are counted, and not at all once the run failed.
LEMMA SettleJobPairs ==
    ASSUME Inv, NowPaired, NEW p \in Processes, SettleJob(p)
    PROVE  NowPaired'
  <1>1. proc[p].pc = "settling" /\ UNCHANGED runs /\ Stop(p)
    BY DEF SettleJob
  <1>2. PICK j \in JobIds, old \in Job, run \in Run :
            /\ j = proc[p].job /\ old = jobs[j] /\ run = runs[j]
            /\ proc[p].attempt \in 1..old.attempt_count /\ proc[p].at \in Int
    <2>1. proc[p].at \in -MaxDelay..0
      BY <1>1, Here DEF Process
    <2>2. proc[p].at \in Int
      BY <2>1, RecordAssumption
    <2> QED
      BY <1>1, <2>2, Here, JobHere
  <1> DEFINE retried == Retried(old, proc[p].at)
             failed == Transitioned(old, "FAILED", NoWorker, 0)
  <1>3. \/ UNCHANGED jobs
        \/ /\ old.status = "RUNNING"
           /\ \/ proc[p].failure = "transient" /\ jobs' = [jobs EXCEPT ![j] = retried]
              \/ jobs' = [jobs EXCEPT ![j] = failed]
    BY <1>2 DEF SettleJob, Inv, JobsOK
  <1>4. CASE UNCHANGED jobs
    BY <1>1, <1>4, PairedStops
  <1>5. old.status = "RUNNING" =>
            /\ run.status \in Unstarted \cup {"FAILED"}
            /\ (proc[p].failure = "transient" /\ run.status = "FAILED") =>
                    run.attempt_count >= MaxAttempts
            /\ run.status = "WAITING_RETRY" =>
                    DueBy(run, proc[p].at + RetryDelay(proc[p].attempt))
    <2>1. HolderOK(proc[p], old, run)
      BY <1>2 DEF NowPaired, Paired
    <2> QED
      BY <1>1, <2>1 DEF HolderOK, Holding
  <1>6. ASSUME old.status = "RUNNING", NEW row, jobs' = [jobs EXCEPT ![j] = row],
               row.status \in {"QUEUED", "FAILED"},
               row.status = "QUEUED" =>
                    /\ run.status # "FAILED"
                    /\ run.status = "WAITING_RETRY" => DueBy(run, row.available_at)
        PROVE  NowPaired'
    <2>1. Replaces(j, row, run)
      BY <1>1, <1>2, <1>6 DEF Inv, RunsOK, Replaces
    <2>2. PairOK(row, run)
      BY <1>5, <1>6 DEF PairOK, Unstarted
    <2>3. Clear(p, j, row, run)
      BY <1>1, <1>2, <1>6, OthersAreClear DEF Holding
    <2> QED
      BY <1>1, <1>2, <1>6, <2>1, <2>2, <2>3, IdlePlace, PairedWrites DEF Stop
  <1>7. CASE old.status = "RUNNING" /\ jobs' = [jobs EXCEPT ![j] = failed]
    <2>1. failed.status = "FAILED"
      BY DEF Transitioned, Job
    <2> HIDE DEF failed
    <2> QED
      BY <1>6, <1>7, <2>1
  <1>8. CASE /\ old.status = "RUNNING" /\ proc[p].failure = "transient"
             /\ jobs' = [jobs EXCEPT ![j] = retried]
    <2>1. /\ DeadLettered(old, proc[p].at).status = "FAILED"
          /\ Requeued(old, proc[p].at).status = "QUEUED"
          /\ Requeued(old, proc[p].at).available_at = proc[p].at + RetryDelay(old.attempt_count)
      BY DEF DeadLettered, Requeued, Job
    <2>2. CASE ~CanRetry(old)
      <3>1. retried.status = "FAILED"
        BY <2>1, <2>2 DEF Retried
      <3> HIDE DEF retried
      <3> QED
        BY <1>6, <1>8, <3>1
    <2>3. CASE CanRetry(old)
      <3>1. retried.status = "QUEUED"
            /\ retried.available_at = proc[p].at + RetryDelay(old.attempt_count)
        BY <2>1, <2>3 DEF Retried
      <3>2. run.status # "FAILED"
        <4>1. run.attempt_count <= old.attempt_count
          <5>1. /\ IsFiniteSet(Pending(proc, j))
                /\ run.attempt_count + Cardinality(Pending(proc, j)) <= old.attempt_count
            BY <1>2 DEF Inv, Budgeted
          <5>2. /\ Cardinality(Pending(proc, j)) \in Nat
                /\ run.attempt_count \in Nat /\ old.attempt_count \in Nat
            BY <5>1, FS_CardinalityType DEF Run, Job
          <5> QED
            BY <5>1, <5>2
        <4>2. old.attempt_count < MaxAttempts
          BY <1>2, <2>3, JobHere DEF CanRetry
        <4>3. run.attempt_count \in Nat /\ old.attempt_count \in Nat /\ MaxAttempts \in Nat
          BY RunAssumption DEF Run, Job
        <4> QED
          BY <1>5, <1>8, <4>1, <4>2, <4>3
      <3>3. run.status = "WAITING_RETRY" => DueBy(run, retried.available_at)
        <4> DEFINE d == RetryDelay(proc[p].attempt)
                   e == RetryDelay(old.attempt_count)
        <4>1. d \in Int /\ e \in Int /\ d <= e
          <5>1. /\ proc[p].attempt \in Nat /\ old.attempt_count \in Nat
                /\ proc[p].attempt <= old.attempt_count
            BY <1>2 DEF Job
          <5>2. d \in 0..MaxDelay /\ e \in 0..MaxDelay /\ d <= e
            BY <5>1, RetryDelayGrows
          <5> HIDE DEF d, e
          <5> QED
            BY <5>2, RecordAssumption
        <4>2. run.retry_at \in Int
          BY DEF Run
        <4>3. run.status = "WAITING_RETRY" => DueBy(run, proc[p].at + d)
          BY <1>5, <1>8
        <4>4. retried.available_at = proc[p].at + e
          BY <3>1
        <4> HIDE DEF d, e, retried
        <4> QED
          BY <1>2, <4>1, <4>2, <4>3, <4>4 DEF DueBy
      <3> HIDE DEF retried
      <3> QED
        BY <1>6, <1>8, <3>1, <3>2, <3>3
    <2> QED
      BY <2>2, <2>3
  <1> QED
    BY <1>3, <1>4, <1>7, <1>8

\* claim_next_job takes a QUEUED job, to which nobody holds the right.
LEMMA ClaimPairs ==
    ASSUME Inv, NowPaired, NEW p \in Processes, Claim(p)
    PROVE  NowPaired'
  <1>1. PICK j \in JobIds :
            /\ IsClaimable(jobs[j], jobs[j].job_type, 0)
            /\ jobs' = [jobs EXCEPT ![j] = Transitioned(@, "RUNNING", IdOf[p], 0)]
            /\ Become(p, [IdleProcess EXCEPT !.pc = "claimed", !.job = j, !.id = IdOf[p],
                                             !.attempt = jobs'[j].attempt_count])
    BY DEF Claim
  <1> DEFINE row == Transitioned(jobs[j], "RUNNING", IdOf[p], 0)
             n == jobs'[j].attempt_count
             s == [IdleProcess EXCEPT !.pc = "claimed", !.job = j, !.id = IdOf[p], !.attempt = n]
  <1>2. jobs[j].status = "QUEUED" /\ row.status = "RUNNING" /\ UNCHANGED runs
    BY <1>1, JobHere DEF Claim, IsClaimable, Transitioned, Job
  <1>3. jobs' = [jobs EXCEPT ![j] = row] /\ Become(p, s)
    BY <1>1
  <1> HIDE DEF row, n
  <1>4. s.pc = "claimed" /\ s.job = j
    BY DEF IdleProcess
  <1> HIDE DEF s
  <1>5. Replaces(j, row, runs[j])
    BY <1>2, <1>3 DEF Inv, RunsOK, Replaces
  <1>6. PairOK(jobs[j], runs[j])
    BY DEF NowPaired, Paired
  <1>7. PairOK(row, runs[j]) /\ Clear(p, j, row, runs[j])
    BY <1>2, <1>6, ActivePairOK, AllAreClear DEF PairOK, Unstarted
  <1>8. HolderOK(s, row, runs[j])
    BY <1>2, <1>4, <1>6 DEF HolderOK, Holding, PairOK
  <1> QED
    BY <1>2, <1>3, <1>4, <1>5, <1>7, <1>8, PairedWrites

----------------------------------------------------------------------------
(* Where no operator retries, or none interferes.                          *)

LEMMA WorkPairs ==
    ASSUME Inv, NowPaired, NEW p \in Processes, Work(p)
    PROVE  NowPaired'
  BY FindRunPairs, StartPairs, GuardPairs, RunStepPairs, CompletePairs, ReadAgainPairs,
     RecordFailurePairs, SettleJobPairs, CancelRunPairs, RecoveryPairs DEF Work

LEMMA OtherPairs ==
    ASSUME "retry" \notin OperatorActions, Inv, NowPaired, Others
    PROVE  NowPaired'
  <1>1. ASSUME NEW j \in JobIds, EnqueueJob(j) \/ AbandonAdmission(j) \/ OperatorCancel(j)
        PROVE  NowPaired'
    BY <1>1, EnqueueJobPairs, AbandonAdmissionPairs, OperatorCancelPairs
  <1>2. ASSUME NEW p \in Processes, Claim(p) PROVE NowPaired'
    BY <1>2, ClaimPairs
  <1>3. ASSUME NEW p \in Processes, Crash(p) \/ Restart(p) PROVE NowPaired'
    <2>1. CASE Restart(p)
      BY <2>1, PairedStops DEF Restart
    <2>2. CASE Crash(p)
      <3> DEFINE s == WithDeath(IdleProcess, proc[p].job, proc[p].attempt)
      <3>1. Become(p, s) /\ UNCHANGED <<jobs, runs>>
        BY <2>2 DEF Crash, WithDeath
      <3>2. s.pc = "down"
        BY DEF WithDeath, IdleProcess
      <3> HIDE DEF s
      <3> QED
        BY <3>1, <3>2, PairedMoves DEF Holding
    <2> QED
      BY <1>3, <2>1, <2>2
  <1>4. ASSUME NEW p \in Processes, NEW j \in JobIds, Recover(p, j) PROVE NowPaired'
    BY <1>4, RecoveryPairs
  <1> QED
    BY <1>1, <1>2, <1>3, <1>4 DEF Others, OperatorRetry

LEMMA StepPairs ==
    ASSUME "retry" \notin OperatorActions, Inv, NowPaired, [Next]_vars
    PROVE  NowPaired'
  <1>1. CASE UNCHANGED vars
    BY <1>1 DEF vars, NowPaired
  <1>2. CASE Tick
    BY <1>2, TickPairs
  <1>3. CASE Others
    BY <1>3, OtherPairs
  <1>4. ASSUME NEW j \in JobIds, CreateRun(j) PROVE NowPaired'
    BY <1>4, CreateRunPairs
  <1>5. ASSUME NEW p \in Processes, Work(p) PROVE NowPaired'
    BY <1>5, WorkPairs
  <1> QED
    BY <1>1, <1>2, <1>3, <1>4, <1>5, NextSplits

LEMMA InitPaired == Init => NowPaired
  <1> SUFFICES ASSUME Init PROVE NowPaired
    OBVIOUS
  <1>1. \A j \in JobIds : PairOK(jobs[j], runs[j])
    <2>1. AbsentRun.status = "NONE"
      BY DEF AbsentRun
    <2> QED
      BY <2>1, AbsentJobOK DEF Init, PairOK, Unstarted
  <1>2. \A p \in Processes : proc[p] = IdleProcess
    BY DEF Init
  <1>3. \A p \in Processes : HolderOK(proc[p], jobs[proc[p].job], runs[proc[p].job])
    BY <1>2, IdlePlace, IdleHolds DEF Holding
  <1>4. Alone(proc, jobs)
    BY <1>2, IdlePlace DEF Alone
  <1>5. \A j \in JobIds : admission[j] # "enqueued"
    BY DEF Init
  <1> QED
    BY <1>1, <1>3, <1>4, <1>5 DEF NowPaired, Paired

LEMMA PairedHolds ==
    ASSUME "retry" \notin OperatorActions
    PROVE  Spec => [](Inv /\ NowPaired)
  <1>1. Init => Inv /\ NowPaired
    BY InitHolds, InitPaired
  <1>2. (Inv /\ NowPaired) /\ [Next]_vars => (Inv /\ NowPaired)'
    BY StepHolds, StepPairs
  <1> QED
    BY <1>1, <1>2, PTL DEF Spec

\* docs/slices/0926: the backoff of a job and the WAITING_RETRY deadline of its
\* run are computed apart, from two clocks and two attempt counts, by whichever
\* of an execution and a recovery records the failure; yet a job that
\* claim_next_job takes never finds its run not ready, as long as no operator
\* retries the job in between.
THEOREM BackoffsInStep ==
    ASSUME "retry" \notin OperatorActions
    PROVE  Spec => []RetryInStep
  <1>1. Inv /\ NowPaired => RetryInStep
    <2> SUFFICES ASSUME Inv, NowPaired, NEW j \in JobIds,
                        IsClaimable(jobs[j], jobs[j].job_type, 0),
                        runs[j].status = "WAITING_RETRY"
                 PROVE  runs[j].retry_at <= 0
      BY DEF RetryInStep
    <2>1. jobs[j].available_at \in Int /\ runs[j].retry_at \in Int
      BY JobHere DEF Job, Run
    <2>2. jobs[j].available_at <= 0 /\ DueBy(runs[j], jobs[j].available_at)
      BY DEF NowPaired, Paired, PairOK, IsClaimable
    <2> QED
      BY <2>1, <2>2 DEF DueBy
  <1> QED
    BY <1>1, PairedHolds, PTL

\* A job and a run that are both final disagree only if an operator cancelled
\* the job: complete_job, fail_job and retry_job, called by an execution or a
\* recovery after its own write to the run, never settle the job of a run that
\* somebody else has taken further.
OnlyCancelledDisagree ==
    \A j \in JobIds :
        /\ jobs[j].status \in {"SUCCEEDED", "FAILED"}
        /\ runs[j].status \in TERMINAL_INGESTION_RUN_STATUSES
        => jobs[j].status = runs[j].status

LEMMA PairedAgree ==
    ASSUME Inv, NowPaired
    PROVE  OnlyCancelledDisagree
  <1> SUFFICES ASSUME NEW j \in JobIds, jobs[j].status \in {"SUCCEEDED", "FAILED"},
                      runs[j].status \in TERMINAL_INGESTION_RUN_STATUSES
               PROVE  jobs[j].status = runs[j].status
    BY DEF OnlyCancelledDisagree
  <1>1. jobs[j].status = "SUCCEEDED" => runs[j].status = "SUCCEEDED"
    BY JobHere DEF JobOK
  <1>2. jobs[j].status = "FAILED" => runs[j].status \in Unstarted \cup {"FAILED"}
    BY DEF NowPaired, Paired, PairOK
  <1> QED
    BY <1>1, <1>2 DEF Unstarted, TERMINAL_INGESTION_RUN_STATUSES

\* What settles the job comes after what settles the run, in another
\* transaction, and several processes may be on the way there; only cancel_job
\* makes the two ends differ, as long as no operator retries the job.
THEOREM DisagreementIsCancellation ==
    ASSUME "retry" \notin OperatorActions
    PROVE  Spec => []OnlyCancelledDisagree
  <1>1. Inv /\ NowPaired => OnlyCancelledDisagree
    BY PairedAgree
  <1> QED
    BY <1>1, PairedHolds, PTL

\* Nothing but an operator cancels a job.
NoneCancelled == \A j \in JobIds : jobs[j].status # "CANCELLED"

LEMMA StepNoneCancelled ==
    ASSUME OperatorActions = {}, Inv, NoneCancelled, [Next]_vars
    PROVE  NoneCancelled'
  <1> SUFFICES ASSUME NEW j \in JobIds PROVE jobs'[j].status # "CANCELLED"
    BY DEF NoneCancelled
  <1>1. jobs[j] \in Job /\ jobs \in [JobIds -> Job] /\ jobs[j].status # "CANCELLED"
    BY JobHere DEF Inv, JobsOK, NoneCancelled
  <1>2. CASE UNCHANGED jobs
    BY <1>1, <1>2
  <1>3. CASE Tick
    BY <1>1, <1>3 DEF Tick, Job
  <1>4. ASSUME NEW k \in JobIds, EnqueueJob(k) PROVE jobs'[j].status # "CANCELLED"
    BY <1>1, <1>4 DEF EnqueueJob, Job
  <1>5. ASSUME NEW k, NEW s \in {"RUNNING", "SUCCEEDED", "FAILED"}, NEW w,
               jobs' = [jobs EXCEPT ![k] = Transitioned(@, s, w, 0)]
        PROVE  jobs'[j].status # "CANCELLED"
    BY <1>1, <1>5 DEF Transitioned, Job
  <1>6. ASSUME NEW k, NEW t, jobs' = [jobs EXCEPT ![k] = Retried(@, t)]
        PROVE  jobs'[j].status # "CANCELLED"
    BY <1>1, <1>6 DEF Retried, Requeued, DeadLettered, Job
  <1>7. ASSUME NEW p \in Processes, Claim(p) \/ Complete(p) \/ SettleJob(p)
        PROVE  jobs'[j].status # "CANCELLED"
    <2>1. CASE Claim(p)
      BY <1>5, <2>1 DEF Claim
    <2>2. CASE Complete(p)
      BY <1>1, <1>5, <2>2 DEF Complete
    <2>3. CASE SettleJob(p)
      BY <1>1, <1>5, <1>6, <2>3 DEF SettleJob
    <2> QED
      BY <1>7, <2>1, <2>2, <2>3
  <1>8. \/ UNCHANGED jobs \/ Tick \/ \E k \in JobIds : EnqueueJob(k)
        \/ \E p \in Processes : Claim(p) \/ Complete(p) \/ SettleJob(p)
    BY DEF Next, Work, vars, CreateRun, AbandonAdmission, OperatorCancel, OperatorRetry, Crash,
           Restart, Recover, FindRun, RequeueRun, ClaimRun, Guard, RunStep, ReadFailed, RecordFailure,
           ReadCancelled, CancelRun, FindExpired
  <1> QED
    BY <1>2, <1>3, <1>4, <1>7, <1>8

\* Where no operator interferes, a job and a run that are both final agree,
\* whichever of the executions and recoveries wrote which of the two rows, in
\* two stores that no transaction covers together.
THEOREM TerminalRowsAgree ==
    ASSUME OperatorActions = {}
    PROVE  Spec => []TerminalsAgree
  <1>1. "retry" \notin OperatorActions
    OBVIOUS
  <1>2. Init => NoneCancelled
    BY AbsentJobOK DEF Init, NoneCancelled
  <1>3. Inv /\ NoneCancelled /\ [Next]_vars => NoneCancelled'
    BY StepNoneCancelled
  <1>4. Inv /\ NowPaired /\ NoneCancelled => TerminalsAgree
    BY PairedAgree DEF TerminalsAgree, OnlyCancelledDisagree, NoneCancelled, TERMINAL_JOB_STATUSES
  <1>5. Spec => [](Inv /\ NowPaired)
    BY <1>1, PairedHolds
  <1> QED
    BY <1>2, <1>3, <1>4, <1>5, PTL DEF Spec

----------------------------------------------------------------------------
(* The queue's promise holds for the ingestion jobs.                       *)

Lifecycle == INSTANCE JobLifecycle WITH
    phase <- PhasesOf(JobIds, jobs), used <- UsedOf(JobIds, jobs),
    budget <- BudgetsOf(JobIds, jobs)

LEMMA PromisedStep ==
    ASSUME NEW j \in JobIds,
           Promised(j, PhasesOf(JobIds, jobs), UsedOf(JobIds, jobs), BudgetsOf(JobIds, jobs),
               PhasesOf(JobIds, jobs'), UsedOf(JobIds, jobs'), BudgetsOf(JobIds, jobs'))
    PROVE  Lifecycle!Next
  <1>1. Lifecycle!Submit(j) \/ Lifecycle!Start(j) \/ Lifecycle!Requeue(j)
        \/ Lifecycle!Finish(j) \/ Lifecycle!Cancel(j)
    BY DEF Promised, Lifecycle!Submit, Lifecycle!Start, Lifecycle!Requeue, Lifecycle!Finish,
           Lifecycle!Cancel, Lifecycle!Move, Lifecycle!Ended
  <1> QED
    BY <1>1 DEF Lifecycle!Next

LEMMA RowFollows ==
    ASSUME Inv, NEW j \in JobIds, NEW row, jobs' = [jobs EXCEPT ![j] = row],
           Advances(jobs[j], row) \/ Submits(jobs[j], row)
    PROVE  Lifecycle!Next
  BY RowIsPromised, PromisedStep DEF Inv, JobsOK

\* The steps that write a job, each with the row it writes.
Writes(j) ==
    \/ UNCHANGED jobs
    \/ /\ jobs[j].status = "NONE"
       /\ jobs' = [jobs EXCEPT ![j] = [jobs[j] EXCEPT !.status = "QUEUED"]]
    \/ \E s \in JOB_STATUSES, w \in Workers \cup {NoWorker} :
        /\ CanTransition(jobs[j], s)
        /\ jobs' = [jobs EXCEPT ![j] = Transitioned(jobs[j], s, w, 0)]
    \/ \E t \in Int :
        jobs[j].status = "RUNNING" /\ jobs' = [jobs EXCEPT ![j] = Retried(jobs[j], t)]

LEMMA WriteFollows ==
    ASSUME Inv, NEW j \in JobIds, Writes(j)
    PROVE  [Lifecycle!Next]_(Lifecycle!vars)
  <1>1. PICK old : old = jobs[j]
    OBVIOUS
  <1>2. RowOK(old, 0) /\ old \in Job
    BY <1>1, JobHere
  <1>3. CASE UNCHANGED jobs
    BY <1>3 DEF Lifecycle!vars
  <1>4. CASE /\ old.status = "NONE"
             /\ jobs' = [jobs EXCEPT ![j] = [old EXCEPT !.status = "QUEUED"]]
    <2> DEFINE row == [old EXCEPT !.status = "QUEUED"]
    <2>1. /\ row.status = "QUEUED" /\ row.attempt_count = old.attempt_count
          /\ row.max_attempts = old.max_attempts /\ old.max_attempts \in Nat \ {0}
      BY <1>2 DEF Job
    <2>2. jobs' = [jobs EXCEPT ![j] = row]
      BY <1>4
    <2> HIDE DEF row
    <2>3. Submits(old, row)
      BY <1>4, <2>1 DEF Submits, Phase
    <2> QED
      BY <1>1, <2>2, <2>3, RowFollows
  <1>5. ASSUME NEW s \in JOB_STATUSES, NEW w \in Workers \cup {NoWorker},
               CanTransition(old, s), jobs' = [jobs EXCEPT ![j] = Transitioned(old, s, w, 0)]
        PROVE  Lifecycle!Next
    BY <1>1, <1>2, <1>5, TransitionedAdvances, RowFollows
  <1>6. ASSUME NEW t \in Int, old.status = "RUNNING",
               jobs' = [jobs EXCEPT ![j] = Retried(old, t)]
        PROVE  Lifecycle!Next
    BY <1>1, <1>2, <1>6, RetriedAdvances, RowFollows
  <1> QED
    BY <1>1, <1>3, <1>4, <1>5, <1>6 DEF Writes

\* Time passes for the deadlines only.
LEMMA TickStutters == ASSUME Inv, Tick PROVE UNCHANGED Lifecycle!vars
  <1>1. jobs' = [j \in JobIds |-> [jobs[j] EXCEPT !.available_at = Earlier(@, 0)]]
    BY DEF Tick
  <1>2. ASSUME NEW j \in JobIds
        PROVE  /\ jobs'[j].attempt_count = jobs[j].attempt_count
               /\ jobs'[j].max_attempts = jobs[j].max_attempts
               /\ Phase(jobs'[j]) = Phase(jobs[j])
    <2>1. jobs[j] \in Job /\ jobs'[j] = [jobs[j] EXCEPT !.available_at = Earlier(@, 0)]
      BY <1>1, JobHere
    <2>2. /\ jobs'[j].status = jobs[j].status /\ jobs'[j].error = jobs[j].error
          /\ jobs'[j].attempt_count = jobs[j].attempt_count
          /\ jobs'[j].max_attempts = jobs[j].max_attempts
      BY <2>1 DEF Job
    <2> QED
      BY <2>2 DEF Phase
  <1> QED
    BY <1>2 DEF Lifecycle!vars, PhasesOf, UsedOf, BudgetsOf

LEMMA StepWrites ==
    ASSUME Inv, [Next]_vars
    PROVE  Tick \/ UNCHANGED jobs \/ \E j \in JobIds : Writes(j)
  <1> DEFINE Written == UNCHANGED jobs \/ \E j \in JobIds : Writes(j)
  <1>1. /\ NoWorker \in Workers \cup {NoWorker}
        /\ {"RUNNING"} \cup TERMINAL_JOB_STATUSES \subseteq JOB_STATUSES
        /\ {"SUCCEEDED", "FAILED", "CANCELLED"} \subseteq TERMINAL_JOB_STATUSES
    BY DEF JOB_STATUSES, TERMINAL_JOB_STATUSES
  <1>2. ASSUME NEW j \in JobIds, jobs[j].status = "RUNNING"
        PROVE  CanTransition(jobs[j], "SUCCEEDED") /\ CanTransition(jobs[j], "FAILED")
    BY <1>2 DEF CanTransition, VALID_JOB_TRANSITIONS, TERMINAL_JOB_STATUSES
  <1>3. ASSUME NEW j \in JobIds, jobs' = [jobs EXCEPT ![j] = jobs[j]] PROVE UNCHANGED jobs
    BY <1>3 DEF Inv, JobsOK
  <1>4. ASSUME NEW j \in JobIds, EnqueueJob(j) PROVE Written
    BY <1>3, <1>4 DEF EnqueueJob, Writes
  <1>5. ASSUME NEW j \in JobIds, OperatorCancel(j) PROVE Written
    BY <1>1, <1>5 DEF OperatorCancel, Writes
  <1>6. ASSUME NEW j \in JobIds, OperatorRetry(j) PROVE Written
    <2>1. /\ 0 \in Int /\ jobs[j].status = "RUNNING"
          /\ jobs' = [jobs EXCEPT ![j] = Retried(jobs[j], 0)]
      BY <1>6 DEF OperatorRetry
    <2> QED
      BY <2>1 DEF Writes
  <1>7. ASSUME NEW p \in Processes, Claim(p) PROVE Written
    <2>1. PICK j \in JobIds :
            /\ IsClaimable(jobs[j], jobs[j].job_type, 0)
            /\ jobs' = [jobs EXCEPT ![j] = Transitioned(jobs[j], "RUNNING", IdOf[p], 0)]
      BY <1>7 DEF Claim
    <2>2. CanTransition(jobs[j], "RUNNING") /\ IdOf[p] \in Workers
      BY <2>1, IngestionAssumption DEF IsClaimable, CanTransition, VALID_JOB_TRANSITIONS
    <2> QED
      BY <1>1, <2>1, <2>2 DEF Writes
  <1>8. ASSUME NEW p \in Processes, Complete(p) \/ SettleJob(p) PROVE Written
    <2> DEFINE j == proc[p].job
    <2>1. j \in JobIds
      BY <1>8, Here DEF Complete, SettleJob
    <2>2. CASE Complete(p)
      BY <1>1, <1>2, <1>3, <2>1, <2>2 DEF Complete, Writes
    <2>3. CASE SettleJob(p)
      <3>1. proc[p].at \in Int
        BY <2>3, Here, RecordAssumption DEF SettleJob, Process
      <3> QED
        BY <1>1, <1>2, <1>3, <2>1, <2>3, <3>1 DEF SettleJob, Writes
    <2> QED
      BY <1>8, <2>2, <2>3
  <1>9. ASSUME NEW j \in JobIds, CreateRun(j) \/ AbandonAdmission(j) PROVE UNCHANGED jobs
    BY <1>9 DEF CreateRun, AbandonAdmission
  <1>10. ASSUME NEW p \in Processes,
                Crash(p) \/ Restart(p) \/ FindRun(p) \/ RequeueRun(p) \/ ClaimRun(p) \/ Guard(p)
                \/ RunStep(p) \/ ReadFailed(p) \/ RecordFailure(p) \/ ReadCancelled(p) \/ CancelRun(p)
                \/ FindExpired(p) \/ \E j \in JobIds : Recover(p, j)
         PROVE  UNCHANGED jobs
    BY <1>10 DEF Crash, Restart, FindRun, RequeueRun, ClaimRun, Guard, RunStep, ReadFailed, RecordFailure,
                 ReadCancelled, CancelRun, FindExpired, Recover
  <1>11. CASE UNCHANGED vars
    BY <1>11 DEF vars
  <1> QED
    BY <1>4, <1>5, <1>6, <1>7, <1>8, <1>9, <1>10, <1>11 DEF Next, Work

IngestionJobsFollowLifecycle == Lifecycle!Spec

\* Admission, workers, recoveries of expired leases and operators together keep
\* what the job queue promises of each ingestion job: no attempt beyond its
\* budget and no way back from an end, in step with its run or not.
THEOREM IngestionJobsKeepThePromise == Spec => IngestionJobsFollowLifecycle
  <1>1. Init => Lifecycle!Init
    <2> SUFFICES ASSUME Init PROVE Lifecycle!Init
      OBVIOUS
    <2>1. \A j \in JobIds : /\ jobs[j].status = "NONE" /\ jobs[j].attempt_count = 0
                            /\ jobs[j].max_attempts \in Nat \ {0}
      BY AbsentJobOK, RunAssumption DEF Init
    <2> QED
      BY <2>1 DEF Lifecycle!Init, PhasesOf, UsedOf, BudgetsOf, Phase
  <1>2. Inv /\ [Next]_vars => [Lifecycle!Next]_(Lifecycle!vars)
    <2> SUFFICES ASSUME Inv, [Next]_vars PROVE [Lifecycle!Next]_(Lifecycle!vars)
      OBVIOUS
    <2>1. CASE UNCHANGED jobs
      BY <2>1 DEF Lifecycle!vars
    <2> QED
      BY <2>1, StepWrites, WriteFollows, TickStutters
  <1> QED
    BY <1>1, <1>2, InvHolds, PTL DEF Spec, IngestionJobsFollowLifecycle, Lifecycle!Spec
=============================================================================
