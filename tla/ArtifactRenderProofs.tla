------------------------ MODULE ArtifactRenderProofs ------------------------
(***************************************************************************)
(* Safety of ArtifactRender for every number of renders, workers, requests *)
(* in flight, attempts and faults, and the promise of the job queue.       *)
(*                                                                         *)
(* What makes the checked properties inductive is that every copy of the   *)
(* record which a process holds meets them too: a copy that says COMPLETED *)
(* has the files, and one that says CANCELLED is of a job that will stay   *)
(* cancelled.  A save then replaces one such record by another, and adds   *)
(* to the files.                                                           *)
(***************************************************************************)
EXTENDS ArtifactRender, JobRecordProofs, FiniteSetTheorems, TLAPS

\* The record a has files that were rendered for j.
Published(a, j) == \E f \in a.files : f[2] = j

\* A record, stored or copied, that shows nothing which was not rendered.
Sound(a) ==
    /\ a \in Artifact
    /\ IsFiniteSet(a.files)
    /\ \A j \in JobIds : a.rows[j] = "COMPLETED" => Published(a, j)
    /\ a.status = "READY" => a.current \in Versions(a)

\* A record whose cancelled rows belong to cancelled jobs of the table.
Cancels(a, table) ==
    \A j \in JobIds : a.rows[j] = "CANCELLED" => table[j].status = "CANCELLED"

RowsOK(table) ==
    /\ table \in [JobIds -> Job]
    /\ \A j \in JobIds : RowOK(table[j], 0)

\* Whoever succeeded has files.
Succeeds(a, table) ==
    \A j \in JobIds : table[j].status = "SUCCEEDED" => Published(a, j)

ProcessOK(q, a, table) ==
    /\ q \in Process
    /\ q.pc # "idle" => q.job \in JobIds
    /\ Sound(q.copy) /\ Cancels(q.copy, table)
    /\ q.pc = "saving" =>
        /\ q.row # "COMPLETED" /\ q.next # "completing"
        /\ q.row = "CANCELLED" => table[q.job].status = "CANCELLED"
    /\ q.pc = "writing" /\ q.next = "completing" => Published(q.copy, q.job)
    /\ q.pc = "completing" => Published(a, q.job)

ProcessesOK(processes, a, table) ==
    /\ processes \in [Processes -> Process]
    /\ \A p \in Processes : ProcessOK(processes[p], a, table)

IInv ==
    /\ RowsOK(jobs)
    /\ Sound(artifact) /\ Cancels(artifact, jobs) /\ Succeeds(artifact, jobs)
    /\ ProcessesOK(process, artifact, jobs)
    /\ faults \in 0..MaxFaults

LEMMA IInvImplies == IInv => TypeOK /\ SucceededIsPublished /\ CancelledIsFinal
  <1> SUFFICES ASSUME IInv PROVE TypeOK /\ SucceededIsPublished /\ CancelledIsFinal
    OBVIOUS
  <1>1. TypeOK
    BY DEF IInv, RowsOK, RowOK, Sound, ProcessesOK, TypeOK
  <1>2. ASSUME NEW j \in JobIds, Published(artifact, j)
        PROVE  \E v \in Versions(artifact) : <<v, j>> \in artifact.files
    <2>1. artifact.files \subseteq Nat \X JobIds
      BY DEF IInv, Sound, Artifact
    <2>2. PICK f \in artifact.files : f[2] = j
      BY <1>2 DEF Published
    <2>3. f = <<f[1], j>> /\ f[1] \in Versions(artifact)
      BY <2>1, <2>2 DEF Versions
    <2> QED
      BY <2>2, <2>3
  <1>3. SucceededIsPublished
    BY <1>2 DEF IInv, Sound, Succeeds, SucceededIsPublished
  <1>4. CancelledIsFinal
    BY DEF IInv, Cancels, CancelledIsFinal
  <1> QED
    BY <1>1, <1>3, <1>4

----------------------------------------------------------------------------
(* Steps of the table, the record and one process.                         *)

\* The files only grow and no cancelled job comes back.
Keeps(a, table, b, new) ==
    /\ a.files \subseteq b.files
    /\ \A j \in JobIds : table[j].status = "CANCELLED" => new[j].status = "CANCELLED"

LEMMA StaysOK ==
    ASSUME NEW a, NEW table, NEW b, NEW new, Keeps(a, table, b, new),
           NEW q, ProcessOK(q, a, table)
    PROVE  ProcessOK(q, b, new)
  <1>1. \A j : Published(a, j) => Published(b, j)
    BY DEF Keeps, Published
  <1>2. Cancels(q.copy, new)
    BY DEF Keeps, Cancels, ProcessOK
  <1>3. q.pc = "saving" /\ q.row = "CANCELLED" => new[q.job].status = "CANCELLED"
    BY DEF Keeps, ProcessOK
  <1> QED
    BY <1>1, <1>2, <1>3 DEF ProcessOK

\* A step of one process.
LEMMA OneProcess ==
    ASSUME IInv, NEW p \in Processes, NEW q, Become(p, q),
           ProcessOK(q, artifact', jobs'),
           RowsOK(jobs'), Sound(artifact'), Cancels(artifact', jobs'), Succeeds(artifact', jobs'),
           Keeps(artifact, jobs, artifact', jobs'),
           faults' \in 0..MaxFaults
    PROVE  IInv'
  <1>1. process \in [Processes -> Process]
    BY DEF IInv, ProcessesOK
  <1>2. \A r \in Processes : process'[r] = IF r = p THEN q ELSE process[r]
    BY <1>1 DEF Become
  <1>3. process' \in [Processes -> Process]
    BY <1>1 DEF Become, ProcessOK
  <1>4. \A r \in Processes : ProcessOK(process'[r], artifact', jobs')
    BY <1>2, StaysOK DEF IInv, ProcessesOK
  <1>5. ProcessesOK(process', artifact', jobs')
    BY <1>3, <1>4 DEF ProcessesOK
  <1> QED
    BY <1>5 DEF IInv

\* A step of one process alone.
LEMMA ProcessStep ==
    ASSUME IInv, NEW p \in Processes, NEW q, Become(p, q), ProcessOK(q, artifact, jobs),
           UNCHANGED <<jobs, artifact>>, faults' \in 0..MaxFaults
    PROVE  IInv'
  BY OneProcess DEF IInv, Keeps

\* A row that replaces the row of j.
Replaces(row, j) ==
    /\ RowOK(row, 0)
    /\ jobs[j].status = "CANCELLED" => row.status = "CANCELLED"
    /\ row.status = "SUCCEEDED" => Published(artifact, j)

LEMMA RowStep ==
    ASSUME IInv, NEW j \in JobIds, NEW row, Replaces(row, j), SetJob(j, row),
           UNCHANGED artifact
    PROVE  /\ RowsOK(jobs') /\ Cancels(artifact', jobs') /\ Succeeds(artifact', jobs')
           /\ Keeps(artifact, jobs, artifact', jobs')
  <1>1. jobs \in [JobIds -> Job] /\ row \in Job
    BY DEF IInv, RowsOK, Replaces, RowOK
  <1>2. \A i \in JobIds : jobs'[i] = IF i = j THEN row ELSE jobs[i]
    BY <1>1 DEF SetJob
  <1>3. jobs' \in [JobIds -> Job]
    BY <1>1 DEF SetJob
  <1>4. RowsOK(jobs')
    BY <1>2, <1>3 DEF IInv, RowsOK, Replaces
  <1>5. Keeps(artifact, jobs, artifact', jobs')
    BY <1>2 DEF Replaces, Keeps
  <1>6. Cancels(artifact', jobs')
    BY <1>5 DEF IInv, Cancels, Keeps
  <1>7. Succeeds(artifact', jobs')
    BY <1>2 DEF IInv, Succeeds, Replaces
  <1> QED
    BY <1>4, <1>5, <1>6, <1>7

\* A step of one row and one process.
LEMMA RowAndProcess ==
    ASSUME IInv, NEW j \in JobIds, NEW row, Replaces(row, j), SetJob(j, row),
           NEW p \in Processes, NEW q, Become(p, q), ProcessOK(q, artifact', jobs'),
           UNCHANGED <<artifact, faults>>
    PROVE  IInv'
  <1>1. Sound(artifact') /\ faults' \in 0..MaxFaults
    BY DEF IInv
  <1>2. UNCHANGED artifact
    OBVIOUS
  <1> QED
    BY <1>1, <1>2, RowStep, OneProcess

\* An operator's step of one row.
LEMMA RowAlone ==
    ASSUME IInv, NEW j \in JobIds, NEW row, Replaces(row, j), SetJob(j, row),
           UNCHANGED <<artifact, process, faults>>
    PROVE  IInv'
  <1>1. UNCHANGED artifact /\ UNCHANGED process /\ UNCHANGED faults
    OBVIOUS
  <1>2. ProcessesOK(process', artifact', jobs')
    BY <1>1, RowStep, StaysOK DEF IInv, ProcessesOK
  <1> QED
    BY <1>1, <1>2, RowStep DEF IInv

----------------------------------------------------------------------------
(* Rows.                                                                   *)

LEMMA TransitionReplaces ==
    ASSUME IInv, NEW j \in JobIds, NEW s \in JOB_STATUSES, CanTransition(jobs[j], s),
           s = "SUCCEEDED" => Published(artifact, j),
           NEW w \in Workers \cup {NoWorker}, NEW u \in Int, u <= 0
    PROVE  LET row == Transitioned(jobs[j], s, w, u) IN Replaces(row, j) /\ row.status = s
  <1> DEFINE row == Transitioned(jobs[j], s, w, u)
  <1>1. RowOK(jobs[j], 0)
    BY DEF IInv, RowsOK
  <1>2. RowOK(row, 0)
    BY <1>1, TransitionedOK
  <1>3. row.status = s
    BY <1>1 DEF RowOK, Job, Transitioned
  <1>4. jobs[j].status # "CANCELLED"
    BY DEF CanTransition, VALID_JOB_TRANSITIONS
  <1> QED
    BY <1>2, <1>3, <1>4 DEF Replaces

LEMMA SettledReplaces ==
    ASSUME IInv, NEW j \in JobIds, jobs[j].status = "RUNNING", NEW u \in Int
    PROVE  /\ Replaces(Retried(jobs[j], u), j)
           /\ Replaces(DeadLettered(jobs[j], u), j)
  <1>1. RowOK(jobs[j], 0)
    BY DEF IInv, RowsOK
  <1>2. RowOK(Retried(jobs[j], u), 0) /\ RowOK(DeadLettered(jobs[j], u), 0)
    BY <1>1, RetriedOK, DeadLetteredOK
  <1>3. /\ Requeued(jobs[j], u).status = "QUEUED"
        /\ DeadLettered(jobs[j], u).status = "FAILED"
    BY <1>1 DEF RowOK, Job, Requeued, DeadLettered
  <1> QED
    BY <1>2, <1>3 DEF Retried, Replaces

\* build_async_artifact_render_queue_job is a well formed row.
LEMMA RenderJobOK == RowOK(RenderJob, 0) /\ RenderJob.status = "QUEUED"
  <1>1. /\ (CHOOSE y \in JobTypes : TRUE) \in JobTypes
        /\ (CHOOSE k \in Keys : TRUE) \in Keys
        /\ MaxAttempts \in Nat \ {0}
    BY RenderAssumption
  <1> DEFINE u == 0
             r == TRUE
  <1>2. u \in Int /\ r \in BOOLEAN /\ NoJob \in JobIds \cup {NoJob}
    OBVIOUS
  <1>3. RenderJob = NewJob(CHOOSE y \in JobTypes : TRUE, CHOOSE k \in Keys : TRUE,
                           MaxAttempts, r, u, NoJob)
    BY DEF RenderJob
  <1> HIDE DEF r
  <1> QED
    BY <1>1, <1>2, <1>3, NewJobOK

----------------------------------------------------------------------------
(* States of a process.                                                    *)

LEMMA NewArtifactSound == \A table : Sound(NewArtifact) /\ Cancels(NewArtifact, table)
  BY FS_EmptySet DEF NewArtifact, Sound, Artifact, Cancels

LEMMA IdleShape ==
    /\ Idle \in Process /\ Idle.copy = NewArtifact
    /\ Idle.pc = "idle" /\ Idle.next = "idle" /\ Idle.row = "NONE"
  <1> DEFINE b == NewArtifact
  <1>1. b \in Artifact
    BY NewArtifactSound DEF Sound
  <1>2. Idle = [pc |-> "idle", job |-> NoJob, seen |-> 0, row |-> "NONE",
                copy |-> b, next |-> "idle", failure |-> "none"]
    BY DEF Idle
  <1> HIDE DEF b
  <1>3. Idle.copy = b
    BY <1>2
  <1> QED
    BY <1>1, <1>2, <1>3 DEF Process, Steps, b

LEMMA IdleOK == \A a, table : ProcessOK(Idle, a, table)
  BY IdleShape, NewArtifactSound DEF ProcessOK

\* A state that holds no copy and saves nothing.
LEMMA PlainOK ==
    ASSUME NEW a, NEW table, NEW q \in Process, q.job \in JobIds, q.copy = NewArtifact,
           q.pc # "saving", q.next # "completing", q.pc = "completing" => Published(a, q.job)
    PROVE  ProcessOK(q, a, table)
  BY NewArtifactSound DEF ProcessOK

\* A process that has just begun with the row r and n versions.
LEMMA BegunOK ==
    ASSUME NEW a, NEW table, NEW c \in Steps, c \notin {"saving", "completing"},
           NEW j \in JobIds, NEW n \in Nat, NEW r \in RENDER_JOB_STATUSES \cup {"NONE"}
    PROVE  /\ ProcessOK([Idle EXCEPT !.pc = c, !.job = j], a, table)
           /\ ProcessOK([Idle EXCEPT !.job = j, !.pc = c], a, table)
           /\ ProcessOK([Idle EXCEPT !.job = j, !.pc = c, !.seen = n], a, table)
           /\ ProcessOK([Idle EXCEPT !.job = j, !.pc = c, !.row = r], a, table)
  <1>1. ASSUME NEW q \in {[Idle EXCEPT !.pc = c, !.job = j], [Idle EXCEPT !.job = j, !.pc = c],
                          [Idle EXCEPT !.job = j, !.pc = c, !.seen = n],
                          [Idle EXCEPT !.job = j, !.pc = c, !.row = r]}
        PROVE  /\ q \in Process /\ q.job = j /\ q.pc = c
               /\ q.copy = Idle.copy /\ q.next = Idle.next
    BY IdleShape DEF Process
  <1> QED
    BY <1>1, IdleShape, PlainOK

\* What an invariant state says of a process that is busy.
LEMMA Busy ==
    ASSUME IInv, NEW p \in Processes, process[p].pc # "idle"
    PROVE  /\ ProcessOK(process[p], artifact, jobs)
           /\ process[p].job \in JobIds /\ process[p].seen \in Nat
           /\ process[p].row \in RENDER_JOB_STATUSES \cup {"NONE"}
           /\ process[p].next \in Steps
  BY DEF IInv, ProcessesOK, ProcessOK, Process

LEMMA AtShape ==
    ASSUME IInv, NEW p \in Processes, process[p].pc # "idle", NEW c \in Steps
    PROVE  /\ At(p, c) \in Process /\ Only(p, c) \in Process
           /\ At(p, c).pc = c /\ Only(p, c).pc = c
           /\ At(p, c).job = process[p].job /\ Only(p, c).job = process[p].job
           /\ At(p, c).copy = NewArtifact /\ Only(p, c).copy = NewArtifact
           /\ At(p, c).next = "idle" /\ Only(p, c).next = "idle"
           /\ At(p, c).row = "NONE" /\ Only(p, c).row = "NONE"
  <1>1. process[p].job \in JobIds /\ process[p].seen \in Nat
    BY Busy
  <1> QED
    BY <1>1, IdleShape DEF At, Only, Process

LEMMA AtOK ==
    ASSUME IInv, NEW p \in Processes, process[p].pc # "idle", NEW a, NEW table,
           NEW c \in Steps, c = "completing" => Published(a, process[p].job)
    PROVE  ProcessOK(At(p, c), a, table) /\ ProcessOK(Only(p, c), a, table)
  BY Busy, AtShape, NewArtifactSound DEF ProcessOK

LEMMA AtWithOK ==
    ASSUME IInv, NEW p \in Processes, process[p].pc # "idle", NEW a, NEW table,
           NEW c \in Steps, c \notin {"saving", "completing"},
           NEW r \in RENDER_JOB_STATUSES \cup {"NONE"},
           NEW n \in Nat, NEW f \in {"none", "transient", "permanent"}
    PROVE  /\ ProcessOK([At(p, c) EXCEPT !.row = r], a, table)
           /\ ProcessOK([Only(p, c) EXCEPT !.row = r, !.seen = n], a, table)
           /\ ProcessOK([Only(p, c) EXCEPT !.failure = f], a, table)
  <1>1. ASSUME NEW q \in Process, q.pc = c, q.job = process[p].job, q.copy = NewArtifact,
               q.next = "idle"
        PROVE  /\ ProcessOK([q EXCEPT !.row = r], a, table)
               /\ ProcessOK([q EXCEPT !.row = r, !.seen = n], a, table)
               /\ ProcessOK([q EXCEPT !.failure = f], a, table)
    <2>1. ASSUME NEW s \in {[q EXCEPT !.row = r], [q EXCEPT !.row = r, !.seen = n],
                            [q EXCEPT !.failure = f]}
          PROVE  /\ s \in Process /\ s.pc = c /\ s.job = q.job
                 /\ s.copy = q.copy /\ s.next = q.next
      BY <1>1 DEF Process
    <2> QED
      BY <1>1, <2>1, Busy, PlainOK
  <1> QED
    BY <1>1, AtShape

\* Save(p, s, x) asks for a status that is not COMPLETED, and for CANCELLED
\* only if the job is.
LEMMA SavingOK ==
    ASSUME IInv, NEW p \in Processes, process[p].pc # "idle", NEW a, NEW table,
           NEW s \in RENDER_JOB_STATUSES, s # "COMPLETED",
           s = "CANCELLED" => table[process[p].job].status = "CANCELLED",
           NEW x \in Steps, x # "completing"
    PROVE  ProcessOK([At(p, "saving") EXCEPT !.row = s, !.next = x], a, table)
  <1> DEFINE b == At(p, "saving")
             q == [b EXCEPT !.row = s, !.next = x]
  <1>1. b \in Process /\ b.pc = "saving" /\ b.job = process[p].job /\ b.copy = NewArtifact
    BY AtShape DEF Steps
  <1> HIDE DEF b
  <1>2. q \in Process /\ q.pc = "saving" /\ q.job = process[p].job /\ q.copy = NewArtifact
        /\ q.row = s /\ q.next = x
    BY <1>1 DEF Process
  <1>3. ProcessOK(q, a, table)
    BY <1>2, Busy, NewArtifactSound DEF ProcessOK
  <1> QED
    BY <1>3 DEF b

LEMMA WritingOK ==
    ASSUME IInv, NEW p \in Processes, process[p].pc # "idle", NEW a, NEW table,
           NEW copy, Sound(copy), Cancels(copy, table), NEW x \in Steps,
           x = "completing" => Published(copy, process[p].job)
    PROVE  ProcessOK([At(p, "writing") EXCEPT !.copy = copy, !.next = x], a, table)
  <1> DEFINE b == At(p, "writing")
             q == [b EXCEPT !.copy = copy, !.next = x]
  <1>1. b \in Process /\ b.pc = "writing" /\ b.job = process[p].job
    BY AtShape DEF Steps
  <1> HIDE DEF b
  <1>2. copy \in Artifact
    BY DEF Sound
  <1>3. q \in Process /\ q.pc = "writing" /\ q.job = process[p].job
        /\ q.copy = copy /\ q.next = x
    BY <1>1, <1>2 DEF Process
  <1>4. ProcessOK(q, a, table)
    BY <1>3, Busy DEF ProcessOK
  <1> QED
    BY <1>4 DEF b

----------------------------------------------------------------------------
(* Records.                                                                *)

LEMMA VersionsCounted == ASSUME NEW a, Sound(a) PROVE Cardinality(Versions(a)) \in Nat
  <1> DEFINE f == [x \in a.files |-> x[1]]
  <1>1. f \in Surjection(a.files, Versions(a))
    BY DEF Surjection, Versions
  <1>2. IsFiniteSet(Versions(a))
    BY <1>1, FS_Surjection DEF Sound
  <1> QED
    BY <1>2, FS_CardinalityType

\* What SaveState and Admit store: one row, and perhaps a status.
LEMMA RowSaved ==
    ASSUME IInv, NEW j \in JobIds, NEW r \in RENDER_JOB_STATUSES \cup {"NONE"}, r # "COMPLETED",
           r = "CANCELLED" => jobs[j].status = "CANCELLED",
           NEW s \in {"DRAFT", "RENDERING", "FAILED"}
    PROVE  /\ Sound([artifact EXCEPT !.rows[j] = r]) /\ Cancels([artifact EXCEPT !.rows[j] = r], jobs)
           /\ Sound([artifact EXCEPT !.rows[j] = r, !.status = s])
           /\ Cancels([artifact EXCEPT !.rows[j] = r, !.status = s], jobs)
           /\ Sound([artifact EXCEPT !.status = s]) /\ Cancels([artifact EXCEPT !.status = s], jobs)
  <1>1. artifact \in Artifact /\ artifact.rows \in [JobIds -> RENDER_JOB_STATUSES \cup {"NONE"}]
        /\ Sound(artifact) /\ Cancels(artifact, jobs)
    BY DEF IInv, Sound, Artifact
  <1>2. ASSUME NEW a \in {[artifact EXCEPT !.rows[j] = r],
                          [artifact EXCEPT !.rows[j] = r, !.status = s],
                          [artifact EXCEPT !.status = s]}
        PROVE  /\ a \in Artifact /\ a.files = artifact.files /\ a.current = artifact.current
               /\ a.status \in {artifact.status, s}
               /\ \A i \in JobIds : a.rows[i] = artifact.rows[i] \/ (i = j /\ a.rows[i] = r)
    BY <1>1 DEF Artifact
  <1>3. ASSUME NEW a \in Artifact, a.files = artifact.files, a.current = artifact.current,
               a.status \in {artifact.status, s},
               \A i \in JobIds : a.rows[i] = artifact.rows[i] \/ (i = j /\ a.rows[i] = r)
        PROVE  Sound(a) /\ Cancels(a, jobs)
    <2>1. Versions(a) = Versions(artifact) /\ \A i : Published(a, i) <=> Published(artifact, i)
      BY <1>3 DEF Versions, Published
    <2>2. Sound(a)
      BY <1>1, <1>3, <2>1 DEF Sound
    <2>3. Cancels(a, jobs)
      BY <1>1, <1>3 DEF Cancels
    <2> QED
      BY <2>2, <2>3
  <1> QED
    BY <1>2, <1>3

\* What Publish stores.
LEMMA PublishedRecord ==
    ASSUME IInv, NEW j \in JobIds, NEW v \in Nat
    PROVE  LET b == [status |-> "READY", current |-> v, files |-> artifact.files \cup {<<v, j>>},
                     rows |-> [artifact.rows EXCEPT ![j] = "COMPLETED"]]
           IN  Sound(b) /\ Cancels(b, jobs) /\ Published(b, j)
  <1> DEFINE files == artifact.files \cup {<<v, j>>}
             rows == [artifact.rows EXCEPT ![j] = "COMPLETED"]
             b == [status |-> "READY", current |-> v, files |-> files, rows |-> rows]
  <1>1. artifact \in Artifact /\ Sound(artifact) /\ Cancels(artifact, jobs)
    BY DEF IInv, Sound
  <1>2. IsFiniteSet(files) /\ files \in SUBSET (Nat \X JobIds)
    <2>1. IsFiniteSet(artifact.files)
      BY <1>1 DEF Sound
    <2>2. artifact.files \subseteq Nat \X JobIds /\ <<v, j>> \in Nat \X JobIds
      BY <1>1 DEF Artifact
    <2> QED
      BY <2>1, <2>2, FS_AddElement
  <1>3. /\ rows \in [JobIds -> RENDER_JOB_STATUSES \cup {"NONE"}]
        /\ \A i \in JobIds : rows[i] = IF i = j THEN "COMPLETED" ELSE artifact.rows[i]
    BY <1>1 DEF Artifact, RENDER_JOB_STATUSES
  <1>4. <<v, j>> \in files /\ <<v, j>>[1] = v /\ <<v, j>>[2] = j /\ artifact.files \subseteq files
    OBVIOUS
  <1> HIDE DEF files, rows
  <1>5. b \in Artifact /\ b.files = files /\ b.rows = rows /\ b.current = v
    BY <1>2, <1>3 DEF Artifact
  <1> HIDE DEF b
  <1>6. Published(b, j) /\ v \in Versions(b)
    BY <1>4, <1>5 DEF Published, Versions
  <1>7. \A i \in JobIds : Published(artifact, i) => Published(b, i)
    BY <1>4, <1>5 DEF Published
  <1>8. Sound(b)
    BY <1>1, <1>2, <1>3, <1>5, <1>6, <1>7 DEF Sound
  <1>9. Cancels(b, jobs)
    BY <1>1, <1>3, <1>5 DEF Cancels
  <1> QED
    BY <1>6, <1>8, <1>9 DEF b, files, rows

\* A copy saved over the record that is stored.
LEMMA UpsertOK ==
    ASSUME IInv, NEW copy, Sound(copy), Cancels(copy, jobs)
    PROVE  LET new == Upserted(artifact, copy) IN
           /\ Sound(new) /\ Cancels(new, jobs)
           /\ artifact.files \subseteq new.files /\ copy.files \subseteq new.files
  <1> DEFINE files == copy.files \cup artifact.files
             rows == [i \in JobIds |-> IF copy.rows[i] = "NONE" THEN artifact.rows[i]
                                                              ELSE copy.rows[i]]
             new == Upserted(artifact, copy)
  <1>1. /\ artifact \in Artifact /\ Sound(artifact) /\ Cancels(artifact, jobs)
        /\ copy \in Artifact
    BY DEF IInv, Sound
  <1>2. IsFiniteSet(files) /\ files \in SUBSET (Nat \X JobIds)
    BY <1>1, FS_Union DEF Sound, Artifact
  <1>3. /\ rows \in [JobIds -> RENDER_JOB_STATUSES \cup {"NONE"}]
        /\ \A i \in JobIds : rows[i] = artifact.rows[i] \/ rows[i] = copy.rows[i]
    BY <1>1 DEF Artifact
  <1>4. new = [copy EXCEPT !.files = files, !.rows = rows]
    BY <1>1 DEF Upserted, Artifact
  <1>5. copy.files \subseteq files /\ artifact.files \subseteq files
    OBVIOUS
  <1> HIDE DEF files, rows, new
  <1>6. /\ new \in Artifact /\ new.files = files /\ new.rows = rows
        /\ new.current = copy.current /\ new.status = copy.status
    BY <1>1, <1>2, <1>3, <1>4 DEF Artifact
  <1>7. /\ \A i \in JobIds : Published(artifact, i) \/ Published(copy, i) => Published(new, i)
        /\ Versions(copy) \subseteq Versions(new)
    BY <1>5, <1>6 DEF Published, Versions
  <1>8. Sound(new)
    BY <1>1, <1>2, <1>3, <1>6, <1>7 DEF Sound
  <1>9. Cancels(new, jobs)
    BY <1>1, <1>3, <1>6 DEF Cancels
  <1> QED
    BY <1>5, <1>6, <1>8, <1>9 DEF new

----------------------------------------------------------------------------
(* Steps that move one process and store nothing.                          *)

LEMMA Quiet ==
    ASSUME IInv, NEW p \in Processes, NEW q, Become(p, q), OnlyProcess,
           ProcessOK(q, artifact, jobs)
    PROVE  IInv'
  BY ProcessStep DEF OnlyProcess, IInv

LEMMA BeginInv ==
    ASSUME IInv, NEW r \in Requests, NEW j \in JobIds,
           BeginAdmit(r, j) \/ BeginRender(r, j) \/ BeginCancel(r, j) \/ BeginReconcile(r, j)
    PROVE  IInv'
  <1>1. /\ r \in Processes /\ Cardinality(Versions(artifact)) \in Nat
        /\ artifact.rows[j] \in RENDER_JOB_STATUSES \cup {"NONE"}
    BY VersionsCounted DEF IInv, Sound, Artifact, Processes
  <1>2. /\ "admitting" \in Steps /\ "enqueue" \in Steps /\ "drafting" \in Steps
        /\ "cancelling" \in Steps /\ "inspecting" \in Steps
    BY DEF Steps
  <1>3. CASE BeginAdmit(r, j)
    <2> DEFINE c == IF artifact.rows[j] = "NONE" THEN "admitting" ELSE "enqueue"
    <2>1. c \in Steps /\ c \notin {"saving", "completing"}
      BY <1>2
    <2>2. Become(r, [Idle EXCEPT !.job = j, !.pc = c]) /\ OnlyProcess
      BY <1>3 DEF BeginAdmit, Begin
    <2> HIDE DEF c
    <2>3. ProcessOK([Idle EXCEPT !.job = j, !.pc = c], artifact, jobs)
      BY <2>1, BegunOK, <1>1
    <2> QED
      BY <1>1, <2>2, <2>3, Quiet
  <1>4. CASE BeginRender(r, j)
    <2> DEFINE c == "drafting"
               n == Cardinality(Versions(artifact))
    <2>1. c \in Steps /\ c \notin {"saving", "completing"} /\ n \in Nat
      BY <1>1, <1>2
    <2>2. Become(r, [Idle EXCEPT !.job = j, !.pc = c, !.seen = n]) /\ OnlyProcess
      BY <1>4 DEF BeginRender, Begin
    <2> HIDE DEF c, n
    <2>3. ProcessOK([Idle EXCEPT !.job = j, !.pc = c, !.seen = n], artifact, jobs)
      BY <1>1, <2>1, BegunOK
    <2> QED
      BY <1>1, <2>2, <2>3, Quiet
  <1>5. ASSUME NEW c \in {"cancelling", "inspecting"},
               Begin(r, [Idle EXCEPT !.job = j, !.pc = c, !.row = artifact.rows[j]])
        PROVE  IInv'
    <2>1. c \in Steps /\ c \notin {"saving", "completing"}
      BY <1>2
    <2>2. ProcessOK([Idle EXCEPT !.job = j, !.pc = c, !.row = artifact.rows[j]], artifact, jobs)
      BY <1>1, <2>1, BegunOK
    <2> QED
      BY <1>1, <1>5, <2>2, Quiet DEF Begin
  <1> QED
    BY <1>3, <1>4, <1>5 DEF BeginCancel, BeginReconcile

LEMMA LoadInv == ASSUME IInv, NEW p \in Processes, Load(p) PROVE IInv'
  <1> DEFINE j == process[p].job
             row == artifact.rows[j]
             n == Cardinality(Versions(artifact))
  <1>1. /\ process[p].pc = "claimed" /\ OnlyProcess
        /\ \/ row = "COMPLETED" /\ Become(p, Only(p, "completing"))
           \/ Become(p, [Only(p, "checking") EXCEPT !.row = row, !.seen = n])
    BY DEF Load
  <1>2. j \in JobIds /\ n \in Nat /\ row \in RENDER_JOB_STATUSES \cup {"NONE"}
        /\ (row = "COMPLETED" => Published(artifact, j))
    BY <1>1, Busy, VersionsCounted DEF IInv, Sound, Artifact
  <1>3. CASE row = "COMPLETED" /\ Become(p, Only(p, "completing"))
    <2>1. ProcessOK(Only(p, "completing"), artifact, jobs)
      BY <1>1, <1>2, <1>3, AtOK DEF Steps
    <2> QED
      BY <1>1, <1>3, <2>1, Quiet
  <1>4. CASE Become(p, [Only(p, "checking") EXCEPT !.row = row, !.seen = n])
    <2> DEFINE c == "checking"
    <2>1. process[p].pc # "idle" /\ c \in Steps /\ c \notin {"saving", "completing"}
      BY <1>1 DEF Steps
    <2>2. Become(p, [Only(p, c) EXCEPT !.row = row, !.seen = n])
      BY <1>4
    <2> HIDE DEF c, row, n
    <2>3. ProcessOK([Only(p, c) EXCEPT !.row = row, !.seen = n], artifact, jobs)
      BY <1>2, <2>1, AtWithOK
    <2> QED
      BY <1>1, <2>2, <2>3, Quiet
  <1> QED
    BY <1>1, <1>3, <1>4

\* The states that the quiet steps below may leave a process in.
LEMMA AtInv ==
    ASSUME IInv, NEW p \in Processes, process[p].pc # "idle", OnlyProcess,
           NEW c \in Steps \ {"completing"}, Become(p, At(p, c)) \/ Become(p, Only(p, c))
    PROVE  IInv'
  <1>1. c \in Steps /\ c # "completing"
    OBVIOUS
  <1>2. ProcessOK(At(p, c), artifact, jobs) /\ ProcessOK(Only(p, c), artifact, jobs)
    BY <1>1, AtOK
  <1> QED
    BY <1>2, Quiet

LEMMA IdleInv ==
    ASSUME IInv, NEW p \in Processes, OnlyProcess, Become(p, Idle) PROVE IInv'
  BY IdleOK, Quiet

LEMMA SaveInv ==
    ASSUME IInv, NEW p \in Processes, process[p].pc # "idle", OnlyProcess,
           NEW s \in RENDER_JOB_STATUSES \ {"COMPLETED"},
           s = "CANCELLED" => jobs[process[p].job].status = "CANCELLED",
           NEW x \in Steps \ {"completing"}, Save(p, s, x)
    PROVE  IInv'
  <1>1. s \in RENDER_JOB_STATUSES /\ s # "COMPLETED" /\ x \in Steps /\ x # "completing"
    OBVIOUS
  <1>2. ProcessOK([At(p, "saving") EXCEPT !.row = s, !.next = x], artifact, jobs)
    BY <1>1, SavingOK
  <1> QED
    BY <1>2, Quiet DEF Save

LEMMA CopiedInv ==
    ASSUME IInv, NEW p \in Processes, process[p].pc # "idle", OnlyProcess,
           NEW b, Sound(b), Cancels(b, jobs), NEW x \in Steps,
           x = "completing" => Published(b, process[p].job), Copied(p, b, x)
    PROVE  IInv'
  <1>1. ProcessOK([At(p, "writing") EXCEPT !.copy = b, !.next = x], artifact, jobs)
    BY WritingOK
  <1> QED
    BY <1>1, Quiet DEF Copied

LEMMA FailingInv ==
    ASSUME IInv, NEW p \in Processes, process[p].pc # "idle",
           NEW f \in {"transient", "permanent"}, Failing(p, f),
           UNCHANGED <<jobs, artifact>>, faults' \in 0..MaxFaults
    PROVE  IInv'
  <1> DEFINE c == "failing"
  <1>1. c \in Steps /\ c \notin {"saving", "completing"} /\ f \in {"none", "transient", "permanent"}
    BY DEF Steps
  <1>2. Become(p, [Only(p, c) EXCEPT !.failure = f])
    BY DEF Failing
  <1>3. 0 \in Nat /\ "NONE" \in RENDER_JOB_STATUSES \cup {"NONE"}
    OBVIOUS
  <1> HIDE DEF c
  <1>4. ProcessOK([Only(p, c) EXCEPT !.failure = f], artifact, jobs)
    BY <1>1, <1>3, AtWithOK
  <1> QED
    BY <1>2, <1>4, ProcessStep

LEMMA ReconcileInv == ASSUME IInv, NEW p \in Processes, Reconcile(p) PROVE IInv'
  <1> DEFINE repairs == Repairs(jobs[process[p].job], process[p].row)
  <1>1. process[p].pc = "inspecting" /\ OnlyProcess
    BY DEF Reconcile
  <1>2. CASE Become(p, Idle)
    BY <1>1, <1>2, IdleInv
  <1>3. ASSUME NEW s \in repairs, Save(p, s, IF s = "FAILED" THEN "closing" ELSE "idle") PROVE IInv'
    <2> DEFINE x == IF s = "FAILED" THEN "closing" ELSE "idle"
    <2>1. /\ s \in RENDER_JOB_STATUSES \ {"COMPLETED"} /\ x \in Steps \ {"completing"}
          /\ s = "CANCELLED" => jobs[process[p].job].status = "CANCELLED"
      BY DEF Repairs, RENDER_JOB_STATUSES, Steps
    <2>2. Save(p, s, x)
      BY <1>3
    <2> HIDE DEF x
    <2> QED
      BY <1>1, <2>1, <2>2, SaveInv
  <1> QED
    BY <1>2, <1>3 DEF Reconcile

LEMMA CheckCancelledInv == ASSUME IInv, NEW p \in Processes, CheckCancelled(p) PROVE IInv'
  <1> DEFINE cancelled == jobs[process[p].job].status = "CANCELLED"
  <1>1. process[p].pc # "idle" /\ OnlyProcess
    BY DEF CheckCancelled
  <1>2. /\ {"idle", "drafting", "publishing"} \subseteq Steps \ {"completing"}
        /\ {"CANCELLED", "RUNNING"} \subseteq RENDER_JOB_STATUSES \ {"COMPLETED"}
    BY DEF Steps, RENDER_JOB_STATUSES
  <1>3. CASE cancelled /\ Save(p, "CANCELLED", "idle")
    BY <1>1, <1>2, <1>3, SaveInv
  <1>4. CASE Become(p, Idle)
    BY <1>1, <1>4, IdleInv
  <1>5. CASE Save(p, "RUNNING", "drafting")
    <2>1. "RUNNING" # "CANCELLED"
      OBVIOUS
    <2> QED
      BY <1>1, <1>2, <1>5, <2>1, SaveInv
  <1>6. CASE Become(p, At(p, "publishing"))
    BY <1>1, <1>2, <1>6, AtInv
  <1> QED
    BY <1>3, <1>4, <1>5, <1>6 DEF CheckCancelled

LEMMA CallCxInv == ASSUME IInv, NEW p \in Processes, CallCx(p) PROVE IInv'
  <1>1. process[p].pc = "drafting" /\ OnlyProcess /\ UNCHANGED <<jobs, artifact>>
        /\ faults' \in 0..MaxFaults
    BY DEF CallCx, OnlyProcess, IInv
  <1>2. CASE Become(p, At(p, "publishing"))
    BY <1>1, <1>2, AtInv DEF Steps
  <1>3. CASE Become(p, Idle)
    BY <1>1, <1>3, IdleInv
  <1>4. CASE Become(p, [At(p, "rechecking") EXCEPT !.row = artifact.rows[process[p].job]])
    <2> DEFINE c == "rechecking"
               r == artifact.rows[process[p].job]
    <2>1. process[p].job \in JobIds /\ artifact \in Artifact
      BY <1>1, Busy DEF IInv, Sound
    <2>2. r \in RENDER_JOB_STATUSES \cup {"NONE"} /\ c \in Steps /\ c \notin {"saving", "completing"}
          /\ 0 \in Nat /\ "none" \in {"none", "transient", "permanent"} /\ process[p].pc # "idle"
      BY <1>1, <2>1 DEF Artifact, Steps
    <2>3. Become(p, [At(p, c) EXCEPT !.row = r])
      BY <1>4
    <2> HIDE DEF c, r
    <2>4. ProcessOK([At(p, c) EXCEPT !.row = r], artifact, jobs)
      BY <2>2, AtWithOK
    <2> QED
      BY <1>1, <2>3, <2>4, Quiet
  <1>5. ASSUME NEW f \in {"transient", "permanent"}, Failing(p, f) PROVE IInv'
    BY <1>1, <1>5, FailingInv
  <1> QED
    BY <1>2, <1>3, <1>4, <1>5 DEF CallCx

----------------------------------------------------------------------------
(* Saves.                                                                  *)

LEMMA SaveStateInv == ASSUME IInv, NEW p \in Processes, SaveState(p) PROVE IInv'
  <1> DEFINE j == process[p].job
             r == process[p].row
             b == [artifact EXCEPT !.rows[j] = r]
             x == process[p].next
  <1>1. process[p].pc = "saving" /\ OnlyProcess /\ Copied(p, b, x)
    BY DEF SaveState
  <1>2. /\ j \in JobIds /\ r \in RENDER_JOB_STATUSES \cup {"NONE"} /\ r # "COMPLETED"
        /\ x \in Steps /\ x # "completing" /\ (r = "CANCELLED" => jobs[j].status = "CANCELLED")
    BY <1>1, Busy DEF ProcessOK
  <1> HIDE DEF j, r, x
  <1>3. Sound(b) /\ Cancels(b, jobs)
    BY <1>2, RowSaved
  <1> HIDE DEF b
  <1> QED
    BY <1>1, <1>2, <1>3, CopiedInv

LEMMA AdmitInv == ASSUME IInv, NEW p \in Processes, Admit(p) PROVE IInv'
  <1> DEFINE j == process[p].job
             r == "QUEUED"
             s == "RENDERING"
             x == "enqueue"
             b == [artifact EXCEPT !.rows[j] = r, !.status = s]
  <1>1. /\ process[p].pc = "admitting" /\ OnlyProcess
        /\ Become(p, Only(p, x)) \/ Copied(p, b, x)
    BY DEF Admit
  <1>2. /\ j \in JobIds /\ r \in RENDER_JOB_STATUSES \cup {"NONE"} /\ r # "COMPLETED"
        /\ r # "CANCELLED" /\ s \in {"DRAFT", "RENDERING", "FAILED"}
        /\ x \in Steps /\ x # "completing" /\ x \in Steps \ {"completing"}
    BY <1>1, Busy DEF RENDER_JOB_STATUSES, Steps
  <1> HIDE DEF j, r, s, x
  <1>3. Sound(b) /\ Cancels(b, jobs)
    BY <1>2, RowSaved
  <1> HIDE DEF b
  <1>4. CASE Become(p, Only(p, x))
    BY <1>1, <1>2, <1>4, AtInv
  <1>5. CASE Copied(p, b, x)
    BY <1>1, <1>2, <1>3, <1>5, CopiedInv
  <1> QED
    BY <1>1, <1>4, <1>5

LEMMA CloseInv == ASSUME IInv, NEW p \in Processes, Close(p) PROVE IInv'
  <1> DEFINE s == "FAILED"
             x == IF p \in Workers THEN "raised" ELSE "idle"
             b == [artifact EXCEPT !.status = s]
             r == "QUEUED"
             j == process[p].job
  <1>1. process[p].pc = "closing" /\ OnlyProcess /\ Copied(p, b, x)
    BY DEF Close
  <1>2. /\ x \in Steps /\ x # "completing" /\ s \in {"DRAFT", "RENDERING", "FAILED"}
        /\ r \in RENDER_JOB_STATUSES \cup {"NONE"} /\ r # "COMPLETED" /\ r # "CANCELLED"
        /\ j \in JobIds
    BY <1>1, Busy DEF Steps, RENDER_JOB_STATUSES
  <1> HIDE DEF s, x, r, j
  <1>3. Sound(b) /\ Cancels(b, jobs)
    BY <1>2, RowSaved
  <1> HIDE DEF b
  <1> QED
    BY <1>1, <1>2, <1>3, CopiedInv

LEMMA PublishInv == ASSUME IInv, NEW p \in Processes, Publish(p) PROVE IInv'
  <1> DEFINE j == process[p].job
             v == process[p].seen + 1
             x == IF p \in Workers THEN "completing" ELSE "idle"
             b == [status |-> "READY", current |-> v, files |-> artifact.files \cup {<<v, j>>},
                   rows |-> [artifact.rows EXCEPT ![j] = "COMPLETED"]]
  <1>1. process[p].pc = "publishing" /\ OnlyProcess /\ Copied(p, b, x)
    BY DEF Publish
  <1>2. j \in JobIds /\ v \in Nat /\ x \in Steps
    BY <1>1, Busy DEF Steps
  <1>3. Sound(b) /\ Cancels(b, jobs) /\ Published(b, j)
    BY <1>2, PublishedRecord
  <1> HIDE DEF b, x
  <1> QED
    BY <1>1, <1>2, <1>3, CopiedInv

\* A copy is written: what the process and the others hold is still true.
LEMMA StoreStep ==
    ASSUME IInv, NEW p \in Processes, process[p].pc = "writing",
           artifact' = Upserted(artifact, process[p].copy), UNCHANGED jobs
    PROVE  /\ RowsOK(jobs') /\ Sound(artifact') /\ Cancels(artifact', jobs')
           /\ Succeeds(artifact', jobs') /\ Keeps(artifact, jobs, artifact', jobs')
           /\ process[p].next = "completing" => Published(artifact', process[p].job)
  <1> DEFINE copy == process[p].copy
  <1>1. /\ Sound(copy) /\ Cancels(copy, jobs)
        /\ process[p].next = "completing" => Published(copy, process[p].job)
    BY Busy DEF ProcessOK
  <1>2. /\ Sound(artifact') /\ Cancels(artifact', jobs)
        /\ artifact.files \subseteq artifact'.files /\ copy.files \subseteq artifact'.files
    BY <1>1, UpsertOK
  <1>3. \A j : Published(artifact, j) \/ Published(copy, j) => Published(artifact', j)
    BY <1>2 DEF Published
  <1>4. RowsOK(jobs') /\ Cancels(artifact', jobs')
    BY <1>2 DEF IInv
  <1>5. Succeeds(artifact', jobs') /\ Keeps(artifact, jobs, artifact', jobs')
    BY <1>2, <1>3 DEF IInv, Succeeds, Keeps
  <1> QED
    BY <1>1, <1>2, <1>3, <1>4, <1>5

LEMMA WriteInv == ASSUME IInv, NEW p \in Processes, Write(p) PROVE IInv'
  <1> DEFINE x == process[p].next
             q == CASE x = "idle" -> Idle [] x = "drafting" -> At(p, "drafting")
                    [] OTHER -> Only(p, x)
  <1>1. /\ process[p].pc = "writing" /\ artifact' = Upserted(artifact, process[p].copy)
        /\ Become(p, q) /\ UNCHANGED jobs /\ UNCHANGED faults
    BY DEF Write
  <1>2. /\ RowsOK(jobs') /\ Sound(artifact') /\ Cancels(artifact', jobs')
        /\ Succeeds(artifact', jobs') /\ Keeps(artifact, jobs, artifact', jobs')
        /\ x = "completing" => Published(artifact', process[p].job)
    BY <1>1, StoreStep
  <1>3. x \in Steps /\ process[p].pc # "idle"
    BY <1>1, Busy
  <1>4. q \in {Idle, At(p, "drafting"), Only(p, x)}
    OBVIOUS
  <1> HIDE DEF q
  <1>5. ProcessOK(At(p, "drafting"), artifact', jobs')
    BY <1>3, AtOK DEF Steps
  <1>6. ProcessOK(Only(p, x), artifact', jobs')
    BY <1>2, <1>3, AtOK
  <1>7. ProcessOK(q, artifact', jobs') /\ faults' \in 0..MaxFaults
    BY <1>1, <1>4, <1>5, <1>6, IdleOK DEF IInv
  <1> QED
    BY <1>1, <1>2, <1>7, OneProcess

----------------------------------------------------------------------------
(* Steps of a job.                                                         *)

LEMMA JobAndProcess ==
    ASSUME IInv, NEW p \in Processes, NEW j \in JobIds, NEW row, Replaces(row, j),
           SetJob(j, row) \/ UNCHANGED jobs, UNCHANGED <<artifact, faults>>,
           NEW q, Become(p, q), ProcessOK(q, artifact', jobs')
    PROVE  IInv'
  <1>1. CASE SetJob(j, row)
    BY <1>1, RowAndProcess
  <1>2. CASE UNCHANGED jobs
    <2>1. ProcessOK(q, artifact, jobs) /\ UNCHANGED <<jobs, artifact>> /\ faults' \in 0..MaxFaults
      BY <1>2 DEF IInv
    <2> QED
      BY <2>1, ProcessStep
  <1> QED
    BY <1>1, <1>2

LEMMA EnqueueInv == ASSUME IInv, NEW p \in Processes, Enqueue(p) PROVE IInv'
  <1> DEFINE j == process[p].job
  <1>1. /\ process[p].pc = "enqueue" /\ Become(p, Idle) /\ UNCHANGED <<artifact, faults>>
        /\ (jobs[j].status = "NONE" /\ SetJob(j, RenderJob)) \/ UNCHANGED jobs
    BY DEF Enqueue
  <1>2. j \in JobIds
    BY <1>1, Busy
  <1>3. CASE jobs[j].status = "NONE" /\ SetJob(j, RenderJob)
    <2>1. Replaces(RenderJob, j)
      BY <1>3, RenderJobOK DEF Replaces
    <2> QED
      BY <1>1, <1>2, <1>3, <2>1, IdleOK, JobAndProcess
  <1>4. CASE UNCHANGED jobs
    BY <1>1, <1>4, IdleInv DEF OnlyProcess
  <1> QED
    BY <1>1, <1>3, <1>4

LEMMA ClaimInv ==
    ASSUME IInv, NEW w \in Workers, NEW j \in JobIds, Claim(w, j) PROVE IInv'
  <1> DEFINE s == "RUNNING"
             c == "claimed"
             u == 0
             row == Transitioned(jobs[j], s, w, u)
             q == [Idle EXCEPT !.pc = c, !.job = j]
  <1>1. /\ CanTransition(jobs[j], s) /\ SetJob(j, row) /\ UNCHANGED <<artifact, faults>>
        /\ Become(w, q)
    BY DEF Claim, IsClaimable, CanTransition, VALID_JOB_TRANSITIONS
  <1>2. /\ s \in JOB_STATUSES /\ s # "SUCCEEDED" /\ u \in Int /\ u <= 0
        /\ w \in Workers \cup {NoWorker} /\ w \in Processes
        /\ c \in Steps /\ c \notin {"saving", "completing"}
        /\ 0 \in Nat /\ "NONE" \in RENDER_JOB_STATUSES \cup {"NONE"}
    BY DEF JOB_STATUSES, Steps, Processes
  <1> HIDE DEF s, c, u
  <1>3. Replaces(row, j)
    BY <1>1, <1>2, TransitionReplaces
  <1>4. ProcessOK(q, artifact', jobs')
    BY <1>2, BegunOK
  <1> HIDE DEF row, q
  <1> QED
    BY <1>1, <1>2, <1>3, <1>4, RowAndProcess

LEMMA CancelInv == ASSUME IInv, NEW p \in Processes, Cancel(p) PROVE IInv'
  <1> DEFINE j == process[p].job
             s == "CANCELLED"
             u == 0
             row == Transitioned(jobs[j], s, NoWorker, u)
             x == "idle"
             q == [At(p, "saving") EXCEPT !.row = s, !.next = x]
  <1>1. process[p].pc = "cancelling" /\ UNCHANGED <<artifact, faults>>
    BY DEF Cancel
  <1>2. /\ j \in JobIds /\ process[p].pc # "idle"
        /\ s \in RENDER_JOB_STATUSES /\ s # "COMPLETED" /\ x \in Steps /\ x # "completing"
        /\ s \in JOB_STATUSES /\ s # "SUCCEEDED" /\ u \in Int /\ u <= 0
        /\ NoWorker \in Workers \cup {NoWorker}
    BY <1>1, Busy DEF RENDER_JOB_STATUSES, JOB_STATUSES, TERMINAL_JOB_STATUSES, Steps
  <1>3. CASE jobs[j].status = "CANCELLED" /\ UNCHANGED jobs
    <2>1. Become(p, Idle) \/ Become(p, q)
      BY <1>3 DEF Cancel, Save
    <2>2. CASE Become(p, Idle)
      BY <1>1, <1>3, <2>2, IdleInv DEF OnlyProcess
    <2>3. CASE Become(p, q)
      <3>1. ProcessOK(q, artifact, jobs)
        BY <1>2, <1>3, SavingOK
      <3> QED
        BY <1>1, <1>3, <2>3, <3>1, Quiet DEF OnlyProcess
    <2> QED
      BY <2>1, <2>2, <2>3
  <1>4. CASE CanTransition(jobs[j], s) /\ jobs[j].status # "CANCELLED"
    <2>1. SetJob(j, row) /\ (Become(p, Idle) \/ Become(p, q))
      BY <1>4 DEF Cancel, Save
    <2> HIDE DEF s, u, x
    <2>2. Replaces(row, j) /\ row.status = s
      BY <1>2, <1>4, TransitionReplaces
    <2>3. jobs' \in [JobIds -> Job] /\ jobs'[j] = row
      <3>1. jobs \in [JobIds -> Job] /\ row \in Job
        BY <2>2 DEF IInv, RowsOK, Replaces, RowOK
      <3> HIDE DEF row, j
      <3> QED
        BY <1>2, <2>1, <3>1 DEF SetJob
    <2>4. s = "CANCELLED" => jobs'[process[p].job].status = "CANCELLED"
      BY <2>2, <2>3
    <2>5. ProcessOK(q, artifact', jobs')
      BY <1>2, <2>4, SavingOK
    <2> HIDE DEF row, q
    <2> QED
      BY <1>1, <1>2, <2>1, <2>2, <2>5, IdleOK, RowAndProcess
  <1>5. CASE Become(p, Idle) /\ UNCHANGED jobs
    BY <1>1, <1>5, IdleInv DEF OnlyProcess
  <1> QED
    BY <1>3, <1>4, <1>5 DEF Cancel

LEMMA CompleteInv == ASSUME IInv, NEW p \in Processes, Complete(p) PROVE IInv'
  <1> DEFINE j == process[p].job
             s == "SUCCEEDED"
             u == 0
             row == Transitioned(jobs[j], s, NoWorker, u)
             c == "raised"
  <1>1. process[p].pc = "completing" /\ UNCHANGED <<artifact, faults>>
    BY DEF Complete
  <1>2. /\ j \in JobIds /\ process[p].pc # "idle" /\ Published(artifact, j)
        /\ s \in JOB_STATUSES /\ u \in Int /\ u <= 0 /\ NoWorker \in Workers \cup {NoWorker}
        /\ c \in Steps \ {"completing"}
    BY <1>1, Busy DEF ProcessOK, JOB_STATUSES, TERMINAL_JOB_STATUSES, Steps
  <1>3. jobs \in [JobIds -> Job]
    BY DEF IInv, RowsOK
  <1>4. CASE jobs[j].status = "RUNNING"
    <2>1. SetJob(j, row) /\ Become(p, Idle) /\ CanTransition(jobs[j], s)
      BY <1>4 DEF Complete, CanTransition, VALID_JOB_TRANSITIONS, TERMINAL_JOB_STATUSES
    <2> HIDE DEF s, u
    <2>2. Replaces(row, j)
      BY <1>2, <2>1, TransitionReplaces
    <2> HIDE DEF row
    <2> QED
      BY <1>1, <1>2, <2>1, <2>2, IdleOK, RowAndProcess
  <1>5. CASE jobs[j].status = "SUCCEEDED"
    <2>1. SetJob(j, jobs[j]) /\ Become(p, Idle)
      BY <1>5 DEF Complete
    <2>2. UNCHANGED jobs
      BY <1>3, <2>1 DEF SetJob
    <2> QED
      BY <1>1, <2>1, <2>2, IdleInv DEF OnlyProcess
  <1>6. CASE jobs[j].status \notin {"RUNNING", "SUCCEEDED"}
    <2>1. Become(p, Only(p, c)) /\ OnlyProcess
      BY <1>1, <1>6 DEF Complete, OnlyProcess
    <2> HIDE DEF c
    <2> QED
      BY <1>2, <2>1, AtInv
  <1> QED
    BY <1>4, <1>5, <1>6

LEMMA FailInv == ASSUME IInv, NEW p \in Processes, Fail(p) PROVE IInv'
  <1> DEFINE j == process[p].job
             row == IF process[p].failure = "transient" THEN Retried(jobs[j], 0)
                    ELSE DeadLettered(jobs[j], 0)
             c == "raised"
  <1>1. process[p].pc = "failing" /\ UNCHANGED <<artifact, faults>>
    BY DEF Fail
  <1>2. j \in JobIds /\ process[p].pc # "idle" /\ c \in Steps \ {"completing"}
    BY <1>1, Busy DEF Steps
  <1>3. CASE jobs[j].status = "RUNNING"
    <2>1. Replaces(Retried(jobs[j], 0), j) /\ Replaces(DeadLettered(jobs[j], 0), j)
      BY <1>2, <1>3, SettledReplaces
    <2>2. Replaces(row, j)
      BY <2>1
    <2>3. /\ SetJob(j, row)
          /\ Save(p, "FAILED", "closing") \/ Save(p, "QUEUED", "raised")
      BY <1>3 DEF Fail
    <2> HIDE DEF row, j
    <2>4. ASSUME NEW s \in {"FAILED", "QUEUED"}, NEW x \in {"closing", "raised"}, Save(p, s, x)
          PROVE  IInv'
      <3>1. s \in RENDER_JOB_STATUSES /\ s # "COMPLETED" /\ s # "CANCELLED"
            /\ x \in Steps /\ x # "completing"
        BY DEF RENDER_JOB_STATUSES, Steps
      <3>2. ProcessOK([At(p, "saving") EXCEPT !.row = s, !.next = x], artifact', jobs')
        BY <1>2, <3>1, SavingOK
      <3> QED
        BY <1>1, <1>2, <2>2, <2>3, <2>4, <3>2, RowAndProcess DEF Save
    <2> QED
      BY <2>3, <2>4
  <1>4. CASE jobs[j].status # "RUNNING"
    <2>1. Become(p, Only(p, c)) /\ OnlyProcess
      BY <1>1, <1>4 DEF Fail, OnlyProcess
    <2> HIDE DEF c
    <2> QED
      BY <1>2, <2>1, AtInv
  <1> QED
    BY <1>3, <1>4

LEMMA RunnerRetryInv == ASSUME IInv, NEW p \in Processes, RunnerRetry(p) PROVE IInv'
  <1> DEFINE j == process[p].job
             row == Retried(jobs[j], 0)
  <1>1. process[p].pc = "raised" /\ UNCHANGED <<artifact, faults>> /\ Become(p, Idle)
    BY DEF RunnerRetry
  <1>2. j \in JobIds
    BY <1>1, Busy
  <1>3. CASE jobs[j].status = "RUNNING"
    <2>1. Replaces(row, j) /\ SetJob(j, row)
      BY <1>2, <1>3, SettledReplaces DEF RunnerRetry
    <2> HIDE DEF row
    <2> QED
      BY <1>1, <1>2, <2>1, IdleOK, RowAndProcess
  <1>4. CASE jobs[j].status # "RUNNING"
    BY <1>1, <1>4, IdleInv DEF RunnerRetry, OnlyProcess
  <1> QED
    BY <1>3, <1>4

LEMMA OperatorInv ==
    ASSUME IInv, NEW j \in JobIds, OperatorCancel(j) \/ OperatorRetry(j) PROVE IInv'
  <1>1. CASE OperatorCancel(j)
    <2> DEFINE s == "CANCELLED"
               u == 0
               row == Transitioned(jobs[j], s, NoWorker, u)
    <2>1. CanTransition(jobs[j], s) /\ SetJob(j, row) /\ UNCHANGED <<artifact, process, faults>>
      BY <1>1 DEF OperatorCancel
    <2>2. /\ s \in JOB_STATUSES /\ s # "SUCCEEDED" /\ u \in Int /\ u <= 0
          /\ NoWorker \in Workers \cup {NoWorker}
      BY DEF JOB_STATUSES, TERMINAL_JOB_STATUSES
    <2> HIDE DEF s, u
    <2>3. Replaces(row, j)
      BY <2>1, <2>2, TransitionReplaces
    <2> HIDE DEF row
    <2> QED
      BY <2>1, <2>3, RowAlone
  <1>2. CASE OperatorRetry(j)
    <2> DEFINE row == Retried(jobs[j], 0)
    <2>1. Replaces(row, j) /\ SetJob(j, row) /\ UNCHANGED <<artifact, process, faults>>
      BY <1>2, SettledReplaces DEF OperatorRetry
    <2> HIDE DEF row
    <2> QED
      BY <2>1, RowAlone
  <1> QED
    BY <1>1, <1>2

----------------------------------------------------------------------------
(* Faults.                                                                 *)

LEMMA FaultCounted == ASSUME IInv, NEW kind, Fault(kind) PROVE faults' \in 0..MaxFaults
  BY RenderAssumption DEF IInv, Fault

LEMMA CrashInv == ASSUME IInv, NEW p \in Processes, Crash(p) PROVE IInv'
  <1>1. faults' \in 0..MaxFaults /\ Become(p, Idle) /\ UNCHANGED <<jobs, artifact>>
    BY FaultCounted DEF Crash
  <1> QED
    BY <1>1, IdleOK, ProcessStep

LEMMA OutageInv == ASSUME IInv, NEW w \in Workers, Outage(w) PROVE IInv'
  <1> DEFINE f == "transient"
             failed == [Only(w, "failing") EXCEPT !.failure = f]
             raised == Only(w, "raised")
  <1>1. /\ w \in Processes /\ process[w].pc # "idle" /\ faults' \in 0..MaxFaults
        /\ UNCHANGED jobs
    BY FaultCounted DEF Outage, Processes
  <1>2. Become(w, failed) \/ Become(w, raised)
    BY DEF Outage, Failing
  <1>3. \A a, table : ProcessOK(failed, a, table) /\ ProcessOK(raised, a, table)
    <2> TAKE a, table
    <2> DEFINE c == "failing"
               n == 0
               r == "NONE"
    <2>1. /\ c \in Steps /\ c \notin {"saving", "completing"} /\ n \in Nat
          /\ r \in RENDER_JOB_STATUSES \cup {"NONE"} /\ f \in {"none", "transient", "permanent"}
      BY DEF Steps
    <2>2. ProcessOK(raised, a, table)
      BY <1>1, AtOK DEF Steps
    <2> HIDE DEF c, n, r, f
    <2>3. ProcessOK([Only(w, c) EXCEPT !.failure = f], a, table)
      BY <1>1, <2>1, AtWithOK
    <2> QED
      BY <2>2, <2>3 DEF c
  <1>4. PICK q : Become(w, q) /\ \A a, table : ProcessOK(q, a, table)
    BY <1>2, <1>3
  <1> HIDE DEF failed, raised
  <1>5. CASE UNCHANGED artifact
    BY <1>1, <1>4, <1>5, ProcessStep
  <1>6. CASE process[w].pc = "writing" /\ artifact' = Upserted(artifact, process[w].copy)
    <2>1. /\ RowsOK(jobs') /\ Sound(artifact') /\ Cancels(artifact', jobs')
          /\ Succeeds(artifact', jobs') /\ Keeps(artifact, jobs, artifact', jobs')
      BY <1>1, <1>6, StoreStep
    <2> QED
      BY <1>1, <1>4, <2>1, OneProcess
  <1> QED
    BY <1>5, <1>6 DEF Outage

----------------------------------------------------------------------------
(* The theorems.                                                           *)

LEMMA InitInv == Init => IInv
  <1> SUFFICES ASSUME Init PROVE IInv
    OBVIOUS
  <1> DEFINE row == [RenderJob EXCEPT !.status = "NONE"]
  <1>1. RowOK(row, 0) /\ row.status = "NONE"
    <2>1. /\ (CHOOSE y \in JobTypes : TRUE) \in JobTypes
          /\ (CHOOSE k \in Keys : TRUE) \in Keys
          /\ MaxAttempts \in Nat \ {0}
      BY RenderAssumption
    <2>2. /\ RenderJob \in Job /\ RenderJob.attempt_count = 0 /\ RenderJob.error = "none"
          /\ RenderJob.locked_by = NoWorker
      BY <2>1 DEF RenderJob, NewJob, Job, JOB_STATUSES, TERMINAL_JOB_STATUSES
    <2>3. /\ row \in Job /\ row.status = "NONE" /\ row.attempt_count = 0
          /\ row.error = "none" /\ row.locked_by = NoWorker
      BY <2>2 DEF Job
    <2> HIDE DEF row
    <2>4. row.max_attempts \in Nat
      BY <2>3 DEF Job
    <2> QED
      BY <2>3, <2>4 DEF RowOK
  <1>2. jobs = [j \in JobIds |-> row]
    BY DEF Init
  <1> HIDE DEF row
  <1>3. RowsOK(jobs) /\ \A j \in JobIds : jobs[j].status = "NONE"
    BY <1>1, <1>2 DEF RowsOK, RowOK
  <1>4. Sound(artifact) /\ Cancels(artifact, jobs) /\ Succeeds(artifact, jobs)
    BY <1>3, NewArtifactSound DEF Init, Succeeds
  <1>5. ProcessesOK(process, artifact, jobs)
    BY IdleOK, IdleShape DEF Init, ProcessesOK
  <1> QED
    BY <1>3, <1>4, <1>5, RenderAssumption DEF Init, IInv

LEMMA ProceedInv == ASSUME IInv, NEW p \in Processes, Proceed(p) PROVE IInv'
  BY LoadInv, AdmitInv, EnqueueInv, CancelInv, ReconcileInv, CheckCancelledInv, CallCxInv,
     PublishInv, CompleteInv, FailInv, RunnerRetryInv, SaveStateInv, WriteInv, CloseInv
     DEF Proceed

LEMMA StutterInv == ASSUME IInv, UNCHANGED vars PROVE IInv'
  BY DEF vars, IInv

LEMMA NextInv == IInv /\ [Next]_vars => IInv'
  BY ProceedInv, CrashInv, BeginInv, ClaimInv, OperatorInv, OutageInv, StutterInv DEF Next

LEMMA Invariance == Spec => []IInv
  BY InitInv, NextInv, PTL DEF Spec

\* No step, late save or retry leaves a row, a record or a process in a state
\* the code has no name for, spends an attempt beyond the budget of a job, or
\* queues a job that no worker may claim.
THEOREM RenderTypeCorrect == Spec => []TypeOK
  BY Invariance, IInvImplies, PTL

\* Nothing is shown as rendered that was not: neither recovery nor a save from
\* a stale copy makes up a success, and no save loses a file.
THEOREM SuccessHasFiles == Spec => []SucceededIsPublished
  BY Invariance, IInvImplies, PTL

\* A render says CANCELLED only if its job is, for good.
THEOREM CancellationIsTrue == Spec => []CancelledIsFinal
  BY Invariance, IInvImplies, PTL

----------------------------------------------------------------------------
(* The queue's promise holds for the render jobs.                          *)

Lifecycle == INSTANCE JobLifecycle WITH
    phase <- PhasesOf(JobIds, jobs), used <- UsedOf(JobIds, jobs),
    budget <- BudgetsOf(JobIds, jobs)

LEMMA PromisedStep ==
    ASSUME NEW j \in JobIds,
           Promised(j, PhasesOf(JobIds, jobs), UsedOf(JobIds, jobs), BudgetsOf(JobIds, jobs),
               PhasesOf(JobIds, jobs'), UsedOf(JobIds, jobs'), BudgetsOf(JobIds, jobs'))
    PROVE  Lifecycle!Next
  <1>1. Lifecycle!Submit(j) \/ Lifecycle!Start(j) \/ Lifecycle!Requeue(j)
        \/ Lifecycle!Finish(j) \/ Lifecycle!Cancel(j)
    BY DEF Promised, Lifecycle!Submit, Lifecycle!Start, Lifecycle!Requeue, Lifecycle!Finish,
           Lifecycle!Cancel, Lifecycle!Move, Lifecycle!Ended
  <1> QED
    BY <1>1 DEF Lifecycle!Next

LEMMA RowFollows ==
    ASSUME RowsOK(jobs), NEW j \in JobIds, NEW row, SetJob(j, row),
           Advances(jobs[j], row) \/ Submits(jobs[j], row)
    PROVE  Lifecycle!Next
  BY RowIsPromised, PromisedStep DEF RowsOK, SetJob

\* The steps that write a job, each with the row it writes.
Writes(j) ==
    \/ UNCHANGED jobs
    \/ jobs[j].status = "NONE" /\ SetJob(j, RenderJob)
    \/ \E s \in JOB_STATUSES, w \in Workers \cup {NoWorker} :
        CanTransition(jobs[j], s) /\ SetJob(j, Transitioned(jobs[j], s, w, 0))
    \/ /\ jobs[j].status = "RUNNING"
       /\ SetJob(j, Retried(jobs[j], 0)) \/ SetJob(j, DeadLettered(jobs[j], 0))

LEMMA WriteFollows ==
    ASSUME RowsOK(jobs), NEW j \in JobIds, Writes(j)
    PROVE  [Lifecycle!Next]_(Lifecycle!vars)
  <1> DEFINE old == jobs[j]
  <1>1. RowOK(old, 0)
    BY DEF RowsOK
  <1>2. CASE UNCHANGED jobs
    BY <1>2 DEF Lifecycle!vars
  <1>3. CASE old.status = "NONE" /\ SetJob(j, RenderJob)
    <2>1. /\ old.attempt_count = 0 /\ RenderJob.attempt_count = 0
          /\ RenderJob.max_attempts \in Nat \ {0}
      BY <1>1, <1>3, RenderAssumption DEF RowOK, RenderJob, NewJob
    <2>2. Submits(old, RenderJob)
      BY <1>3, <2>1, RenderJobOK DEF Submits, Phase
    <2> QED
      BY <1>3, <2>2, RowFollows
  <1>4. ASSUME NEW s \in JOB_STATUSES, NEW w \in Workers \cup {NoWorker},
               CanTransition(old, s), SetJob(j, Transitioned(old, s, w, 0))
        PROVE  Lifecycle!Next
    BY <1>1, <1>4, TransitionedAdvances, RowFollows
  <1>5. CASE old.status = "RUNNING" /\ SetJob(j, Retried(old, 0))
    BY <1>1, <1>5, RetriedAdvances, RowFollows
  <1>6. CASE old.status = "RUNNING" /\ SetJob(j, DeadLettered(old, 0))
    BY <1>1, <1>6, DeadLetteredAdvances, RowFollows
  <1> QED
    BY <1>2, <1>3, <1>4, <1>5, <1>6 DEF Writes

\* Every step of the module writes at most one job, as listed.
LEMMA StepWrites ==
    ASSUME IInv, [Next]_vars
    PROVE  UNCHANGED jobs \/ \E j \in JobIds : Writes(j)
  <1>1. ASSUME NEW p \in Processes,
               Enqueue(p) \/ Cancel(p) \/ Complete(p) \/ Fail(p) \/ RunnerRetry(p)
        PROVE  UNCHANGED jobs \/ \E j \in JobIds : Writes(j)
    <2> DEFINE j == process[p].job
    <2>1. j \in JobIds
      BY <1>1, Busy DEF Enqueue, Cancel, Complete, Fail, RunnerRetry
    <2>2. NoWorker \in Workers \cup {NoWorker}
          /\ "CANCELLED" \in JOB_STATUSES /\ "SUCCEEDED" \in JOB_STATUSES
      BY DEF JOB_STATUSES, TERMINAL_JOB_STATUSES
    <2>3. CASE Enqueue(p)
      BY <2>1, <2>3 DEF Enqueue, Writes
    <2>4. CASE Cancel(p)
      BY <2>1, <2>2, <2>4 DEF Cancel, Writes
    <2>5. CASE Complete(p)
      <3>1. SetJob(j, jobs[j]) => UNCHANGED jobs
        BY <2>1 DEF SetJob, IInv, RowsOK
      <3>2. jobs[j].status = "RUNNING" => CanTransition(jobs[j], "SUCCEEDED")
        BY DEF CanTransition, VALID_JOB_TRANSITIONS, TERMINAL_JOB_STATUSES
      <3> QED
        BY <2>1, <2>2, <2>5, <3>1, <3>2 DEF Complete, Writes
    <2>6. CASE Fail(p)
      BY <2>1, <2>6 DEF Fail, Writes
    <2>7. CASE RunnerRetry(p)
      BY <2>1, <2>7 DEF RunnerRetry, Writes
    <2> QED
      BY <1>1, <2>3, <2>4, <2>5, <2>6, <2>7
  <1>2. ASSUME NEW w \in Workers, NEW j \in JobIds, Claim(w, j) PROVE Writes(j)
    <2>1. CanTransition(jobs[j], "RUNNING") /\ "RUNNING" \in JOB_STATUSES
      BY <1>2 DEF Claim, IsClaimable, CanTransition, VALID_JOB_TRANSITIONS, JOB_STATUSES
    <2> QED
      BY <1>2, <2>1 DEF Claim, Writes
  <1>3. ASSUME NEW j \in JobIds, OperatorCancel(j) \/ OperatorRetry(j) PROVE Writes(j)
    <2>1. "CANCELLED" \in JOB_STATUSES /\ NoWorker \in Workers \cup {NoWorker}
      BY DEF JOB_STATUSES, TERMINAL_JOB_STATUSES
    <2> QED
      BY <1>3, <2>1 DEF OperatorCancel, OperatorRetry, Writes
  <1>4. ASSUME NEW p \in Processes,
               Load(p) \/ Admit(p) \/ Reconcile(p) \/ CheckCancelled(p) \/ CallCx(p) \/ Publish(p)
               \/ SaveState(p) \/ Write(p) \/ Close(p) \/ Crash(p) \/ Outage(p)
        PROVE  UNCHANGED jobs
    BY <1>4 DEF Load, Admit, Reconcile, CheckCancelled, CallCx, Publish, SaveState, Write, Close,
                Crash, Outage, OnlyProcess
  <1>5. ASSUME NEW r \in Requests, NEW j \in JobIds,
               BeginAdmit(r, j) \/ BeginRender(r, j) \/ BeginCancel(r, j) \/ BeginReconcile(r, j)
        PROVE  UNCHANGED jobs
    BY <1>5 DEF BeginAdmit, BeginRender, BeginCancel, BeginReconcile, Begin, OnlyProcess
  <1>6. CASE UNCHANGED vars
    BY <1>6 DEF vars
  <1> QED
    BY <1>1, <1>2, <1>3, <1>4, <1>5, <1>6 DEF Next, Proceed, Processes

RenderJobsFollowLifecycle == Lifecycle!Spec

\* Handler, runner, routes and operators together keep what the job queue
\* promises of each render job: no attempt beyond the budget, no way back from
\* an end, and a dead letter only for a job that was running.
THEOREM RenderJobsKeepThePromise == Spec => RenderJobsFollowLifecycle
  <1>1. Init => Lifecycle!Init
    <2> SUFFICES ASSUME Init PROVE Lifecycle!Init
      OBVIOUS
    <2>1. \A j \in JobIds : /\ jobs[j].status = "NONE" /\ jobs[j].attempt_count = 0
                            /\ jobs[j].max_attempts \in Nat \ {0}
      BY RenderAssumption DEF Init, RenderJob, NewJob
    <2> QED
      BY <2>1 DEF Lifecycle!Init, PhasesOf, UsedOf, BudgetsOf, Phase
  <1>2. IInv /\ [Next]_vars => [Lifecycle!Next]_(Lifecycle!vars)
    <2> SUFFICES ASSUME IInv, [Next]_vars PROVE [Lifecycle!Next]_(Lifecycle!vars)
      OBVIOUS
    <2>1. CASE UNCHANGED jobs
      BY <2>1 DEF Lifecycle!vars
    <2> QED
      BY <2>1, StepWrites, WriteFollows DEF IInv
  <1> QED
    BY <1>1, <1>2, Invariance, PTL DEF Spec, RenderJobsFollowLifecycle, Lifecycle!Spec
=============================================================================
