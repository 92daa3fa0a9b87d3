--------------------------- MODULE JobQueueProofs ---------------------------
(***************************************************************************)
(* Safety of JobQueue for every number of jobs, callers and workers, every *)
(* retry policy and every clock bound.                                     *)
(*                                                                         *)
(* The inductive invariant IInv has four parts: every row is well formed   *)
(* (RowOK), a claim in flight still sees the row it selected               *)
(* (ClaimIsCurrent), a row about to be inserted is a fresh QUEUED row whose*)
(* source is a dead letter (CallOK), and the table relates its rows as it  *)
(* should (LineageIsDeadLetter, OneJobPerKey).  Existing rows only change  *)
(* as Evolves allows, which is what keeps the relations between rows.      *)
(***************************************************************************)
EXTENDS JobQueue, JobRecordProofs, TLAPS

\* The source of a replay, as a row to be inserted or a stored row names it.
LineageOK(row) ==
    row.lineage # NoJob =>
        /\ CanReplay(jobs[row.lineage])
        /\ jobs[row.lineage].job_type = row.job_type
        /\ jobs[row.lineage].max_attempts = row.max_attempts

\* A claim read the clock when it selected its row.
TimesOK == \A w \in Workers : claim[w].at <= now

\* The row of a waiting INSERT.
CallOK ==
    \A c \in Callers : call[c].step = "insert" =>
        /\ call[c].job \in JobIds
        /\ RowOK(call[c].row, now)
        /\ call[c].row.status = "QUEUED"
        /\ call[c].row.attempt_count = 0
        /\ LineageOK(call[c].row)

IInv ==
    /\ TypeOK
    /\ \A j \in JobIds : RowOK(jobs[j], now)
    /\ CallOK
    /\ ClaimIsCurrent
    /\ TimesOK
    /\ LineageIsDeadLetter
    /\ OneJobPerKey

----------------------------------------------------------------------------
(* The row operators.                                                      *)

LEMMA AbsentJobOK ==
    ASSUME NEW t \in Int
    PROVE  RowOK(AbsentJob, t) /\ AbsentJob.status = "NONE" /\ AbsentJob.error = "none"
  <1>1. (CHOOSE y \in JobTypes : TRUE) \in JobTypes
    BY QueueAssumption
  <1>2. (CHOOSE k \in Keys : TRUE) \in Keys
    BY QueueAssumption
  <1> QED
    BY <1>1, <1>2, AbsentRowOK DEF AbsentJob

----------------------------------------------------------------------------
(* The table.                                                              *)

\* What the table part of IInv says in the state after a step.
TableOK ==
    /\ jobs \in [JobIds -> Job]
    /\ \A j \in JobIds : RowOK(jobs[j], now)
    /\ LineageIsDeadLetter
    /\ OneJobPerKey

LEMMA InvTable == IInv => TableOK /\ now \in Int
  BY QueueAssumption DEF IInv, TypeOK, TableOK

LEMMA RowUpdate ==
    ASSUME TableOK, now \in Int, now' = now,
           NEW j \in JobIds, NEW row, RowOK(row, now), Evolves(jobs[j], row),
           jobs' = [jobs EXCEPT ![j] = row]
    PROVE  /\ TableOK'
           /\ \A r : r.lineage \in JobIds \cup {NoJob} /\ LineageOK(r) => LineageOK(r)'
           /\ \A i \in JobIds : Exists(i)' <=> Exists(i)
  <1>1. jobs' \in [JobIds -> Job]
    BY DEF TableOK, RowOK
  <1>2. \A i \in JobIds : jobs'[i] = IF i = j THEN row ELSE jobs[i]
    BY DEF TableOK
  <1>3. \A i \in JobIds : RowOK(jobs'[i], now')
    BY <1>2 DEF TableOK
  <1>4. \A i \in JobIds : Exists(i)' <=> Exists(i)
    BY <1>2 DEF Exists, Evolves, JOB_STATUSES, TERMINAL_JOB_STATUSES
  <1>5. \A i \in JobIds : CanReplay(jobs[i]) => jobs'[i] = jobs[i]
    BY <1>2 DEF CanReplay, Evolves
  <1>6. \A i \in JobIds : /\ jobs'[i].lineage = jobs[i].lineage
                          /\ jobs'[i].job_type = jobs[i].job_type
                          /\ jobs'[i].key = jobs[i].key
                          /\ jobs'[i].max_attempts = jobs[i].max_attempts
    BY <1>2 DEF Evolves
  <1>7. \A r : r.lineage \in JobIds \cup {NoJob} /\ LineageOK(r) => LineageOK(r)'
    BY <1>5 DEF LineageOK
  <1>8. \A i \in JobIds : jobs[i].lineage \in JobIds \cup {NoJob}
    BY DEF TableOK, Job
  <1>9. LineageIsDeadLetter'
    BY <1>4, <1>5, <1>6, <1>8 DEF TableOK, LineageIsDeadLetter, CanReplay
  <1>10. OneJobPerKey'
    BY <1>4, <1>6 DEF TableOK, OneJobPerKey, SameKey
  <1> QED
    BY <1>1, <1>3, <1>4, <1>7, <1>9, <1>10 DEF TableOK

LEMMA RowInsert ==
    ASSUME TableOK, now \in Int, now' = now,
           NEW j \in JobIds, NEW row, RowOK(row, now), row.status = "QUEUED",
           LineageOK(row), ~Conflicts(j, row),
           jobs' = [jobs EXCEPT ![j] = row]
    PROVE  /\ TableOK'
           /\ \A r : r.lineage \in JobIds \cup {NoJob} /\ LineageOK(r) => LineageOK(r)'
  <1>1. jobs' \in [JobIds -> Job]
    BY DEF TableOK, RowOK
  <1>2. \A i \in JobIds : jobs'[i] = IF i = j THEN row ELSE jobs[i]
    BY DEF TableOK
  <1>3. \A i \in JobIds : RowOK(jobs'[i], now')
    BY <1>2 DEF TableOK
  <1>4. ~Exists(j) /\ \A i \in JobIds : Exists(i) => ~SameKey(jobs[i], row)
    BY DEF Conflicts
  <1>5. \A i \in JobIds : CanReplay(jobs[i]) => jobs'[i] = jobs[i]
    BY <1>2, <1>4 DEF CanReplay, Exists
  <1>6. \A i \in JobIds : jobs[i].lineage \in JobIds \cup {NoJob}
    BY DEF TableOK, Job
  <1>7. row.lineage \in JobIds \cup {NoJob}
    BY DEF RowOK, Job
  <1>8. \A r : r.lineage \in JobIds \cup {NoJob} /\ LineageOK(r) => LineageOK(r)'
    BY <1>5 DEF LineageOK
  <1>9. LineageIsDeadLetter'
    <2> SUFFICES ASSUME NEW i \in JobIds, Exists(i)', jobs'[i].lineage # NoJob
                 PROVE  /\ CanReplay(jobs'[jobs'[i].lineage])
                        /\ jobs'[jobs'[i].lineage].job_type = jobs'[i].job_type
                        /\ jobs'[jobs'[i].lineage].max_attempts = jobs'[i].max_attempts
      BY DEF LineageIsDeadLetter, CanReplay
    <2>1. CASE i = j
      BY <2>1, <1>2, <1>5, <1>7 DEF LineageOK
    <2>2. CASE i # j
      BY <2>2, <1>2, <1>5, <1>6 DEF TableOK, LineageIsDeadLetter, CanReplay, Exists
    <2> QED
      BY <2>1, <2>2
  <1>10. OneJobPerKey'
    <2> SUFFICES ASSUME NEW i \in JobIds, NEW k \in JobIds, Exists(i)', Exists(k)',
                        SameKey(jobs'[i], jobs'[k])
                 PROVE  i = k
      BY DEF OneJobPerKey
    <2> QED
      BY <1>2, <1>4 DEF TableOK, OneJobPerKey, SameKey, Exists
  <1> QED
    BY <1>1, <1>3, <1>8, <1>9, <1>10 DEF TableOK

----------------------------------------------------------------------------
(* The steps.                                                              *)

LEMMA InitInv == Init => IInv
  <1> SUFFICES ASSUME Init PROVE IInv
    OBVIOUS
  <1> USE RecordAssumption, QueueAssumption
  <1>1. /\ RowOK(AbsentJob, 0) /\ AbsentJob.status = "NONE" /\ AbsentJob.error = "none"
    BY AbsentJobOK
  <1>2. AbsentJob \in Job /\ AbsentJob.attempt_count <= AbsentJob.max_attempts
    BY <1>1 DEF RowOK
  <1>3. now = 0 /\ 0 \in 0..MaxTime
    BY DEF Init
  <1>4. \A j \in JobIds : jobs[j] = AbsentJob
    BY DEF Init
  <1>5. \A c \in Callers : call[c].step = "idle" /\ call[c] \in Call
    BY <1>2 DEF Init, Call
  <1>6. \A w \in Workers : claim[w] = NoClaim
    BY DEF Init
  <1>7. TypeOK
    <2>1. jobs \in [JobIds -> Job]
      BY <1>2 DEF Init
    <2>2. call \in [Callers -> Call]
      BY <1>5 DEF Init
    <2>3. claim \in [Workers -> [job : JobIds \cup {NoJob}, at : 0..MaxTime]]
      BY <1>3 DEF Init, NoClaim
    <2> QED
      BY <1>2, <1>3, <1>4, <2>1, <2>2, <2>3 DEF TypeOK
  <1>8. \A j \in JobIds : RowOK(jobs[j], now)
    BY <1>1, <1>3, <1>4
  <1>9. CallOK
    BY <1>5 DEF CallOK
  <1>10. ClaimIsCurrent
    BY <1>6 DEF ClaimIsCurrent
  <1>11. LineageIsDeadLetter /\ OneJobPerKey
    BY <1>1, <1>4 DEF LineageIsDeadLetter, OneJobPerKey, Exists
  <1>12. TimesOK
    BY <1>3, <1>6 DEF TimesOK, NoClaim
  <1> QED
    BY <1>7, <1>8, <1>9, <1>10, <1>11, <1>12 DEF IInv

\* The clock only makes locks older.
LEMMA TickInv == IInv /\ Tick => IInv'
  <1> SUFFICES ASSUME IInv, Tick PROVE IInv'
    OBVIOUS
  <1> USE QueueAssumption
  <1>1. now \in Nat /\ now' = now + 1 /\ now' \in 0..MaxTime
    BY DEF Tick, IInv, TypeOK
  <1>2. \A r : RowOK(r, now) => RowOK(r, now')
    BY <1>1 DEF RowOK, Job
  <1>3. UNCHANGED <<jobs, call, claim>>
    BY DEF Tick
  <1>4. TypeOK'
    BY <1>1, <1>3 DEF IInv, TypeOK
  <1>5. CallOK'
    BY <1>2, <1>3 DEF IInv, CallOK, LineageOK
  <1>6. (ClaimIsCurrent /\ LineageIsDeadLetter /\ OneJobPerKey)'
    BY <1>3 DEF IInv, ClaimIsCurrent, LineageIsDeadLetter, OneJobPerKey, Exists
  <1>7. TimesOK'
    BY <1>1, <1>3 DEF IInv, TimesOK, TypeOK
  <1> QED
    BY <1>2, <1>3, <1>4, <1>5, <1>6, <1>7 DEF IInv

\* A step on one row that no claim holds, or that only its claimer holds and
\* that ends the claim, keeps the invariant.
LEMMA UpdateInv ==
    ASSUME IInv, NEW j \in JobIds, NEW row, RowOK(row, now), Evolves(jobs[j], row),
           jobs' = [jobs EXCEPT ![j] = row],
           claim' \in [Workers -> [job : JobIds \cup {NoJob}, at : 0..MaxTime]],
           \A w \in Workers : claim'[w] # NoClaim => claim'[w] = claim[w] /\ claim[w].job # j,
           UNCHANGED <<call, now>>
    PROVE  IInv'
  <1>1. TableOK /\ now \in Int
    BY InvTable
  <1>2. /\ TableOK'
        /\ \A r : r.lineage \in JobIds \cup {NoJob} /\ LineageOK(r) => LineageOK(r)'
    BY <1>1, RowUpdate
  <1>3. TypeOK'
    BY <1>2 DEF TableOK, RowOK, IInv, TypeOK
  <1>4. CallOK'
    <2> SUFFICES ASSUME NEW c \in Callers, call[c].step = "insert"
                 PROVE  /\ call[c].job \in JobIds
                        /\ RowOK(call[c].row, now)
                        /\ call[c].row.status = "QUEUED"
                        /\ call[c].row.attempt_count = 0
                        /\ LineageOK(call[c].row)'
      BY DEF CallOK
    <2>1. call[c].row \in Job
      BY DEF IInv, CallOK, RowOK
    <2> QED
      BY <1>2, <2>1 DEF IInv, CallOK, Job
  <1>5. ClaimIsCurrent'
    <2> SUFFICES ASSUME NEW w \in Workers, claim'[w] # NoClaim
                 PROVE  /\ claim'[w].job \in JobIds
                        /\ CanTransition(jobs'[claim'[w].job], "RUNNING")
                        /\ \A v \in Workers \ {w} : claim'[v].job # claim'[w].job
      BY DEF ClaimIsCurrent
    <2>1. claim'[w] = claim[w] /\ claim[w].job # j /\ claim[w].job \in JobIds
      BY DEF IInv, ClaimIsCurrent
    <2>2. jobs'[claim[w].job] = jobs[claim[w].job]
      BY <2>1, <1>1 DEF TableOK
    <2>3. ASSUME NEW v \in Workers \ {w} PROVE claim'[v].job # claim'[w].job
      <3>1. CASE claim'[v] = NoClaim
        BY <2>1, <3>1, RecordAssumption DEF NoClaim
      <3>2. CASE claim'[v] # NoClaim
        BY <2>1, <3>2 DEF IInv, ClaimIsCurrent
      <3> QED
        BY <3>1, <3>2
    <2> QED
      BY <2>1, <2>2, <2>3 DEF IInv, ClaimIsCurrent
  <1>6. TimesOK'
    BY <1>1, QueueAssumption DEF IInv, TimesOK, NoClaim, TypeOK
  <1> QED
    BY <1>2, <1>3, <1>4, <1>5, <1>6 DEF IInv, TableOK

\* A refused or pending enqueue changes only what its caller knows.
LEMMA CallInv ==
    ASSUME IInv, UNCHANGED <<jobs, claim, now>>,
           NEW c \in Callers, NEW rec \in Call, call' = [call EXCEPT ![c] = rec],
           rec.step = "insert" =>
            /\ rec.job \in JobIds /\ RowOK(rec.row, now)
            /\ rec.row.status = "QUEUED" /\ rec.row.attempt_count = 0
            /\ LineageOK(rec.row)
    PROVE  IInv'
  <1>1. TypeOK'
    BY DEF IInv, TypeOK
  <1>2. \A d \in Callers : call'[d] = IF d = c THEN rec ELSE call[d]
    BY DEF IInv, TypeOK
  <1>3. CallOK'
    BY <1>2 DEF IInv, CallOK, LineageOK
  <1>4. (ClaimIsCurrent /\ TimesOK /\ LineageIsDeadLetter /\ OneJobPerKey)'
    BY DEF IInv, ClaimIsCurrent, TimesOK, LineageIsDeadLetter, OneJobPerKey, Exists
  <1> QED
    BY <1>1, <1>3, <1>4 DEF IInv

LEMMA AnsweredType ==
    ASSUME NEW row \in Job, NEW result \in {"none", "stored", "existing", "duplicate_id"},
           NEW refused \in JobIds \cup {NoJob}, NEW answer \in JobIds \cup {NoJob}
    PROVE  Answered(row, result, refused, answer) \in Call
           /\ Answered(row, result, refused, answer).step = "idle"
  <1>1. row.job_type \in JobTypes /\ row.key \in Keys
    BY DEF Job
  <1>2. AbsentJob \in Job
    BY AbsentJobOK DEF RowOK
  <1>3. [AbsentJob EXCEPT !.job_type = row.job_type, !.key = row.key] \in Job
    BY <1>1, <1>2 DEF Job
  <1> QED
    BY <1>3 DEF Answered, Call

LEMMA EnqueueSelectInv ==
    ASSUME IInv, NEW c \in Callers, NEW j \in JobIds, NEW row, RowOK(row, now),
           row.status = "QUEUED", row.attempt_count = 0, LineageOK(row),
           EnqueueSelect(c, j, row)
    PROVE  IInv'
  <1> USE DEF EnqueueSelect
  <1>1. row \in Job
    BY DEF RowOK
  <1>2. ASSUME NEW e \in JobIds, call' = [call EXCEPT ![c] = Answered(row, "existing", NoJob, e)]
        PROVE  IInv'
    <2>1. /\ Answered(row, "existing", NoJob, e) \in Call
          /\ Answered(row, "existing", NoJob, e).step = "idle"
      BY <1>1, AnsweredType
    <2> QED
      BY <1>2, <2>1, CallInv
  <1>3. ASSUME call' = [call EXCEPT ![c] = Answered(row, "duplicate_id", j, NoJob)]
        PROVE  IInv'
    <2>1. /\ Answered(row, "duplicate_id", j, NoJob) \in Call
          /\ Answered(row, "duplicate_id", j, NoJob).step = "idle"
      BY <1>1, AnsweredType
    <2> QED
      BY <1>3, <2>1, CallInv
  <1>4. ASSUME call' = [call EXCEPT ![c] = [step |-> "insert", job |-> j, row |-> row,
                                            result |-> "none", answer |-> NoJob]]
        PROVE  IInv'
    <2> DEFINE rec == [step |-> "insert", job |-> j, row |-> row,
                       result |-> "none", answer |-> NoJob]
    <2>1. rec \in Call /\ rec.job = j /\ rec.row = row
      BY <1>1 DEF Call
    <2> HIDE DEF rec
    <2> QED
      BY <1>4, <2>1, CallInv DEF rec
  <1> QED
    BY <1>2, <1>3, <1>4

LEMMA EnqueueInv == ASSUME IInv, NEW c \in Callers, NEW j \in JobIds, Enqueue(c, j)
                    PROVE  IInv'
  <1>1. PICK y \in JobTypes, k \in Keys, m \in 1..MaxAttempts, r \in BOOLEAN :
            EnqueueSelect(c, j, NewJob(y, k, m, r, now, NoJob))
    BY DEF Enqueue
  <1> DEFINE row == NewJob(y, k, m, r, now, NoJob)
  <1>2. now \in Int /\ m \in Nat \ {0}
    BY InvTable, QueueAssumption
  <1>3. RowOK(row, now) /\ row.status = "QUEUED" /\ row.attempt_count = 0
    BY <1>2, NewJobOK
  <1>4. LineageOK(row)
    BY DEF LineageOK, NewJob
  <1> HIDE DEF row
  <1> QED
    BY <1>1, <1>3, <1>4, EnqueueSelectInv DEF row

LEMMA ReplayInv == ASSUME IInv, NEW c \in Callers, NEW source \in JobIds, NEW j \in JobIds,
                          Replay(c, source, j)
                   PROVE  IInv'
  <1> DEFINE type == jobs[source].job_type
             max == jobs[source].max_attempts
  <1>1. PICK k \in Keys : EnqueueSelect(c, j, NewJob(type, k, max, TRUE, now, source))
    BY DEF Replay
  <1> DEFINE row == NewJob(type, k, max, TRUE, now, source)
  <1>2. now \in Int /\ type \in JobTypes /\ max \in Nat \ {0}
    BY InvTable DEF TableOK, Job
  <1>3. RowOK(row, now) /\ row.status = "QUEUED" /\ row.attempt_count = 0
    <2> DEFINE r == TRUE
    <2>1. r \in BOOLEAN
      OBVIOUS
    <2>2. row = NewJob(type, k, max, r, now, source)
      OBVIOUS
    <2> HIDE DEF type, max, row, r
    <2> QED
      BY <1>2, <2>1, <2>2, NewJobOK
  <1>4. LineageOK(row)
    BY DEF LineageOK, NewJob, Replay
  <1> HIDE DEF row
  <1> QED
    BY <1>1, <1>3, <1>4, EnqueueSelectInv DEF row

LEMMA EnqueueInsertInv == ASSUME IInv, NEW c \in Callers, EnqueueInsert(c)
                          PROVE  IInv'
  <1> DEFINE j == call[c].job
             row == call[c].row
  <1>1. /\ j \in JobIds /\ RowOK(row, now) /\ row.status = "QUEUED"
        /\ LineageOK(row) /\ row \in Job
    BY DEF EnqueueInsert, IInv, CallOK, RowOK
  <1>2. CASE Conflicts(j, row)
    <2>1. /\ Answered(row, "duplicate_id", j, NoJob) \in Call
          /\ Answered(row, "duplicate_id", j, NoJob).step = "idle"
      BY <1>1, AnsweredType
    <2>2. /\ call' = [call EXCEPT ![c] = Answered(row, "duplicate_id", j, NoJob)]
          /\ UNCHANGED <<jobs, claim, now>>
      BY <1>2 DEF EnqueueInsert
    <2> HIDE DEF j, row
    <2> QED
      BY <2>1, <2>2, CallInv
  <1>3. CASE ~Conflicts(j, row)
    <2> DEFINE rec == Answered(row, "stored", NoJob, j)
    <2>1. rec \in Call /\ rec.step = "idle"
      <3>1. j \in JobIds /\ row \in Job
        BY <1>1
      <3> HIDE DEF j, row
      <3> QED
        BY <3>1, AnsweredType
    <2>2. /\ call' = [call EXCEPT ![c] = rec]
          /\ jobs' = [jobs EXCEPT ![j] = row]
          /\ UNCHANGED <<claim, now>>
      BY <1>3 DEF EnqueueInsert
    <2> HIDE DEF j, row, rec
    <2>3. TableOK /\ now \in Int
      BY InvTable
    <2>4. /\ TableOK'
          /\ \A r : r.lineage \in JobIds \cup {NoJob} /\ LineageOK(r) => LineageOK(r)'
      BY <1>1, <1>3, <2>2, <2>3, RowInsert
    <2>5. TypeOK'
      BY <2>1, <2>2, <2>4 DEF TableOK, RowOK, IInv, TypeOK
    <2>6. CallOK'
      <3> SUFFICES ASSUME NEW d \in Callers, call'[d].step = "insert"
                   PROVE  (/\ call[d].job \in JobIds
                           /\ RowOK(call[d].row, now)
                           /\ call[d].row.status = "QUEUED"
                           /\ call[d].row.attempt_count = 0
                           /\ LineageOK(call[d].row))'
        BY DEF CallOK
      <3>1. call'[d] = call[d]
        BY <2>1, <2>2 DEF IInv, TypeOK
      <3>2. call[d].row \in Job
        BY <3>1 DEF IInv, CallOK, RowOK
      <3> QED
        BY <2>2, <2>4, <3>1, <3>2 DEF IInv, CallOK, Job, LineageOK
    <2>7. ClaimIsCurrent'
      <3>1. \A w \in Workers : claim[w] # NoClaim => jobs'[claim[w].job] = jobs[claim[w].job]
        BY <1>3, <2>2, <2>3 DEF IInv, ClaimIsCurrent, Conflicts, Exists, CanTransition,
           VALID_JOB_TRANSITIONS, TERMINAL_JOB_STATUSES, TableOK
      <3> QED
        BY <2>2, <3>1 DEF IInv, ClaimIsCurrent
    <2>8. TimesOK'
      BY <2>2 DEF IInv, TimesOK
    <2> QED
      BY <2>4, <2>5, <2>6, <2>7, <2>8 DEF IInv, TableOK
  <1> QED
    BY <1>2, <1>3

\* The row a claim selects is QUEUED with an attempt left, and no other claim
\* holds it.
LEMMA ClaimSelectInv == ASSUME IInv, NEW w \in Workers, NEW y \in JobTypes, ClaimSelect(w, y)
                        PROVE  IInv'
  <1> USE DEF ClaimSelect
  <1>1. PICK j \in JobIds : /\ IsCandidate(j, y)
                            /\ claim' = [claim EXCEPT ![w] = [job |-> j, at |-> now]]
    OBVIOUS
  <1>2. \A v \in Workers : claim'[v] = IF v = w THEN [job |-> j, at |-> now] ELSE claim[v]
    BY <1>1 DEF IInv, TypeOK
  <1>3. TypeOK'
    BY <1>1 DEF IInv, TypeOK
  <1>4. (CallOK /\ LineageIsDeadLetter /\ OneJobPerKey)'
    BY DEF IInv, CallOK, LineageOK, LineageIsDeadLetter, OneJobPerKey, Exists
  <1>5. ClaimIsCurrent'
    <2>1. RowFree(j) /\ CanTransition(jobs[j], "RUNNING")
      BY <1>1 DEF IsCandidate, IsClaimable, CanTransition, VALID_JOB_TRANSITIONS
    <2> QED
      BY <1>2, <2>1 DEF IInv, ClaimIsCurrent, RowFree
  <1>6. TimesOK'
    BY <1>2, QueueAssumption DEF IInv, TimesOK, TypeOK
  <1> QED
    BY <1>3, <1>4, <1>5, <1>6 DEF IInv

LEMMA ClaimRollbackInv == ASSUME IInv, NEW w \in Workers, ClaimRollback(w)
                          PROVE  IInv'
  <1> USE DEF ClaimRollback
  <1>1. \A v \in Workers : claim'[v] = IF v = w THEN NoClaim ELSE claim[v]
    BY DEF IInv, TypeOK
  <1>2. TypeOK'
    BY QueueAssumption DEF IInv, TypeOK, NoClaim
  <1>3. (CallOK /\ LineageIsDeadLetter /\ OneJobPerKey)'
    BY DEF IInv, CallOK, LineageOK, LineageIsDeadLetter, OneJobPerKey, Exists
  <1>4. ClaimIsCurrent'
    BY <1>1, RecordAssumption DEF IInv, ClaimIsCurrent, NoClaim
  <1>5. TimesOK'
    BY <1>1, QueueAssumption DEF IInv, TimesOK, TypeOK, NoClaim
  <1> QED
    BY <1>2, <1>3, <1>4, <1>5 DEF IInv

\* What a commit does to the row, used again for the refinement.
LEMMA ClaimCommitRow ==
    ASSUME IInv, NEW w \in Workers, ClaimCommit(w)
    PROVE  LET j == claim[w].job
               row == Transitioned(jobs[j], "RUNNING", w, claim[w].at)
           IN  /\ j \in JobIds
               /\ CanTransition(jobs[j], "RUNNING")
               /\ RowOK(row, now) /\ Evolves(jobs[j], row)
               /\ jobs' = [jobs EXCEPT ![j] = row]
  <1> DEFINE j == claim[w].job
             t == claim[w].at
             row == Transitioned(jobs[j], "RUNNING", w, t)
             s == "RUNNING"
  <1>1. j \in JobIds /\ CanTransition(jobs[j], s)
    BY DEF IInv, ClaimIsCurrent, ClaimCommit
  <1>2. t \in Int /\ now \in Int /\ s \in JOB_STATUSES
    BY QueueAssumption DEF IInv, TypeOK, JOB_STATUSES
  <1>3. jobs' = [jobs EXCEPT ![j] = row]
    BY DEF ClaimCommit
  <1>4. t <= now
    BY DEF IInv, TimesOK
  <1>5. RowOK(jobs[j], now)
    BY <1>1 DEF IInv
  <1>6. RowOK(row, now) /\ Evolves(jobs[j], row)
    <2>1. row = Transitioned(jobs[j], s, w, t)
      OBVIOUS
    <2> HIDE DEF j, t, row, s
    <2> QED
      BY <1>1, <1>2, <1>4, <1>5, <2>1, TransitionedOK
  <1> QED
    BY <1>1, <1>3, <1>6

LEMMA ClaimCommitInv == ASSUME IInv, NEW w \in Workers, ClaimCommit(w)
                        PROVE  IInv'
  <1> DEFINE j == claim[w].job
             row == Transitioned(jobs[j], "RUNNING", w, claim[w].at)
  <1>1. /\ j \in JobIds /\ RowOK(row, now) /\ Evolves(jobs[j], row)
        /\ jobs' = [jobs EXCEPT ![j] = row]
    BY ClaimCommitRow
  <1>2. claim' = [claim EXCEPT ![w] = NoClaim] /\ claim[w] # NoClaim /\ UNCHANGED <<call, now>>
    BY DEF ClaimCommit
  <1>3. claim' \in [Workers -> [job : JobIds \cup {NoJob}, at : 0..MaxTime]]
    BY <1>2, QueueAssumption DEF IInv, TypeOK, NoClaim
  <1>4. \A v \in Workers : claim'[v] # NoClaim => claim'[v] = claim[v] /\ claim[v].job # j
    BY <1>2 DEF IInv, TypeOK, ClaimIsCurrent
  <1> HIDE DEF j, row
  <1> QED
    BY <1>1, <1>2, <1>3, <1>4, UpdateInv

\* An operation by job id waits for the row lock, so no claim holds the row.
LEMMA WriteInv == ASSUME IInv, NEW j \in JobIds, NEW row, RowOK(row, now),
                         Evolves(jobs[j], row), Write(j, row)
                  PROVE  IInv'
  <1>1. claim' \in [Workers -> [job : JobIds \cup {NoJob}, at : 0..MaxTime]]
    BY DEF Write, IInv, TypeOK
  <1>2. \A w \in Workers : claim'[w] # NoClaim => claim'[w] = claim[w] /\ claim[w].job # j
    BY DEF Write, RowFree
  <1>3. jobs' = [jobs EXCEPT ![j] = row] /\ UNCHANGED <<call, now>>
    BY DEF Write
  <1> QED
    BY <1>1, <1>2, <1>3, UpdateInv

LEMMA JobOpInv ==
    ASSUME IInv, NEW j \in JobIds,
           \/ RetryJob(j)
           \/ DeadLetterJob(j)
           \/ \E s \in JOB_STATUSES \ {"QUEUED"} : TransitionJob(j, s)
    PROVE  IInv'
  <1>1. now \in Int /\ RowOK(jobs[j], now)
    BY InvTable DEF IInv
  <1>2. CASE RetryJob(j)
    <2>1. PICK t \in 0..MaxTime : Write(j, Retried(jobs[j], t))
      BY <1>2 DEF RetryJob
    <2>2. RowOK(Retried(jobs[j], t), now) /\ Evolves(jobs[j], Retried(jobs[j], t))
      BY <1>1, <1>2, QueueAssumption, RetriedOK DEF RetryJob
    <2> QED
      BY <2>1, <2>2, WriteInv
  <1>3. CASE DeadLetterJob(j)
    <2>1. /\ RowOK(DeadLettered(jobs[j], now), now)
          /\ Evolves(jobs[j], DeadLettered(jobs[j], now))
      BY <1>1, <1>3, DeadLetteredOK DEF DeadLetterJob
    <2> QED
      BY <1>3, <2>1, WriteInv DEF DeadLetterJob
  <1>4. ASSUME NEW s \in JOB_STATUSES \ {"QUEUED"}, TransitionJob(j, s) PROVE IInv'
    <2>1. /\ RowOK(Transitioned(jobs[j], s, NoWorker, now), now)
          /\ Evolves(jobs[j], Transitioned(jobs[j], s, NoWorker, now))
      BY <1>1, <1>4, TransitionedOK DEF TransitionJob
    <2> QED
      BY <1>4, <2>1, WriteInv DEF TransitionJob
  <1> QED
    BY <1>2, <1>3, <1>4

LEMMA NextInv == IInv /\ [Next]_vars => IInv'
  <1> SUFFICES ASSUME IInv, [Next]_vars PROVE IInv'
    OBVIOUS
  <1>1. CASE Tick
    BY <1>1, TickInv
  <1>2. ASSUME NEW c \in Callers, EnqueueInsert(c) PROVE IInv'
    BY <1>2, EnqueueInsertInv
  <1>3. ASSUME NEW c \in Callers, NEW j \in JobIds, Enqueue(c, j) PROVE IInv'
    BY <1>3, EnqueueInv
  <1>4. ASSUME NEW c \in Callers, NEW source \in JobIds, NEW j \in JobIds, Replay(c, source, j)
        PROVE  IInv'
    BY <1>4, ReplayInv
  <1>5. ASSUME NEW w \in Workers, ClaimCommit(w) PROVE IInv'
    BY <1>5, ClaimCommitInv
  <1>6. ASSUME NEW w \in Workers, ClaimRollback(w) PROVE IInv'
    BY <1>6, ClaimRollbackInv
  <1>7. ASSUME NEW w \in Workers, NEW y \in JobTypes, ClaimSelect(w, y) PROVE IInv'
    BY <1>7, ClaimSelectInv
  <1>8. ASSUME NEW j \in JobIds,
               \/ RetryJob(j)
               \/ DeadLetterJob(j)
               \/ \E s \in JOB_STATUSES \ {"QUEUED"} : TransitionJob(j, s)
        PROVE  IInv'
    BY <1>8, JobOpInv
  <1>9. CASE UNCHANGED vars
    BY <1>9 DEF vars, IInv, TypeOK, CallOK, LineageOK, ClaimIsCurrent, LineageIsDeadLetter,
                OneJobPerKey, Exists, TimesOK
  <1> QED
    BY <1>1, <1>2, <1>3, <1>4, <1>5, <1>6, <1>7, <1>8, <1>9 DEF Next

LEMMA Invariance == Spec => []IInv
  BY InitInv, NextInv, PTL DEF Spec

\* Rows, calls and claims keep their types and no row is charged more attempts
\* than it was granted, for every table and every interleaving.
THEOREM TypeCorrect == Spec => []TypeOK
  <1>1. IInv => TypeOK
    BY DEF IInv
  <1> QED
    BY <1>1, Invariance, PTL

\* No job is ever parked in QUEUED where no claim query can match it again.
THEOREM NoStrandedJob == Spec => []QueuedIsClaimable
  <1>1. IInv => QueuedIsClaimable
    BY DEF IInv, RowOK, QueuedIsClaimable
  <1> QED
    BY <1>1, Invariance, PTL

\* The row lock makes a claim exclusive and current until it commits.
THEOREM ExclusiveClaim == Spec => []ClaimIsCurrent
  <1>1. IInv => ClaimIsCurrent
    BY DEF IInv
  <1> QED
    BY <1>1, Invariance, PTL

\* locked_by and locked_at are evidence of a running job, never left behind.
THEOREM LockImpliesRunning == Spec => []LockMeansRunning
  <1>1. IInv => LockMeansRunning
    BY DEF IInv, RowOK, LockMeansRunning
  <1> QED
    BY <1>1, Invariance, PTL

\* Dead letters are final, and what was replayed from one still points at it.
THEOREM DeadLettersStay == Spec => []DeadLetterIsFinal
  <1>1. IInv => DeadLetterIsFinal
    BY DEF IInv, RowOK, DeadLetterIsFinal
  <1> QED
    BY <1>1, Invariance, PTL

\* Racing enqueues never store two jobs under one idempotency key.
THEOREM IdempotentTable == Spec => []OneJobPerKey
  <1>1. IInv => OneJobPerKey
    BY DEF IInv
  <1> QED
    BY <1>1, Invariance, PTL

----------------------------------------------------------------------------
(* Answers.                                                                *)

\* Rows are never deleted and never change their key.
KeysKept ==
    \A i \in JobIds : Exists(i) => jobs'[i].status # "NONE" /\ SameKey(jobs'[i], jobs[i])

LEMMA EvolvesKeepsKeys ==
    ASSUME IInv, NEW j \in JobIds, NEW row, Evolves(jobs[j], row),
           jobs' = [jobs EXCEPT ![j] = row]
    PROVE  KeysKept
  <1>1. \A i \in JobIds : jobs'[i] = IF i = j THEN row ELSE jobs[i]
    BY DEF IInv, TypeOK
  <1> QED
    BY <1>1 DEF KeysKept, Evolves, SameKey, Exists, JOB_STATUSES, TERMINAL_JOB_STATUSES

LEMMA AnswerKept ==
    ASSUME IInv, AnswerHasKey, KeysKept, UNCHANGED call
    PROVE  AnswerHasKey'
  <1> SUFFICES ASSUME NEW c \in Callers, call[c].answer # NoJob
               PROVE  (Exists(call[c].answer) /\ SameKey(jobs[call[c].answer], call[c].row))'
    BY DEF AnswerHasKey
  <1>1. call[c].answer \in JobIds
    BY DEF IInv, TypeOK, Call
  <1>2. Exists(call[c].answer) /\ SameKey(jobs[call[c].answer], call[c].row)
    BY DEF AnswerHasKey
  <1> QED
    BY <1>1, <1>2 DEF KeysKept, SameKey, Exists

\* An answer names a row that has the key of the request.
LEMMA NewAnswer ==
    ASSUME IInv, AnswerHasKey, KeysKept, NEW c \in Callers, NEW rec,
           call' = [call EXCEPT ![c] = rec],
           rec.answer # NoJob => /\ jobs'[rec.answer].status # "NONE"
                                 /\ SameKey(jobs'[rec.answer], rec.row)
    PROVE  AnswerHasKey'
  <1> SUFFICES ASSUME NEW d \in Callers, call'[d].answer # NoJob
               PROVE  (Exists(call[d].answer) /\ SameKey(jobs[call[d].answer], call[d].row))'
    BY DEF AnswerHasKey
  <1>1. call'[d] = IF d = c THEN rec ELSE call[d]
    BY DEF IInv, TypeOK
  <1>2. CASE d = c
    BY <1>1, <1>2 DEF Exists
  <1>3. CASE d # c
    <2>1. call[d].answer \in JobIds
      BY <1>1, <1>3 DEF IInv, TypeOK, Call
    <2>2. Exists(call[d].answer) /\ SameKey(jobs[call[d].answer], call[d].row)
      BY <1>1, <1>3 DEF AnswerHasKey
    <2> QED
      BY <1>1, <1>3, <2>1, <2>2 DEF KeysKept, SameKey, Exists
  <1> QED
    BY <1>2, <1>3

LEMMA AnsweredKey ==
    ASSUME NEW row, NEW result, NEW refused, NEW answer
    PROVE  LET rec == Answered(row, result, refused, answer) IN
           /\ rec.answer = answer
           /\ \A r : SameKey(r, row) => SameKey(r, rec.row)
  <1>1. AbsentJob \in Job
    BY AbsentJobOK DEF RowOK
  <1>2. LET r == [AbsentJob EXCEPT !.job_type = row.job_type, !.key = row.key]
        IN  r.job_type = row.job_type /\ r.key = row.key
    BY <1>1 DEF Job
  <1> QED
    BY <1>2 DEF Answered, SameKey

LEMMA EnqueueSelectAnswer ==
    ASSUME IInv, AnswerHasKey, NEW c \in Callers, NEW j, NEW row, EnqueueSelect(c, j, row)
    PROVE  AnswerHasKey'
  <1>1. KeysKept /\ UNCHANGED jobs
    BY DEF EnqueueSelect, KeysKept, SameKey, Exists
  <1>2. ASSUME NEW e \in JobIds, Exists(e), SameKey(jobs[e], row),
               call' = [call EXCEPT ![c] = Answered(row, "existing", NoJob, e)]
        PROVE  AnswerHasKey'
    <2> DEFINE rec == Answered(row, "existing", NoJob, e)
    <2>1. rec.answer = e /\ SameKey(jobs[e], rec.row)
      BY <1>2, AnsweredKey
    <2> HIDE DEF rec
    <2>2. call' = [call EXCEPT ![c] = rec]
      BY <1>2 DEF rec
    <2> QED
      BY <1>1, <1>2, <2>1, <2>2, NewAnswer DEF Exists
  <1>3. ASSUME NEW rec, rec.answer = NoJob, call' = [call EXCEPT ![c] = rec]
        PROVE  AnswerHasKey'
    BY <1>1, <1>3, NewAnswer
  <1>4. Answered(row, "duplicate_id", j, NoJob).answer = NoJob
    BY AnsweredKey
  <1> QED
    BY <1>2, <1>3, <1>4 DEF EnqueueSelect

LEMMA EnqueueInsertAnswer ==
    ASSUME IInv, AnswerHasKey, NEW c \in Callers, EnqueueInsert(c)
    PROVE  AnswerHasKey'
  <1> DEFINE j == call[c].job
             row == call[c].row
             refusal == Answered(row, "duplicate_id", j, NoJob)
             stored == Answered(row, "stored", NoJob, j)
  <1>1. j \in JobIds /\ row.status = "QUEUED"
    BY DEF EnqueueInsert, IInv, CallOK
  <1>2. CASE Conflicts(j, row)
    <2>1. call' = [call EXCEPT ![c] = refusal] /\ UNCHANGED jobs
      BY <1>2 DEF EnqueueInsert
    <2>2. KeysKept
      BY <2>1 DEF KeysKept, SameKey, Exists
    <2>3. refusal.answer = NoJob
      BY AnsweredKey
    <2> HIDE DEF refusal
    <2> QED
      BY <2>1, <2>2, <2>3, NewAnswer
  <1>3. CASE ~Conflicts(j, row)
    <2>1. call' = [call EXCEPT ![c] = stored] /\ jobs' = [jobs EXCEPT ![j] = row]
      BY <1>3 DEF EnqueueInsert
    <2>2. stored.answer = j /\ SameKey(row, stored.row)
      BY AnsweredKey DEF SameKey
    <2> HIDE DEF j, row, stored
    <2>3. \A i \in JobIds : jobs'[i] = IF i = j THEN row ELSE jobs[i]
      BY <2>1 DEF IInv, TypeOK
    <2>4. KeysKept
      BY <1>3, <2>3 DEF KeysKept, SameKey, Exists, Conflicts
    <2>5. jobs'[j] = row
      BY <1>1, <2>3
    <2> QED
      BY <1>1, <2>1, <2>2, <2>4, <2>5, NewAnswer
  <1> QED
    BY <1>2, <1>3

LEMMA AnswerStep == IInv /\ AnswerHasKey /\ [Next]_vars => AnswerHasKey'
  <1> SUFFICES ASSUME IInv, AnswerHasKey, [Next]_vars PROVE AnswerHasKey'
    OBVIOUS
  <1>1. CASE UNCHANGED <<jobs, call>>
    BY <1>1 DEF AnswerHasKey, Exists, SameKey
  <1>2. ASSUME NEW c \in Callers, EnqueueInsert(c) PROVE AnswerHasKey'
    BY <1>2, EnqueueInsertAnswer
  <1>3. ASSUME NEW c \in Callers, NEW j \in JobIds,
               Enqueue(c, j) \/ \E source \in JobIds : Replay(c, source, j)
        PROVE  AnswerHasKey'
    BY <1>3, EnqueueSelectAnswer DEF Enqueue, Replay
  <1>4. ASSUME NEW w \in Workers, ClaimCommit(w) PROVE AnswerHasKey'
    <2> DEFINE j == claim[w].job
               row == Transitioned(jobs[j], "RUNNING", w, claim[w].at)
    <2>1. j \in JobIds /\ Evolves(jobs[j], row) /\ jobs' = [jobs EXCEPT ![j] = row]
      BY <1>4, ClaimCommitRow
    <2>2. UNCHANGED call
      BY <1>4 DEF ClaimCommit
    <2> HIDE DEF j, row
    <2> QED
      BY <2>1, <2>2, EvolvesKeepsKeys, AnswerKept
  <1>5. ASSUME NEW j \in JobIds,
               \/ RetryJob(j)
               \/ DeadLetterJob(j)
               \/ \E s \in JOB_STATUSES \ {"QUEUED"} : TransitionJob(j, s)
        PROVE  AnswerHasKey'
    <2>1. now \in Int /\ RowOK(jobs[j], now)
      BY InvTable DEF IInv
    <2>2. ASSUME NEW row, Evolves(jobs[j], row), Write(j, row) PROVE AnswerHasKey'
      <3>1. jobs' = [jobs EXCEPT ![j] = row] /\ UNCHANGED call
        BY <2>2 DEF Write
      <3> QED
        BY <2>2, <3>1, EvolvesKeepsKeys, AnswerKept
    <2>3. CASE RetryJob(j)
      BY <2>1, <2>2, <2>3, QueueAssumption, RetriedOK DEF RetryJob
    <2>4. CASE DeadLetterJob(j)
      BY <2>1, <2>2, <2>4, DeadLetteredOK DEF DeadLetterJob
    <2>5. ASSUME NEW s \in JOB_STATUSES \ {"QUEUED"}, TransitionJob(j, s)
          PROVE  AnswerHasKey'
      BY <2>1, <2>2, <2>5, TransitionedOK DEF TransitionJob
    <2> QED
      BY <1>5, <2>3, <2>4, <2>5
  <1>6. CASE Tick
    BY <1>1, <1>6 DEF Tick
  <1>7. ASSUME NEW w \in Workers,
               ClaimRollback(w) \/ \E y \in JobTypes : ClaimSelect(w, y)
        PROVE  AnswerHasKey'
    BY <1>1, <1>7 DEF ClaimRollback, ClaimSelect
  <1>8. CASE UNCHANGED vars
    BY <1>1, <1>8 DEF vars
  <1> QED
    BY <1>2, <1>3, <1>4, <1>5, <1>6, <1>7, <1>8 DEF Next

\* A caller that is given a job, new or existing, is given one under its own
\* key, and it stays so whatever happens to the row afterwards.
THEOREM AnswersMatchRequests == Spec => []AnswerHasKey
  <1>1. Init => AnswerHasKey
    BY DEF Init, AnswerHasKey
  <1> QED
    BY <1>1, AnswerStep, Invariance, PTL DEF Spec

----------------------------------------------------------------------------
(* The table implements JobLifecycle.                                      *)

\* A row that moves as its job may, or is inserted, is a step of the promise.
LEMMA RowFollows ==
    ASSUME jobs \in [JobIds -> Job], NEW j \in JobIds, NEW row, jobs' = [jobs EXCEPT ![j] = row],
           Advances(jobs[j], row) \/ Submits(jobs[j], row)
    PROVE  Lifecycle!Next
  <1>1. Promised(j, PhasesOf(JobIds, jobs), UsedOf(JobIds, jobs), BudgetsOf(JobIds, jobs),
            PhasesOf(JobIds, jobs'), UsedOf(JobIds, jobs'), BudgetsOf(JobIds, jobs'))
    BY RowIsPromised
  <1>2. Lifecycle!Submit(j) \/ Lifecycle!Start(j) \/ Lifecycle!Requeue(j)
        \/ Lifecycle!Finish(j) \/ Lifecycle!Cancel(j)
    BY <1>1 DEF PhasesOf, UsedOf, BudgetsOf, Promised, Lifecycle!Submit, Lifecycle!Start,
        Lifecycle!Requeue, Lifecycle!Finish, Lifecycle!Cancel, Lifecycle!Move, Lifecycle!Ended
  <1> QED
    BY <1>2 DEF Lifecycle!Next

LEMMA TransitionStep ==
    ASSUME IInv, NEW j \in JobIds, NEW s \in JOB_STATUSES, CanTransition(jobs[j], s),
           NEW w, NEW u,
           jobs' = [jobs EXCEPT ![j] = Transitioned(jobs[j], s, w, u)]
    PROVE  Lifecycle!Next
  BY TransitionedAdvances, RowFollows DEF IInv, TypeOK

LEMMA DeadLetterStep ==
    ASSUME IInv, NEW j \in JobIds, jobs[j].status = "RUNNING", NEW u,
           jobs' = [jobs EXCEPT ![j] = DeadLettered(jobs[j], u)]
    PROVE  Lifecycle!Next
  BY DeadLetteredAdvances, RowFollows DEF IInv, TypeOK

LEMMA RetryStep ==
    ASSUME IInv, NEW j \in JobIds, jobs[j].status = "RUNNING", NEW u,
           jobs' = [jobs EXCEPT ![j] = Retried(jobs[j], u)]
    PROVE  Lifecycle!Next
  BY RetriedAdvances, RowFollows DEF IInv, TypeOK

LEMMA InsertStep ==
    ASSUME IInv, NEW c \in Callers, EnqueueInsert(c)
    PROVE  [Lifecycle!Next]_Lifecycle!vars
  <1>0. PICK j \in JobIds : j = call[c].job
    BY DEF EnqueueInsert, IInv, CallOK
  <1> DEFINE row == call[c].row
  <1>1. /\ row \in Job /\ row.status = "QUEUED" /\ row.attempt_count = 0
        /\ jobs \in [JobIds -> Job]
    BY <1>0 DEF EnqueueInsert, IInv, CallOK, RowOK, TypeOK
  <1>2. CASE Conflicts(j, row)
    BY <1>0, <1>2 DEF EnqueueInsert, Lifecycle!vars
  <1>3. CASE ~Conflicts(j, row)
    <2>1. jobs' = [jobs EXCEPT ![j] = row]
      BY <1>0, <1>3 DEF EnqueueInsert
    <2>2. jobs[j].status = "NONE" /\ jobs[j].attempt_count = 0
      BY <1>1, <1>3 DEF Conflicts, Exists, IInv, RowOK
    <2>3. row.max_attempts \in Nat \ {0}
      BY <1>1 DEF Job
    <2> HIDE DEF row
    <2>4. Phase(jobs[j]) = "absent" /\ Phase(row) = "waiting"
      BY <1>1, <2>2 DEF Phase
    <2>5. Submits(jobs[j], row)
      BY <1>1, <2>2, <2>3, <2>4 DEF Submits
    <2>6. Lifecycle!Next
      BY <1>1, <2>1, <2>5, RowFollows
    <2> QED
      BY <2>6
  <1> QED
    BY <1>2, <1>3

LEMMA StepImplements == IInv /\ [Next]_vars => [Lifecycle!Next]_Lifecycle!vars
  <1> SUFFICES ASSUME IInv, [Next]_vars PROVE [Lifecycle!Next]_Lifecycle!vars
    OBVIOUS
  <1>1. CASE UNCHANGED jobs
    BY <1>1 DEF Lifecycle!vars
  <1>2. ASSUME NEW c \in Callers, EnqueueInsert(c) PROVE [Lifecycle!Next]_Lifecycle!vars
    BY <1>2, InsertStep
  <1>3. ASSUME NEW w \in Workers, ClaimCommit(w) PROVE Lifecycle!Next
    <2> DEFINE j == claim[w].job
               s == "RUNNING"
    <2>1. /\ j \in JobIds /\ s \in JOB_STATUSES /\ CanTransition(jobs[j], s)
          /\ jobs' = [jobs EXCEPT ![j] = Transitioned(jobs[j], s, w, claim[w].at)]
      BY <1>3, ClaimCommitRow DEF JOB_STATUSES
    <2> HIDE DEF j, s
    <2> QED
      BY <2>1, TransitionStep
  <1>4. ASSUME NEW j \in JobIds, RetryJob(j) PROVE Lifecycle!Next
    BY <1>4, RetryStep DEF RetryJob, Write
  <1>5. ASSUME NEW j \in JobIds, DeadLetterJob(j) PROVE Lifecycle!Next
    BY <1>5, DeadLetterStep DEF DeadLetterJob, Write
  <1>6. ASSUME NEW j \in JobIds, NEW s \in JOB_STATUSES \ {"QUEUED"}, TransitionJob(j, s)
        PROVE  Lifecycle!Next
    BY <1>6, TransitionStep DEF TransitionJob, Write
  <1>7. CASE UNCHANGED vars
    BY <1>1, <1>7 DEF vars
  <1>8. CASE Tick
    BY <1>1, <1>8 DEF Tick
  <1>9. ASSUME NEW c \in Callers, NEW j \in JobIds,
               Enqueue(c, j) \/ \E source \in JobIds : Replay(c, source, j)
        PROVE  [Lifecycle!Next]_Lifecycle!vars
    BY <1>1, <1>9 DEF Enqueue, Replay, EnqueueSelect
  <1>10. ASSUME NEW w \in Workers,
                ClaimRollback(w) \/ \E y \in JobTypes : ClaimSelect(w, y)
         PROVE  [Lifecycle!Next]_Lifecycle!vars
    BY <1>1, <1>10 DEF ClaimRollback, ClaimSelect
  <1> QED
    BY <1>2, <1>3, <1>4, <1>5, <1>6, <1>7, <1>8, <1>9, <1>10 DEF Next

\* The SQL queue implements the per-job promise: every start is paid from the
\* budget and an ended job never moves again, for every table and every race.
THEOREM ImplementsLifecycle == Spec => FollowsLifecycle
  <1>1. Init => Lifecycle!Init
    <2> SUFFICES ASSUME Init PROVE Lifecycle!Init
      OBVIOUS
    <2>1. AbsentJob \in Job /\ AbsentJob.status = "NONE" /\ AbsentJob.attempt_count = 0
      <3>1. RowOK(AbsentJob, 0) /\ AbsentJob.status = "NONE"
        BY AbsentJobOK
      <3> QED
        BY <3>1 DEF RowOK
    <2>2. Phase(AbsentJob) = "absent"
      BY <2>1 DEF Phase
    <2>3. AbsentJob.max_attempts \in Nat \ {0}
      BY <2>1 DEF Job
    <2>4. \A j \in JobIds : jobs[j] = AbsentJob
      BY DEF Init
    <2> QED
      BY <2>1, <2>2, <2>3, <2>4 DEF Lifecycle!Init
  <1> QED
    BY <1>1, StepImplements, Invariance, PTL DEF Spec, FollowsLifecycle, Lifecycle!Spec
=============================================================================
