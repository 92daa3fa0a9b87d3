-------------------------- MODULE JobRecordProofs --------------------------
(***************************************************************************)
(* What the row operators of JobRecord preserve, for every row, worker,    *)
(* retry policy and instant.  The proofs of the tables build on these.     *)
(***************************************************************************)
EXTENDS JobRecord, TLAPS, WellFoundedInduction

\* A well-formed row as seen at instant t: budgets respected, a waiting
\* row claimable, a dead letter final, a lock only on a RUNNING row.
RowOK(job, t) ==
    /\ job \in Job
    /\ job.attempt_count <= job.max_attempts
    /\ job.status = "NONE" => job.attempt_count = 0
    /\ job.status = "QUEUED" =>
        /\ job.attempt_count < job.max_attempts
        /\ job.attempt_count > 0 => job.retryable
    /\ job.error = "dead_lettered" =>
        job.status = "FAILED" /\ ~job.retryable /\ job.completed
    /\ job.locked_by # NoWorker => job.status = "RUNNING" /\ job.locked_at <= t

\* What an operation on an existing row may do to it.
Evolves(old, new) ==
    /\ old.status \in {"QUEUED", "RUNNING"}
    /\ new.status \in JOB_STATUSES
    /\ new.job_type = old.job_type
    /\ new.key = old.key
    /\ new.max_attempts = old.max_attempts
    /\ new.lineage = old.lineage

----------------------------------------------------------------------------
(* The delays of _retry_delay_seconds.  Backoff is a recursive function:   *)
(* that its recursion has a solution, and what follows by induction, is    *)
(* proved over sets of numbers, which the library's well-founded minimum   *)
(* admits without an operator parameter.                                   *)

\* A set of numbers has a least one.
LEMMA Least ==
    ASSUME NEW T, T \subseteq Nat, NEW z \in T
    PROVE  \E x \in T : \A y \in T : x <= y
  <1> DEFINE R == OpToRel(<, Nat)
  <1>1. IsWellFoundedOn(R, Nat)
    BY NatLessThanWellFounded
  <1>2. T # {}
    OBVIOUS
  <1>3. PICK x \in T : \A y \in T : ~(<<y, x>> \in R)
    <2> HIDE DEF R
    <2> QED BY <1>1, <1>2, WFMin
  <1>4. ASSUME NEW y \in T PROVE x <= y
    <2>1. x \in Nat /\ y \in Nat
      OBVIOUS
    <2>2. ~(<<y, x>> \in R)
      BY <1>3
    <2>3. ~(y < x)
      BY <2>1, <2>2 DEF OpToRel
    <2> QED
      BY <2>1, <2>3
  <1> HIDE DEF R
  <1> QED
    BY <1>4

\* Induction over a set of numbers, of which no operator is a parameter.
LEMMA NatSetInduction ==
    ASSUME NEW S, 0 \in S, \A n \in Nat : n \in S => n + 1 \in S
    PROVE  Nat \subseteq S
  <1> SUFFICES ASSUME NEW m \in Nat, m \notin S PROVE FALSE
    OBVIOUS
  <1> DEFINE T == {n \in Nat : n \notin S}
  <1>1. m \in T /\ T \subseteq Nat
    OBVIOUS
  <1>2. PICK x \in T : \A y \in T : x <= y
    <2> HIDE DEF T
    <2> QED BY <1>1, Least
  <1>3. x \in Nat /\ x # 0 /\ x \notin S
    OBVIOUS
  <1>4. x - 1 \in Nat /\ (x - 1) + 1 = x
    BY <1>3
  <1>5. x - 1 \notin T
    BY <1>2, <1>4
  <1> QED
    BY <1>3, <1>4, <1>5

\* The delays of the first attempts, each computed from the one before.
Chains(n) ==
    {h \in [0..n -> Nat] :
        h[0] = InitialDelay /\ \A k \in 1..n : h[k] = Multiplier * h[k - 1]}

LEMMA TimesNat == \A n \in Nat : Multiplier * n \in Nat /\ n <= Multiplier * n
  BY RecordAssumption

LEMMA ChainsExist == \A n \in Nat : Chains(n) # {}
  <1> DEFINE S == {n \in Nat : Chains(n) # {}}
  <1>1. 0 \in S
    <2> DEFINE h == [k \in 0..0 |-> InitialDelay]
    <2>1. h \in Chains(0)
      BY RecordAssumption DEF Chains
    <2> QED
      BY <2>1
  <1>2. ASSUME NEW n \in Nat, n \in S PROVE n + 1 \in S
    <2>1. PICK h : h \in Chains(n)
      BY <1>2
    <2>2. /\ h \in [0..n -> Nat] /\ h[0] = InitialDelay
          /\ \A k \in 1..n : h[k] = Multiplier * h[k - 1]
      BY <2>1 DEF Chains
    <2> DEFINE g == [k \in 0..(n + 1) |-> IF k = n + 1 THEN Multiplier * h[n] ELSE h[k]]
    <2>3. Multiplier * h[n] \in Nat
      BY <2>2, TimesNat
    <2>4. g \in [0..(n + 1) -> Nat] /\ g[0] = InitialDelay
      BY <2>2, <2>3
    <2>5. ASSUME NEW k \in 1..(n + 1) PROVE g[k] = Multiplier * g[k - 1]
      <3>1. CASE k = n + 1
        <4>1. k - 1 = n /\ k - 1 \in 0..(n + 1) /\ k - 1 # n + 1
          BY <3>1
        <4> QED
          BY <3>1, <4>1
      <3>2. CASE k # n + 1
        <4>1. k \in 1..n /\ k - 1 \in 0..(n + 1) /\ k - 1 # n + 1
          BY <3>2
        <4>2. g[k] = h[k] /\ g[k - 1] = h[k - 1]
          BY <3>2, <4>1
        <4> QED
          BY <2>2, <4>1, <4>2
      <3> QED
        BY <3>1, <3>2
    <2>6. g \in Chains(n + 1)
      BY <2>4, <2>5 DEF Chains
    <2> QED
      BY <2>6
  <1>3. Nat \subseteq S
    <2> HIDE DEF S
    <2> QED BY <1>1, <1>2, NatSetInduction
  <1> QED
    BY <1>3

\* Chains of any length agree where both are defined.
LEMMA ChainsAgree ==
    \A k, n, m \in Nat : \A h \in Chains(n), g \in Chains(m) :
        k <= n /\ k <= m => h[k] = g[k]
  <1> DEFINE S == {k \in Nat : \A n, m \in Nat : \A h \in Chains(n), g \in Chains(m) :
                        k <= n /\ k <= m => h[k] = g[k]}
  <1>1. 0 \in S
    BY DEF Chains
  <1>2. ASSUME NEW k \in Nat, k \in S PROVE k + 1 \in S
    <2> SUFFICES ASSUME NEW n \in Nat, NEW m \in Nat, NEW h \in Chains(n), NEW g \in Chains(m),
                        k + 1 <= n, k + 1 <= m
                 PROVE  h[k + 1] = g[k + 1]
      OBVIOUS
    <2>1. h[k] = g[k]
      BY <1>2
    <2>2. k + 1 \in 1..n /\ k + 1 \in 1..m /\ (k + 1) - 1 = k
      OBVIOUS
    <2> QED
      BY <2>1, <2>2 DEF Chains
  <1>3. Nat \subseteq S
    <2> HIDE DEF S
    <2> QED BY <1>1, <1>2, NatSetInduction
  <1> QED
    BY <1>3

\* The recursion has a solution, so that Backoff is it.
LEMMA BackoffEquation ==
    Backoff = [n \in Nat |-> IF n = 0 THEN InitialDelay ELSE Multiplier * Backoff[n - 1]]
  <1> DEFINE C(n) == CHOOSE h \in Chains(n) : TRUE
             g == [n \in Nat |-> C(n)[n]]
  <1>1. \A n \in Nat : C(n) \in Chains(n)
    BY ChainsExist
  <1>2. g = [n \in Nat |-> IF n = 0 THEN InitialDelay ELSE Multiplier * g[n - 1]]
    <2>0. g = [n \in Nat |-> g[n]]
      OBVIOUS
    <2>1. ASSUME NEW n \in Nat
          PROVE  g[n] = IF n = 0 THEN InitialDelay ELSE Multiplier * g[n - 1]
      <3>1. CASE n = 0
        BY <1>1, <3>1 DEF Chains
      <3>2. CASE n # 0
        <4>1. n - 1 \in Nat /\ n \in 1..n /\ n - 1 <= n /\ n - 1 <= n - 1
          BY <3>2
        <4>2. C(n) \in Chains(n) /\ C(n - 1) \in Chains(n - 1)
          BY <1>1, <4>1
        <4> HIDE DEF C
        <4>3. C(n)[n] = Multiplier * C(n)[n - 1]
          BY <4>1, <4>2 DEF Chains
        <4>4. C(n)[n - 1] = C(n - 1)[n - 1]
          BY <4>1, <4>2, ChainsAgree
        <4> QED
          BY <3>2, <4>1, <4>3, <4>4
      <3> QED
        BY <3>1, <3>2
    <2> HIDE DEF g
    <2> QED
      BY <2>0, <2>1
  <1> HIDE DEF g
  <1> QED
    BY <1>2 DEF Backoff

LEMMA BackoffGrows ==
    /\ \A n \in Nat : Backoff[n] \in Nat
    /\ \A m, n \in Nat : m <= n => Backoff[m] <= Backoff[n]
  <1>1. \A n \in Nat : Backoff[n] = IF n = 0 THEN InitialDelay ELSE Multiplier * Backoff[n - 1]
    BY BackoffEquation
  <1>2. \A n \in Nat : Backoff[n + 1] = Multiplier * Backoff[n]
    <2>1. \A n \in Nat : n + 1 \in Nat /\ n + 1 # 0 /\ (n + 1) - 1 = n
      OBVIOUS
    <2> QED
      BY <1>1, <2>1
  <1> DEFINE S == {n \in Nat : /\ Backoff[n] \in Nat
                         /\ \A m \in 0..n : Backoff[m] \in Nat /\ Backoff[m] <= Backoff[n]}
  <1>3. 0 \in S
    BY <1>1, RecordAssumption
  <1>4. ASSUME NEW n \in Nat, n \in S PROVE n + 1 \in S
    <2>0. Backoff[n] \in Nat
      BY <1>4
    <2> DEFINE x == Backoff[n]
               y == Backoff[n + 1]
    <2>1. y \in Nat /\ x <= y
      BY <1>2, <2>0, TimesNat
    <2>2. ASSUME NEW m \in 0..(n + 1) PROVE Backoff[m] \in Nat /\ Backoff[m] <= y
      <3>1. CASE m = n + 1
        BY <2>1, <3>1
      <3>2. CASE m \in 0..n
        <4>1. Backoff[m] <= x /\ Backoff[m] \in Nat
          BY <1>4, <3>2
        <4> QED
          BY <2>1, <2>0, <4>1
      <3> QED
        BY <3>1, <3>2
    <2> QED
      BY <2>0, <2>1, <2>2
  <1>5. Nat \subseteq S
    <2> HIDE DEF S
    <2> QED BY <1>3, <1>4, NatSetInduction
  <1> QED
    BY <1>5

\* _retry_delay_seconds starts at initial_delay_seconds, multiplies from one
\* attempt to the next, is capped by max_delay_seconds and never decreases: a
\* later attempt of a job never waits for less than an earlier one.
THEOREM RetryDelayGrows ==
    /\ RetryDelay(1) = InitialDelay
    /\ \A n \in Nat \ {0} :
        LET next == Multiplier * RetryDelay(n)
        IN  RetryDelay(n + 1) = IF next <= MaxDelay THEN next ELSE MaxDelay
    /\ \A m, n \in Nat : m <= n => RetryDelay(m) <= RetryDelay(n)
    /\ \A n \in Nat : RetryDelay(n) \in 0..MaxDelay
  <1> DEFINE e(n) == IF n > 1 THEN n - 1 ELSE 0
  <1>1. \A n \in Nat : /\ e(n) \in Nat
                        /\ RetryDelay(n) = IF Backoff[e(n)] <= MaxDelay THEN Backoff[e(n)]
                                                                        ELSE MaxDelay
    BY DEF RetryDelay
  <1>2. \A m, n \in Nat : m <= n => e(m) <= e(n)
    OBVIOUS
  <1>3. e(1) = 0 /\ \A n \in Nat \ {0} : e(n + 1) = e(n) + 1
    OBVIOUS
  <1> HIDE DEF e
  <1>4. \A n \in Nat : RetryDelay(n) \in 0..MaxDelay
    BY <1>1, BackoffGrows, RecordAssumption
  <1>5. RetryDelay(1) = InitialDelay
    <2>1. Backoff[0] = InitialDelay
      BY BackoffEquation
    <2> QED
      BY <1>1, <1>3, <2>1, RecordAssumption
  <1>6. ASSUME NEW m \in Nat, NEW n \in Nat, m <= n
        PROVE  RetryDelay(m) <= RetryDelay(n)
    <2>1. Backoff[e(m)] <= Backoff[e(n)] /\ Backoff[e(m)] \in Nat /\ Backoff[e(n)] \in Nat
      BY <1>1, <1>2, <1>6, BackoffGrows
    <2> QED
      BY <1>1, <2>1, RecordAssumption
  <1>7. ASSUME NEW n \in Nat \ {0}
        PROVE  LET next == Multiplier * RetryDelay(n)
               IN  RetryDelay(n + 1) = IF next <= MaxDelay THEN next ELSE MaxDelay
    <2> DEFINE x == Backoff[e(n)]
               y == Backoff[e(n) + 1]
    <2>1. n \in Nat /\ n + 1 \in Nat /\ e(n) \in Nat
      BY <1>1
    <2>2. x \in Nat /\ y \in Nat
      BY <2>1, BackoffGrows
    <2>3. y = Multiplier * x
      <3>1. e(n) + 1 \in Nat /\ e(n) + 1 # 0 /\ (e(n) + 1) - 1 = e(n)
        BY <2>1
      <3> QED
        BY <3>1, BackoffEquation
    <2>4. /\ RetryDelay(n) = IF x <= MaxDelay THEN x ELSE MaxDelay
          /\ RetryDelay(n + 1) = IF y <= MaxDelay THEN y ELSE MaxDelay
      BY <1>1, <1>3, <2>1
    <2> HIDE DEF x, y
    <2>5. CASE x <= MaxDelay
      BY <2>2, <2>3, <2>4, <2>5
    <2>6. CASE ~(x <= MaxDelay)
      <3>1. MaxDelay <= Multiplier * MaxDelay /\ Multiplier * MaxDelay \in Nat
        BY TimesNat, RecordAssumption
      <3>2. x <= y
        BY <2>2, <2>3, TimesNat
      <3>3. RetryDelay(n) = MaxDelay /\ RetryDelay(n + 1) = MaxDelay
        BY <2>2, <2>4, <2>6, <3>2, RecordAssumption
      <3>4. Multiplier * MaxDelay <= MaxDelay => Multiplier * MaxDelay = MaxDelay
        BY <3>1, RecordAssumption
      <3> QED
        BY <3>3, <3>4
    <2> QED
      BY <2>5, <2>6
  <1> QED
    BY <1>4, <1>5, <1>6, <1>7

----------------------------------------------------------------------------
(* The rows.                                                               *)

LEMMA NewJobOK ==
    ASSUME NEW y \in JobTypes, NEW k \in Keys, NEW m \in Nat \ {0},
           NEW r \in BOOLEAN, NEW t \in Int, NEW u \in Int,
           NEW source \in JobIds \cup {NoJob}
    PROVE  LET row == NewJob(y, k, m, r, t, source) IN
           /\ RowOK(row, u)
           /\ row.status = "QUEUED"
           /\ row.attempt_count = 0
  BY DEF NewJob, RowOK, Job, JOB_STATUSES, TERMINAL_JOB_STATUSES

\* The columns of _update_job_transition, whatever their values.
LEMMA TransitionType ==
    ASSUME NEW job \in Job, NEW s \in JOB_STATUSES \cup {"NONE"}, NEW n \in Nat,
           NEW c \in BOOLEAN, NEW w \in Workers \cup {NoWorker}, NEW u \in Int
    PROVE  [job EXCEPT !.status = s, !.attempt_count = n, !.completed = c,
                       !.locked_by = w, !.locked_at = u] \in Job
  BY DEF Job

LEMMA AbsentRowOK ==
    ASSUME NEW y \in JobTypes, NEW k \in Keys, NEW t \in Int
    PROVE  LET row == [NewJob(y, k, 1, TRUE, 0, NoJob) EXCEPT !.status = "NONE"] IN
           RowOK(row, t) /\ row.status = "NONE" /\ row.error = "none"
  <1> DEFINE new == NewJob(y, k, 1, TRUE, 0, NoJob)
             row == [new EXCEPT !.status = "NONE"]
  <1>1. new \in Job
    BY DEF NewJob, Job, JOB_STATUSES, TERMINAL_JOB_STATUSES
  <1>2. row \in Job
    <2> HIDE DEF new
    <2> QED BY <1>1 DEF Job
  <1> QED
    BY <1>2 DEF NewJob, RowOK

LEMMA TransitionedOK ==
    ASSUME NEW t \in Int, NEW job, RowOK(job, t), NEW s \in JOB_STATUSES,
           CanTransition(job, s),
           NEW w \in Workers \cup {NoWorker}, NEW u \in Int, u <= t
    PROVE  RowOK(Transitioned(job, s, w, u), t) /\ Evolves(job, Transitioned(job, s, w, u))
  <1> DEFINE n == IF s = "RUNNING" THEN job.attempt_count + 1 ELSE job.attempt_count
             c == job.completed \/ s \in TERMINAL_JOB_STATUSES
             v == IF s \in TERMINAL_JOB_STATUSES THEN NoWorker ELSE w
             a == IF s \in TERMINAL_JOB_STATUSES \/ w = NoWorker THEN 0 ELSE u
             new == Transitioned(job, s, w, u)
  <1>1. job \in Job
    BY DEF RowOK
  <1>2. n \in Nat /\ v \in Workers \cup {NoWorker} /\ a \in Int
    BY <1>1 DEF Job
  <1>3. c \in BOOLEAN
    OBVIOUS
  <1>4. new = [job EXCEPT !.status = s, !.attempt_count = n, !.completed = c,
                          !.locked_by = v, !.locked_at = a]
    BY DEF Transitioned
  <1>5. new \in Job
    <2> HIDE DEF n, c, v, a, new
    <2> QED BY <1>1, <1>2, <1>3, <1>4, TransitionType
  <1>6. /\ new.status = s /\ new.attempt_count = n
        /\ new.locked_by = v /\ new.locked_at = a
        /\ new.error = job.error
        /\ new.job_type = job.job_type /\ new.key = job.key
        /\ new.max_attempts = job.max_attempts /\ new.lineage = job.lineage
    BY <1>1, <1>4 DEF Job
  <1>7. job.status \in {"QUEUED", "RUNNING"} /\ s # "QUEUED" /\ job.error # "dead_lettered"
    BY DEF CanTransition, VALID_JOB_TRANSITIONS, RowOK, TERMINAL_JOB_STATUSES
  <1>8. n <= job.max_attempts
    BY <1>1 DEF CanTransition, RowOK, Job
  <1> QED
    <2>1. Evolves(job, new)
      BY <1>6, <1>7 DEF Evolves
    <2>2. new.locked_by # NoWorker => new.status = "RUNNING" /\ new.locked_at <= t
      <3>1. v # NoWorker => s \notin TERMINAL_JOB_STATUSES
        OBVIOUS
      <3>2. v # NoWorker => s = "RUNNING" /\ a = u
        BY <1>7, <3>1 DEF JOB_STATUSES
      <3> QED
        BY <1>6, <3>2
    <2>3. new.attempt_count <= new.max_attempts /\ new.status \notin {"NONE", "QUEUED"}
      BY <1>6, <1>7, <1>8 DEF JOB_STATUSES, TERMINAL_JOB_STATUSES
    <2>4. new.error # "dead_lettered"
      BY <1>6, <1>7
    <2>5. RowOK(new, t)
      <3> HIDE DEF new
      <3> QED BY <1>5, <2>2, <2>3, <2>4 DEF RowOK
    <2> QED
      BY <2>1, <2>5

LEMMA DeadLetteredOK ==
    ASSUME NEW t \in Int, NEW job, RowOK(job, t), job.status = "RUNNING", NEW u \in Int
    PROVE  RowOK(DeadLettered(job, u), t) /\ Evolves(job, DeadLettered(job, u))
  <1> DEFINE new == DeadLettered(job, u)
  <1>1. job \in Job
    BY DEF RowOK
  <1>2. new \in Job
    <2> DEFINE s == "FAILED"  r == FALSE  e == "dead_lettered"
               w == NoWorker  z == 0  c == TRUE
    <2>1. /\ s \in JOB_STATUSES \cup {"NONE"} /\ r \in BOOLEAN
          /\ e \in {"none", "retry", "dead_lettered"}
          /\ w \in Workers \cup {NoWorker} /\ z \in Int /\ c \in BOOLEAN
      BY DEF JOB_STATUSES, TERMINAL_JOB_STATUSES
    <2>2. new = [job EXCEPT !.status = s, !.retryable = r, !.error = e, !.available_at = u,
                            !.locked_by = w, !.locked_at = z, !.completed = c]
      BY DEF DeadLettered
    <2> HIDE DEF s, r, e, w, z, c, new
    <2> QED
      BY <1>1, <2>1, <2>2 DEF Job
  <1>3. /\ new.status = "FAILED" /\ new.attempt_count = job.attempt_count
        /\ new.locked_by = NoWorker
        /\ ~new.retryable /\ new.completed
        /\ new.job_type = job.job_type /\ new.key = job.key
        /\ new.max_attempts = job.max_attempts /\ new.lineage = job.lineage
    BY <1>1 DEF Job, DeadLettered
  <1> QED
    BY <1>2, <1>3 DEF RowOK, Evolves, JOB_STATUSES, TERMINAL_JOB_STATUSES

LEMMA RequeuedOK ==
    ASSUME NEW t \in Int, NEW job, RowOK(job, t), job.status = "RUNNING", CanRetry(job),
           NEW u \in Int
    PROVE  RowOK(Requeued(job, u), t) /\ Evolves(job, Requeued(job, u))
  <1> DEFINE new == Requeued(job, u)
             a == u + RetryDelay(job.attempt_count)
  <1>1. job \in Job
    BY DEF RowOK
  <1>2. a \in Int
    BY <1>1, RetryDelayGrows, RecordAssumption DEF Job
  <1>3. new \in Job
    <2> DEFINE s == "QUEUED"  r == TRUE  e == "retry"
               w == NoWorker  z == 0  c == FALSE
    <2>1. /\ s \in JOB_STATUSES \cup {"NONE"} /\ r \in BOOLEAN
          /\ e \in {"none", "retry", "dead_lettered"}
          /\ w \in Workers \cup {NoWorker} /\ z \in Int /\ c \in BOOLEAN
      BY DEF JOB_STATUSES, TERMINAL_JOB_STATUSES
    <2>2. new = [job EXCEPT !.status = s, !.retryable = r, !.error = e, !.available_at = a,
                            !.locked_by = w, !.locked_at = z, !.completed = c]
      BY DEF Requeued
    <2> HIDE DEF s, r, e, w, z, c, a, new
    <2> QED
      BY <1>1, <1>2, <2>1, <2>2 DEF Job
  <1>4. /\ new.status = "QUEUED" /\ new.attempt_count = job.attempt_count
        /\ new.locked_by = NoWorker /\ new.error = "retry"
        /\ new.retryable
        /\ new.job_type = job.job_type /\ new.key = job.key
        /\ new.max_attempts = job.max_attempts /\ new.lineage = job.lineage
    BY <1>1 DEF Job, Requeued
  <1>5. Evolves(job, new)
    BY <1>4 DEF Evolves, JOB_STATUSES
  <1>6. new.attempt_count < new.max_attempts /\ new.attempt_count <= new.max_attempts
    BY <1>1, <1>4 DEF CanRetry, Job
  <1>7. RowOK(new, t)
    <2> HIDE DEF new
    <2> QED BY <1>3, <1>4, <1>6 DEF RowOK
  <1> QED
    BY <1>5, <1>7

LEMMA RetriedOK ==
    ASSUME NEW t \in Int, NEW job, RowOK(job, t), job.status = "RUNNING", NEW u \in Int
    PROVE  RowOK(Retried(job, u), t) /\ Evolves(job, Retried(job, u))
  BY RequeuedOK, DeadLetteredOK DEF Retried

----------------------------------------------------------------------------
(* The row as JobLifecycle sees it.                                        *)

\* A row moves as JobLifecycle lets its job move.
Advances(old, new) ==
    /\ new.max_attempts = old.max_attempts
    /\ \/ /\ Phase(old) = "waiting" /\ Phase(new) = "active"
          /\ old.attempt_count < old.max_attempts
          /\ new.attempt_count = old.attempt_count + 1
       \/ /\ new.attempt_count = old.attempt_count
          /\ \/ /\ Phase(old) = "active" /\ Phase(new) = "waiting"
                /\ old.attempt_count < old.max_attempts
             \/ /\ Phase(old) = "active"
                /\ Phase(new) \in {"succeeded", "failed", "dead_lettered"}
             \/ Phase(old) \in {"waiting", "active"} /\ Phase(new) = "cancelled"

LEMMA TransitionedAdvances ==
    ASSUME NEW t, NEW job, RowOK(job, t), NEW s \in JOB_STATUSES, CanTransition(job, s),
           NEW w, NEW u
    PROVE  Advances(job, Transitioned(job, s, w, u))
  <1> DEFINE row == Transitioned(job, s, w, u)
  <1>1. /\ row.status = s /\ row.error = job.error
        /\ row.max_attempts = job.max_attempts
        /\ row.attempt_count = IF s = "RUNNING" THEN job.attempt_count + 1 ELSE job.attempt_count
    BY DEF RowOK, Job, Transitioned
  <1>2. /\ <<job.status, s>> \in VALID_JOB_TRANSITIONS
        /\ s = "RUNNING" => job.attempt_count < job.max_attempts
    BY DEF CanTransition
  <1> HIDE DEF row
  <1>3. ASSUME s = "RUNNING" PROVE Advances(job, row)
    <2>1. Phase(job) = "waiting" /\ Phase(row) = "active"
      BY <1>1, <1>2, <1>3 DEF Phase, VALID_JOB_TRANSITIONS, TERMINAL_JOB_STATUSES
    <2> QED
      BY <1>1, <1>2, <1>3, <2>1 DEF Advances
  <1>4. ASSUME s = "CANCELLED" PROVE Advances(job, row)
    <2>1. Phase(job) \in {"waiting", "active"} /\ Phase(row) = "cancelled"
      BY <1>1, <1>2, <1>4 DEF Phase, VALID_JOB_TRANSITIONS, TERMINAL_JOB_STATUSES
    <2> QED
      BY <1>1, <1>4, <2>1 DEF Advances
  <1>5. ASSUME s \in {"SUCCEEDED", "FAILED"} PROVE Advances(job, row)
    <2>1. Phase(job) = "active" /\ Phase(row) \in {"succeeded", "failed", "dead_lettered"}
      BY <1>1, <1>2, <1>5 DEF Phase, VALID_JOB_TRANSITIONS, TERMINAL_JOB_STATUSES
    <2> QED
      BY <1>1, <1>5, <2>1 DEF Advances
  <1>6. Advances(job, row)
    BY <1>2, <1>3, <1>4, <1>5 DEF JOB_STATUSES, TERMINAL_JOB_STATUSES, VALID_JOB_TRANSITIONS
  <1> QED
    BY <1>6 DEF row

LEMMA DeadLetteredAdvances ==
    ASSUME NEW t, NEW job, RowOK(job, t), job.status = "RUNNING", NEW u
    PROVE  Advances(job, DeadLettered(job, u))
  <1> DEFINE row == DeadLettered(job, u)
  <1>1. /\ row.status = "FAILED" /\ row.error = "dead_lettered"
        /\ row.max_attempts = job.max_attempts /\ row.attempt_count = job.attempt_count
    BY DEF RowOK, Job, DeadLettered
  <1> HIDE DEF row
  <1>2. Phase(job) = "active" /\ Phase(row) = "dead_lettered"
    BY <1>1 DEF Phase
  <1>3. Advances(job, row)
    BY <1>1, <1>2 DEF Advances
  <1> QED
    BY <1>3 DEF row

LEMMA RequeuedAdvances ==
    ASSUME NEW t, NEW job, RowOK(job, t), job.status = "RUNNING", CanRetry(job), NEW u
    PROVE  Advances(job, Requeued(job, u))
  <1> DEFINE row == Requeued(job, u)
  <1>1. /\ row.status = "QUEUED" /\ row.max_attempts = job.max_attempts
        /\ row.attempt_count = job.attempt_count
    BY DEF RowOK, Job, Requeued
  <1> HIDE DEF row
  <1>2. Phase(job) = "active" /\ Phase(row) = "waiting"
    BY <1>1 DEF Phase
  <1>3. Advances(job, row)
    BY <1>1, <1>2 DEF Advances, CanRetry
  <1> QED
    BY <1>3 DEF row

LEMMA RetriedAdvances ==
    ASSUME NEW t, NEW job, RowOK(job, t), job.status = "RUNNING", NEW u
    PROVE  Advances(job, Retried(job, u))
  BY RequeuedAdvances, DeadLetteredAdvances DEF Retried

----------------------------------------------------------------------------
(* A table of rows as JobLifecycle sees it.                                *)

PhasesOf(J, table) == [j \in J |-> Phase(table[j])]
UsedOf(J, table) == [j \in J |-> table[j].attempt_count]
BudgetsOf(J, table) == [j \in J |-> table[j].max_attempts]

\* A row is inserted.
Submits(old, new) ==
    /\ Phase(old) = "absent" /\ Phase(new) = "waiting"
    /\ new.attempt_count = old.attempt_count
    /\ new.max_attempts \in Nat \ {0}

\* The steps of JobLifecycle, on the values of its variables before and after.
Promised(j, phase, used, budget, phase2, used2, budget2) ==
    LET To(e) == phase2 = [phase EXCEPT ![j] = e]
        Same == used2 = used /\ budget2 = budget
    IN  \/ /\ phase[j] = "absent" /\ To("waiting") /\ used2 = used
           /\ budget2[j] \in Nat \ {0} /\ budget2 = [budget EXCEPT ![j] = budget2[j]]
        \/ /\ phase[j] = "waiting" /\ To("active") /\ used[j] < budget[j]
           /\ used2 = [used EXCEPT ![j] = used[j] + 1] /\ budget2 = budget
        \/ phase[j] = "active" /\ To("waiting") /\ used[j] < budget[j] /\ Same
        \/ \E e \in {"succeeded", "failed", "dead_lettered"} :
                phase[j] = "active" /\ To(e) /\ Same
        \/ phase[j] \in {"waiting", "active"} /\ To("cancelled") /\ Same

LEMMA RowIsPromised ==
    ASSUME NEW J, NEW table, table \in [J -> Job], NEW j \in J, NEW row,
           NEW table2, table2 = [table EXCEPT ![j] = row],
           Advances(table[j], row) \/ Submits(table[j], row)
    PROVE  Promised(j, PhasesOf(J, table), UsedOf(J, table), BudgetsOf(J, table),
                       PhasesOf(J, table2), UsedOf(J, table2), BudgetsOf(J, table2))
  <1> DEFINE phase == PhasesOf(J, table)    phase2 == PhasesOf(J, table2)
             used == UsedOf(J, table)       used2 == UsedOf(J, table2)
             budget == BudgetsOf(J, table)  budget2 == BudgetsOf(J, table2)
  <1>1. \A i \in J : table2[i] = IF i = j THEN row ELSE table[i]
    OBVIOUS
  <1>2. /\ phase[j] = Phase(table[j]) /\ used[j] = table[j].attempt_count
        /\ budget[j] = table[j].max_attempts /\ budget2[j] = row.max_attempts
    BY <1>1 DEF PhasesOf, UsedOf, BudgetsOf
  <1>3. phase2 = [phase EXCEPT ![j] = Phase(row)]
    BY <1>1 DEF PhasesOf
  <1>4. /\ used2 = [used EXCEPT ![j] = row.attempt_count]
        /\ budget2 = [budget EXCEPT ![j] = row.max_attempts]
    BY <1>1 DEF UsedOf, BudgetsOf
  <1>5. /\ row.attempt_count = table[j].attempt_count => used2 = used
        /\ row.max_attempts = table[j].max_attempts => budget2 = budget
    BY <1>2, <1>4 DEF UsedOf, BudgetsOf
  <1> HIDE DEF phase, phase2, used, used2, budget, budget2
  <1>6. Promised(j, phase, used, budget, phase2, used2, budget2)
    BY <1>2, <1>3, <1>4, <1>5 DEF Promised, Advances, Submits
  <1> QED
    BY <1>6 DEF phase, phase2, used, used2, budget, budget2
=============================================================================
