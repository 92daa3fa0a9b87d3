----------------------- MODULE AsyncGenerationProofs -----------------------
(***************************************************************************)
(* A grounded generation for every set of requests, workers, cancellers,   *)
(* recoveries and texts: types, the agreement of the stores, the readiness *)
(* of a succeeded job, the one outcome that all requests are told, and the *)
(* promise of the job queue.                                               *)
(*                                                                         *)
(* None of the four stores is locked while an outcome is written to them.  *)
(* What holds it together is that each of them, once written, is never     *)
(* written again: a process that got past a store may rely on what it      *)
(* found there, however long ago that was and whoever ran in between.      *)
(***************************************************************************)
EXTENDS AsyncGeneration, JobRecordProofs

----------------------------------------------------------------------------
(* The invariant.                                                          *)

\* What the state q of process p may rely on, by how far p has come.
ProcessOK(q, p, out, dr, rec, adm, env) ==
    /\ q \in Process
    /\ q.pc \in Persisting => q.status \in Outcomes
    /\ q.pc \in {"output", "draft"} => q.status = "COMPLETED"
    /\ (q.pc \in {"output", "draft", "record"} /\ q.status = "COMPLETED") => q.text \in Texts
    /\ (q.pc \in {"draft", "record"} /\ q.status = "COMPLETED") => out = q.text
    /\ (q.pc = "record" /\ q.status = "COMPLETED") => dr = p
    /\ q.pc = "mark" => rec.status = q.status
    /\ q.pc \in {"after", "completing"} =>
        rec.status = "COMPLETED" /\ adm.status = "COMPLETED"
    /\ q.pc = "enqueue" => env = p /\ p \in AsyncRequests

AdmissionRow == [status: {"none", "IN_PROGRESS"} \cup Outcomes, leased: BOOLEAN]

StoresOK(out, dr, rec, adm, env) ==
    /\ out \in Texts \cup {Nothing}
    /\ dr \in Processes \cup {Nothing}
    /\ env \in AsyncRequests \cup {Nothing}
    /\ rec \in Record
    /\ rec.status = "none" => rec = NoRecord
    /\ rec.status = "COMPLETED" =>
        rec.text = out /\ out # Nothing /\ rec.draft = dr /\ dr # Nothing
    /\ adm \in AdmissionRow
    /\ adm.status \in Outcomes => rec.status = adm.status

JobOK(j, d, rec, adm, env) ==
    /\ RowOK(j, 0)
    /\ d \in AsyncRequests \cup {Nothing}
    /\ j.status # "NONE" => d # Nothing /\ d = env
    /\ j.status = "SUCCEEDED" => rec.status = "COMPLETED" /\ adm.status = "COMPLETED"

AllProcessesOK(proc, out, dr, rec, adm, env) ==
    /\ proc \in [Processes -> Process]
    /\ \A p \in Processes : ProcessOK(proc[p], p, out, dr, rec, adm, env)

Inv ==
    /\ StoresOK(output, draft, record, admission, envelope)
    /\ JobOK(job, digest, record, admission, envelope)
    /\ AllProcessesOK(process, output, draft, record, admission, envelope)
    /\ told \in [Requests -> Outcomes \cup {"none"}]
    /\ faults \in 0..MaxFaults

----------------------------------------------------------------------------
(* Stores that only ever gain content.                                     *)

Keeps(out, dr, rec, adm, env, out2, dr2, rec2, adm2, env2) ==
    /\ out # Nothing => out2 = out
    /\ dr # Nothing => dr2 = dr
    /\ rec.status # "none" => rec2 = rec
    /\ adm.status \in Outcomes => adm2.status = adm.status
    /\ env # Nothing => env2 = env

\* A step whose stores keep what they hold.
StoresKeep ==
    Keeps(output, draft, record, admission, envelope,
          output', draft', record', admission', envelope')

\* What a process relied on is still there after the step of another one.
LEMMA ProcessKeeps ==
    ASSUME NEW p \in Processes, NEW q, NEW out, NEW dr, NEW rec, NEW adm, NEW env,
           NEW out2, NEW dr2, NEW rec2, NEW adm2, NEW env2,
           ProcessOK(q, p, out, dr, rec, adm, env),
           Keeps(out, dr, rec, adm, env, out2, dr2, rec2, adm2, env2)
    PROVE  ProcessOK(q, p, out2, dr2, rec2, adm2, env2)
  <1>1. Nothing \notin Texts /\ p # Nothing
    BY GenerationAssumption
  <1>2. (q.pc \in {"draft", "record"} /\ q.status = "COMPLETED") => out2 = q.text
    BY <1>1 DEF ProcessOK, Keeps
  <1>3. (q.pc = "record" /\ q.status = "COMPLETED") => dr2 = p
    BY <1>1 DEF ProcessOK, Keeps
  <1>4. q.pc = "mark" => rec2.status = q.status
    BY DEF ProcessOK, Keeps, Persisting, Outcomes
  <1>5. q.pc \in {"after", "completing"} =>
            rec2.status = "COMPLETED" /\ adm2.status = "COMPLETED"
    BY DEF ProcessOK, Keeps, Outcomes
  <1>6. q.pc = "enqueue" => env2 = p /\ p \in AsyncRequests
    BY <1>1 DEF ProcessOK, Keeps
  <1> QED
    BY <1>2, <1>3, <1>4, <1>5, <1>6 DEF ProcessOK

\* The step of p, if any, leaves p in a state that fits the stores.
Moves(p, q) ==
    /\ Become(p, q)
    /\ ProcessOK(q, p, output', draft', record', admission', envelope')

LEMMA ProcessesKeep ==
    ASSUME AllProcessesOK(process, output, draft, record, admission, envelope),
           StoresKeep,
           process' = process \/ \E p \in Processes : \E q : Moves(p, q)
    PROVE  AllProcessesOK(process', output', draft', record', admission', envelope')
  <1>1. ASSUME NEW r \in Processes
        PROVE  ProcessOK(process[r], r, output', draft', record', admission', envelope')
    BY ProcessKeeps DEF AllProcessesOK, StoresKeep
  <1>2. process \in [Processes -> Process]
    BY DEF AllProcessesOK
  <1>3. CASE process' = process
    BY <1>1, <1>2, <1>3 DEF AllProcessesOK
  <1>4. CASE \E p \in Processes : \E q : Moves(p, q)
    <2>1. PICK p \in Processes : \E q : Moves(p, q)
      BY <1>4
    <2> PICK q : Moves(p, q)
      BY <2>1
    <2>2. process' = [process EXCEPT ![p] = q] /\ q \in Process
      BY DEF Moves, Become, ProcessOK
    <2>3. process' \in [Processes -> Process]
      BY <1>2, <2>2
    <2>4. ASSUME NEW r \in Processes
          PROVE  ProcessOK(process'[r], r, output', draft', record', admission', envelope')
      <3>1. CASE r = p
        BY <1>2, <2>2, <3>1 DEF Moves
      <3>2. CASE r # p
        BY <1>1, <1>2, <2>2, <3>2
      <3> QED
        BY <3>1, <3>2
    <2> QED
      BY <2>3, <2>4 DEF AllProcessesOK
  <1> QED
    BY <1>3, <1>4

\* Without a change of the stores nothing else has to be shown of them.
LEMMA SameStores ==
    ASSUME StoresOK(output, draft, record, admission, envelope),
           UNCHANGED <<admission, stores>>
    PROVE  /\ StoresOK(output', draft', record', admission', envelope')
           /\ StoresKeep
  BY DEF stores, StoresKeep, Keeps

\* Nor does a job that stays depend on anything but what stores keep.
LEMMA JobKeeps ==
    ASSUME NEW j, NEW d, NEW out, NEW dr, NEW rec, NEW adm, NEW env,
           NEW out2, NEW dr2, NEW rec2, NEW adm2, NEW env2,
           JobOK(j, d, rec, adm, env),
           Keeps(out, dr, rec, adm, env, out2, dr2, rec2, adm2, env2)
    PROVE  JobOK(j, d, rec2, adm2, env2)
  <1>1. Nothing \notin AsyncRequests
    BY GenerationAssumption DEF Processes, Requests
  <1> QED
    BY <1>1 DEF JobOK, Keeps, Outcomes

\* The row of the job changes, and not to SUCCEEDED.
LEMMA JobEvolves ==
    ASSUME NEW j, NEW d, NEW rec, NEW adm, NEW env, NEW row,
           JobOK(j, d, rec, adm, env), RowOK(row, 0), Evolves(j, row),
           row.status # "SUCCEEDED"
    PROVE  JobOK(row, d, rec, adm, env)
  BY DEF JobOK, Evolves

----------------------------------------------------------------------------
(* States a process may be put in.                                         *)

\* At these points a process relies on no store.
Plain == (Running \ {"after", "completing"}) \cup (Serving \ {"enqueue"}) \cup {"idle"}

LEMMA PlainOK ==
    ASSUME NEW p, NEW q \in Process, q.pc \in Plain,
           NEW out, NEW dr, NEW rec, NEW adm, NEW env
    PROVE  ProcessOK(q, p, out, dr, rec, adm, env)
  BY DEF ProcessOK, Plain, Running, Serving, Persisting

LEMMA IdleOK ==
    /\ Idle \in Process
    /\ Idle.pc \in Plain
  BY DEF Idle, Process, Plain, Outcomes

LEMMA GoToType ==
    ASSUME NEW q \in Process, NEW pc \in {"idle"} \cup Running \cup Persisting \cup Serving
    PROVE  LET s == [q EXCEPT !.pc = pc] IN
           /\ s \in Process /\ s.pc = pc /\ s.status = q.status /\ s.text = q.text
           /\ s.failure = q.failure
  BY DEF Process

LEMMA IdleMoves ==
    ASSUME NEW p \in Processes, Become(p, Idle)
    PROVE  \E q : Moves(p, q)
  BY IdleOK, PlainOK DEF Moves

LEMMA PlainMoves ==
    ASSUME NEW p \in Processes, process[p] \in Process, NEW pc \in Plain, GoTo(p, pc)
    PROVE  \E q : Moves(p, q)
  <1>1. pc \in {"idle"} \cup Running \cup Persisting \cup Serving
    BY DEF Plain
  <1> DEFINE s == [process[p] EXCEPT !.pc = pc]
  <1>2. s \in Process /\ s.pc \in Plain
    BY <1>1, GoToType
  <1>3. Become(p, s)
    BY DEF GoTo
  <1> HIDE DEF s
  <1> QED
    BY <1>2, <1>3, PlainOK DEF Moves

LEMMA RaisedMoves ==
    ASSUME NEW p \in Processes, NEW failure \in {"transient", "permanent"},
           Raised(p, failure)
    PROVE  \E q : Moves(p, q)
  <1> DEFINE s == [Idle EXCEPT !.pc = "settling", !.failure = failure]
  <1>1. s \in Process /\ s.pc = "settling"
    BY DEF Idle, Process, Outcomes, Running
  <1>2. "settling" \in Plain
    BY DEF Plain, Running
  <1>3. Become(p, s) \/ Become(p, Idle)
    BY DEF Raised
  <1> HIDE DEF s
  <1>4. CASE Become(p, s)
    BY <1>1, <1>2, <1>4, PlainOK DEF Moves
  <1> QED
    BY <1>3, <1>4, IdleMoves

LEMMA PersistFailedMoves ==
    ASSUME NEW p \in Processes,
           NEW failure \in {"none", "transient", "permanent", "cancelled"},
           PersistFailed(p, failure)
    PROVE  \E q : Moves(p, q)
  <1> DEFINE s == [Idle EXCEPT !.pc = "record", !.status = "FAILED", !.failure = failure]
  <1>1. s \in Process /\ s.pc = "record" /\ s.status = "FAILED"
    BY DEF Idle, Process, Outcomes, Persisting
  <1>2. Become(p, s)
    BY DEF PersistFailed
  <1> HIDE DEF s
  <1>3. ProcessOK(s, p, output', draft', record', admission', envelope')
    BY <1>1 DEF ProcessOK, Outcomes
  <1> QED
    BY <1>2, <1>3 DEF Moves

LEMMA PersistCompletedMoves ==
    ASSUME NEW p \in Processes, NEW x \in Texts, PersistCompleted(p, x)
    PROVE  \E q : Moves(p, q)
  <1> DEFINE s == [Idle EXCEPT !.pc = "output", !.status = "COMPLETED", !.text = x]
  <1>1. s \in Process /\ s.pc = "output" /\ s.status = "COMPLETED" /\ s.text = x
    BY DEF Idle, Process, Outcomes, Persisting
  <1>2. Become(p, s)
    BY DEF PersistCompleted
  <1> HIDE DEF s
  <1>3. ProcessOK(s, p, output', draft', record', admission', envelope')
    BY <1>1 DEF ProcessOK, Outcomes
  <1> QED
    BY <1>2, <1>3 DEF Moves

LEMMA FailMoves ==
    ASSUME NEW w \in Processes, NEW failure \in {"transient", "permanent"},
           Fail(w, failure)
    PROVE  \E q : Moves(w, q)
  BY PersistFailedMoves, RaisedMoves DEF Fail

----------------------------------------------------------------------------
(* Steps by what they change.                                              *)

\* How an action changes one part, told and faults aside.
Told == told' \in [Requests -> Outcomes \cup {"none"}]
Counted == faults' \in 0..MaxFaults

\* Only a process moves.
LEMMA ProcessStep ==
    ASSUME Inv, UNCHANGED <<admission, job, digest, stores>>, Told, Counted,
           NEW p \in Processes, NEW q, Moves(p, q)
    PROVE  Inv'
  <1>1. StoresOK(output', draft', record', admission', envelope') /\ StoresKeep
    BY SameStores DEF Inv
  <1>2. AllProcessesOK(process', output', draft', record', admission', envelope')
    BY <1>1, ProcessesKeep DEF Inv
  <1>3. JobOK(job', digest', record', admission', envelope')
    BY DEF Inv, stores
  <1> QED
    BY <1>1, <1>2, <1>3 DEF Inv, Told, Counted

\* A process moves, if any does, and the job with it.
LEMMA JobStep ==
    ASSUME Inv, UNCHANGED <<admission, stores>>, Told, Counted,
           process' = process \/ \E p \in Processes : \E q : Moves(p, q),
           JobOK(job', digest', record, admission, envelope)
    PROVE  Inv'
  <1>1. StoresOK(output', draft', record', admission', envelope') /\ StoresKeep
    BY SameStores DEF Inv
  <1>2. AllProcessesOK(process', output', draft', record', admission', envelope')
    BY <1>1, ProcessesKeep DEF Inv
  <1>3. JobOK(job', digest', record', admission', envelope')
    BY DEF stores
  <1> QED
    BY <1>1, <1>2, <1>3 DEF Inv, Told, Counted

\* A process moves, if any does, and one of the stores with it.
LEMMA StoreStep ==
    ASSUME Inv, UNCHANGED <<job, digest>>, Told, Counted,
           process' = process \/ \E p \in Processes : \E q : Moves(p, q),
           StoresOK(output', draft', record', admission', envelope'), StoresKeep
    PROVE  Inv'
  <1>1. AllProcessesOK(process', output', draft', record', admission', envelope')
    BY ProcessesKeep DEF Inv
  <1>2. JobOK(job, digest, record', admission', envelope')
    BY JobKeeps DEF Inv, StoresKeep
  <1> QED
    BY <1>1, <1>2 DEF Inv, Told, Counted

LEMMA SameCounters ==
    ASSUME Inv, UNCHANGED <<told, faults>>
    PROVE  Told /\ Counted
  BY DEF Inv, Told, Counted

LEMMA Here ==
    ASSUME Inv, NEW p \in Processes
    PROVE  /\ process[p] \in Process
           /\ ProcessOK(process[p], p, output, draft, record, admission, envelope)
  BY DEF Inv, AllProcessesOK

----------------------------------------------------------------------------
(* Writing an outcome.                                                     *)

LEMMA PutOutputStep ==
    ASSUME Inv, NEW p \in Processes, PutOutput(p)
    PROVE  Inv'
  <1>1. /\ process[p].pc = "output"
        /\ UNCHANGED <<admission, envelope, job, digest, draft, record>>
        /\ Told /\ Counted
    BY SameCounters DEF PutOutput
  <1>2. /\ process[p] \in Process /\ process[p].status = "COMPLETED"
        /\ process[p].text \in Texts
    BY <1>1, Here DEF ProcessOK
  <1>3. CASE output \in {Nothing, process[p].text}
    <2>1. output' = process[p].text /\ GoTo(p, "draft")
      BY <1>3 DEF PutOutput
    <2> DEFINE s == [process[p] EXCEPT !.pc = "draft"]
    <2>2. s \in Process /\ s.pc = "draft" /\ s.status = "COMPLETED" /\ s.text = output'
      <3>1. "draft" \in Persisting
        BY DEF Persisting
      <3> QED
        BY <1>2, <2>1, <3>1, GoToType
    <2>3. Become(p, s)
      BY <2>1 DEF GoTo
    <2> HIDE DEF s
    <2>4. ProcessOK(s, p, output', draft', record', admission', envelope')
      BY <1>2, <2>1, <2>2 DEF ProcessOK, Outcomes
    <2>5. StoresOK(output', draft', record', admission', envelope') /\ StoresKeep
      BY <1>1, <1>2, <1>3, <2>1 DEF Inv, StoresOK, StoresKeep, Keeps
    <2> QED
      BY <1>1, <2>3, <2>4, <2>5, StoreStep DEF Moves
  <1>4. CASE output \notin {Nothing, process[p].text}
    <2>1. Raised(p, "permanent") /\ UNCHANGED output
      BY <1>4 DEF PutOutput
    <2>2. PICK q : Moves(p, q)
      BY <2>1, RaisedMoves
    <2> QED
      BY <1>1, <2>1, <2>2, ProcessStep DEF stores
  <1> QED
    BY <1>3, <1>4

LEMMA PutDraftStep ==
    ASSUME Inv, NEW p \in Processes, PutDraft(p)
    PROVE  Inv'
  <1>1. /\ process[p].pc = "draft"
        /\ UNCHANGED <<admission, envelope, job, digest, output, record>>
        /\ Told /\ Counted
    BY SameCounters DEF PutDraft
  <1>2. /\ process[p] \in Process /\ process[p].status = "COMPLETED"
        /\ process[p].text \in Texts /\ output = process[p].text
    BY <1>1, Here DEF ProcessOK
  <1>3. CASE draft = Nothing
    <2>1. draft' = p /\ GoTo(p, "record")
      BY <1>3 DEF PutDraft
    <2> DEFINE s == [process[p] EXCEPT !.pc = "record"]
    <2>2. s \in Process /\ s.pc = "record" /\ s.status = "COMPLETED" /\ s.text = output'
          /\ s.text \in Texts
      <3>1. "record" \in Persisting
        BY DEF Persisting
      <3> QED
        BY <1>1, <1>2, <3>1, GoToType
    <2>3. Become(p, s)
      BY <2>1 DEF GoTo
    <2> HIDE DEF s
    <2>4. ProcessOK(s, p, output', draft', record', admission', envelope')
      BY <2>1, <2>2 DEF ProcessOK, Outcomes
    <2>5. StoresOK(output', draft', record', admission', envelope') /\ StoresKeep
      BY <1>1, <1>3, <2>1 DEF Inv, StoresOK, StoresKeep, Keeps
    <2> QED
      BY <1>1, <2>3, <2>4, <2>5, StoreStep DEF Moves
  <1>4. CASE draft # Nothing
    <2>1. Raised(p, "permanent") /\ UNCHANGED draft
      BY <1>4 DEF PutDraft
    <2>2. PICK q : Moves(p, q)
      BY <2>1, RaisedMoves
    <2> QED
      BY <1>1, <2>1, <2>2, ProcessStep DEF stores
  <1> QED
    BY <1>3, <1>4

LEMMA SaveStep ==
    ASSUME Inv, NEW p \in Processes, Save(p)
    PROVE  Inv'
  <1>1. /\ process[p].pc = "record"
        /\ UNCHANGED <<admission, envelope, job, digest, output, draft>>
        /\ Told /\ Counted
    BY SameCounters DEF Save
  <1>2. /\ process[p] \in Process /\ process[p].status \in Outcomes
        /\ process[p].status = "COMPLETED" =>
            process[p].text \in Texts /\ output = process[p].text /\ draft = p
    BY <1>1, Here DEF ProcessOK, Persisting
  <1>3. CASE record = NoRecord
    <2>1. /\ record' = [status |-> process[p].status, text |-> process[p].text,
                        draft |-> IF process[p].status = "COMPLETED" THEN p ELSE Nothing]
          /\ GoTo(p, "mark")
      BY <1>3 DEF Save
    <2> DEFINE s == [process[p] EXCEPT !.pc = "mark"]
    <2>2. s \in Process /\ s.pc = "mark" /\ s.status = record'.status /\ s.status \in Outcomes
      <3>1. "mark" \in Persisting
        BY DEF Persisting
      <3> QED
        BY <1>2, <2>1, <3>1, GoToType
    <2>3. Become(p, s)
      BY <2>1 DEF GoTo
    <2> HIDE DEF s
    <2>4. ProcessOK(s, p, output', draft', record', admission', envelope')
      BY <2>2 DEF ProcessOK
    <2>5. record' \in Record /\ record'.status # "none"
      <3>1. process[p].text \in Texts \cup {Nothing}
        BY <1>2 DEF Process
      <3> QED
        BY <1>2, <2>1, <3>1 DEF Record, Outcomes
    <2>6. record'.status = "COMPLETED" =>
              record'.text = output /\ output # Nothing /\ record'.draft = draft /\ draft # Nothing
      BY <1>2, <2>1, GenerationAssumption
    <2>7. admission.status \notin Outcomes
      BY <1>3 DEF Inv, StoresOK, NoRecord, Outcomes
    <2>8. StoresOK(output', draft', record', admission', envelope')
      BY <1>1, <2>5, <2>6, <2>7 DEF Inv, StoresOK
    <2>9. StoresKeep
      BY <1>1, <1>3 DEF StoresKeep, Keeps, NoRecord
    <2> QED
      BY <1>1, <2>3, <2>4, <2>8, <2>9, StoreStep DEF Moves
  <1>4. CASE record # NoRecord
    <2>1. Raised(p, "permanent") /\ UNCHANGED record
      BY <1>4 DEF Save
    <2>2. PICK q : Moves(p, q)
      BY <2>1, RaisedMoves
    <2> QED
      BY <1>1, <2>1, <2>2, ProcessStep DEF stores
  <1> QED
    BY <1>3, <1>4

\* A process that wrote the outcome is answered, or goes on from its status.
LEMMA PersistedOK ==
    ASSUME NEW p \in Processes, process[p] \in Process, NEW out, NEW dr, NEW rec, NEW adm,
           NEW env,
           process[p].status = rec.status, process[p].status = adm.status
    PROVE  ProcessOK(Persisted(p), p, out, dr, rec, adm, env)
  <1> DEFINE after == [Idle EXCEPT !.pc = "after"]
             settling == [Idle EXCEPT !.pc = "settling", !.failure = process[p].failure]
  <1>1. \/ Persisted(p) = Idle
        \/ Persisted(p) = after /\ process[p].status = "COMPLETED"
        \/ Persisted(p) = settling
    <2>1. CASE p \in Requests
      BY <2>1, GenerationAssumption DEF Persisted, Requests
    <2>2. CASE p \notin Requests
      BY <2>2 DEF Persisted
    <2> QED
      BY <2>1, <2>2
  <1>2. /\ after \in Process /\ after.pc = "after"
    BY DEF Idle, Process, Running, Outcomes
  <1>3. /\ settling \in Process /\ settling.pc = "settling"
    BY DEF Idle, Process, Running, Outcomes
  <1> HIDE DEF after, settling
  <1>4. ProcessOK(Idle, p, out, dr, rec, adm, env)
    BY IdleOK, PlainOK
  <1>5. process[p].status = "COMPLETED" => ProcessOK(after, p, out, dr, rec, adm, env)
    BY <1>2 DEF ProcessOK, Persisting
  <1>6. ProcessOK(settling, p, out, dr, rec, adm, env)
    BY <1>3, PlainOK DEF Plain, Running
  <1> QED
    BY <1>1, <1>4, <1>5, <1>6

LEMMA MarkTerminalStep ==
    ASSUME Inv, NEW p \in Processes, MarkTerminal(p)
    PROVE  Inv'
  <1>1. process[p].pc = "mark" /\ UNCHANGED <<job, digest, stores>> /\ Counted
    BY DEF MarkTerminal, Inv, Counted
  <1>2. /\ process[p] \in Process /\ process[p].status \in Outcomes
        /\ record.status = process[p].status
    BY <1>1, Here DEF ProcessOK, Persisting
  <1>3. CASE admission.status \in {"IN_PROGRESS", process[p].status}
    <2>1. /\ admission' = [admission EXCEPT !.status = process[p].status]
          /\ Become(p, Persisted(p))
          /\ told' = IF p \in Requests THEN [told EXCEPT ![p] = process[p].status] ELSE told
      BY <1>3 DEF MarkTerminal
    <2>2. admission' \in AdmissionRow /\ admission'.status = process[p].status
      BY <1>2, <2>1 DEF Inv, StoresOK, AdmissionRow
    <2>3. Told
      BY <1>2, <2>1 DEF Told, Inv
    <2>4. ProcessOK(Persisted(p), p, output', draft', record', admission', envelope')
      BY <1>1, <1>2, <2>2, PersistedOK DEF stores
    <2>5. StoresOK(output', draft', record', admission', envelope')
      BY <1>1, <1>2, <2>2 DEF Inv, StoresOK, stores
    <2>6. StoresKeep
      BY <1>1, <1>2, <1>3, <2>2 DEF StoresKeep, Keeps, stores, Outcomes
    <2> QED
      BY <1>1, <2>1, <2>3, <2>4, <2>5, <2>6, StoreStep DEF Moves
  <1>4. CASE admission.status \notin {"IN_PROGRESS", process[p].status}
    <2>1. Raised(p, "permanent") /\ UNCHANGED <<admission, told>>
      BY <1>4 DEF MarkTerminal
    <2>2. PICK q : Moves(p, q)
      BY <2>1, RaisedMoves
    <2>3. Told
      BY <2>1 DEF Inv, Told
    <2> QED
      BY <1>1, <2>1, <2>2, <2>3, ProcessStep
  <1> QED
    BY <1>3, <1>4

LEMMA PersistStep ==
    ASSUME Inv, NEW p \in Processes, Persist(p)
    PROVE  Inv'
  BY PutOutputStep, PutDraftStep, SaveStep, MarkTerminalStep DEF Persist

----------------------------------------------------------------------------
(* Requests.                                                               *)

LEMMA RequestPlaces ==
    {"envelope", "calling", "reserved", "cancelling", "recovering", "starting", "loading",
     "loaded", "called", "validating", "repairing", "repaired", "revalidating"} \subseteq Plain
  BY DEF Plain, Running, Serving

LEMMA ReserveStep ==
    ASSUME Inv, NEW h \in Requests, Reserve(h)
    PROVE  Inv'
  <1>1. /\ h \in Processes /\ process[h] \in Process
        /\ UNCHANGED <<job, digest, stores>> /\ Told /\ Counted
    BY Here, SameCounters DEF Reserve, Processes
  <1> DEFINE open == \/ admission.status = "none"
                     \/ admission.status = "IN_PROGRESS" /\ ~admission.leased
  <1>2. CASE open
    <2>1. /\ admission' = [status |-> "IN_PROGRESS", leased |-> TRUE]
          /\ GoTo(h, Admitted(h))
      BY <1>2 DEF Reserve
    <2>2. Admitted(h) \in Plain
      BY RequestPlaces DEF Admitted
    <2>3. PICK q : Moves(h, q)
      BY <1>1, <2>1, <2>2, PlainMoves
    <2>4. admission' \in AdmissionRow /\ admission'.status \notin Outcomes
          /\ admission.status \notin Outcomes
      BY <1>2, <2>1 DEF AdmissionRow, Outcomes
    <2>5. StoresOK(output', draft', record', admission', envelope')
      BY <1>1, <2>4 DEF Inv, StoresOK, stores
    <2>6. StoresKeep
      BY <1>1, <2>4 DEF StoresKeep, Keeps, stores
    <2> QED
      BY <1>1, <2>3, <2>5, <2>6, StoreStep
  <1>3. CASE ~open
    <2>1. GoTo(h, "reserved") /\ UNCHANGED admission
      BY <1>3 DEF Reserve
    <2>2. PICK q : Moves(h, q)
      BY <1>1, <2>1, RequestPlaces, PlainMoves
    <2> QED
      BY <1>1, <2>1, <2>2, ProcessStep
  <1> QED
    BY <1>2, <1>3

LEMMA ResolveStep ==
    ASSUME Inv, NEW h \in Requests, Resolve(h)
    PROVE  Inv'
  <1>1. /\ h \in Processes /\ process[h] \in Process
        /\ UNCHANGED <<admission, job, digest, stores>> /\ Told /\ Counted
    BY Here, SameCounters DEF Resolve, Processes
  <1>2. CASE record # NoRecord
    <2> DEFINE s == [process[h] EXCEPT !.pc = "mark", !.status = record.status]
    <2>1. Become(h, s)
      BY <1>2 DEF Resolve
    <2>2. record.status \in Outcomes
      BY <1>2 DEF Inv, StoresOK, Record
    <2>3. s \in Process /\ s.pc = "mark" /\ s.status = record.status
      BY <1>1, <2>2 DEF Process, Persisting
    <2> HIDE DEF s
    <2>4. ProcessOK(s, h, output', draft', record', admission', envelope')
      BY <1>1, <2>2, <2>3 DEF ProcessOK, stores
    <2> QED
      BY <1>1, <2>1, <2>4, ProcessStep DEF Moves
  <1>3. CASE record = NoRecord
    <2>1. GoTo(h, "envelope") \/ Become(h, Idle)
      BY <1>3 DEF Resolve
    <2>2. PICK q : Moves(h, q)
      BY <1>1, <2>1, RequestPlaces, PlainMoves, IdleMoves
    <2> QED
      BY <1>1, <2>2, ProcessStep
  <1> QED
    BY <1>2, <1>3

LEMMA PutEnvelopeStep ==
    ASSUME Inv, NEW h \in AsyncRequests, PutEnvelope(h)
    PROVE  Inv'
  <1>1. /\ h \in Processes /\ process[h] \in Process
        /\ UNCHANGED <<admission, job, digest, output, draft, record>> /\ Told /\ Counted
    BY Here, SameCounters DEF PutEnvelope, Processes, Requests
  <1>2. CASE envelope \in {Nothing, h}
    <2>1. envelope' = h /\ GoTo(h, "enqueue")
      BY <1>2 DEF PutEnvelope
    <2> DEFINE s == [process[h] EXCEPT !.pc = "enqueue"]
    <2>2. s \in Process /\ s.pc = "enqueue"
      <3>1. "enqueue" \in Serving
        BY DEF Serving
      <3> QED
        BY <1>1, <3>1, GoToType
    <2>3. Become(h, s)
      BY <2>1 DEF GoTo
    <2> HIDE DEF s
    <2>4. ProcessOK(s, h, output', draft', record', admission', envelope')
      BY <2>1, <2>2 DEF ProcessOK, Persisting
    <2>5. StoresOK(output', draft', record', admission', envelope') /\ StoresKeep
      BY <1>1, <1>2, <2>1 DEF Inv, StoresOK, StoresKeep, Keeps
    <2> QED
      BY <1>1, <2>3, <2>4, <2>5, StoreStep DEF Moves
  <1>3. CASE envelope \notin {Nothing, h}
    <2>1. Become(h, Idle) /\ UNCHANGED envelope
      BY <1>3 DEF PutEnvelope
    <2>2. PICK q : Moves(h, q)
      BY <1>1, <2>1, IdleMoves
    <2> QED
      BY <1>1, <2>1, <2>2, ProcessStep DEF stores
  <1> QED
    BY <1>2, <1>3

\* build_async_generation_job builds a row a worker may claim.
LEMMA GenerationJobOK ==
    /\ RowOK(GenerationJob, 0) /\ GenerationJob.status = "QUEUED"
    /\ RowOK([GenerationJob EXCEPT !.status = "NONE"], 0)
    /\ [GenerationJob EXCEPT !.status = "NONE"].status = "NONE"
  <1> DEFINE y == CHOOSE y \in JobTypes : TRUE
             k == CHOOSE k \in Keys : TRUE
  <1>1. y \in JobTypes /\ k \in Keys /\ MaxAttempts \in Nat \ {0}
    BY GenerationAssumption
  <1>2. GenerationJob = NewJob(y, k, MaxAttempts, TRUE, 0, NoJob)
    BY DEF GenerationJob
  <1> HIDE DEF y, k
  <1>3. RowOK(GenerationJob, 0) /\ GenerationJob.status = "QUEUED"
    <2>1. 0 \in Int /\ TRUE \in BOOLEAN /\ NoJob \in JobIds \cup {NoJob}
      OBVIOUS
    <2>2. LET row == NewJob(y, k, MaxAttempts, TRUE, 0, NoJob)
          IN  RowOK(row, 0) /\ row.status = "QUEUED"
      BY <1>1, <2>1, NewJobOK
    <2> QED
      BY <1>2, <2>2
  <1>4. /\ GenerationJob.attempt_count = 0 /\ GenerationJob.error = "none"
        /\ GenerationJob.locked_by = NoWorker
    BY <1>2 DEF NewJob
  <1> DEFINE row == GenerationJob
             absent == [row EXCEPT !.status = "NONE"]
  <1> HIDE DEF row
  <1>5. /\ row \in Job /\ row.attempt_count = 0 /\ row.error = "none"
        /\ row.locked_by = NoWorker
    BY <1>3, <1>4 DEF row, RowOK
  <1>6. /\ absent \in Job /\ absent.status = "NONE" /\ absent.attempt_count = 0
        /\ absent.error = "none" /\ absent.locked_by = NoWorker
    BY <1>5 DEF Job
  <1>7. RowOK(absent, 0)
    <2> HIDE DEF absent
    <2>1. absent.max_attempts \in Nat
      BY <1>6 DEF Job
    <2> QED
      BY <1>6, <2>1 DEF RowOK
  <1> QED
    BY <1>3, <1>6, <1>7 DEF row

LEMMA EnqueueStep ==
    ASSUME Inv, NEW h \in AsyncRequests, Enqueue(h)
    PROVE  Inv'
  <1>1. /\ h \in Processes /\ process[h].pc = "enqueue" /\ Become(h, Idle)
        /\ UNCHANGED <<admission, stores>> /\ Told /\ Counted
    BY SameCounters DEF Enqueue, Processes, Requests
  <1>2. PICK q : Moves(h, q)
    BY <1>1, IdleMoves
  <1>3. envelope = h
    BY <1>1, Here DEF ProcessOK
  <1>4. JobOK(job', digest', record, admission, envelope)
    <2>1. CASE job.status = "NONE"
      <3>1. job' = GenerationJob /\ digest' = h
        BY <2>1 DEF Enqueue
      <3>2. h # Nothing
        BY <1>1, GenerationAssumption
      <3> QED
        BY <1>3, <3>1, <3>2, GenerationJobOK DEF JobOK
    <2>2. CASE job.status # "NONE"
      BY <2>2 DEF Enqueue, Inv
    <2> QED
      BY <2>1, <2>2
  <1> QED
    BY <1>1, <1>2, <1>4, JobStep

LEMMA CallSyncStep ==
    ASSUME Inv, NEW h \in Requests, CallSync(h)
    PROVE  Inv'
  <1>1. h \in Processes /\ UNCHANGED <<admission, job, digest, stores>> /\ Told /\ Counted
    BY SameCounters DEF CallSync, Processes
  <1>2. PICK q : Moves(h, q)
    BY <1>1, PersistCompletedMoves, PersistFailedMoves DEF CallSync
  <1> QED
    BY <1>1, <1>2, ProcessStep

LEMMA LeaseExpiresStep ==
    ASSUME Inv, LeaseExpires
    PROVE  Inv'
  <1>1. /\ UNCHANGED <<job, digest, stores, process>> /\ Told /\ Counted
        /\ admission' = [admission EXCEPT !.leased = FALSE]
    BY SameCounters DEF LeaseExpires
  <1>2. admission' \in AdmissionRow /\ admission'.status = admission.status
    BY <1>1 DEF Inv, StoresOK, AdmissionRow
  <1>3. StoresOK(output', draft', record', admission', envelope')
    BY <1>1, <1>2 DEF Inv, StoresOK, stores
  <1>4. StoresKeep
    BY <1>1, <1>2 DEF StoresKeep, Keeps, stores
  <1> QED
    BY <1>1, <1>3, <1>4, StoreStep

----------------------------------------------------------------------------
(* The row of the job.                                                     *)

LEMMA TransitionKeepsJob ==
    ASSUME NEW j, NEW d, NEW rec, NEW adm, NEW env, JobOK(j, d, rec, adm, env),
           NEW s \in JOB_STATUSES, CanTransition(j, s), NEW w \in Workers \cup {NoWorker},
           s = "SUCCEEDED" => rec.status = "COMPLETED" /\ adm.status = "COMPLETED"
    PROVE  JobOK(Transitioned(j, s, w, 0), d, rec, adm, env)
  <1>1. RowOK(j, 0) /\ 0 \in Int /\ 0 <= 0
    BY DEF JobOK
  <1> DEFINE row == Transitioned(j, s, w, 0)
  <1>2. RowOK(row, 0) /\ Evolves(j, row)
    BY <1>1, TransitionedOK
  <1>3. row.status = s
    BY <1>1 DEF RowOK, Job, Transitioned
  <1> HIDE DEF row
  <1>4. JobOK(row, d, rec, adm, env)
    BY <1>2, <1>3 DEF JobOK, Evolves
  <1> QED
    BY <1>4 DEF row

LEMMA SettlingKeepsJob ==
    ASSUME NEW j, NEW d, NEW rec, NEW adm, NEW env, JobOK(j, d, rec, adm, env),
           j.status = "RUNNING"
    PROVE  /\ JobOK(Retried(j, 0), d, rec, adm, env)
           /\ JobOK(DeadLettered(j, 0), d, rec, adm, env)
  <1>1. RowOK(j, 0) /\ 0 \in Int
    BY DEF JobOK
  <1>2. /\ RowOK(Retried(j, 0), 0) /\ Evolves(j, Retried(j, 0))
        /\ RowOK(DeadLettered(j, 0), 0) /\ Evolves(j, DeadLettered(j, 0))
    BY <1>1, RetriedOK, DeadLetteredOK
  <1>3. DeadLettered(j, 0).status = "FAILED" /\ Requeued(j, 0).status = "QUEUED"
    BY <1>1 DEF RowOK, Job, DeadLettered, Requeued
  <1>4. Retried(j, 0).status # "SUCCEEDED"
    BY <1>3 DEF Retried
  <1> QED
    BY <1>2, <1>3, <1>4, JobEvolves

----------------------------------------------------------------------------
(* The worker.                                                             *)

LEMMA WorkerIsProcess == \A w \in Workers : w \in Processes
  BY DEF Processes

LEMMA ClaimStep ==
    ASSUME Inv, NEW w \in Workers, Claim(w)
    PROVE  Inv'
  <1>1. /\ w \in Processes /\ process[w] \in Process /\ GoTo(w, "starting")
        /\ UNCHANGED <<admission, digest, stores>> /\ Told /\ Counted
    BY Here, SameCounters, WorkerIsProcess DEF Claim
  <1>2. PICK q : Moves(w, q)
    BY <1>1, RequestPlaces, PlainMoves
  <1>3. "RUNNING" \in JOB_STATUSES /\ CanTransition(job, "RUNNING")
    BY DEF Claim, IsClaimable, CanTransition, VALID_JOB_TRANSITIONS, JOB_STATUSES
  <1>4. JobOK(job', digest', record, admission, envelope)
    BY <1>1, <1>3, TransitionKeepsJob DEF Claim, Inv
  <1> QED
    BY <1>1, <1>2, <1>4, JobStep

LEMMA CheckpointStep ==
    ASSUME Inv, NEW w \in Workers, Checkpoint(w)
    PROVE  Inv'
  <1>1. /\ w \in Processes /\ process[w] \in Process
        /\ process[w].pc \in {"starting", "loaded", "called", "repaired", "after"}
        /\ UNCHANGED <<admission, job, digest, stores>> /\ Told /\ Counted
    BY Here, SameCounters, WorkerIsProcess DEF Checkpoint, AfterCheckpoint, OnlyProcess
  <1> DEFINE pc == AfterCheckpoint[process[w].pc]
  <1>2. \/ job.status = "RUNNING" /\ GoTo(w, pc)
        \/ PersistFailed(w, "cancelled")
        \/ Become(w, Idle)
    BY DEF Checkpoint
  <1>3. CASE PersistFailed(w, "cancelled") \/ Become(w, Idle)
    <2>1. PICK q : Moves(w, q)
      BY <1>1, <1>3, PersistFailedMoves, IdleMoves
    <2> QED
      BY <1>1, <2>1, ProcessStep
  <1>4. CASE GoTo(w, pc) /\ process[w].pc # "after"
    <2>1. pc \in {"loading", "calling", "validating", "revalidating"}
      BY <1>1, <1>4 DEF AfterCheckpoint
    <2>2. pc \in Plain
      BY <2>1, RequestPlaces
    <2> HIDE DEF pc
    <2>3. PICK q : Moves(w, q)
      BY <1>1, <1>4, <2>2, PlainMoves
    <2> QED
      BY <1>1, <2>3, ProcessStep
  <1>5. CASE GoTo(w, pc) /\ process[w].pc = "after"
    <2>1. pc = "completing" /\ "completing" \in Running
      BY <1>5 DEF AfterCheckpoint, Running
    <2> DEFINE s == [process[w] EXCEPT !.pc = "completing"]
    <2>2. s \in Process /\ s.pc = "completing"
      BY <1>1, <2>1, GoToType
    <2>3. Become(w, s)
      BY <1>5, <2>1 DEF GoTo
    <2> HIDE DEF s
    <2>4. record.status = "COMPLETED" /\ admission.status = "COMPLETED"
      BY <1>1, <1>5, Here DEF ProcessOK
    <2>5. ProcessOK(s, w, output', draft', record', admission', envelope')
      BY <1>1, <2>2, <2>4 DEF ProcessOK, stores, Persisting
    <2> QED
      BY <1>1, <2>3, <2>5, ProcessStep DEF Moves
  <1> QED
    BY <1>2, <1>3, <1>4, <1>5

LEMMA LoadStep ==
    ASSUME Inv, NEW w \in Workers, Load(w)
    PROVE  Inv'
  <1> DEFINE last == job.attempt_count >= job.max_attempts
             s == [process[w] EXCEPT !.pc = "loaded", !.last = last]
  <1>1. /\ w \in Processes /\ process[w] \in Process /\ Become(w, s)
        /\ UNCHANGED <<admission, job, digest, stores>> /\ Told /\ Counted
    BY Here, SameCounters, WorkerIsProcess DEF Load, OnlyProcess
  <1>2. last \in BOOLEAN
    OBVIOUS
  <1> HIDE DEF last
  <1>3. s \in Process /\ s.pc = "loaded"
    BY <1>1, <1>2 DEF Process, Running
  <1> HIDE DEF s
  <1>4. ProcessOK(s, w, output', draft', record', admission', envelope')
    BY <1>3, RequestPlaces, PlainOK
  <1> QED
    BY <1>1, <1>4, ProcessStep DEF Moves

LEMMA CallProviderStep ==
    ASSUME Inv, NEW w \in Workers, CallProvider(w)
    PROVE  Inv'
  <1>1. /\ w \in Processes /\ process[w] \in Process
        /\ UNCHANGED <<admission, job, digest, stores>> /\ Told /\ Counted
    BY Here, SameCounters, WorkerIsProcess DEF CallProvider, OnlyProcess
  <1>2. PICK q : Moves(w, q)
    <2>1. CASE \E f \in {"transient", "permanent"} : Fail(w, f)
      BY <1>1, <2>1, FailMoves
    <2>2. CASE GoTo(w, "called") \/ GoTo(w, "repaired")
      BY <1>1, <2>2, RequestPlaces, PlainMoves
    <2> QED
      BY <2>1, <2>2 DEF CallProvider
  <1> QED
    BY <1>1, <1>2, ProcessStep

LEMMA ValidateStep ==
    ASSUME Inv, NEW w \in Workers, Validate(w)
    PROVE  Inv'
  <1>1. /\ w \in Processes /\ process[w] \in Process
        /\ UNCHANGED <<admission, job, digest, stores>> /\ Told /\ Counted
    BY Here, SameCounters, WorkerIsProcess DEF Validate, OnlyProcess
  <1>2. PICK q : Moves(w, q)
    <2>1. CASE \E x \in Texts : PersistCompleted(w, x)
      BY <1>1, <2>1, PersistCompletedMoves
    <2>2. CASE \E f \in {"transient", "permanent"} : Fail(w, f)
      BY <1>1, <2>2, FailMoves
    <2>3. CASE GoTo(w, "repairing")
      BY <1>1, <2>3, RequestPlaces, PlainMoves
    <2> QED
      BY <2>1, <2>2, <2>3 DEF Validate
  <1> QED
    BY <1>1, <1>2, ProcessStep

LEMMA CompleteStep ==
    ASSUME Inv, NEW w \in Workers, Complete(w)
    PROVE  Inv'
  <1>1. /\ w \in Processes /\ process[w].pc = "completing"
        /\ UNCHANGED <<admission, digest, stores>> /\ Told /\ Counted
    BY SameCounters, WorkerIsProcess DEF Complete
  <1>2. record.status = "COMPLETED" /\ admission.status = "COMPLETED"
    BY <1>1, Here DEF ProcessOK
  <1>3. PICK q : Moves(w, q)
    BY <1>1, IdleMoves, RaisedMoves DEF Complete
  <1>4. JobOK(job', digest', record, admission, envelope)
    <2>1. CASE job.status = "RUNNING"
      <3>1. job' = Transitioned(job, "SUCCEEDED", NoWorker, 0)
        BY <2>1 DEF Complete
      <3>2. /\ "SUCCEEDED" \in JOB_STATUSES /\ CanTransition(job, "SUCCEEDED")
            /\ NoWorker \in Workers \cup {NoWorker}
        BY <2>1 DEF CanTransition, VALID_JOB_TRANSITIONS, JOB_STATUSES, TERMINAL_JOB_STATUSES
      <3>3. JobOK(Transitioned(job, "SUCCEEDED", NoWorker, 0),
                  digest, record, admission, envelope)
        BY <1>2, <3>2, TransitionKeepsJob DEF Inv
      <3> QED
        BY <1>1, <3>1, <3>3
    <2>2. CASE job.status # "RUNNING"
      <3>1. job' = job
        BY <2>2 DEF Complete
      <3> QED
        BY <1>1, <3>1 DEF Inv
    <2> QED
      BY <2>1, <2>2
  <1> QED
    BY <1>1, <1>3, <1>4, JobStep

LEMMA SettleStep ==
    ASSUME Inv, NEW w \in Workers, Settle(w)
    PROVE  Inv'
  <1>1. /\ w \in Processes /\ Become(w, Idle)
        /\ UNCHANGED <<admission, digest, stores>> /\ Told /\ Counted
    BY SameCounters, WorkerIsProcess DEF Settle
  <1>2. PICK q : Moves(w, q)
    BY <1>1, IdleMoves
  <1>3. JobOK(job', digest', record, admission, envelope)
    BY <1>1, SettlingKeepsJob DEF Settle, Inv
  <1> QED
    BY <1>1, <1>2, <1>3, JobStep

LEMMA WorkStep ==
    ASSUME Inv, NEW w \in Workers, Work(w)
    PROVE  Inv'
  BY ClaimStep, CheckpointStep, LoadStep, CallProviderStep, ValidateStep, CompleteStep,
     SettleStep DEF Work

----------------------------------------------------------------------------
(* Cancellation, operators and recovery.                                   *)

LEMMA BeginCancelStep ==
    ASSUME Inv, NEW c \in Cancellers, BeginCancel(c)
    PROVE  Inv'
  <1> DEFINE seen == job.status
             s == [process[c] EXCEPT !.pc = "cancelling", !.seen = seen]
  <1>1. /\ c \in Processes /\ process[c] \in Process /\ Become(c, s)
        /\ UNCHANGED <<admission, job, digest, stores>> /\ Told /\ Counted
    BY Here, SameCounters DEF BeginCancel, OnlyProcess, Processes
  <1>2. seen \in JOB_STATUSES \cup {"none"}
    BY DEF BeginCancel, Inv, JobOK, RowOK, Job
  <1> HIDE DEF seen
  <1>3. s \in Process /\ s.pc = "cancelling"
    BY <1>1, <1>2 DEF Process, Serving
  <1> HIDE DEF s
  <1>4. ProcessOK(s, c, output', draft', record', admission', envelope')
    BY <1>3, RequestPlaces, PlainOK
  <1> QED
    BY <1>1, <1>4, ProcessStep DEF Moves

LEMMA CancellableJob ==
    ASSUME Inv, CanTransition(job, "CANCELLED")
    PROVE  JobOK(Transitioned(job, "CANCELLED", NoWorker, 0),
                 digest, record, admission, envelope)
  <1>1. "CANCELLED" \in JOB_STATUSES /\ NoWorker \in Workers \cup {NoWorker}
    BY DEF JOB_STATUSES, TERMINAL_JOB_STATUSES
  <1> QED
    BY <1>1, TransitionKeepsJob DEF Inv

LEMMA CancelStep ==
    ASSUME Inv, NEW c \in Cancellers, Cancel(c)
    PROVE  Inv'
  <1>1. c \in Processes /\ UNCHANGED <<admission, digest, stores>> /\ Told /\ Counted
    BY SameCounters DEF Cancel, Processes
  <1>2. PICK q : Moves(c, q)
    BY <1>1, IdleMoves, PersistFailedMoves DEF Cancel
  <1>3. JobOK(job', digest', record, admission, envelope)
    BY <1>1, CancellableJob DEF Cancel, Inv
  <1> QED
    BY <1>1, <1>2, <1>3, JobStep

LEMMA OperatorStep ==
    ASSUME Inv, OperatorCancel \/ OperatorRetry
    PROVE  Inv'
  <1>1. UNCHANGED <<admission, digest, stores, process>> /\ Told /\ Counted
    BY SameCounters DEF OperatorCancel, OperatorRetry
  <1>2. JobOK(job', digest', record, admission, envelope)
    BY <1>1, CancellableJob, SettlingKeepsJob DEF OperatorCancel, OperatorRetry, Inv
  <1> QED
    BY <1>1, <1>2, JobStep

LEMMA BeginRecoveryStep ==
    ASSUME Inv, NEW r \in Recoverers, BeginRecovery(r)
    PROVE  Inv'
  <1>1. /\ r \in Processes /\ process[r] \in Process /\ GoTo(r, "recovering")
        /\ UNCHANGED <<admission, job, digest, stores>> /\ Told /\ Counted
    BY Here, SameCounters DEF BeginRecovery, OnlyProcess, Processes
  <1>2. PICK q : Moves(r, q)
    BY <1>1, RequestPlaces, PlainMoves
  <1> QED
    BY <1>1, <1>2, ProcessStep

LEMMA RecoverStep ==
    ASSUME Inv, NEW r \in Recoverers, Recover(r)
    PROVE  Inv'
  <1>1. r \in Processes /\ UNCHANGED <<admission, digest, stores>> /\ Told /\ Counted
    BY SameCounters DEF Recover, Processes
  <1>2. PICK q : Moves(r, q)
    BY <1>1, IdleMoves, PersistFailedMoves DEF Recover
  <1>3. JobOK(job', digest', record, admission, envelope)
    BY <1>1, SettlingKeepsJob DEF Recover, Inv
  <1> QED
    BY <1>1, <1>2, <1>3, JobStep

----------------------------------------------------------------------------
(* Faults.                                                                 *)

LEMMA FaultCounted ==
    ASSUME Inv, NEW kind, Fault(kind)
    PROVE  Counted
  BY GenerationAssumption DEF Fault, Inv, Counted

LEMMA CrashStep ==
    ASSUME Inv, NEW p \in Processes, Crash(p)
    PROVE  Inv'
  <1>1. Become(p, Idle) /\ UNCHANGED <<admission, job, digest, stores>> /\ Told /\ Counted
    BY FaultCounted DEF Crash, Inv, Told
  <1>2. PICK q : Moves(p, q)
    BY <1>1, IdleMoves
  <1> QED
    BY <1>1, <1>2, ProcessStep

\* Lost or not, the commit of "mark" only closes what the record decided.
LEMMA OutageStep ==
    ASSUME Inv, NEW w \in Workers, Outage(w)
    PROVE  Inv'
  <1>1. /\ w \in Processes /\ Raised(w, "transient")
        /\ UNCHANGED <<job, digest, stores>> /\ Told /\ Counted
    BY FaultCounted, WorkerIsProcess DEF Outage, Inv, Told
  <1>2. PICK q : Moves(w, q)
    BY <1>1, RaisedMoves
  <1>3. CASE UNCHANGED admission
    BY <1>1, <1>2, <1>3, ProcessStep
  <1>4. CASE /\ process[w].pc = "mark" /\ admission.status = "IN_PROGRESS"
             /\ admission' = [admission EXCEPT !.status = process[w].status]
    <2>1. process[w].status \in Outcomes /\ record.status = process[w].status
      BY <1>1, <1>4, Here DEF ProcessOK, Persisting
    <2>2. admission' \in AdmissionRow /\ admission'.status = process[w].status
      BY <1>4, <2>1 DEF Inv, StoresOK, AdmissionRow
    <2>3. StoresOK(output', draft', record', admission', envelope')
      BY <1>1, <2>1, <2>2 DEF Inv, StoresOK, stores
    <2>4. StoresKeep
      BY <1>1, <1>4 DEF StoresKeep, Keeps, stores, Outcomes
    <2> QED
      BY <1>1, <1>2, <2>3, <2>4, StoreStep
  <1> QED
    BY <1>3, <1>4 DEF Outage

----------------------------------------------------------------------------
(* The theorems.                                                           *)

LEMMA InitHolds == Init => Inv
  <1> SUFFICES ASSUME Init PROVE Inv
    OBVIOUS
  <1>1. /\ admission = [status |-> "none", leased |-> FALSE]
        /\ job = [GenerationJob EXCEPT !.status = "NONE"]
        /\ envelope = Nothing /\ digest = Nothing
        /\ output = Nothing /\ draft = Nothing /\ record = NoRecord
        /\ process = [p \in Processes |-> Idle]
        /\ told = [h \in Requests |-> "none"]
        /\ faults = 0
    BY DEF Init
  <1>2. StoresOK(output, draft, record, admission, envelope)
    BY <1>1 DEF StoresOK, NoRecord, Record, AdmissionRow, Outcomes
  <1>3. JobOK(job, digest, record, admission, envelope)
    BY <1>1, GenerationJobOK DEF JobOK
  <1>4. AllProcessesOK(process, output, draft, record, admission, envelope)
    <2>1. \A p \in Processes : ProcessOK(Idle, p, output, draft, record, admission, envelope)
      BY IdleOK, PlainOK
    <2> QED
      BY <1>1, <2>1, IdleOK DEF AllProcessesOK
  <1>5. told \in [Requests -> Outcomes \cup {"none"}] /\ faults \in 0..MaxFaults
    BY <1>1, GenerationAssumption
  <1> QED
    BY <1>2, <1>3, <1>4, <1>5 DEF Inv

LEMMA Unchanged ==
    ASSUME Inv, UNCHANGED vars
    PROVE  Inv'
  BY DEF Inv, vars

LEMMA StepHolds == Inv /\ [Next]_vars => Inv'
  <1> SUFFICES ASSUME Inv, [Next]_vars PROVE Inv'
    OBVIOUS
  <1>1. ASSUME NEW p \in Processes, Persist(p) \/ Crash(p) PROVE Inv'
    BY <1>1, PersistStep, CrashStep
  <1>2. ASSUME NEW h \in Requests, Reserve(h) \/ Resolve(h) \/ CallSync(h) PROVE Inv'
    BY <1>2, ReserveStep, ResolveStep, CallSyncStep
  <1>3. ASSUME NEW h \in AsyncRequests, PutEnvelope(h) \/ Enqueue(h) PROVE Inv'
    BY <1>3, PutEnvelopeStep, EnqueueStep
  <1>4. ASSUME NEW w \in Workers, Work(w) \/ Outage(w) PROVE Inv'
    BY <1>4, WorkStep, OutageStep
  <1>5. ASSUME NEW c \in Cancellers, BeginCancel(c) \/ Cancel(c) PROVE Inv'
    BY <1>5, BeginCancelStep, CancelStep
  <1>6. ASSUME NEW r \in Recoverers, BeginRecovery(r) \/ Recover(r) PROVE Inv'
    BY <1>6, BeginRecoveryStep, RecoverStep
  <1>7. CASE LeaseExpires \/ OperatorCancel \/ OperatorRetry
    BY <1>7, LeaseExpiresStep, OperatorStep
  <1> QED
    BY <1>1, <1>2, <1>3, <1>4, <1>5, <1>6, <1>7, Unchanged DEF Next

LEMMA InvHolds == Spec => []Inv
  BY InitHolds, StepHolds, PTL DEF Spec

\* Every store, row and process keeps its type, and no interleaving of
\* claims, recoveries, retries and cancellations breaks the attempt budget.
THEOREM GenerationTypeCorrect == Spec => []TypeOK
  <1>1. Inv => TypeOK
    BY DEF Inv, TypeOK, StoresOK, JobOK, RowOK, AllProcessesOK, AdmissionRow
  <1> QED
    BY <1>1, InvHolds, PTL

\* mark_terminal: a closed admission has the status of the durable record.
THEOREM ClosedAdmissionAgrees == Spec => []AdmissionAgrees
  <1>1. Inv => AdmissionAgrees
    BY DEF Inv, AdmissionAgrees, StoresOK
  <1> QED
    BY <1>1, InvHolds, PTL

\* persist_completed: a completed record points to what the stores hold.
THEOREM RecordsMatchStores == Spec => []RecordMatchesStores
  <1>1. Inv => RecordMatchesStores
    BY DEF Inv, RecordMatchesStores, StoresOK
  <1> QED
    BY <1>1, InvHolds, PTL

\* build_generation_handoff: a SUCCEEDED job never answers result_pending.
THEOREM SucceededJobsAreReady == Spec => []SucceededIsReady
  <1>1. Inv => SucceededIsReady
    BY DEF Inv, SucceededIsReady, JobOK
  <1> QED
    BY <1>1, InvHolds, PTL

\* The worker finds the envelope that its job was created for.
THEOREM EnvelopesMatchJobs == Spec => []EnvelopeMatchesJob
  <1>1. ASSUME Inv PROVE EnvelopeMatchesJob
    <2>1. \A h \in AsyncRequests : h \in Processes
      BY DEF Processes, Requests
    <2>2. \A h \in AsyncRequests : process[h].pc = "enqueue" => envelope = h
      BY <1>1, <2>1, Here DEF ProcessOK
    <2> QED
      BY <1>1, <2>2 DEF Inv, EnvelopeMatchesJob, JobOK
  <1> QED
    BY <1>1, InvHolds, PTL

----------------------------------------------------------------------------
(* The abstract outcome.                                                   *)

\* No other action writes the record, and no other one answers a request.
LEMMA OthersDecideNothing ==
    ASSUME Next, ~ \E p \in Processes : Save(p) \/ MarkTerminal(p)
    PROVE  UNCHANGED <<record, told>>
  <1>1. ASSUME NEW p \in Processes, PutOutput(p) \/ PutDraft(p) \/ Crash(p)
        PROVE  UNCHANGED <<record, told>>
    BY <1>1 DEF PutOutput, PutDraft, Crash, stores
  <1>2. ASSUME NEW h \in Requests, Reserve(h) \/ Resolve(h) \/ CallSync(h)
        PROVE  UNCHANGED <<record, told>>
    BY <1>2 DEF Reserve, Resolve, CallSync, stores
  <1>3. ASSUME NEW h \in AsyncRequests, PutEnvelope(h) \/ Enqueue(h)
        PROVE  UNCHANGED <<record, told>>
    BY <1>3 DEF PutEnvelope, Enqueue, stores
  <1>4. ASSUME NEW w \in Workers, Outage(w)
        PROVE  UNCHANGED <<record, told>>
    BY <1>4 DEF Outage, stores
  <1>5. ASSUME NEW w \in Workers, Work(w)
        PROVE  UNCHANGED <<record, told>>
    BY <1>5 DEF Work, Claim, Checkpoint, Load, CallProvider, Validate, Complete, Settle,
                OnlyProcess, stores
  <1>6. ASSUME NEW c \in Cancellers, BeginCancel(c) \/ Cancel(c)
        PROVE  UNCHANGED <<record, told>>
    BY <1>6 DEF BeginCancel, Cancel, OnlyProcess, stores
  <1>7. ASSUME NEW r \in Recoverers, BeginRecovery(r) \/ Recover(r)
        PROVE  UNCHANGED <<record, told>>
    BY <1>7 DEF BeginRecovery, Recover, OnlyProcess, stores
  <1>8. ASSUME LeaseExpires \/ OperatorCancel \/ OperatorRetry
        PROVE  UNCHANGED <<record, told>>
    BY <1>8 DEF LeaseExpires, OperatorCancel, OperatorRetry, stores
  <1> QED
    BY <1>1, <1>2, <1>3, <1>4, <1>5, <1>6, <1>7, <1>8 DEF Next, Persist

LEMMA OutcomeStep ==
    ASSUME Inv, [Next]_vars
    PROVE  [Durable!Next]_Durable!vars
  <1> SUFFICES ASSUME Next, record.status # record'.status \/ told # told'
               PROVE  Durable!Next
    BY DEF vars, Durable!vars
  <1>1. PICK p \in Processes : Save(p) \/ MarkTerminal(p)
    BY OthersDecideNothing
  <1>2. CASE Save(p)
    <2>1. process[p].pc = "record" /\ UNCHANGED told
      BY <1>2 DEF Save
    <2>2. record = NoRecord /\ record'.status = process[p].status
      BY <1>2, <2>1 DEF Save
    <2>3. process[p].status \in Outcomes
      BY <2>1, Here DEF ProcessOK, Persisting
    <2> QED
      BY <2>1, <2>2, <2>3 DEF Durable!Next, Durable!Decide, Durable!Outcomes, Outcomes, NoRecord
  <1>3. CASE MarkTerminal(p)
    <2>1. process[p].pc = "mark" /\ UNCHANGED record
      BY <1>3 DEF MarkTerminal, stores
    <2>2. process[p].status \in Outcomes /\ record.status = process[p].status
      BY <2>1, Here DEF ProcessOK, Persisting
    <2>3. p \in Requests /\ told' = [told EXCEPT ![p] = process[p].status]
      BY <1>3, <2>1 DEF MarkTerminal
    <2>4. Durable!Tell(p)
      BY <2>1, <2>2, <2>3 DEF Durable!Tell, Outcomes
    <2> QED
      BY <2>3, <2>4 DEF Durable!Next
  <1> QED
    BY <1>1, <1>2, <1>3

\* GenerationRuntimeRepository.save and mark_terminal: whichever of the
\* routes, workers, cancellations and recoveries writes first decides the
\* outcome, and no request under the key is ever told another one.
THEOREM OutcomeIsDurable == Spec => OneOutcome
  <1>1. Init => Durable!Init
    BY DEF Init, Durable!Init, NoRecord
  <1> QED
    BY <1>1, InvHolds, OutcomeStep, PTL DEF Spec, OneOutcome, Durable!Spec

----------------------------------------------------------------------------
(* The queue's promise holds for the job of the generation.                *)

\* The table of one row that the job is.
OnlyJob == {"job"}
Table == [i \in OnlyJob |-> job]

Lifecycle == INSTANCE JobLifecycle WITH
    JobIds <- OnlyJob, phase <- PhasesOf(OnlyJob, Table), used <- UsedOf(OnlyJob, Table),
    budget <- BudgetsOf(OnlyJob, Table)

LEMMA PromisedStep ==
    ASSUME Promised("job", PhasesOf(OnlyJob, Table), UsedOf(OnlyJob, Table),
               BudgetsOf(OnlyJob, Table), PhasesOf(OnlyJob, Table'), UsedOf(OnlyJob, Table'),
               BudgetsOf(OnlyJob, Table'))
    PROVE  Lifecycle!Next
  <1> DEFINE j == "job"
  <1>1. j \in OnlyJob
    BY DEF OnlyJob
  <1>2. Promised(j, PhasesOf(OnlyJob, Table), UsedOf(OnlyJob, Table),
               BudgetsOf(OnlyJob, Table), PhasesOf(OnlyJob, Table'), UsedOf(OnlyJob, Table'),
               BudgetsOf(OnlyJob, Table'))
    OBVIOUS
  <1> HIDE DEF j
  <1>3. Lifecycle!Submit(j) \/ Lifecycle!Start(j) \/ Lifecycle!Requeue(j)
        \/ Lifecycle!Finish(j) \/ Lifecycle!Cancel(j)
    BY <1>2 DEF Promised, Lifecycle!Submit, Lifecycle!Start, Lifecycle!Requeue,
           Lifecycle!Finish, Lifecycle!Cancel, Lifecycle!Move, Lifecycle!Ended
  <1> QED
    BY <1>1, <1>3 DEF Lifecycle!Next

LEMMA RowFollows ==
    ASSUME RowOK(job, 0), NEW row, job' = row, Advances(job, row) \/ Submits(job, row)
    PROVE  Lifecycle!Next
  <1> DEFINE j == "job"
  <1>1. /\ Table \in [OnlyJob -> Job] /\ j \in OnlyJob /\ Table[j] = job
        /\ Table' = [Table EXCEPT ![j] = row]
    BY DEF Table, OnlyJob, RowOK
  <1> QED
    BY <1>1, RowIsPromised, PromisedStep

\* Every step leaves the job alone, or writes one of these rows.
Writes ==
    \/ UNCHANGED job
    \/ job.status = "NONE" /\ job' = GenerationJob
    \/ \E s \in JOB_STATUSES, w \in Workers \cup {NoWorker} :
        CanTransition(job, s) /\ job' = Transitioned(job, s, w, 0)
    \/ job.status = "RUNNING" /\ job' \in {Retried(job, 0), DeadLettered(job, 0)}

LEMMA StepWrites == ASSUME [Next]_vars PROVE Writes
  <1>1. /\ NoWorker \in Workers \cup {NoWorker} /\ "CANCELLED" \in JOB_STATUSES
        /\ "SUCCEEDED" \in JOB_STATUSES /\ "RUNNING" \in JOB_STATUSES
        /\ job.status = "RUNNING" => CanTransition(job, "SUCCEEDED")
    BY DEF JOB_STATUSES, TERMINAL_JOB_STATUSES, CanTransition, VALID_JOB_TRANSITIONS
  <1>2. ASSUME NEW h \in AsyncRequests, Enqueue(h) PROVE Writes
    BY <1>2 DEF Enqueue, Writes
  <1>3. ASSUME NEW w \in Workers, Claim(w) PROVE Writes
    <2>1. CanTransition(job, "RUNNING")
      BY <1>3 DEF Claim, IsClaimable, CanTransition, VALID_JOB_TRANSITIONS
    <2> QED
      BY <1>1, <1>3, <2>1 DEF Claim, Writes
  <1>4. ASSUME NEW w \in Workers, Complete(w) \/ Settle(w) PROVE Writes
    BY <1>1, <1>4 DEF Complete, Settle, Writes
  <1>5. ASSUME NEW c \in Cancellers, Cancel(c) PROVE Writes
    BY <1>1, <1>5 DEF Cancel, Writes
  <1>6. CASE OperatorCancel \/ OperatorRetry
    BY <1>1, <1>6 DEF OperatorCancel, OperatorRetry, Writes
  <1>7. ASSUME NEW r \in Recoverers, Recover(r) PROVE Writes
    BY <1>7 DEF Recover, Writes
  <1>8. ASSUME NEW p \in Processes,
               Persist(p) \/ Crash(p) \/ Reserve(p) \/ Resolve(p) \/ CallSync(p)
               \/ PutEnvelope(p) \/ Checkpoint(p) \/ Load(p)
               \/ CallProvider(p) \/ Validate(p) \/ Outage(p) \/ BeginCancel(p)
               \/ BeginRecovery(p)
        PROVE  Writes
    BY <1>8 DEF Persist, PutOutput, PutDraft, Save, MarkTerminal, Crash, Reserve, Resolve,
        CallSync, PutEnvelope, Checkpoint, Load, CallProvider, Validate, Outage,
        BeginCancel, BeginRecovery, OnlyProcess, Writes
  <1>9. CASE UNCHANGED vars
    BY <1>9 DEF vars, Writes
  <1>10. CASE LeaseExpires
    BY <1>10 DEF LeaseExpires, Writes
  <1> QED
    BY <1>2, <1>3, <1>4, <1>5, <1>6, <1>7, <1>8, <1>9, <1>10 DEF Next, Work, Processes, Requests

LEMMA WriteFollows == ASSUME RowOK(job, 0), Writes PROVE [Lifecycle!Next]_(Lifecycle!vars)
  <1>1. CASE UNCHANGED job
    BY <1>1 DEF Lifecycle!vars, Table
  <1>2. CASE job.status = "NONE" /\ job' = GenerationJob
    <2>1. /\ job.attempt_count = 0 /\ GenerationJob.attempt_count = 0
          /\ GenerationJob.max_attempts \in Nat \ {0} /\ GenerationJob.status = "QUEUED"
      BY <1>2, GenerationAssumption DEF RowOK, GenerationJob, NewJob
    <2>2. Submits(job, GenerationJob)
      BY <1>2, <2>1 DEF Submits, Phase
    <2> QED
      BY <1>2, <2>2, RowFollows
  <1>3. ASSUME NEW s \in JOB_STATUSES, NEW w \in Workers \cup {NoWorker},
               CanTransition(job, s), job' = Transitioned(job, s, w, 0)
        PROVE  Lifecycle!Next
    BY <1>3, TransitionedAdvances, RowFollows
  <1>4. CASE job.status = "RUNNING" /\ job' = Retried(job, 0)
    BY <1>4, RetriedAdvances, RowFollows
  <1>5. CASE job.status = "RUNNING" /\ job' = DeadLettered(job, 0)
    BY <1>5, DeadLetteredAdvances, RowFollows
  <1> QED
    BY <1>1, <1>2, <1>3, <1>4, <1>5 DEF Writes

GenerationJobFollowsLifecycle == Lifecycle!Spec

\* Workers, both cancel routes, recovery and operators together keep what the
\* job queue promises of the job of a generation: no attempt beyond its budget
\* and no way back from an end, whichever of them settles it.
THEOREM GenerationJobKeepsThePromise == Spec => GenerationJobFollowsLifecycle
  <1>1. Init => Lifecycle!Init
    <2> SUFFICES ASSUME Init PROVE Lifecycle!Init
      OBVIOUS
    <2>1. /\ job.status = "NONE" /\ job.attempt_count = 0
          /\ job.max_attempts \in Nat \ {0}
      BY GenerationAssumption DEF Init, GenerationJob, NewJob
    <2> QED
      BY <2>1 DEF Lifecycle!Init, PhasesOf, UsedOf, BudgetsOf, Phase, Table
  <1>2. Inv /\ [Next]_vars => [Lifecycle!Next]_(Lifecycle!vars)
    BY StepWrites, WriteFollows DEF Inv, JobOK
  <1> QED
    BY <1>1, <1>2, InvHolds, PTL DEF Spec, GenerationJobFollowsLifecycle, Lifecycle!Spec
=============================================================================
