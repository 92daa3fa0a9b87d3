-------------------------- MODULE IngestionContract --------------------------
(***************************************************************************)
(* What docs/slices/0922 promises of a durable ingestion run, one small    *)
(* state machine per document: a run passes its checkpoints in order and   *)
(* never loses one, a terminal run stays as it is, and no run is started   *)
(* more often than its budget allows, however many workers, recoveries and *)
(* stale writers handle it.                                                *)
(***************************************************************************)
EXTENDS Integers

CONSTANTS
    Runs,       \* one run per admitted upload
    Steps,      \* number of checkpoints of the pipeline
    Budget      \* max_attempts of a run

VARIABLES
    phase,      \* per run: where it stands
    done,       \* per run: the checkpoints it has passed
    used        \* per run: how often it was started

vars == <<phase, done, used>>

Live == {"queued", "running", "waiting"}
Settled == {"succeeded", "failed", "cancelled"}

Init ==
    /\ phase = [r \in Runs |-> "absent"]
    /\ done = [r \in Runs |-> 0]
    /\ used = [r \in Runs |-> 0]

Move(r, from, to) ==
    /\ phase[r] \in from
    /\ phase' = [phase EXCEPT ![r] = to]

Admit(r) == Move(r, {"absent"}, "queued") /\ UNCHANGED <<done, used>>

Start(r) ==
    /\ Move(r, {"queued"}, "running")
    /\ used[r] < Budget
    /\ used' = [used EXCEPT ![r] = @ + 1]
    /\ UNCHANGED done

Pass(r) ==
    /\ Move(r, {"running"}, IF done[r] + 1 = Steps THEN "succeeded" ELSE "running")
    /\ done' = [done EXCEPT ![r] = @ + 1]
    /\ UNCHANGED used

\* A failed step is repeated only while there is an attempt left to repeat it.
Fail(r) ==
    /\ \/ Move(r, {"running"}, "failed")
       \/ used[r] < Budget /\ Move(r, {"running"}, "waiting")
    /\ UNCHANGED <<done, used>>

Requeue(r) == Move(r, {"waiting"}, "queued") /\ UNCHANGED <<done, used>>

Cancel(r) == Move(r, Live, "cancelled") /\ UNCHANGED <<done, used>>

Next ==
    \E r \in Runs :
        Admit(r) \/ Start(r) \/ Pass(r) \/ Fail(r) \/ Requeue(r) \/ Cancel(r)

Spec == Init /\ [][Next]_vars
=============================================================================
