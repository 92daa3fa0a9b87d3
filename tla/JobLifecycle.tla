---------------------------- MODULE JobLifecycle ----------------------------
(***************************************************************************)
(* What the job queue promises of each job, with no table, lock, clock or  *)
(* worker: a job is submitted once with a budget of attempts, every start  *)
(* uses one attempt, it goes back to waiting only while attempts are left, *)
(* and once it has ended nothing changes it again.                         *)
(***************************************************************************)
EXTENDS Naturals

CONSTANTS JobIds    \* job identifiers

VARIABLES
    phase,          \* where each job is
    used,           \* attempts started
    budget          \* attempts granted when the job was submitted

vars == <<phase, used, budget>>

Ended == {"succeeded", "failed", "dead_lettered", "cancelled"}

Init ==
    /\ phase = [j \in JobIds |-> "absent"]
    /\ used = [j \in JobIds |-> 0]
    /\ budget \in [JobIds -> Nat \ {0}]

Move(j, from, to) ==
    /\ phase[j] \in from
    /\ phase' = [phase EXCEPT ![j] = to]

Submit(j) ==
    /\ Move(j, {"absent"}, "waiting")
    /\ budget'[j] \in Nat \ {0}
    /\ budget' = [budget EXCEPT ![j] = budget'[j]]
    /\ UNCHANGED used

Start(j) ==
    /\ Move(j, {"waiting"}, "active")
    /\ used[j] < budget[j]
    /\ used' = [used EXCEPT ![j] = @ + 1]
    /\ UNCHANGED budget

Requeue(j) ==
    /\ Move(j, {"active"}, "waiting")
    /\ used[j] < budget[j]
    /\ UNCHANGED <<used, budget>>

Finish(j) ==
    /\ \E e \in Ended \ {"cancelled"} : Move(j, {"active"}, e)
    /\ UNCHANGED <<used, budget>>

Cancel(j) ==
    /\ Move(j, {"waiting", "active"}, "cancelled")
    /\ UNCHANGED <<used, budget>>

Next == \E j \in JobIds :
    Submit(j) \/ Start(j) \/ Requeue(j) \/ Finish(j) \/ Cancel(j)

Spec == Init /\ [][Next]_vars
=============================================================================
