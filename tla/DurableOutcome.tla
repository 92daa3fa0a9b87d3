--------------------------- MODULE DurableOutcome ---------------------------
(***************************************************************************)
(* What an idempotency key promises its requests: one outcome is decided,  *)
(* once, and every request that is told an outcome is told that one.       *)
(***************************************************************************)
CONSTANTS Requests

VARIABLES
    outcome,    \* "none" until it is decided
    told        \* per request: what it has been told

vars == <<outcome, told>>

Outcomes == {"COMPLETED", "FAILED"}

Init ==
    /\ outcome = "none"
    /\ told = [h \in Requests |-> "none"]

Decide ==
    /\ outcome = "none"
    /\ outcome' \in Outcomes
    /\ UNCHANGED told

Tell(h) ==
    /\ outcome # "none"
    /\ told' = [told EXCEPT ![h] = outcome]
    /\ UNCHANGED outcome

Next == Decide \/ \E h \in Requests : Tell(h)

Spec == Init /\ [][Next]_vars
=============================================================================
