---------------------------- MODULE AliasPointer ----------------------------
(***************************************************************************)
(* What NeX-MO promises of a provider alias, without rows, revisions or    *)
(* transactions: it has one target, and each change is one move to a       *)
(* target it did not have.                                                 *)
(***************************************************************************)
EXTENDS Naturals

CONSTANTS
    Aliases,
    Targets,
    Nowhere     \* the target of an alias nobody bound yet

VARIABLES
    target,     \* what each alias means to a provider request
    moves       \* how often it was changed

pointerVars == <<target, moves>>

Init ==
    /\ target \in [Aliases -> Targets \cup {Nowhere}]
    /\ moves = [a \in Aliases |-> IF target[a] = Nowhere THEN 0 ELSE 1]

Move(a) ==
    /\ \E t \in Targets \ {target[a]} : target' = [target EXCEPT ![a] = t]
    /\ moves' = [moves EXCEPT ![a] = @ + 1]

Next == \E a \in Aliases : Move(a)

Spec == Init /\ [][Next]_pointerVars
=============================================================================
