----------------------------- MODULE MCJobQueue -----------------------------
(* Instance of JobQueue for TLC. *)
EXTENDS JobQueue, TLC

Symmetry == Permutations(Workers) \cup Permutations(Callers)
=============================================================================
