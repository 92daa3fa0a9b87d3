--------------------------- MODULE MCModelRollout ---------------------------
(* Instance of ModelRollout for TLC. *)
EXTENDS ModelRollout, TLC

Symmetry == Permutations(Operators) \cup Permutations(Controllers) \cup Permutations(Rollouts)
=============================================================================
