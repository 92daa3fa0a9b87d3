--------------------------- MODULE MCWorkerExecution ---------------------------
(* Instance of WorkerExecution for TLC. *)
EXTENDS WorkerExecution, TLC

Symmetry == Permutations(Workers)
=============================================================================
