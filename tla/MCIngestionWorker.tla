--------------------------- MODULE MCIngestionWorker ---------------------------
(* Instance of IngestionWorker for TLC: processes under the default worker  *)
(* id that they share, or each under an id of its own.                      *)
EXTENDS IngestionWorker, TLC

CONSTANTS w1, w2, p1, p2

SharedId == (p1 :> w1) @@ (p2 :> w1)
OwnIds == (p1 :> w1) @@ (p2 :> w2)
=============================================================================
