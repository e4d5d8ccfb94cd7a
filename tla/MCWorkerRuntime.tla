--------------------------- MODULE MCWorkerRuntime --------------------------
(* WorkerRuntime for TLC. *)
EXTENDS WorkerRuntime, TLC

JobSymmetry == Permutations(Jobs)
=============================================================================
