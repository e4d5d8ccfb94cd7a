--------------------------- MODULE MCLeaseFencing ---------------------------
(* One instance, one job, with the proportions of the code's               *)
(* configuration: the tick budget is the lease, the fence window half of   *)
(* it.  Two coroutines of the job may overlap.  Another instance meets     *)
(* this one only in the row: read "leased to another" as "free" and its    *)
(* claims, ticks and requeues are stutterings, its other reports           *)
(* quarantines, so a second instance would add no behaviour of this one.   *)
EXTENDS LeaseFencing, TLC

CONSTANTS w1, h1, h2

MCJobs == {"j1"}
MCWorkers == {w1}
MCTasks == {h1, h2}
TaskSymmetry == Permutations(MCTasks)
MCRequeue == {0, 1}
=============================================================================
