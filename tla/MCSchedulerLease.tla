--------------------------- MODULE MCSchedulerLease ---------------------------
(* SchedulerLease for TLC. *)
EXTENDS SchedulerLease
===============================================================================
