----------------------------- MODULE MCWorkerPools -----------------------------
(* WorkerPools for TLC. *)
EXTENDS WorkerPools, TLC

CONSTANTS k1, k2
MCKeys == {k1, k2}
MCWant == (k1 :> [replicas |-> 2, concurrency |-> 2]) @@ (k2 :> [replicas |-> 1, concurrency |-> 1])
MCDefault == [replicas |-> 1, concurrency |-> 1, min |-> 0, max |-> 2]
MCStates == {[replicas |-> 1, concurrency |-> 3, min |-> 0, max |-> 1]}
InstancesAndClients == Permutations(Instances) \cup Permutations(Clients)
================================================================================
