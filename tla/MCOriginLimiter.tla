-------------------------- MODULE MCOriginLimiter ---------------------------
(* One origin, two fetchers on hosts whose clocks differ by S, policies    *)
(* that differ in the concurrency they allow.                              *)
EXTENDS OriginLimiter, TLC

CONSTANTS f1, f2

MCFetchers == {f1, f2}
MCOffset == (f1 :> 0) @@ (f2 :> S)
MCPolicies ==
    {[capacity |-> 2, num |-> 1, den |-> 1, max_concurrency |-> c] : c \in {1, 2}}
PermitSymmetry == Permutations(Permits)
=============================================================================
