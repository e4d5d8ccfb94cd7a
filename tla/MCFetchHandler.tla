---------------------------- MODULE MCFetchHandler ----------------------------
(* FetchHandler for TLC. *)
EXTENDS FetchHandler, TLC

MCFailures == {[status |-> 403, error |-> "none"]}
MCPolicies == {[robots |-> "respect", browser |-> TRUE]}
JobsAndWorkers == Permutations(Jobs) \cup Permutations(Workers)
===============================================================================
