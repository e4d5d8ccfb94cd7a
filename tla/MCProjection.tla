---------------------------- MODULE MCProjection ----------------------------
(* Projection for TLC: an entity parsed twice, in the same state or in     *)
(* another one.  Depending on the order, the second version is applied     *)
(* with or without a change, or the first one comes too late.              *)
EXTENDS Projection, TLC

CONSTANTS p1, p2, e1

MCEntityOf == p1 :> e1 @@ p2 :> e1

ModelSymmetry ==
    Permutations(Parsers) \cup Permutations(Workers) \cup Permutations(States)
        \cup Permutations(Parses)
=============================================================================
