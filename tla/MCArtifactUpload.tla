-------------------------- MODULE MCArtifactUpload --------------------------
(* Three uploads of one key, two of them by the same process, and a        *)
(* sweeper whose clock is ahead.                                           *)
EXTENDS ArtifactUpload, TLC

CONSTANTS p1, p2, p3, s1, worker1, worker2, sweeper

MCProducers == {p1, p2, p3}
MCSweepers == {s1}
MCOwner == (p1 :> worker1) @@ (p2 :> worker1) @@ (p3 :> worker2) @@ (s1 :> sweeper)
MCOffset == (p1 :> 0) @@ (p2 :> 0) @@ (p3 :> Skew) @@ (s1 :> 0)
Symmetry == Permutations({p1, p2})
=============================================================================
