------------------------------ MODULE JobService ------------------------------
(***************************************************************************)
(* What the job queue promises its callers, without rows, leases' clocks,  *)
(* delays or row locks: a submitted job waits, is held by one owner at a   *)
(* time, and comes to one end.  tries counts the attempts it has used up.  *)
(***************************************************************************)
EXTENDS Integers

CONSTANTS Keys, Owners, NoOwner, MaxAttempts

VARIABLES stage, holder, tries

sv == <<stage, holder, tries>>

Init ==
    /\ stage  = [k \in Keys |-> "none"]
    /\ holder = [k \in Keys |-> NoOwner]
    /\ tries  = [k \in Keys |-> 0]

Submit(k) ==
    /\ stage[k] = "none"
    /\ stage' = [stage EXCEPT ![k] = "waiting"]
    /\ UNCHANGED <<holder, tries>>

\* Only jobs that wait are handed out.
Take(o, S) ==
    /\ \A k \in S : stage[k] = "waiting"
    /\ stage'  = [k \in Keys |-> IF k \in S THEN "held" ELSE stage[k]]
    /\ holder' = [k \in Keys |-> IF k \in S THEN o ELSE holder[k]]
    /\ UNCHANGED tries

\* Job k is no longer held, is at stage s, and has used up n attempts.
Leaves(k, s, n) ==
    /\ stage'  = [stage EXCEPT ![k] = s]
    /\ holder' = [holder EXCEPT ![k] = NoOwner]
    /\ tries'  = [tries EXCEPT ![k] = n]

Complete(k, o) == stage[k] = "held" /\ holder[k] = o /\ Leaves(k, "done", 0)

\* A failure uses an attempt up, and only the last one is the end of the job.
Fail(k, o) ==
    /\ stage[k] = "held" /\ holder[k] = o
    /\ IF tries[k] + 1 < MaxAttempts[k]
       THEN Leaves(k, "waiting", tries[k] + 1)
       ELSE Leaves(k, "exhausted", 0)

\* A job that is given back has cost nothing.
GiveBack(k, o) == stage[k] = "held" /\ holder[k] = o /\ Leaves(k, "waiting", tries[k])

\* Holders that are gone have used their attempt up.
Lose(S) ==
    /\ \A k \in S : stage[k] = "held"
    /\ stage'  = [k \in Keys |-> IF k \in S THEN "waiting" ELSE stage[k]]
    /\ holder' = [k \in Keys |-> IF k \in S THEN NoOwner ELSE holder[k]]
    /\ tries'  = [k \in Keys |-> IF k \in S THEN tries[k] + 1 ELSE tries[k]]

\* The holder or the operator takes an unfinished job off the queue.
Discard(k) == stage[k] \in {"waiting", "held"} /\ Leaves(k, "discarded", 0)

Next ==
    \/ \E k \in Keys : Submit(k) \/ Discard(k)
    \/ \E k \in Keys, o \in Owners : Complete(k, o) \/ Fail(k, o) \/ GiveBack(k, o)
    \/ \E o \in Owners, S \in SUBSET Keys : Take(o, S)
    \/ \E S \in SUBSET Keys : Lose(S)

Spec == Init /\ [][Next]_sv
================================================================================
