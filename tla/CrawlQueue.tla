----------------------------- MODULE CrawlQueue -----------------------------
(***************************************************************************)
(* The PostgreSQL job queue (repositories/queue.py): the rows of           *)
(* crawl_jobs and dead_letters, and one action per repository function.    *)
(*                                                                         *)
(* Every function runs in the caller's READ COMMITTED transaction.  A      *)
(* single-row UPDATE/SELECT FOR UPDATE is one atomic step.  claim() is     *)
(* split in two, because its row locks outlive the statement: the rows it  *)
(* has locked and updated stay invisible to the others until its caller    *)
(* commits, and SKIP LOCKED lets other claimers pass them by meanwhile.    *)
(*                                                                         *)
(* Callers are not restricted: any owner may call any function at any      *)
(* time, for a job it holds, has lost or never held.  A call whose owner   *)
(* predicate matches no row raises LeaseNotOwnedError and changes nothing. *)
(***************************************************************************)
EXTENDS Integers, FiniteSets

CONSTANTS
    Keys,          \* idempotency keys; a key is the identity of its job
    Owners,        \* lease owners (worker instance ids)
    Serves,        \* Serves[o]: keys whose job_type the owner's handlers take
    Priority,      \* Priority[k]: priority column
    MaxAttempts,   \* MaxAttempts[k]: max_attempts column
    ClaimLimit,    \* largest limit passed to claim
    RecoverLimit,  \* limit of recover_expired_leases
    LeaseSeconds,  \* lease TTL
    Delays,        \* how far ahead callers put not_before (0: immediately)
    MaxTime        \* bound on the clock

NoOwner == "NoOwner"

ASSUME QueueAssumption ==
    /\ Keys \subseteq Nat
    /\ NoOwner \notin Owners
    /\ Serves \in [Owners -> SUBSET Keys]
    /\ Priority \in [Keys -> Int]
    /\ MaxAttempts \in [Keys -> Nat \ {0}]
    /\ ClaimLimit \in Nat \ {0}
    /\ RecoverLimit \in Nat \ {0}
    /\ LeaseSeconds \in Nat \ {0}
    /\ Delays \subseteq Nat
    /\ MaxTime \in Nat

VARIABLES
    crawl_jobs,    \* the row of each key ("absent" before enqueue)
    dead_letters,  \* number of dead_letters rows of each key, per reason
    claim_tx,      \* open claim transaction of each owner: its locked rows
    now,           \* the callers' clock
    burned         \* history: attempts used up by a failure or a lost lease

vars == <<crawl_jobs, dead_letters, claim_tx, now, burned>>

CLAIMABLE_JOB_STATUSES == {"pending", "retry"}
TERMINAL_JOB_STATUSES == {"succeeded", "quarantined"}
JOB_STATUSES ==
    CLAIMABLE_JOB_STATUSES \cup {"leased"} \cup TERMINAL_JOB_STATUSES

Row == [ status : JOB_STATUSES \cup {"absent"},
         attempt : Nat,
         lease_owner : Owners \cup {NoOwner},
         lease_expires_at : Nat,
         not_before : Nat ]

\* The row r leased to o until e; claim counts the attempt.
Leased(r, o, e) ==
    [r EXCEPT !.status = "leased", !.lease_owner = o,
              !.lease_expires_at = e, !.attempt = @ + 1]

\* The row r with its lease columns cleared, in status s.
Unleased(r, s) ==
    [r EXCEPT !.status = s, !.lease_owner = NoOwner, !.lease_expires_at = 0]

NoTx == [rows |-> {}, at |-> 0]

Init ==
    /\ crawl_jobs = [k \in Keys |-> [ status |-> "absent", attempt |-> 0,
                                      lease_owner |-> NoOwner,
                                      lease_expires_at |-> 0,
                                      not_before |-> 0 ]]
    /\ dead_letters = [k \in Keys |-> [max_attempts |-> 0, quarantine |-> 0]]
    /\ claim_tx = [o \in Owners |-> NoTx]
    /\ now = 0
    /\ burned = [k \in Keys |-> 0]

-----------------------------------------------------------------------------
(* Predicates of the SQL statements                                        *)

\* _owned: the row is leased, and to this owner.
owned(k, o) ==
    /\ crawl_jobs[k].status = "leased"
    /\ crawl_jobs[k].lease_owner = o

Locked(k) == \E o \in Owners : k \in claim_tx[o].rows

\* Seeded fault: an expired lease may be claimed over the owner's head.
Claimable_steal(k) ==
    \/ /\ crawl_jobs[k].status \in CLAIMABLE_JOB_STATUSES
       /\ crawl_jobs[k].not_before <= now
    \/ /\ crawl_jobs[k].status = "leased"
       /\ crawl_jobs[k].lease_expires_at <= now

Claimable(k) ==
    /\ crawl_jobs[k].status \in CLAIMABLE_JOB_STATUSES
    /\ crawl_jobs[k].not_before <= now

\* Seeded fault: the candidate sub-select does not lock (or see the locks of) rows.
Candidates_noLock(o) == {k \in Serves[o] : Claimable(k)}

\* Rows the claim sub-select may lock: claimable, of a served type, and not
\* locked by another open claim (FOR UPDATE SKIP LOCKED).
Candidates(o) == {k \in Serves[o] : Claimable(k) /\ ~Locked(k)}

\* ORDER BY priority DESC, not_before, job_id
Precedes(a, b) ==
    \/ Priority[a] > Priority[b]
    \/ /\ Priority[a] = Priority[b]
       /\ \/ crawl_jobs[a].not_before < crawl_jobs[b].not_before
          \/ /\ crawl_jobs[a].not_before = crawl_jobs[b].not_before
             /\ a < b

\* S is what ORDER BY ... LIMIT limit keeps of the candidates.
IsBatch(S, cand, limit) ==
    /\ Cardinality(S) <= limit
    /\ \A b \in cand \ S : /\ Cardinality(S) = limit
                           /\ \A a \in S : Precedes(a, b)

Expired == {k \in Keys : /\ crawl_jobs[k].status = "leased"
                         /\ crawl_jobs[k].lease_expires_at <= now}

-----------------------------------------------------------------------------
(* Enqueue, claim, heartbeat                                               *)

\* enqueue: INSERT ... ON CONFLICT DO NOTHING.  A key that exists already,
\* whatever its status, is returned unchanged, so there is no step for it.
enqueue(k, d) ==
    /\ crawl_jobs[k].status = "absent"
    /\ crawl_jobs' = [crawl_jobs EXCEPT ![k].status = "pending",
                                        ![k].attempt = 0,
                                        ![k].not_before = now + d]
    /\ UNCHANGED <<dead_letters, claim_tx, now, burned>>

\* claim, the statement: lock up to limit rows in queue order.
claim_select(o) ==
    /\ claim_tx[o].rows = {}
    /\ \E limit \in 1..ClaimLimit, S \in SUBSET Candidates(o) :
          /\ S # {}
          /\ IsBatch(S, Candidates(o), limit)
          /\ claim_tx' = [claim_tx EXCEPT ![o] = [rows |-> S, at |-> now]]
    /\ UNCHANGED <<crawl_jobs, dead_letters, now, burned>>

\* claim, the commit: status, lease and attempt of the locked rows appear.
claim_commit(o) ==
    /\ claim_tx[o].rows # {}
    /\ crawl_jobs' = [k \in Keys |->
          IF k \in claim_tx[o].rows
          THEN Leased(crawl_jobs[k], o, claim_tx[o].at + LeaseSeconds)
          ELSE crawl_jobs[k]]
    /\ claim_tx' = [claim_tx EXCEPT ![o] = NoTx]
    /\ UNCHANGED <<dead_letters, now, burned>>

\* The claim transaction ends without a commit (crash, statement_timeout).
claim_rollback(o) ==
    /\ claim_tx[o].rows # {}
    /\ claim_tx' = [claim_tx EXCEPT ![o] = NoTx]
    /\ UNCHANGED <<crawl_jobs, dead_letters, now, burned>>

\* heartbeat: an expired lease that nobody recovered yet is extended too.
heartbeat(k, o) ==
    /\ owned(k, o)
    /\ crawl_jobs' =
          [crawl_jobs EXCEPT ![k].lease_expires_at = now + LeaseSeconds]
    /\ UNCHANGED <<dead_letters, claim_tx, now, burned>>

-----------------------------------------------------------------------------
(* The ways a lease ends                                                   *)

\* _quarantine_locked: terminal status and dead letter in one transaction.
quarantine_locked(k, reason) ==
    /\ crawl_jobs' = [crawl_jobs EXCEPT ![k] = Unleased(@, "quarantined")]
    /\ dead_letters' = IF reason = "max_attempts"
                       THEN [dead_letters EXCEPT ![k].max_attempts = @ + 1]
                       ELSE [dead_letters EXCEPT ![k].quarantine = @ + 1]

\* complete: leased -> succeeded, by the lease holder only.
complete(k, o) ==
    /\ owned(k, o)
    /\ crawl_jobs' = [crawl_jobs EXCEPT ![k] = Unleased(@, "succeeded")]
    /\ UNCHANGED <<dead_letters, claim_tx, now, burned>>

\* retry: back to the queue with a delay, or, with the attempts used up,
\* to quarantine with a max_attempts dead letter.
retry(k, o, d) ==
    /\ owned(k, o)
    /\ \/ /\ crawl_jobs[k].attempt >= MaxAttempts[k]
          /\ quarantine_locked(k, "max_attempts")
       \/ /\ crawl_jobs[k].attempt < MaxAttempts[k]
          /\ crawl_jobs' = [crawl_jobs EXCEPT
                ![k] = [Unleased(@, "retry") EXCEPT !.not_before = now + d]]
          /\ UNCHANGED dead_letters
    /\ burned' = [burned EXCEPT ![k] = @ + 1]
    /\ UNCHANGED <<claim_tx, now>>

\* quarantine(owner=...): permanent failure reported by the lease holder.
quarantine(k, o) ==
    /\ owned(k, o)
    /\ quarantine_locked(k, "quarantine")
    /\ UNCHANGED <<claim_tx, now, burned>>

\* _lock_any: the job exists, is not terminal, and its row lock is free.
lock_any(k) ==
    /\ crawl_jobs[k].status \notin TERMINAL_JOB_STATUSES \cup {"absent"}
    /\ ~Locked(k)

\* quarantine(owner=None): the operator takes any unfinished job off the
\* queue, lease or no lease.
quarantine_operator(k) ==
    /\ lock_any(k)
    /\ quarantine_locked(k, "quarantine")
    /\ UNCHANGED <<claim_tx, now, burned>>

\* Seeded fault: release keeps the attempt that claim added.
release_noCompensation(k, o, d) ==
    /\ owned(k, o)
    /\ crawl_jobs' = [crawl_jobs EXCEPT
          ![k] = [Unleased(@, "pending") EXCEPT !.not_before = now + d]]
    /\ UNCHANGED <<dead_letters, claim_tx, now, burned>>

Greatest(a, b) == IF a > b THEN a ELSE b

\* release: planned drain (d = 0) or defer; GREATEST(attempt - 1, 0) gives
\* back the attempt that claim added.
release(k, o, d) ==
    /\ owned(k, o)
    /\ crawl_jobs' = [crawl_jobs EXCEPT
          ![k] = [Unleased(@, "pending") EXCEPT
                     !.not_before = now + d,
                     !.attempt = Greatest(crawl_jobs[k].attempt - 1, 0)]]
    /\ UNCHANGED <<dead_letters, claim_tx, now, burned>>

\* recover_expired_leases: the longest expired leases first, at most
\* RecoverLimit of them; the attempt stays spent.
recover_expired_leases ==
    \E S \in SUBSET Expired :
       /\ S # {}
       /\ Cardinality(S) <= RecoverLimit
       /\ \A b \in Expired \ S :
             /\ Cardinality(S) = RecoverLimit
             /\ \A a \in S : crawl_jobs[a].lease_expires_at
                                <= crawl_jobs[b].lease_expires_at
       /\ crawl_jobs' = [k \in Keys |->
             IF k \in S THEN Unleased(crawl_jobs[k], "pending")
                        ELSE crawl_jobs[k]]
       /\ burned' = [k \in Keys |-> IF k \in S THEN burned[k] + 1
                                              ELSE burned[k]]
       /\ UNCHANGED <<dead_letters, claim_tx, now>>

Tick ==
    /\ now < MaxTime
    /\ now' = now + 1
    /\ UNCHANGED <<crawl_jobs, dead_letters, claim_tx, burned>>

Next ==
    \/ Tick
    \/ recover_expired_leases
    \/ \E k \in Keys : \/ \E d \in Delays : enqueue(k, d)
                       \/ quarantine_operator(k)
    \/ \E o \in Owners : \/ claim_select(o)
                         \/ claim_commit(o)
                         \/ claim_rollback(o)
    \/ \E k \in Keys, o \in Owners : \/ heartbeat(k, o)
                                     \/ complete(k, o)
                                     \/ quarantine(k, o)
    \/ \E k \in Keys, o \in Owners, d \in Delays : \/ retry(k, o, d)
                                                   \/ release(k, o, d)

Spec == Init /\ [][Next]_vars
-----------------------------------------------------------------------------
(* Properties                                                              *)

\* Shape of the rows, and the lease_consistent CHECK of the table: exactly
\* the leased rows have an owner.
TypeOK ==
    /\ crawl_jobs \in [Keys -> Row]
    /\ dead_letters \in [Keys -> [max_attempts : Nat, quarantine : Nat]]
    /\ claim_tx \in [Owners -> [rows : SUBSET Keys, at : Nat]]
    /\ now \in Nat
    /\ burned \in [Keys -> Nat]
    /\ \A k \in Keys : crawl_jobs[k].status = "leased"
                          <=> crawl_jobs[k].lease_owner # NoOwner

\* FOR UPDATE SKIP LOCKED gives each job to at most one claimer: two open
\* claims share no row, and when a claim commits, each of its rows is still
\* claimable (nobody leased, finished or quarantined it in between).
NoDoubleClaim ==
    \A o \in Owners : \A k \in claim_tx[o].rows :
       /\ crawl_jobs[k].status \in CLAIMABLE_JOB_STATUSES
       /\ \A p \in Owners \ {o} : k \notin claim_tx[p].rows

\* A job has a dead letter exactly when it is quarantined, and then exactly
\* one, whichever of the worker, the attempt limit and the operator got
\* there first.
OneDeadLetter ==
    \A k \in Keys :
       dead_letters[k].max_attempts + dead_letters[k].quarantine =
          IF crawl_jobs[k].status = "quarantined" THEN 1 ELSE 0

\* attempt counts what was really used up: reported failures and leases that
\* expired, plus the lease in progress.  Defers and drains leave no trace in
\* it, and release's GREATEST(attempt - 1, 0) never has to clip.
AttemptAccounting ==
    \A k \in Keys :
       /\ crawl_jobs[k].status \in {"absent", "pending", "retry"}
             => crawl_jobs[k].attempt = burned[k]
       /\ crawl_jobs[k].status = "leased"
             => crawl_jobs[k].attempt = burned[k] + 1

\* A job goes to quarantine for max_attempts only after that many attempts
\* failed or lost their lease: no sequence of defers, drains and reclaims
\* gets a job there early.
SpentBeforeDeadLetter ==
    \A k \in Keys :
       dead_letters[k].max_attempts > 0 => burned[k] >= MaxAttempts[k]

\* succeeded and quarantined are final: no late heartbeat, report, release,
\* recovery, claim commit or re-enqueue of the same key revives the job.
TerminalForever ==
    [][\A k \in Keys : crawl_jobs[k].status \in TERMINAL_JOB_STATUSES
                           => crawl_jobs'[k] = crawl_jobs[k]]_vars

\* A lease passes from one owner to another only through the queue: a leased
\* row that changes hands is first released, recovered or finished, so the
\* old owner's predicate fails before the new owner's can hold.
NoLeaseHandover ==
    [][\A k \in Keys : crawl_jobs[k].status = "leased"
          => crawl_jobs'[k].lease_owner \in
                {crawl_jobs[k].lease_owner, NoOwner}]_vars

\* The stage of a job in the terms of JobService, and the attempts used up: claim counts
\* the attempt in progress ahead of time.
Stage(k) ==
    CASE crawl_jobs[k].status = "absent"                      -> "none"
      [] crawl_jobs[k].status \in CLAIMABLE_JOB_STATUSES      -> "waiting"
      [] crawl_jobs[k].status = "leased"                      -> "held"
      [] crawl_jobs[k].status = "succeeded"                   -> "done"
      [] crawl_jobs[k].status = "quarantined"
            /\ dead_letters[k].max_attempts > 0               -> "exhausted"
      [] OTHER                                                -> "discarded"
UsedUp(k) ==
    CASE crawl_jobs[k].status \in CLAIMABLE_JOB_STATUSES -> crawl_jobs[k].attempt
      [] crawl_jobs[k].status = "leased"                 -> crawl_jobs[k].attempt - 1
      [] OTHER                                           -> 0

Service == INSTANCE JobService WITH
    stage  <- [k \in Keys |-> Stage(k)],
    holder <- [k \in Keys |-> crawl_jobs[k].lease_owner],
    tries  <- [k \in Keys |-> UsedUp(k)]

\* The queue is a JobService: with concurrent claims over row locks, expiry, recovery and
\* late calls of owners that have lost their lease, each job is held by one owner at a
\* time, changes hands only through the queue, comes to one end, and is exhausted by
\* failures and lost leases alone (queue.claim, retry, release, recover_expired_leases).
ImplementsJobService == Service!Spec
=============================================================================
