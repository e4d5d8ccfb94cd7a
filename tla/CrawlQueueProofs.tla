-------------------------- MODULE CrawlQueueProofs --------------------------
(***************************************************************************)
(* What CrawlQueue guarantees for every number of jobs, workers and        *)
(* attempts, every lease length and every clock bound.                     *)
(*                                                                         *)
(* The five state properties are inductive together: each needs TypeOK,    *)
(* OneDeadLetter and AttemptAccounting need NoDoubleClaim (a claim that    *)
(* commits must find its rows claimable still), SpentBeforeDeadLetter      *)
(* needs AttemptAccounting, and that needs FreshKeys at enqueue.  The two  *)
(* action properties follow from it, and so does the refinement: each step *)
(* of the queue is one step of JobService or none (the lemmas named View). *)
(***************************************************************************)
EXTENDS CrawlQueue, TLAPS

\* A key that was never enqueued has no past.
FreshKeys == \A k \in Keys : crawl_jobs[k].status = "absent" => burned[k] = 0

\* The inductive invariant.
QueueInv ==
    /\ TypeOK
    /\ NoDoubleClaim
    /\ OneDeadLetter
    /\ AttemptAccounting
    /\ SpentBeforeDeadLetter
    /\ FreshKeys

-----------------------------------------------------------------------------
(* Rows                                                                    *)

\* Clearing the lease columns gives a row again and keeps the attempt.
LEMMA UnleasedRow ==
    ASSUME NEW r \in Row, NEW s \in JOB_STATUSES
    PROVE  /\ Unleased(r, s) \in Row
           /\ Unleased(r, s).status = s
           /\ Unleased(r, s).lease_owner = NoOwner
           /\ Unleased(r, s).attempt = r.attempt
BY DEF Unleased, Row

\* As UnleasedRow, when retry and release also move not_before.
LEMMA RequeuedRow ==
    ASSUME NEW r \in Row, NEW s \in JOB_STATUSES, NEW b \in Nat
    PROVE  /\ [Unleased(r, s) EXCEPT !.not_before = b] \in Row
           /\ [Unleased(r, s) EXCEPT !.not_before = b].status = s
           /\ [Unleased(r, s) EXCEPT !.not_before = b].lease_owner = NoOwner
           /\ [Unleased(r, s) EXCEPT !.not_before = b].attempt = r.attempt
<1>1. Unleased(r, s) \in Row
  BY UnleasedRow
<1>2. \A q \in Row : /\ [q EXCEPT !.not_before = b] \in Row
                     /\ [q EXCEPT !.not_before = b].status = q.status
                     /\ [q EXCEPT !.not_before = b].lease_owner = q.lease_owner
                     /\ [q EXCEPT !.not_before = b].attempt = q.attempt
  BY DEF Row
<1>3. QED  BY <1>1, <1>2, UnleasedRow

\* claim's UPDATE gives a row again and counts one attempt.
LEMMA LeasedRow ==
    ASSUME NEW r \in Row, NEW o \in Owners, NEW e \in Nat
    PROVE  /\ Leased(r, o, e) \in Row
           /\ Leased(r, o, e).status = "leased"
           /\ Leased(r, o, e).lease_owner = o
           /\ Leased(r, o, e).attempt = r.attempt + 1
<1>1. "leased" \in JOB_STATUSES
  BY DEF JOB_STATUSES
<1>2. r.attempt + 1 \in Nat
  BY DEF Row
<1>3. Leased(r, o, e).attempt = r.attempt + 1
  BY DEF Leased, Row
<1>4. Leased(r, o, e).status = "leased" /\ Leased(r, o, e).lease_owner = o
  BY DEF Leased, Row
<1>5. Leased(r, o, e) \in Row
  BY <1>1, <1>2 DEF Leased, Row
<1>6. QED  BY <1>3, <1>4, <1>5

\* One row is replaced by another row that keeps lease_consistent: the table
\* is well formed again.
LEMMA OneRowTypeOK ==
    ASSUME TypeOK, NEW k \in Keys, NEW r \in Row,
           crawl_jobs' = [crawl_jobs EXCEPT ![k] = r],
           r.status = "leased" <=> r.lease_owner # NoOwner,
           dead_letters' \in [Keys -> [max_attempts : Nat, quarantine : Nat]],
           burned' \in [Keys -> Nat],
           UNCHANGED <<claim_tx, now>>
    PROVE  TypeOK'
BY DEF TypeOK

-----------------------------------------------------------------------------
(* Each action keeps the invariant                                         *)

\* The empty table satisfies the invariant.
LEMMA InitQueueInv == Init => QueueInv
BY QueueAssumption
DEF Init, QueueInv, TypeOK, NoDoubleClaim, OneDeadLetter, AttemptAccounting,
    SpentBeforeDeadLetter, FreshKeys, Row, JOB_STATUSES, NoTx, NoOwner,
    CLAIMABLE_JOB_STATUSES, TERMINAL_JOB_STATUSES

\* enqueue only touches a key that has no row yet.
LEMMA EnqueueInv ==
    ASSUME QueueInv, NEW k \in Keys, NEW d \in Delays, enqueue(k, d)
    PROVE  QueueInv'
<1> USE QueueAssumption DEF QueueInv, CLAIMABLE_JOB_STATUSES
<1> DEFINE r == [crawl_jobs[k] EXCEPT !.status = "pending", !.attempt = 0,
                                      !.not_before = now + d]
<1>1. crawl_jobs' = [crawl_jobs EXCEPT ![k] = r]
  BY DEF enqueue, TypeOK, Row
<1>2. r.status = "pending" /\ r.attempt = 0 /\ r \in Row
  <2>1. "pending" \in JOB_STATUSES /\ now + d \in Nat /\ crawl_jobs[k] \in Row
    BY DEF TypeOK, JOB_STATUSES
  <2>2. QED  BY <2>1 DEF Row
<1>3. r.lease_owner = NoOwner
  <2>1. r.lease_owner = crawl_jobs[k].lease_owner
    BY DEF TypeOK, Row
  <2>2. QED  BY <2>1 DEF enqueue, TypeOK
<1> HIDE DEF r
<1>4. TypeOK'
  <2>1. /\ dead_letters' \in [Keys -> [max_attempts : Nat, quarantine : Nat]]
        /\ burned' \in [Keys -> Nat]
        /\ UNCHANGED <<claim_tx, now>>
    BY DEF enqueue, TypeOK
  <2>2. QED  BY <1>1, <1>2, <1>3, <2>1, OneRowTypeOK
<1>5. NoDoubleClaim'
  BY <1>1, <1>2 DEF enqueue, NoDoubleClaim, TypeOK
<1>6. OneDeadLetter'
  BY <1>1, <1>2 DEF enqueue, OneDeadLetter, TypeOK
<1>7. AttemptAccounting' /\ FreshKeys'
  BY <1>1, <1>2 DEF enqueue, AttemptAccounting, FreshKeys, TypeOK
<1>8. SpentBeforeDeadLetter'
  BY DEF enqueue, SpentBeforeDeadLetter
<1>9. QED  BY <1>4, <1>5, <1>6, <1>7, <1>8

\* A claim's statement takes claimable rows that no other claim has locked.
LEMMA ClaimSelectInv ==
    ASSUME QueueInv, NEW o \in Owners, claim_select(o)
    PROVE  QueueInv'
<1> USE QueueAssumption DEF QueueInv
<1>1. PICK S \in SUBSET Candidates(o) :
         claim_tx' = [claim_tx EXCEPT ![o] = [rows |-> S, at |-> now]]
  BY DEF claim_select
<1>2. /\ S \subseteq Keys
      /\ \A k \in S : /\ crawl_jobs[k].status \in CLAIMABLE_JOB_STATUSES
                       /\ \A p \in Owners : k \notin claim_tx[p].rows
  BY DEF Candidates, Claimable, Locked
<1>3. UNCHANGED <<crawl_jobs, dead_letters, now, burned>>
  BY DEF claim_select
<1>4. TypeOK'
  BY <1>1, <1>2, <1>3 DEF TypeOK
<1>5. NoDoubleClaim'
  BY <1>1, <1>2, <1>3 DEF NoDoubleClaim, TypeOK
<1>6. OneDeadLetter' /\ AttemptAccounting' /\ SpentBeforeDeadLetter' /\ FreshKeys'
  BY <1>3 DEF OneDeadLetter, AttemptAccounting, SpentBeforeDeadLetter, FreshKeys
<1>7. QED  BY <1>4, <1>5, <1>6

\* A claim's commit finds its rows as claimable as its statement left them.
LEMMA ClaimCommitInv ==
    ASSUME QueueInv, NEW o \in Owners, claim_commit(o)
    PROVE  QueueInv'
<1> USE QueueAssumption DEF QueueInv, CLAIMABLE_JOB_STATUSES
<1> DEFINE L == claim_tx[o].rows
           e == claim_tx[o].at + LeaseSeconds
<1>1. L \subseteq Keys /\ e \in Nat
  BY DEF TypeOK
<1>2. /\ crawl_jobs' = [k \in Keys |-> IF k \in L THEN Leased(crawl_jobs[k], o, e)
                                                 ELSE crawl_jobs[k]]
      /\ claim_tx' = [claim_tx EXCEPT ![o] = NoTx]
      /\ UNCHANGED <<dead_letters, now, burned>>
  BY DEF claim_commit
<1>3. \A k \in L : crawl_jobs[k].status \in {"pending", "retry"}
  BY DEF NoDoubleClaim
<1>4. \A k \in L : /\ crawl_jobs'[k] \in Row
                   /\ crawl_jobs'[k].status = "leased"
                   /\ crawl_jobs'[k].lease_owner = o
                   /\ crawl_jobs'[k].attempt = crawl_jobs[k].attempt + 1
  <2>1. \A k \in L : crawl_jobs[k] \in Row
    BY <1>1 DEF TypeOK
  <2>2. \A k \in L : crawl_jobs'[k] = Leased(crawl_jobs[k], o, e)
    BY <1>1, <1>2
  <2> HIDE DEF L, e
  <2>3. QED  BY <1>1, <2>1, <2>2, LeasedRow
<1>5. /\ \A k \in Keys \ L : crawl_jobs'[k] = crawl_jobs[k]
      /\ crawl_jobs' = [k \in Keys |-> crawl_jobs'[k]]
  BY <1>2
<1>6. TypeOK'
  <2>1. crawl_jobs' \in [Keys -> Row]
    BY <1>4, <1>5 DEF TypeOK
  <2>2. claim_tx' \in [Owners -> [rows : SUBSET Keys, at : Nat]]
    BY <1>2 DEF TypeOK, NoTx
  <2>3. QED  BY <1>2, <1>4, <1>5, <2>1, <2>2 DEF TypeOK
<1>7. NoDoubleClaim'
  <2>1. claim_tx'[o].rows = {} /\ \A p \in Owners \ {o} : claim_tx'[p] = claim_tx[p]
    BY <1>2 DEF TypeOK, NoTx
  <2>2. QED  BY <1>1, <1>5, <2>1 DEF NoDoubleClaim, TypeOK
<1>8. OneDeadLetter'
  BY <1>2, <1>3, <1>4, <1>5 DEF OneDeadLetter, TypeOK
<1>9. AttemptAccounting' /\ FreshKeys'
  BY <1>1, <1>2, <1>3, <1>4, <1>5 DEF AttemptAccounting, FreshKeys, TypeOK
<1>10. SpentBeforeDeadLetter'
  BY <1>2 DEF SpentBeforeDeadLetter
<1>11. QED  BY <1>6, <1>7, <1>8, <1>9, <1>10

\* A rolled back claim leaves no trace.
LEMMA ClaimRollbackInv ==
    ASSUME QueueInv, NEW o \in Owners, claim_rollback(o)
    PROVE  QueueInv'
BY QueueAssumption
DEF claim_rollback, NoTx, QueueInv, TypeOK, NoDoubleClaim, OneDeadLetter,
    AttemptAccounting, SpentBeforeDeadLetter, FreshKeys

\* A heartbeat moves lease_expires_at and nothing else.
LEMMA HeartbeatInv ==
    ASSUME QueueInv, NEW k \in Keys, NEW o \in Owners, heartbeat(k, o)
    PROVE  QueueInv'
<1> USE QueueAssumption DEF QueueInv
<1> DEFINE r == [crawl_jobs[k] EXCEPT !.lease_expires_at = now + LeaseSeconds]
<1>1. crawl_jobs' = [crawl_jobs EXCEPT ![k] = r]
  BY DEF heartbeat, TypeOK, Row
<1>2. /\ r \in Row
      /\ r.status = crawl_jobs[k].status
      /\ r.lease_owner = crawl_jobs[k].lease_owner
      /\ r.attempt = crawl_jobs[k].attempt
  <2>1. crawl_jobs[k] \in Row /\ now + LeaseSeconds \in Nat
    BY DEF TypeOK
  <2>2. QED  BY <2>1 DEF Row
<1> HIDE DEF r
<1>3. UNCHANGED <<dead_letters, claim_tx, now, burned>>
  BY DEF heartbeat
<1>4. TypeOK'
  <2>1. dead_letters' \in [Keys -> [max_attempts : Nat, quarantine : Nat]] /\ burned' \in [Keys -> Nat]
    BY <1>3 DEF TypeOK
  <2>2. r.status = "leased" <=> r.lease_owner # NoOwner
    BY <1>2 DEF TypeOK
  <2>3. QED  BY <1>1, <1>2, <1>3, <2>1, <2>2, OneRowTypeOK
<1>5. NoDoubleClaim' /\ OneDeadLetter'
  BY <1>1, <1>2, <1>3 DEF NoDoubleClaim, OneDeadLetter, TypeOK
<1>6. AttemptAccounting' /\ SpentBeforeDeadLetter' /\ FreshKeys'
  BY <1>1, <1>2, <1>3 DEF AttemptAccounting, SpentBeforeDeadLetter, FreshKeys, TypeOK
<1>7. QED  BY <1>4, <1>5, <1>6

\* A completed job keeps its attempt and gets no dead letter.
LEMMA CompleteInv ==
    ASSUME QueueInv, NEW k \in Keys, NEW o \in Owners, complete(k, o)
    PROVE  QueueInv'
<1> USE QueueAssumption DEF QueueInv, CLAIMABLE_JOB_STATUSES
<1> DEFINE r == Unleased(crawl_jobs[k], "succeeded")
<1>1. crawl_jobs' = [crawl_jobs EXCEPT ![k] = r]
  BY DEF complete
<1>2. r \in Row /\ r.status = "succeeded" /\ r.lease_owner = NoOwner
  BY UnleasedRow DEF TypeOK, JOB_STATUSES, TERMINAL_JOB_STATUSES
<1> HIDE DEF r
<1>3. UNCHANGED <<dead_letters, claim_tx, now, burned>>
  BY DEF complete
<1>4. crawl_jobs[k].status = "leased"
  BY DEF complete, owned
<1>5. TypeOK'
  <2>1. dead_letters' \in [Keys -> [max_attempts : Nat, quarantine : Nat]] /\ burned' \in [Keys -> Nat]
    BY <1>3 DEF TypeOK
  <2>2. QED  BY <1>1, <1>2, <1>3, <2>1, OneRowTypeOK
<1>6. NoDoubleClaim' /\ OneDeadLetter'
  BY <1>1, <1>2, <1>3, <1>4 DEF NoDoubleClaim, OneDeadLetter, TypeOK
<1>7. AttemptAccounting' /\ SpentBeforeDeadLetter' /\ FreshKeys'
  BY <1>1, <1>2, <1>3 DEF AttemptAccounting, SpentBeforeDeadLetter, FreshKeys, TypeOK
<1>8. QED  BY <1>5, <1>6, <1>7

\* The dead letter of a job that was not quarantined before is its first;
\* one of reason max_attempts needs the attempts to be spent (after burned
\* counted the failed one).
LEMMA QuarantineLockedInv ==
    ASSUME QueueInv, NEW k \in Keys, NEW reason \in {"max_attempts", "quarantine"},
           quarantine_locked(k, reason),
           crawl_jobs[k].status \notin TERMINAL_JOB_STATUSES \cup {"absent"},
           \A o \in Owners : k \notin claim_tx[o].rows,
           burned' \in [Keys -> Nat],
           \A j \in Keys \ {k} : burned'[j] = burned[j],
           burned'[k] >= burned[k],
           reason = "max_attempts" => burned'[k] >= MaxAttempts[k],
           UNCHANGED <<claim_tx, now>>
    PROVE  QueueInv'
<1> USE QueueAssumption DEF QueueInv, CLAIMABLE_JOB_STATUSES, TERMINAL_JOB_STATUSES
<1> DEFINE r == Unleased(crawl_jobs[k], "quarantined")
<1>1. crawl_jobs' = [crawl_jobs EXCEPT ![k] = r]
  BY DEF quarantine_locked
<1>2. r \in Row /\ r.status = "quarantined" /\ r.lease_owner = NoOwner
  BY UnleasedRow DEF TypeOK, JOB_STATUSES
<1> HIDE DEF r
<1>3. dead_letters' \in [Keys -> [max_attempts : Nat, quarantine : Nat]]
  BY DEF quarantine_locked, TypeOK
<1>4. dead_letters[k].max_attempts = 0 /\ dead_letters[k].quarantine = 0
  BY DEF OneDeadLetter, TypeOK
<1>5. /\ dead_letters'[k].max_attempts + dead_letters'[k].quarantine = 1
      /\ reason # "max_attempts" => dead_letters'[k].max_attempts = 0
      /\ \A j \in Keys \ {k} : dead_letters'[j] = dead_letters[j]
  BY <1>4 DEF quarantine_locked, TypeOK
<1>6. TypeOK'
  BY <1>1, <1>2, <1>3, OneRowTypeOK
<1>7. NoDoubleClaim'
  BY <1>1 DEF NoDoubleClaim, TypeOK
<1>8. OneDeadLetter'
  BY <1>1, <1>2, <1>5 DEF OneDeadLetter, TypeOK
<1>9. AttemptAccounting' /\ FreshKeys'
  BY <1>1, <1>2 DEF AttemptAccounting, FreshKeys, TypeOK
<1>10. SpentBeforeDeadLetter'
  BY <1>4, <1>5 DEF SpentBeforeDeadLetter, TypeOK
<1>11. QED  BY <1>6, <1>7, <1>8, <1>9, <1>10

\* A row leased to somebody is in nobody's open claim.
LEMMA LeasedNotLocked ==
    ASSUME QueueInv, NEW k \in Keys, crawl_jobs[k].status = "leased"
    PROVE  \A o \in Owners : k \notin claim_tx[o].rows
BY DEF QueueInv, NoDoubleClaim, CLAIMABLE_JOB_STATUSES

\* quarantine by the lease holder
LEMMA QuarantineInv ==
    ASSUME QueueInv, NEW k \in Keys, NEW o \in Owners, quarantine(k, o)
    PROVE  QueueInv'
<1>1. /\ crawl_jobs[k].status \notin TERMINAL_JOB_STATUSES \cup {"absent"}
      /\ \A p \in Owners : k \notin claim_tx[p].rows
  BY LeasedNotLocked DEF quarantine, owned, TERMINAL_JOB_STATUSES
<1>2. /\ burned' \in [Keys -> Nat]
      /\ \A j \in Keys : burned'[j] = burned[j] /\ burned'[j] >= burned[j]
  BY DEF quarantine, QueueInv, TypeOK
<1>3. quarantine_locked(k, "quarantine") /\ UNCHANGED <<claim_tx, now>>
  BY DEF quarantine
<1>4. QED  BY <1>1, <1>2, <1>3, QuarantineLockedInv

\* quarantine by the operator
LEMMA OperatorInv ==
    ASSUME QueueInv, NEW k \in Keys, quarantine_operator(k)
    PROVE  QueueInv'
<1>1. /\ crawl_jobs[k].status \notin TERMINAL_JOB_STATUSES \cup {"absent"}
      /\ \A p \in Owners : k \notin claim_tx[p].rows
  BY DEF quarantine_operator, lock_any, Locked
<1>2. /\ burned' \in [Keys -> Nat]
      /\ \A j \in Keys : burned'[j] = burned[j] /\ burned'[j] >= burned[j]
  BY DEF quarantine_operator, QueueInv, TypeOK
<1>3. quarantine_locked(k, "quarantine") /\ UNCHANGED <<claim_tx, now>>
  BY DEF quarantine_operator
<1>4. QED  BY <1>1, <1>2, <1>3, QuarantineLockedInv

\* retry burns the attempt of the lease; at the limit it is a quarantine.
LEMMA RetryInv ==
    ASSUME QueueInv, NEW k \in Keys, NEW o \in Owners, NEW d \in Delays,
           retry(k, o, d)
    PROVE  QueueInv'
<1> USE QueueAssumption DEF QueueInv
<1>1. /\ crawl_jobs[k].status = "leased"
      /\ burned' = [burned EXCEPT ![k] = @ + 1]
      /\ UNCHANGED <<claim_tx, now>>
  BY DEF retry, owned
<1>2. /\ burned' \in [Keys -> Nat]
      /\ \A j \in Keys \ {k} : burned'[j] = burned[j]
      /\ burned'[k] = burned[k] + 1
      /\ burned'[k] = crawl_jobs[k].attempt
      /\ burned'[k] >= burned[k]
  BY <1>1 DEF TypeOK, AttemptAccounting
<1>3. CASE crawl_jobs[k].attempt >= MaxAttempts[k]
  <2>0. ~(crawl_jobs[k].attempt < MaxAttempts[k])
    BY <1>3 DEF TypeOK, Row
  <2>1. quarantine_locked(k, "max_attempts")
    BY <2>0 DEF retry
  <2>2. /\ crawl_jobs[k].status \notin TERMINAL_JOB_STATUSES \cup {"absent"}
        /\ \A p \in Owners : k \notin claim_tx[p].rows
    BY <1>1, LeasedNotLocked DEF TERMINAL_JOB_STATUSES
  <2>3. burned'[k] >= MaxAttempts[k]
    BY <1>2, <1>3
  <2> HIDE DEF QueueInv
  <2>4. QED  BY <1>1, <1>2, <2>1, <2>2, <2>3, QuarantineLockedInv
<1>4. CASE crawl_jobs[k].attempt < MaxAttempts[k]
  <2> DEFINE r == [Unleased(crawl_jobs[k], "retry") EXCEPT !.not_before = now + d]
  <2>0. ~(crawl_jobs[k].attempt >= MaxAttempts[k])
    BY <1>4 DEF TypeOK, Row
  <2>1. crawl_jobs' = [crawl_jobs EXCEPT ![k] = r] /\ UNCHANGED dead_letters
    BY <2>0 DEF retry
  <2>2. crawl_jobs[k] \in Row /\ now + d \in Nat /\ "retry" \in JOB_STATUSES
    BY DEF TypeOK, JOB_STATUSES, CLAIMABLE_JOB_STATUSES
  <2>3. /\ r \in Row
        /\ r.status = "retry"
        /\ r.lease_owner = NoOwner
        /\ r.attempt = crawl_jobs[k].attempt
    BY <2>2, RequeuedRow
  <2> HIDE DEF r
  <2>4. dead_letters' \in [Keys -> [max_attempts : Nat, quarantine : Nat]]
    BY <2>1 DEF TypeOK
  <2>5. TypeOK'
    BY <1>1, <1>2, <2>1, <2>3, <2>4, OneRowTypeOK
  <2>6. NoDoubleClaim' /\ OneDeadLetter'
    BY <1>1, <2>1, <2>3
    DEF NoDoubleClaim, OneDeadLetter, TypeOK, CLAIMABLE_JOB_STATUSES
  <2>7. AttemptAccounting' /\ FreshKeys'
    BY <1>1, <1>2, <2>1, <2>3 DEF AttemptAccounting, FreshKeys, TypeOK
  <2>8. SpentBeforeDeadLetter'
    BY <1>1, <1>2, <2>1 DEF SpentBeforeDeadLetter, TypeOK
  <2>9. QED  BY <2>5, <2>6, <2>7, <2>8
<1>5. QED
  <2>1. crawl_jobs[k].attempt \in Nat /\ MaxAttempts[k] \in Nat
    BY DEF TypeOK, Row
  <2>2. QED  BY <1>3, <1>4, <2>1

\* release gives back the attempt of the lease: AttemptAccounting makes it
\* at least 1, so GREATEST does not clip.
LEMMA ReleaseInv ==
    ASSUME QueueInv, NEW k \in Keys, NEW o \in Owners, NEW d \in Delays,
           release(k, o, d)
    PROVE  QueueInv'
<1> USE QueueAssumption DEF QueueInv
<1> DEFINE q == Unleased(crawl_jobs[k], "pending")
           r == [q EXCEPT !.not_before = now + d,
                          !.attempt = Greatest(crawl_jobs[k].attempt - 1, 0)]
<1>1. crawl_jobs' = [crawl_jobs EXCEPT ![k] = r]
  BY DEF release
<1>2. /\ crawl_jobs[k].status = "leased"
      /\ UNCHANGED <<dead_letters, claim_tx, now, burned>>
  BY DEF release, owned
<1>3. q \in Row /\ q.status = "pending" /\ q.lease_owner = NoOwner
      /\ q.attempt = crawl_jobs[k].attempt
  BY UnleasedRow DEF TypeOK, JOB_STATUSES, CLAIMABLE_JOB_STATUSES
<1> HIDE DEF q
<1>4. /\ Greatest(crawl_jobs[k].attempt - 1, 0) = burned[k]
      /\ burned[k] \in Nat
      /\ now + d \in Nat
  BY <1>2 DEF AttemptAccounting, TypeOK, Greatest
<1>5. r = [q EXCEPT !.not_before = now + d, !.attempt = burned[k]]
  BY <1>4
<1>6. /\ r \in Row
      /\ r.status = "pending"
      /\ r.lease_owner = NoOwner
      /\ r.attempt = burned[k]
  BY <1>3, <1>4, <1>5 DEF Row
<1> HIDE DEF r
<1>7. TypeOK'
  <2>1. dead_letters' \in [Keys -> [max_attempts : Nat, quarantine : Nat]] /\ burned' \in [Keys -> Nat]
    BY <1>2 DEF TypeOK
  <2>2. QED  BY <1>1, <1>2, <1>6, <2>1, OneRowTypeOK
<1>8. NoDoubleClaim' /\ OneDeadLetter'
  BY <1>1, <1>2, <1>6
  DEF NoDoubleClaim, OneDeadLetter, TypeOK, CLAIMABLE_JOB_STATUSES
<1>9. AttemptAccounting' /\ SpentBeforeDeadLetter' /\ FreshKeys'
  BY <1>1, <1>2, <1>6 DEF AttemptAccounting, SpentBeforeDeadLetter, FreshKeys, TypeOK
<1>10. QED  BY <1>7, <1>8, <1>9

\* Recovery takes leased rows only, and burns the attempt of each.
LEMMA RecoverInv ==
    ASSUME QueueInv, recover_expired_leases
    PROVE  QueueInv'
<1> USE QueueAssumption DEF QueueInv, CLAIMABLE_JOB_STATUSES
<1>1. PICK S \in SUBSET Expired :
         /\ crawl_jobs' = [k \in Keys |->
               IF k \in S THEN Unleased(crawl_jobs[k], "pending")
                          ELSE crawl_jobs[k]]
         /\ burned' = [k \in Keys |-> IF k \in S THEN burned[k] + 1
                                                ELSE burned[k]]
         /\ UNCHANGED <<dead_letters, claim_tx, now>>
  BY DEF recover_expired_leases
<1>2. S \subseteq Keys /\ \A k \in S : crawl_jobs[k].status = "leased"
  BY DEF Expired
<1>3. \A k \in S : /\ crawl_jobs'[k] \in Row
                   /\ crawl_jobs'[k].status = "pending"
                   /\ crawl_jobs'[k].lease_owner = NoOwner
                   /\ crawl_jobs'[k].attempt = crawl_jobs[k].attempt
  <2>1. \A k \in S : crawl_jobs[k] \in Row
    BY <1>2 DEF TypeOK
  <2>2. \A k \in S : crawl_jobs'[k] = Unleased(crawl_jobs[k], "pending")
    BY <1>1, <1>2
  <2>3. "pending" \in JOB_STATUSES
    BY DEF JOB_STATUSES
  <2>4. QED  BY <2>1, <2>2, <2>3, UnleasedRow
<1>4. /\ \A k \in Keys \ S : crawl_jobs'[k] = crawl_jobs[k]
      /\ crawl_jobs' = [k \in Keys |-> crawl_jobs'[k]]
  BY <1>1
<1>5. TypeOK'
  <2>1. crawl_jobs' \in [Keys -> Row]
    BY <1>3, <1>4 DEF TypeOK
  <2>2. burned' \in [Keys -> Nat]
    BY <1>1 DEF TypeOK
  <2>3. QED  BY <1>1, <1>3, <1>4, <2>1, <2>2 DEF TypeOK
<1>6. NoDoubleClaim'
  BY <1>1, <1>2, <1>4 DEF NoDoubleClaim, TypeOK
<1>7. OneDeadLetter'
  BY <1>1, <1>2, <1>3, <1>4 DEF OneDeadLetter, TypeOK
<1>8. AttemptAccounting' /\ FreshKeys'
  BY <1>1, <1>2, <1>3, <1>4 DEF AttemptAccounting, FreshKeys, TypeOK
<1>9. SpentBeforeDeadLetter'
  <2>1. \A k \in Keys : burned'[k] \in Nat /\ burned[k] \in Nat /\ burned'[k] >= burned[k]
    BY <1>1 DEF TypeOK
  <2>2. QED  BY <1>1, <2>1 DEF SpentBeforeDeadLetter
<1>10. QED  BY <1>5, <1>6, <1>7, <1>8, <1>9

\* The clock changes no row.
LEMMA TickInv ==
    ASSUME QueueInv, Tick \/ UNCHANGED vars
    PROVE  QueueInv'
<1>1. UNCHANGED <<crawl_jobs, dead_letters, claim_tx, burned>>
  BY DEF Tick, vars
<1>2. now' \in Nat
  BY DEF Tick, vars, QueueInv, TypeOK
<1>3. TypeOK'
  BY <1>1, <1>2 DEF QueueInv, TypeOK
<1>4. NoDoubleClaim' /\ OneDeadLetter' /\ AttemptAccounting'
  BY <1>1 DEF QueueInv, NoDoubleClaim, OneDeadLetter, AttemptAccounting
<1>5. SpentBeforeDeadLetter' /\ FreshKeys'
  BY <1>1 DEF QueueInv, SpentBeforeDeadLetter, FreshKeys
<1>6. QED  BY <1>3, <1>4, <1>5 DEF QueueInv

-----------------------------------------------------------------------------
(* The theorems                                                            *)

\* The invariant holds in every reachable state.
THEOREM QueueInvariance == Spec => []QueueInv
<1>1. QueueInv /\ [Next]_vars => QueueInv'
  <2>1. SUFFICES ASSUME QueueInv, [Next]_vars
                 PROVE  QueueInv'
    OBVIOUS
  <2>2. CASE Tick \/ UNCHANGED vars
    BY <2>1, <2>2, TickInv
  <2>3. CASE recover_expired_leases
    BY <2>1, <2>3, RecoverInv
  <2>4. ASSUME NEW k \in Keys, NEW d \in Delays, enqueue(k, d)
        PROVE  QueueInv'
    BY <2>1, <2>4, EnqueueInv
  <2>5. ASSUME NEW k \in Keys, quarantine_operator(k)
        PROVE  QueueInv'
    BY <2>1, <2>5, OperatorInv
  <2>6. ASSUME NEW o \in Owners,
               claim_select(o) \/ claim_commit(o) \/ claim_rollback(o)
        PROVE  QueueInv'
    BY <2>1, <2>6, ClaimSelectInv, ClaimCommitInv, ClaimRollbackInv
  <2>7. ASSUME NEW k \in Keys, NEW o \in Owners,
               heartbeat(k, o) \/ complete(k, o) \/ quarantine(k, o)
        PROVE  QueueInv'
    BY <2>1, <2>7, HeartbeatInv, CompleteInv, QuarantineInv
  <2>8. ASSUME NEW k \in Keys, NEW o \in Owners, NEW d \in Delays,
               retry(k, o, d) \/ release(k, o, d)
        PROVE  QueueInv'
    BY <2>1, <2>8, RetryInv, ReleaseInv
  <2>9. QED
    BY <2>1, <2>2, <2>3, <2>4, <2>5, <2>6, <2>7, <2>8 DEF Next
<1>2. QED  BY InitQueueInv, <1>1, PTL DEF Spec

\* The table is well formed and keeps the lease_consistent CHECK.
THEOREM TypeCorrect == Spec => []TypeOK
BY QueueInvariance, PTL DEF QueueInv

\* FOR UPDATE SKIP LOCKED: no job is claimed twice at once.
THEOREM ClaimExclusion == Spec => []NoDoubleClaim
BY QueueInvariance, PTL DEF QueueInv

\* One dead letter per quarantined job, whoever quarantined it.
THEOREM DeadLetterUnique == Spec => []OneDeadLetter
BY QueueInvariance, PTL DEF QueueInv

\* attempt counts failures and lost leases, however many defers and drains
\* come between.
THEOREM AttemptsExact == Spec => []AttemptAccounting
BY QueueInvariance, PTL DEF QueueInv

\* No job runs into its attempt limit before it used its attempts up.
THEOREM NoEarlyDeadLetter == Spec => []SpentBeforeDeadLetter
BY QueueInvariance, PTL DEF QueueInv

-----------------------------------------------------------------------------
(* Action properties                                                       *)

\* What every step respects in the row of j.
RowStep(j) ==
    /\ crawl_jobs[j].status \in TERMINAL_JOB_STATUSES
          => crawl_jobs'[j] = crawl_jobs[j]
    /\ crawl_jobs[j].status = "leased"
          => crawl_jobs'[j].lease_owner \in {crawl_jobs[j].lease_owner, NoOwner}

\* A step that replaces the row of k alone respects every row, if k is not
\* terminal and its new row has no lease.
LEMMA OneRowStep ==
    ASSUME TypeOK, NEW k \in Keys, NEW r, NEW j \in Keys,
           crawl_jobs' = [crawl_jobs EXCEPT ![k] = r],
           crawl_jobs[k].status \notin TERMINAL_JOB_STATUSES,
           r.lease_owner \in {crawl_jobs[k].lease_owner, NoOwner}
    PROVE  RowStep(j)
BY DEF RowStep, TypeOK

\* Every step respects every row.
LEMMA NextRowStep ==
    ASSUME QueueInv, [Next]_vars, NEW j \in Keys
    PROVE  RowStep(j)
<1> USE QueueAssumption
<1>1. \A k \in Keys : crawl_jobs[k] \in Row
  BY DEF QueueInv, TypeOK
<1>2. ASSUME NEW s \in JOB_STATUSES, NEW k \in Keys, NEW b \in Nat
      PROVE  /\ Unleased(crawl_jobs[k], s).lease_owner = NoOwner
             /\ [Unleased(crawl_jobs[k], s) EXCEPT !.not_before = b].lease_owner
                   = NoOwner
  BY <1>1, <1>2, UnleasedRow, RequeuedRow
<1>3. /\ "pending" \in JOB_STATUSES /\ "retry" \in JOB_STATUSES
      /\ "succeeded" \in JOB_STATUSES /\ "quarantined" \in JOB_STATUSES
      /\ "leased" \notin TERMINAL_JOB_STATUSES
  BY DEF JOB_STATUSES, CLAIMABLE_JOB_STATUSES, TERMINAL_JOB_STATUSES
<1>4. ASSUME NEW k \in Keys, NEW d \in Delays, enqueue(k, d)
      PROVE  RowStep(j)
  <2> DEFINE r == [crawl_jobs[k] EXCEPT !.status = "pending", !.attempt = 0,
                                        !.not_before = now + d]
  <2>1. crawl_jobs' = [crawl_jobs EXCEPT ![k] = r]
    BY <1>1, <1>4 DEF enqueue, QueueInv, TypeOK, Row
  <2>2. r.lease_owner = crawl_jobs[k].lease_owner
    BY <1>1 DEF Row
  <2>3. crawl_jobs[k].status \notin TERMINAL_JOB_STATUSES
    BY <1>4 DEF enqueue, TERMINAL_JOB_STATUSES
  <2> HIDE DEF r
  <2>4. QED  BY <2>1, <2>2, <2>3, OneRowStep DEF QueueInv
<1>5. ASSUME NEW o \in Owners, claim_commit(o)
      PROVE  RowStep(j)
  <2>1. j \in claim_tx[o].rows \/ crawl_jobs'[j] = crawl_jobs[j]
    BY <1>5 DEF claim_commit
  <2>2. j \in claim_tx[o].rows => crawl_jobs[j].status \in CLAIMABLE_JOB_STATUSES
    BY DEF QueueInv, NoDoubleClaim
  <2>3. QED
    BY <2>1, <2>2 DEF RowStep, CLAIMABLE_JOB_STATUSES, TERMINAL_JOB_STATUSES
<1>6. ASSUME NEW k \in Keys, NEW o \in Owners, heartbeat(k, o)
      PROVE  RowStep(j)
  <2> DEFINE r == [crawl_jobs[k] EXCEPT !.lease_expires_at = now + LeaseSeconds]
  <2>1. crawl_jobs' = [crawl_jobs EXCEPT ![k] = r]
    BY <1>1, <1>6 DEF heartbeat, QueueInv, TypeOK, Row
  <2>2. r.lease_owner = crawl_jobs[k].lease_owner
    BY <1>1 DEF Row
  <2>3. crawl_jobs[k].status \notin TERMINAL_JOB_STATUSES
    BY <1>3, <1>6 DEF heartbeat, owned
  <2> HIDE DEF r
  <2>4. QED  BY <2>1, <2>2, <2>3, OneRowStep DEF QueueInv
<1>7. ASSUME NEW k \in Keys, NEW o \in Owners, complete(k, o)
      PROVE  RowStep(j)
  <2>1. crawl_jobs[k].status \notin TERMINAL_JOB_STATUSES
    BY <1>3, <1>7 DEF complete, owned
  <2>2. crawl_jobs' = [crawl_jobs EXCEPT ![k] = Unleased(crawl_jobs[k], "succeeded")]
    BY <1>7 DEF complete
  <2>3. QED  BY <1>2, <1>3, <2>1, <2>2, OneRowStep DEF QueueInv
<1>8. ASSUME NEW k \in Keys, NEW reason, quarantine_locked(k, reason),
             crawl_jobs[k].status \notin TERMINAL_JOB_STATUSES
      PROVE  RowStep(j)
  <2>1. crawl_jobs' = [crawl_jobs EXCEPT ![k] = Unleased(crawl_jobs[k], "quarantined")]
    BY <1>8 DEF quarantine_locked
  <2>2. QED  BY <1>2, <1>3, <1>8, <2>1, OneRowStep DEF QueueInv
<1>9. ASSUME NEW k \in Keys, NEW o \in Owners, NEW d \in Delays, retry(k, o, d)
      PROVE  RowStep(j)
  <2>1. crawl_jobs[k].status \notin TERMINAL_JOB_STATUSES
    BY <1>3, <1>9 DEF retry, owned
  <2>2. CASE quarantine_locked(k, "max_attempts")
    BY <1>8, <2>1, <2>2
  <2>3. CASE crawl_jobs' = [crawl_jobs EXCEPT
                ![k] = [Unleased(crawl_jobs[k], "retry") EXCEPT !.not_before = now + d]]
    <3>1. now + d \in Nat
      BY DEF QueueInv, TypeOK
    <3>2. QED  BY <1>2, <1>3, <2>1, <2>3, <3>1, OneRowStep DEF QueueInv
  <2>4. QED  BY <1>9, <2>2, <2>3 DEF retry
<1>10. ASSUME NEW k \in Keys, NEW o \in Owners, NEW d \in Delays, release(k, o, d)
       PROVE  RowStep(j)
  <2> DEFINE q == Unleased(crawl_jobs[k], "pending")
             r == [q EXCEPT !.not_before = now + d,
                            !.attempt = Greatest(crawl_jobs[k].attempt - 1, 0)]
  <2>1. crawl_jobs' = [crawl_jobs EXCEPT ![k] = r]
    BY <1>10 DEF release
  <2>2. q \in Row /\ q.lease_owner = NoOwner
    BY <1>1, <1>3, UnleasedRow
  <2>3. r.lease_owner = NoOwner
    <3> HIDE DEF q
    <3> QED  BY <2>2 DEF Row
  <2>4. crawl_jobs[k].status \notin TERMINAL_JOB_STATUSES
    BY <1>3, <1>10 DEF release, owned
  <2> HIDE DEF r
  <2>5. QED  BY <2>1, <2>3, <2>4, OneRowStep DEF QueueInv
<1>11. CASE recover_expired_leases
  <2>1. \/ crawl_jobs'[j] = crawl_jobs[j]
        \/ /\ crawl_jobs[j].status = "leased"
           /\ crawl_jobs'[j] = Unleased(crawl_jobs[j], "pending")
    BY <1>11 DEF recover_expired_leases, Expired
  <2>2. Unleased(crawl_jobs[j], "pending").lease_owner = NoOwner
    BY <1>1, <1>3, UnleasedRow
  <2>3. QED  BY <1>3, <2>1, <2>2 DEF RowStep
<1>12. ASSUME UNCHANGED crawl_jobs
       PROVE  RowStep(j)
  BY <1>12 DEF RowStep
<1>13. QED
  <2>1. ASSUME NEW k \in Keys, quarantine_operator(k)
        PROVE  RowStep(j)
    BY <1>8, <2>1 DEF quarantine_operator, lock_any
  <2>2. ASSUME NEW k \in Keys, NEW o \in Owners, quarantine(k, o)
        PROVE  RowStep(j)
    BY <1>3, <1>8, <2>2 DEF quarantine, owned
  <2>3. ASSUME NEW o \in Owners, claim_select(o) \/ claim_rollback(o)
        PROVE  RowStep(j)
    BY <1>12, <2>3 DEF claim_select, claim_rollback
  <2>4. CASE Tick \/ UNCHANGED vars
    BY <1>12, <2>4 DEF Tick, vars
  <2>5. QED
    BY <1>4, <1>5, <1>6, <1>7, <1>9, <1>10, <1>11, <2>1, <2>2, <2>3, <2>4 DEF Next

\* Finished jobs stay finished, whatever arrives late.
THEOREM FinishedStaysFinished == Spec => TerminalForever
<1>1. QueueInv /\ [Next]_vars =>
         [\A k \in Keys : crawl_jobs[k].status \in TERMINAL_JOB_STATUSES
                              => crawl_jobs'[k] = crawl_jobs[k]]_vars
  BY NextRowStep DEF RowStep
<1>2. QED  BY <1>1, QueueInvariance, PTL DEF Spec, TerminalForever

\* A lease changes hands only through the queue.
THEOREM LeaseThroughQueue == Spec => NoLeaseHandover
<1>1. QueueInv /\ [Next]_vars =>
         [\A k \in Keys : crawl_jobs[k].status = "leased"
             => crawl_jobs'[k].lease_owner \in
                   {crawl_jobs[k].lease_owner, NoOwner}]_vars
  BY NextRowStep DEF RowStep
<1>2. QED  BY <1>1, QueueInvariance, PTL DEF Spec, NoLeaseHandover

-----------------------------------------------------------------------------
(* Refinement: the queue implements JobService                             *)

\* A step that leaves the row and the dead letters of j alone leaves its stage, its holder
\* and its used up attempts alone.
LEMMA SameView ==
    ASSUME NEW j \in Keys, crawl_jobs'[j] = crawl_jobs[j],
           dead_letters'[j] = dead_letters[j]
    PROVE  Stage(j)' = Stage(j) /\ UsedUp(j)' = UsedUp(j)
BY DEF Stage, UsedUp

\* What the stage of a job says of its row, and how many attempts it has used up.
LEMMA View ==
    ASSUME NEW j \in Keys
    PROVE  /\ crawl_jobs[j].status = "absent" => Stage(j) = "none"
           /\ crawl_jobs[j].status \in {"pending", "retry"}
                 => Stage(j) = "waiting" /\ UsedUp(j) = crawl_jobs[j].attempt
           /\ crawl_jobs[j].status = "leased"
                 => Stage(j) = "held" /\ UsedUp(j) = crawl_jobs[j].attempt - 1
           /\ crawl_jobs[j].status \in {"absent", "succeeded", "quarantined"}
                 => UsedUp(j) = 0
BY DEF Stage, UsedUp, CLAIMABLE_JOB_STATUSES

\* The same after a step, with the two ways a quarantined job is seen.
LEMMA NextView ==
    ASSUME NEW j \in Keys
    PROVE  /\ crawl_jobs'[j].status \in {"pending", "retry"}
                 => Stage(j)' = "waiting" /\ UsedUp(j)' = crawl_jobs'[j].attempt
           /\ crawl_jobs'[j].status = "leased"
                 => Stage(j)' = "held" /\ UsedUp(j)' = crawl_jobs'[j].attempt - 1
           /\ crawl_jobs'[j].status = "succeeded"
                 => Stage(j)' = "done" /\ UsedUp(j)' = 0
           /\ crawl_jobs'[j].status = "quarantined"
                 => /\ UsedUp(j)' = 0
                    /\ Stage(j)' = IF dead_letters'[j].max_attempts > 0
                                   THEN "exhausted" ELSE "discarded"
BY DEF Stage, UsedUp, CLAIMABLE_JOB_STATUSES

\* A step that gives key k a row without a lease, and touches no other key, is a job that
\* leaves its holder.
LEMMA LeavesView ==
    ASSUME TypeOK, NEW k \in Keys, NEW r, NEW s, NEW n,
           crawl_jobs' = [crawl_jobs EXCEPT ![k] = r],
           r.lease_owner = NoOwner,
           \A j \in Keys \ {k} : dead_letters'[j] = dead_letters[j],
           Stage(k)' = s, UsedUp(k)' = n
    PROVE  Service!Leaves(k, s, n)
<1>1. \A j \in Keys \ {k} : crawl_jobs'[j] = crawl_jobs[j]
  BY DEF TypeOK
<1>2. \A j \in Keys \ {k} : Stage(j)' = Stage(j) /\ UsedUp(j)' = UsedUp(j)
  BY <1>1, SameView
<1>3. crawl_jobs'[k] = r
  BY DEF TypeOK
<1>4. [j \in Keys |-> Stage(j)]' = [[j \in Keys |-> Stage(j)] EXCEPT ![k] = s]
  BY <1>2
<1>5. [j \in Keys |-> UsedUp(j)]' = [[j \in Keys |-> UsedUp(j)] EXCEPT ![k] = n]
  BY <1>2
<1>6. [j \in Keys |-> crawl_jobs[j].lease_owner]'
         = [[j \in Keys |-> crawl_jobs[j].lease_owner] EXCEPT ![k] = NoOwner]
  <2>1. \A j \in Keys : crawl_jobs'[j].lease_owner
                            = IF j = k THEN NoOwner ELSE crawl_jobs[j].lease_owner
    BY <1>1, <1>3
  <2>2. [j \in Keys |-> crawl_jobs[j].lease_owner]' = [j \in Keys |-> crawl_jobs'[j].lease_owner]
    OBVIOUS
  <2>3. QED  BY <2>1, <2>2
<1>7. QED  BY <1>4, <1>5, <1>6 DEF Service!Leaves

\* A step that touches no row and no dead letter is none of the service's.
LEMMA StutterView ==
    ASSUME UNCHANGED <<crawl_jobs, dead_letters>>
    PROVE  UNCHANGED Service!sv
BY DEF Service!sv, Stage, UsedUp

\* The empty table is a service without jobs.
LEMMA InitView == Init => Service!Init
BY DEF Init, Service!Init, Stage, UsedUp, CLAIMABLE_JOB_STATUSES

\* enqueue submits the job.
LEMMA EnqueueView ==
    ASSUME QueueInv, NEW k \in Keys, NEW d \in Delays, enqueue(k, d)
    PROVE  Service!Submit(k)
<1> USE DEF QueueInv
<1> DEFINE r == [crawl_jobs[k] EXCEPT !.status = "pending", !.attempt = 0,
                                      !.not_before = now + d]
<1>1. crawl_jobs' = [crawl_jobs EXCEPT ![k] = r] /\ UNCHANGED dead_letters
  BY DEF enqueue, TypeOK, Row
<1>2. /\ r.status = "pending" /\ r.attempt = 0
      /\ r.lease_owner = crawl_jobs[k].lease_owner
  BY DEF TypeOK, Row
<1> HIDE DEF r
<1>3. /\ crawl_jobs'[k] = r
      /\ \A j \in Keys \ {k} : crawl_jobs'[j] = crawl_jobs[j]
  BY <1>1 DEF TypeOK
<1>4. Stage(k) = "none" /\ UsedUp(k) = 0
  BY View DEF enqueue
<1>5. Stage(k)' = "waiting" /\ UsedUp(k)' = 0
  BY <1>2, <1>3, NextView
<1>6. \A j \in Keys \ {k} : Stage(j)' = Stage(j) /\ UsedUp(j)' = UsedUp(j)
  BY <1>1, <1>3, SameView
<1>7. [j \in Keys |-> Stage(j)]' = [[j \in Keys |-> Stage(j)] EXCEPT ![k] = "waiting"]
  BY <1>5, <1>6
<1>8. UNCHANGED [j \in Keys |-> UsedUp(j)]
  BY <1>4, <1>5, <1>6
<1>9. UNCHANGED [j \in Keys |-> crawl_jobs[j].lease_owner]
  BY <1>2, <1>3
<1>10. QED  BY <1>4, <1>7, <1>8, <1>9 DEF Service!Submit

\* The commit of a claim hands its rows out: they all still wait.
LEMMA ClaimCommitView ==
    ASSUME QueueInv, NEW o \in Owners, claim_commit(o)
    PROVE  Service!Take(o, claim_tx[o].rows)
<1> USE QueueAssumption DEF QueueInv
<1> DEFINE L == claim_tx[o].rows
           e == claim_tx[o].at + LeaseSeconds
<1>1. L \subseteq Keys /\ e \in Nat
  BY DEF TypeOK
<1>2. /\ crawl_jobs' = [k \in Keys |-> IF k \in L THEN Leased(crawl_jobs[k], o, e)
                                                 ELSE crawl_jobs[k]]
      /\ UNCHANGED dead_letters
  BY DEF claim_commit
<1>3. \A k \in L : crawl_jobs[k].status \in {"pending", "retry"}
  BY DEF NoDoubleClaim, CLAIMABLE_JOB_STATUSES
<1>4. \A k \in L : /\ crawl_jobs'[k].status = "leased"
                   /\ crawl_jobs'[k].lease_owner = o
                   /\ crawl_jobs'[k].attempt = crawl_jobs[k].attempt + 1
                   /\ crawl_jobs[k].attempt \in Nat
  <2>1. \A k \in L : crawl_jobs[k] \in Row
    BY <1>1 DEF TypeOK
  <2>2. \A k \in L : crawl_jobs'[k] = Leased(crawl_jobs[k], o, e)
    BY <1>1, <1>2
  <2>3. \A k \in L : crawl_jobs[k].attempt \in Nat
    BY <2>1 DEF Row
  <2> HIDE DEF L, e
  <2>4. QED  BY <1>1, <2>1, <2>2, <2>3, LeasedRow
<1>5. \A k \in Keys \ L : crawl_jobs'[k] = crawl_jobs[k]
  BY <1>2
<1> HIDE DEF L, e
<1>6. \A k \in L : Stage(k) = "waiting" /\ UsedUp(k) = crawl_jobs[k].attempt
  BY <1>1, <1>3, View
<1>7. \A k \in L : Stage(k)' = "held" /\ UsedUp(k)' = UsedUp(k)
  BY <1>1, <1>4, <1>6, NextView
<1>8. \A k \in Keys \ L : Stage(k)' = Stage(k) /\ UsedUp(k)' = UsedUp(k)
  BY <1>2, <1>5, SameView
<1>9. [k \in Keys |-> Stage(k)]'
         = [k \in Keys |-> IF k \in L THEN "held" ELSE [j \in Keys |-> Stage(j)][k]]
  BY <1>7, <1>8
<1>10. [k \in Keys |-> crawl_jobs[k].lease_owner]'
          = [k \in Keys |-> IF k \in L THEN o
                            ELSE [j \in Keys |-> crawl_jobs[j].lease_owner][k]]
  BY <1>4, <1>5
<1>11. UNCHANGED [k \in Keys |-> UsedUp(k)]
  BY <1>7, <1>8
<1>12. \A k \in L : [j \in Keys |-> Stage(j)][k] = "waiting"
  BY <1>1, <1>6
<1>13. QED  BY <1>9, <1>10, <1>11, <1>12 DEF Service!Take, L

\* complete by the lease holder completes the job.
LEMMA CompleteView ==
    ASSUME QueueInv, NEW k \in Keys, NEW o \in Owners, complete(k, o)
    PROVE  Service!Complete(k, o)
<1> USE DEF QueueInv
<1> DEFINE r == Unleased(crawl_jobs[k], "succeeded")
<1>1. crawl_jobs' = [crawl_jobs EXCEPT ![k] = r] /\ UNCHANGED dead_letters
  BY DEF complete
<1>2. r.status = "succeeded" /\ r.lease_owner = NoOwner
  BY UnleasedRow DEF TypeOK, JOB_STATUSES, TERMINAL_JOB_STATUSES
<1> HIDE DEF r
<1>3. crawl_jobs'[k] = r
  BY <1>1 DEF TypeOK
<1>4. Stage(k)' = "done" /\ UsedUp(k)' = 0
  BY <1>2, <1>3, NextView
<1>5. Service!Leaves(k, "done", 0)
  BY <1>1, <1>2, <1>4, LeavesView
<1>6. Stage(k) = "held" /\ crawl_jobs[k].lease_owner = o
  BY View DEF complete, owned
<1>7. QED  BY <1>5, <1>6 DEF Service!Complete

\* A quarantined job leaves its holder: it is exhausted or discarded as the reason of its
\* only dead letter says.
LEMMA QuarantineLockedView ==
    ASSUME QueueInv, NEW k \in Keys, NEW reason \in {"max_attempts", "quarantine"},
           quarantine_locked(k, reason),
           crawl_jobs[k].status \notin TERMINAL_JOB_STATUSES
    PROVE  Service!Leaves(k, IF reason = "max_attempts" THEN "exhausted" ELSE "discarded", 0)
<1> USE DEF QueueInv
<1> DEFINE r == Unleased(crawl_jobs[k], "quarantined")
<1>1. crawl_jobs' = [crawl_jobs EXCEPT ![k] = r]
  BY DEF quarantine_locked
<1>2. r.status = "quarantined" /\ r.lease_owner = NoOwner
  BY UnleasedRow DEF TypeOK, JOB_STATUSES, TERMINAL_JOB_STATUSES
<1> HIDE DEF r
<1>3. crawl_jobs'[k] = r
  BY <1>1 DEF TypeOK
<1>4. dead_letters[k].max_attempts = 0
  BY DEF OneDeadLetter, TypeOK, TERMINAL_JOB_STATUSES
<1>5. /\ dead_letters'[k].max_attempts > 0 <=> reason = "max_attempts"
      /\ \A j \in Keys \ {k} : dead_letters'[j] = dead_letters[j]
  BY <1>4 DEF quarantine_locked, TypeOK
<1>6. /\ UsedUp(k)' = 0
      /\ Stage(k)' = IF reason = "max_attempts" THEN "exhausted" ELSE "discarded"
  BY <1>2, <1>3, <1>5, NextView
<1>7. QED  BY <1>1, <1>2, <1>5, <1>6, LeavesView

\* quarantine by the lease holder or by the operator discards an unfinished job.
LEMMA QuarantineView ==
    ASSUME QueueInv, NEW k \in Keys,
           quarantine_operator(k) \/ \E o \in Owners : quarantine(k, o)
    PROVE  Service!Discard(k)
<1>1. /\ crawl_jobs[k].status \notin TERMINAL_JOB_STATUSES \cup {"absent"}
      /\ quarantine_locked(k, "quarantine")
  BY DEF quarantine_operator, quarantine, lock_any, owned, TERMINAL_JOB_STATUSES
<1>2. Service!Leaves(k, "discarded", 0)
  BY <1>1, QuarantineLockedView
<1>3. crawl_jobs[k].status \in {"pending", "retry", "leased"}
  BY <1>1 DEF QueueInv, TypeOK, Row, JOB_STATUSES, CLAIMABLE_JOB_STATUSES,
              TERMINAL_JOB_STATUSES
<1>4. Stage(k) \in {"waiting", "held"}
  BY <1>3, View
<1>5. QED  BY <1>2, <1>4 DEF Service!Discard

\* retry fails the job: claim counted the attempt ahead of time, so that the comparison
\* attempt >= max_attempts is tries + 1 >= MaxAttempts of the service.
LEMMA RetryView ==
    ASSUME QueueInv, NEW k \in Keys, NEW o \in Owners, NEW d \in Delays,
           retry(k, o, d)
    PROVE  Service!Fail(k, o)
<1> USE QueueAssumption DEF QueueInv
<1>1. crawl_jobs[k].status = "leased" /\ crawl_jobs[k].lease_owner = o
  BY DEF retry, owned
<1>2. Stage(k) = "held" /\ UsedUp(k) = crawl_jobs[k].attempt - 1
  BY <1>1, View
<1>3. crawl_jobs[k] \in Row /\ crawl_jobs[k].attempt \in Nat /\ MaxAttempts[k] \in Nat
  BY DEF TypeOK, Row
<1>4. CASE crawl_jobs[k].attempt >= MaxAttempts[k]
  <2>1. quarantine_locked(k, "max_attempts")
    BY <1>3, <1>4 DEF retry
  <2>2. Service!Leaves(k, "exhausted", 0)
    BY <1>1, <2>1, QuarantineLockedView DEF TERMINAL_JOB_STATUSES
  <2>3. ~(UsedUp(k) + 1 < MaxAttempts[k])
    BY <1>2, <1>3, <1>4
  <2>4. QED  BY <1>1, <1>2, <2>2, <2>3 DEF Service!Fail
<1>5. CASE crawl_jobs[k].attempt < MaxAttempts[k]
  <2> DEFINE r == [Unleased(crawl_jobs[k], "retry") EXCEPT !.not_before = now + d]
  <2>1. crawl_jobs' = [crawl_jobs EXCEPT ![k] = r] /\ UNCHANGED dead_letters
    BY <1>3, <1>5 DEF retry
  <2>2. now + d \in Nat /\ "retry" \in JOB_STATUSES
    BY DEF TypeOK, JOB_STATUSES, CLAIMABLE_JOB_STATUSES
  <2>3. /\ r \in Row
        /\ r.status = "retry"
        /\ r.lease_owner = NoOwner
        /\ r.attempt = crawl_jobs[k].attempt
    BY <1>3, <2>2, RequeuedRow
  <2> HIDE DEF r
  <2>4. crawl_jobs'[k] = r
    BY <2>1 DEF TypeOK
  <2>5. Stage(k)' = "waiting" /\ UsedUp(k)' = UsedUp(k) + 1
    BY <1>2, <1>3, <2>3, <2>4, NextView
  <2>6. PICK n : n = [j \in Keys |-> UsedUp(j)][k] + 1
    OBVIOUS
  <2>7. Service!Leaves(k, "waiting", n)
    BY <2>1, <2>3, <2>5, <2>6, LeavesView
  <2>8. UsedUp(k) + 1 < MaxAttempts[k]
    BY <1>2, <1>3, <1>5
  <2>9. QED  BY <1>1, <1>2, <2>6, <2>7, <2>8 DEF Service!Fail, Service!Leaves
<1>6. QED  BY <1>3, <1>4, <1>5

\* release gives the job back without cost.
LEMMA ReleaseView ==
    ASSUME QueueInv, NEW k \in Keys, NEW o \in Owners, NEW d \in Delays,
           release(k, o, d)
    PROVE  Service!GiveBack(k, o)
<1> USE QueueAssumption DEF QueueInv
<1> DEFINE q == Unleased(crawl_jobs[k], "pending")
           r == [q EXCEPT !.not_before = now + d,
                          !.attempt = Greatest(crawl_jobs[k].attempt - 1, 0)]
<1>1. crawl_jobs' = [crawl_jobs EXCEPT ![k] = r] /\ UNCHANGED dead_letters
  BY DEF release
<1>2. crawl_jobs[k].status = "leased" /\ crawl_jobs[k].lease_owner = o
  BY DEF release, owned
<1>3. q \in Row /\ q.status = "pending" /\ q.lease_owner = NoOwner
  BY UnleasedRow DEF TypeOK, JOB_STATUSES, CLAIMABLE_JOB_STATUSES
<1> HIDE DEF q
<1>4. Greatest(crawl_jobs[k].attempt - 1, 0) = crawl_jobs[k].attempt - 1
  BY <1>2 DEF AttemptAccounting, TypeOK, Greatest
<1>5. /\ r.status = "pending" /\ r.lease_owner = NoOwner
      /\ r.attempt = crawl_jobs[k].attempt - 1
  BY <1>3, <1>4 DEF Row
<1> HIDE DEF r
<1>6. crawl_jobs'[k] = r
  BY <1>1 DEF TypeOK
<1>7. Stage(k) = "held" /\ UsedUp(k) = crawl_jobs[k].attempt - 1
  BY <1>2, View
<1>8. Stage(k)' = "waiting" /\ UsedUp(k)' = UsedUp(k)
  BY <1>5, <1>6, <1>7, NextView
<1>9. PICK n : n = [j \in Keys |-> UsedUp(j)][k]
  OBVIOUS
<1>10. Service!Leaves(k, "waiting", n)
  BY <1>1, <1>5, <1>8, <1>9, LeavesView
<1>11. QED  BY <1>2, <1>7, <1>9, <1>10 DEF Service!GiveBack, Service!Leaves

\* recover_expired_leases loses the holders of the rows it recovers.
LEMMA RecoverView ==
    ASSUME QueueInv, recover_expired_leases
    PROVE  \E S \in SUBSET Keys : Service!Lose(S)
<1> USE DEF QueueInv
<1>1. PICK S \in SUBSET Expired :
         /\ crawl_jobs' = [k \in Keys |->
               IF k \in S THEN Unleased(crawl_jobs[k], "pending")
                          ELSE crawl_jobs[k]]
         /\ UNCHANGED dead_letters
  BY DEF recover_expired_leases
<1>2. S \subseteq Keys /\ \A k \in S : crawl_jobs[k].status = "leased"
  BY DEF Expired
<1>3. \A k \in S : /\ crawl_jobs'[k].status = "pending"
                   /\ crawl_jobs'[k].lease_owner = NoOwner
                   /\ crawl_jobs'[k].attempt = crawl_jobs[k].attempt
                   /\ crawl_jobs[k].attempt \in Nat
  <2>1. \A k \in S : crawl_jobs[k] \in Row
    BY <1>2 DEF TypeOK
  <2>2. \A k \in S : crawl_jobs'[k] = Unleased(crawl_jobs[k], "pending")
    BY <1>1, <1>2
  <2>3. "pending" \in JOB_STATUSES
    BY DEF JOB_STATUSES, CLAIMABLE_JOB_STATUSES
  <2>4. \A k \in S : crawl_jobs[k].attempt \in Nat
    BY <2>1 DEF Row
  <2>5. QED  BY <2>1, <2>2, <2>3, <2>4, UnleasedRow
<1>4. \A k \in Keys \ S : crawl_jobs'[k] = crawl_jobs[k]
  BY <1>1
<1>5. \A k \in S : Stage(k) = "held" /\ UsedUp(k) = crawl_jobs[k].attempt - 1
  BY <1>2, View
<1>6. \A k \in S : Stage(k)' = "waiting" /\ UsedUp(k)' = UsedUp(k) + 1
  BY <1>2, <1>3, <1>5, NextView
<1>7. \A k \in Keys \ S : Stage(k)' = Stage(k) /\ UsedUp(k)' = UsedUp(k)
  BY <1>1, <1>4, SameView
<1>8. [k \in Keys |-> Stage(k)]'
         = [k \in Keys |-> IF k \in S THEN "waiting" ELSE [j \in Keys |-> Stage(j)][k]]
  BY <1>6, <1>7
<1>9. [k \in Keys |-> crawl_jobs[k].lease_owner]'
         = [k \in Keys |-> IF k \in S THEN NoOwner
                           ELSE [j \in Keys |-> crawl_jobs[j].lease_owner][k]]
  BY <1>3, <1>4
<1>10. [k \in Keys |-> UsedUp(k)]'
          = [k \in Keys |-> IF k \in S THEN [j \in Keys |-> UsedUp(j)][k] + 1
                            ELSE [j \in Keys |-> UsedUp(j)][k]]
  BY <1>6, <1>7
<1>11. \A k \in S : [j \in Keys |-> Stage(j)][k] = "held"
  BY <1>2, <1>5
<1>12. Service!Lose(S)
  BY <1>8, <1>9, <1>10, <1>11 DEF Service!Lose
<1>13. QED  BY <1>2, <1>12

\* A heartbeat is nothing to the service.
LEMMA HeartbeatView ==
    ASSUME QueueInv, NEW k \in Keys, NEW o \in Owners, heartbeat(k, o)
    PROVE  UNCHANGED Service!sv
<1> USE QueueAssumption DEF QueueInv
<1> DEFINE r == [crawl_jobs[k] EXCEPT !.lease_expires_at = now + LeaseSeconds]
<1>1. crawl_jobs' = [crawl_jobs EXCEPT ![k] = r] /\ UNCHANGED dead_letters
  BY DEF heartbeat, TypeOK, Row
<1>2. /\ r.status = crawl_jobs[k].status
      /\ r.lease_owner = crawl_jobs[k].lease_owner
      /\ r.attempt = crawl_jobs[k].attempt
  BY DEF TypeOK, Row
<1> HIDE DEF r
<1>3. \A j \in Keys : /\ crawl_jobs'[j].status = crawl_jobs[j].status
                      /\ crawl_jobs'[j].lease_owner = crawl_jobs[j].lease_owner
                      /\ crawl_jobs'[j].attempt = crawl_jobs[j].attempt
  BY <1>1, <1>2 DEF TypeOK
<1>4. \A j \in Keys : Stage(j)' = Stage(j) /\ UsedUp(j)' = UsedUp(j)
  BY <1>1, <1>3 DEF Stage, UsedUp
<1>5. QED  BY <1>3, <1>4 DEF Service!sv

\* The queue is a JobService, for every number of jobs and workers: each step of it is one
\* step of the service or none.
THEOREM QueueServes == Spec => ImplementsJobService
<1>1. QueueInv /\ [Next]_vars => [Service!Next]_(Service!sv)
  <2>1. SUFFICES ASSUME QueueInv, [Next]_vars
                 PROVE  Service!Next \/ UNCHANGED Service!sv
    OBVIOUS
  <2>2. CASE Tick \/ UNCHANGED vars
    BY <2>2, StutterView DEF Tick, vars
  <2>3. CASE recover_expired_leases
    BY <2>1, <2>3, RecoverView DEF Service!Next
  <2>4. ASSUME NEW k \in Keys, NEW d \in Delays, enqueue(k, d)
        PROVE  Service!Next
    BY <2>1, <2>4, EnqueueView DEF Service!Next
  <2>5. ASSUME NEW k \in Keys, quarantine_operator(k) \/ \E o \in Owners : quarantine(k, o)
        PROVE  Service!Next
    BY <2>1, <2>5, QuarantineView DEF Service!Next
  <2>6. ASSUME NEW o \in Owners, claim_commit(o)
        PROVE  Service!Next
    <3>1. claim_tx[o].rows \in SUBSET Keys
      BY <2>1 DEF QueueInv, TypeOK
    <3>2. \E S \in SUBSET Keys : Service!Take(o, S)
      BY <2>1, <2>6, <3>1, ClaimCommitView DEF Service!Take
    <3>3. QED  BY <3>2 DEF Service!Next
  <2>7. ASSUME NEW o \in Owners, claim_select(o) \/ claim_rollback(o)
        PROVE  UNCHANGED Service!sv
    BY <2>7, StutterView DEF claim_select, claim_rollback
  <2>8. ASSUME NEW k \in Keys, NEW o \in Owners, complete(k, o)
        PROVE  Service!Next
    BY <2>1, <2>8, CompleteView DEF Service!Next
  <2>9. ASSUME NEW k \in Keys, NEW o \in Owners, NEW d \in Delays,
               retry(k, o, d) \/ release(k, o, d)
        PROVE  Service!Next
    BY <2>1, <2>9, RetryView, ReleaseView DEF Service!Next
  <2>10. ASSUME NEW k \in Keys, NEW o \in Owners, heartbeat(k, o)
         PROVE  UNCHANGED Service!sv
    BY <2>1, <2>10, HeartbeatView
  <2>11. QED
    BY <2>1, <2>2, <2>3, <2>4, <2>5, <2>6, <2>7, <2>8, <2>9, <2>10 DEF Next
<1>2. QED
  BY <1>1, InitView, QueueInvariance, PTL DEF Spec, ImplementsJobService, Service!Spec
=============================================================================
