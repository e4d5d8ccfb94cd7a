--------------------------- MODULE ArtifactUpload ---------------------------
(***************************************************************************)
(* Claimed uploads to the artifact store and the orphan sweeper, for one   *)
(* object key: the claim row and its generation (repositories/artifacts.py)*)
(* producers (storage/upload.py) and sweepers (storage/sweeper.py).  Keys  *)
(* are content-addressed: whoever writes the key writes the same bytes,    *)
(* and nothing that is done to one key depends on another.                 *)
(*                                                                         *)
(* A repository call is one transaction, with the caller's clock.  PUT,    *)
(* HEAD and DELETE are outside any transaction.                            *)
(***************************************************************************)
EXTENDS Integers, FiniteSets

CONSTANTS
    Producers,    \* upload() coroutines
    Sweepers,     \* sweep_orphans() runs
    Owner,        \* Owner[a]: the owner an actor claims with
    Offset,       \* Offset[a]: how far the clock of its host is ahead
    Skew,         \* largest offset of any host
    Lease,        \* lease_seconds of a producer
    SweepLease,   \* lease_seconds of a sweeper
    Grace,        \* grace of sweep_orphans
    max_attempts,
    MaxGen,       \* bound on the generation
    MaxTime       \* bound on the clock

Actors == Producers \cup Sweepers

ASSUME UploadAssumption ==
    /\ Producers \cap Sweepers = {}
    /\ Skew \in Nat /\ Offset \in [Actors -> 0..Skew]
    /\ Lease \in Nat \ {0} /\ SweepLease \in Nat \ {0} /\ Grace \in Nat
    /\ max_attempts \in Nat \ {0} /\ MaxGen \in Nat /\ MaxTime \in Nat

\* Coroutines of a process share an owner; a sweeper has one of its own.
ASSUME SweeperOwner ==
    \A s \in Sweepers, a \in Actors : Owner[a] = Owner[s] => a = s

VARIABLES
    now,
    claim,       \* the row of artifact_upload_claims
    object,      \* the object is in the store
    referenced,  \* raw_objects or normalized_artifacts has the key
    stray,       \* a PUT whose caller is gone may still arrive
    late,        \* late[s]: generations a DELETE of s was sent under that may
                 \* still arrive, although s has stopped waiting for it
    overtaken,   \* history: a DELETE arrived after its claim had passed to a
                 \* new generation, and nobody has PUT the object since
    up,          \* the upload() of each producer
    sweep        \* the sweep of each sweeper

uploadVars == <<now, claim, object, referenced, stray, late, overtaken, up, sweep>>

NoOwner == "None"
NoClaim == [status |-> "none", owner |-> NoOwner, generation |-> 0, expires |-> 0]
Claim == [status : {"none", "leased", "committed", "released", "expired"},
          owner : {Owner[a] : a \in Actors} \cup {NoOwner},
          generation : Nat, expires : Nat]

\* generation: the fencing token of the current attempt, 0 if there is none.
Upload == [st : {"idle", "acquire", "stale", "put", "head", "commit", "verify", "again"},
           generation : Nat, attempt : Nat]
NoUpload == [st |-> "idle", generation |-> 0, attempt |-> 0]

Sweep == [st : {"idle", "listed", "deleting", "release"}, generation : Nat]
NoSweep == [st |-> "idle", generation |-> 0]

UploadInit ==
    /\ now = 0
    /\ claim = NoClaim
    /\ object = FALSE /\ referenced = FALSE /\ stray = FALSE
    /\ late = [s \in Sweepers |-> {}] /\ overtaken = FALSE
    /\ up = [p \in Producers |-> NoUpload]
    /\ sweep = [s \in Sweepers |-> NoSweep]

Clock(a) == now + Offset[a]
-----------------------------------------------------------------------------
(* The claim                                                               *)

Alive(t) == claim.status = "leased" /\ claim.expires > t

\* acquire_upload_claim refuses (StaleClaimError).
Refused(a) ==
    \/ claim.status = "committed"
    \/ Alive(Clock(a)) /\ claim.owner # Owner[a]

\* Seeded fault: a claim that is taken over keeps its generation.
Acquired_keepsGeneration(a, lease) ==
    [status |-> "leased", owner |-> Owner[a],
     generation |-> IF claim.status = "none" THEN 1 ELSE claim.generation,
     expires |-> Clock(a) + lease]

\* acquire_upload_claim: a first claim and one taken over have a new
\* generation; the owner's own live claim is only extended.
Acquired(a, lease) ==
    [status |-> "leased", owner |-> Owner[a],
     generation |-> IF Alive(Clock(a)) THEN claim.generation ELSE claim.generation + 1,
     expires |-> Clock(a) + lease]

\* Owner and generation are still those of the caller.
Holds(a, generation) ==
    claim.owner = Owner[a] /\ claim.generation = generation

\* What expire_claims selects.
Stale(t) == claim.status = "leased" /\ claim.expires <= t

\* expire_claims, on a clock that reads t.
expire_claims(t) ==
    /\ Stale(t)
    /\ claim' = [claim EXCEPT !.status = "expired"]
    /\ UNCHANGED <<now, object, referenced, stray, late, overtaken, up, sweep>>

-----------------------------------------------------------------------------
(* ClaimedUploader.upload                                                  *)

begin(p) ==
    /\ up[p].st = "idle"
    /\ up' = [up EXCEPT ![p] = [st |-> "acquire", generation |-> 0, attempt |-> 1]]
    /\ UNCHANGED <<now, claim, object, referenced, stray, late, overtaken, sweep>>

\* _acquire.  If the answer is lost, the upload fails and the claim stays.
acquire(p, answered) ==
    /\ up[p].st = "acquire"
    /\ \/ /\ Refused(p)
          /\ up' = [up EXCEPT ![p].st = "stale"]
          /\ UNCHANGED claim
       \/ /\ ~Refused(p) /\ claim.generation < MaxGen
          /\ claim' = Acquired(p, Lease)
          /\ up' = [up EXCEPT ![p] =
                IF answered THEN [@ EXCEPT !.st = "put", !.generation = claim'.generation]
                            ELSE NoUpload]
    /\ UNCHANGED <<now, object, referenced, stray, late, overtaken, sweep>>

\* _committed_claim after a refusal: the object is there already, or the
\* key is busy and the upload is over (UploadBusyError).
committed_claim(p) ==
    /\ up[p].st = "stale"
    /\ up' = [up EXCEPT ![p] = IF claim.status = "committed"
                               THEN [@ EXCEPT !.st = "verify"] ELSE NoUpload]
    /\ UNCHANGED <<now, claim, object, referenced, stray, late, overtaken, sweep>>

\* PUT
put(p) ==
    /\ up[p].st = "put"
    /\ object' = TRUE /\ overtaken' = FALSE
    /\ up' = [up EXCEPT ![p].st = "head"]
    /\ UNCHANGED <<now, claim, referenced, stray, late, sweep>>

\* HEAD, after a PUT or for deduplication; without an object the upload
\* fails (ArtifactNotFoundError).
head(p) ==
    /\ up[p].st \in {"head", "verify"}
    /\ up' = [up EXCEPT ![p] =
          IF object
          THEN [@ EXCEPT !.st = IF up[p].st = "head" THEN "commit" ELSE "again"]
          ELSE NoUpload]
    /\ UNCHANGED <<now, claim, object, referenced, stray, late, overtaken, sweep>>

\* Seeded fault: the generation is not compared.
Committable_anyGeneration(p) ==
    /\ claim.owner = Owner[p]
    /\ claim.status = "leased" /\ claim.expires > Clock(p)

\* The predicate of commit_reference.
Committable(p) ==
    /\ Holds(p, up[p].generation)
    /\ claim.status = "leased" /\ claim.expires > Clock(p)

\* commit_reference and the caller's reference, in one transaction; a
\* repeated commit of the same generation only writes the reference.
commit_reference(p) ==
    /\ up[p].st = "commit"
    /\ Committable(p) \/ (claim.status = "committed" /\ Holds(p, up[p].generation))
    /\ claim' = [claim EXCEPT !.status = "committed"]
    /\ referenced' = TRUE
    /\ up' = [up EXCEPT ![p] = NoUpload]
    /\ UNCHANGED <<now, object, stray, late, overtaken, sweep>>

\* commit_reference raises StaleClaimError: start over, or give up
\* (UploadRetriesExhaustedError).
commit_stale(p) ==
    /\ up[p].st = "commit"
    /\ ~Committable(p) /\ ~(claim.status = "committed" /\ Holds(p, up[p].generation))
    /\ up' = [up EXCEPT ![p] =
          IF @.attempt < max_attempts
          THEN [st |-> "acquire", generation |-> 0, attempt |-> @.attempt + 1]
          ELSE NoUpload]
    /\ UNCHANGED <<now, claim, object, referenced, stray, late, overtaken, sweep>>

\* Deduplicated: only the reference is written.
reference_again(p) ==
    /\ up[p].st = "again"
    /\ referenced' = TRUE
    /\ up' = [up EXCEPT ![p] = NoUpload]
    /\ UNCHANGED <<now, claim, object, stray, late, overtaken, sweep>>

\* The upload fails, its transaction is rolled back, or its process dies; a
\* PUT on its way may still arrive.
fail(p) ==
    /\ up[p].st # "idle"
    /\ up' = [up EXCEPT ![p] = NoUpload]
    /\ stray' = (stray \/ up[p].st = "put")
    /\ UNCHANGED <<now, claim, object, referenced, late, overtaken, sweep>>

put_lands ==
    /\ stray
    /\ object' = TRUE /\ overtaken' = FALSE
    /\ stray' \in BOOLEAN
    /\ UNCHANGED <<now, claim, referenced, late, up, sweep>>

-----------------------------------------------------------------------------
(* sweep_orphans                                                           *)

\* list_orphan_candidates
Candidate(t) ==
    /\ claim.status \notin {"none", "committed"}
    /\ claim.expires <= t - Grace
    /\ ~referenced

list(s) ==
    /\ sweep[s].st = "idle"
    /\ Candidate(Clock(s))
    /\ sweep' = [sweep EXCEPT ![s].st = "listed"]
    /\ UNCHANGED <<now, claim, object, referenced, stray, late, overtaken, up>>

\* The candidate is claimed, or skipped; or the answer is lost and the sweep
\* is over.
sweep_acquire(s, answered) ==
    /\ sweep[s].st = "listed"
    /\ \/ /\ Refused(s)
          /\ sweep' = [sweep EXCEPT ![s] = NoSweep]
          /\ UNCHANGED claim
       \/ /\ ~Refused(s) /\ claim.generation < MaxGen
          /\ claim' = Acquired(s, SweepLease)
          /\ sweep' = [sweep EXCEPT ![s] =
                IF answered THEN [st |-> "deleting", generation |-> claim'.generation]
                            ELSE NoSweep]
    /\ UNCHANGED <<now, object, referenced, stray, late, overtaken, up>>

\* What a DELETE does that was sent under the generation g.
Arrives(g) ==
    /\ object' = FALSE
    /\ overtaken' = (overtaken \/ claim.generation # g)

\* store.delete returns or raises, and the claim is released in either case.
\* The DELETE has arrived or not; if the caller gave up on it, or its client
\* sent it again, one may arrive later.
delete(s, done, later) ==
    /\ sweep[s].st = "deleting"
    /\ \/ done /\ Arrives(sweep[s].generation)
       \/ ~done /\ UNCHANGED <<object, overtaken>>
    /\ late' = [late EXCEPT ![s] = IF later THEN @ \cup {sweep[s].generation} ELSE @]
    /\ sweep' = [sweep EXCEPT ![s].st = "release"]
    /\ UNCHANGED <<now, claim, referenced, stray, up>>

\* A DELETE that nobody waits for arrives, for the last time or not.
delete_lands(s, g) ==
    /\ g \in late[s]
    /\ Arrives(g)
    /\ late' \in {late, [late EXCEPT ![s] = @ \ {g}]}
    /\ UNCHANGED <<now, claim, referenced, stray, up, sweep>>

\* The predicate of release_claim.
Releasable(s) ==
    Holds(s, sweep[s].generation) /\ claim.status = "leased"

\* release_claim; it may fail, and the claim then runs out.
release_claim(s, committed) ==
    /\ sweep[s].st = "release"
    /\ claim' = IF committed /\ Releasable(s)
                THEN [claim EXCEPT !.status = "released"] ELSE claim
    /\ sweep' = [sweep EXCEPT ![s] = NoSweep]
    /\ UNCHANGED <<now, object, referenced, stray, late, overtaken, up>>

\* The sweeper's process dies; a DELETE on its way may still arrive.
sweep_kill(s) ==
    /\ sweep[s].st # "idle"
    /\ late' = IF sweep[s].st = "deleting"
               THEN [late EXCEPT ![s] = @ \cup {sweep[s].generation}] ELSE late
    /\ sweep' = [sweep EXCEPT ![s] = NoSweep]
    /\ UNCHANGED <<now, claim, object, referenced, stray, overtaken, up>>

-----------------------------------------------------------------------------
\* The clock advances, whatever is under way.
Tick ==
    /\ now < MaxTime
    /\ now' = now + 1
    /\ UNCHANGED <<claim, object, referenced, stray, late, overtaken, up, sweep>>

ProducerStep(p) ==
    \/ begin(p) \/ committed_claim(p) \/ put(p) \/ head(p)
    \/ commit_reference(p) \/ commit_stale(p) \/ reference_again(p) \/ fail(p)
    \/ \E answered \in BOOLEAN : acquire(p, answered)

SweeperStep(s) ==
    \/ list(s) \/ sweep_kill(s)
    \/ \E ok \in BOOLEAN : sweep_acquire(s, ok) \/ release_claim(s, ok)
    \/ \E done, later \in BOOLEAN : delete(s, done, later)
    \/ \E g \in late[s] : delete_lands(s, g)

UploadNext ==
    \/ Tick
    \/ put_lands
    \/ \E p \in Producers : ProducerStep(p)
    \/ \E s \in Sweepers : SweeperStep(s)
    \/ \E t \in 0..(now + Skew) : expire_claims(t)

UploadSpec == UploadInit /\ [][UploadNext]_uploadVars
-----------------------------------------------------------------------------
(* Properties                                                              *)

\* Shape of the state; the key is referenced exactly when its claim is
\* committed (committed_consistent, commit_reference).
UploadTypeOK ==
    /\ now \in Nat
    /\ claim \in Claim
    /\ object \in BOOLEAN /\ referenced \in BOOLEAN /\ stray \in BOOLEAN
    /\ late \in [Sweepers -> SUBSET Nat] /\ overtaken \in BOOLEAN
    /\ up \in [Producers -> Upload]
    /\ sweep \in [Sweepers -> Sweep]
    /\ referenced <=> claim.status = "committed"

\* R-38, R-41: a reference points at an object, with one exception: a DELETE
\* that arrived after its sweeper's claim had passed to a new generation.
\* Nothing else separates the two: not a claim that runs out between HEAD
\* and commit, not the DELETE of a sweeper that still has the claim or has
\* just released it, not a PUT or a DELETE of a process that is gone.
\* (sweep_orphans gives up its claim although its DELETE may be under way.)
ReferenceHasObject == referenced /\ ~object => overtaken

Generation(a) ==
    IF a \in Producers THEN up[a].generation ELSE sweep[a].generation

\* The generation is a fencing token: two owners never have the same one,
\* however often claims expire, are released and are taken over.
TokenUnique ==
    \A a, b \in Actors : Generation(a) = Generation(b) /\ Generation(a) # 0
        => Owner[a] = Owner[b]
=============================================================================
