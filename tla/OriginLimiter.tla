---------------------------- MODULE OriginLimiter ---------------------------
(***************************************************************************)
(* The origin limiter (repositories/limiter.py) and the fetches that live  *)
(* under its permits (fetch/client.py, fetch/permits.py): token buckets    *)
(* with a concurrency limit, leased permits, blocks after a 429, and HTTP  *)
(* requests that must not outlive their permit.                            *)
(*                                                                         *)
(* Every repository function is one transaction that locks the bucket row. *)
(* acquire_permit and block_origin are two steps: they use a clock reading *)
(* taken before they wait for that lock, on the caller's host, whose clock *)
(* is Offset[f] ahead of the reference.                                    *)
(* Tokens are counted in units of TOKEN_QUANTUM.                           *)
(***************************************************************************)
EXTENDS Integers, FiniteSets

CONSTANTS
    Origins,
    Fetchers,  \* fetch() coroutines, of one process or of several
    Permits,   \* permit ids; an id may be used again once it is released
    Policies,  \* what ensure_bucket may be called with
    One,       \* quanta in one token
    Offset,    \* Offset[f]: how far the clock of f's host is ahead
    S,         \* largest offset of any host
    Lease,     \* lease_seconds of a permit
    Totals,    \* values of total_timeout, of the config or of the request
    Margin,    \* PERMIT_EXPIRY_MARGIN_SECONDS
    E,         \* longest time a request stays open past its deadline
    RetryAfters,   \* Retry-After of a 429
    MaxRedirects,
    MaxTime    \* bound on the clock

None == "None"

ASSUME LimiterAssumption ==
    /\ None \notin Permits /\ None \notin Origins
    /\ IsFiniteSet(Permits)
    /\ Policies \subseteq [capacity : Nat, num : Nat, den : Nat \ {0},
                           max_concurrency : Nat]
    /\ One \in Nat \ {0}
    /\ S \in Nat /\ Offset \in [Fetchers -> 0..S]
    /\ Lease \in Nat /\ Totals \subseteq Nat /\ Margin \in Nat /\ E \in Nat
    /\ RetryAfters \subseteq Nat
    /\ MaxRedirects \in Nat /\ MaxTime \in Nat

\* What the margin has to cover: clocks that disagree and a late cancel.
ASSUME PermitMargin == S + E < Margin

VARIABLES
    now,       \* 0 also stands for a time that is NULL
    bucket,    \* origin_rate_buckets
    permit,    \* origin_rate_permits
    fetch,     \* the fetch() of each coroutine
    peak       \* history: largest max_concurrency an origin ever had

vars == <<now, bucket, permit, fetch, peak>>

-----------------------------------------------------------------------------
Bucket == [exists : BOOLEAN, capacity : Nat, num : Nat, den : Nat \ {0},
           max_concurrency : Nat, tokens : Nat, last_refill_at : Nat,
           blocked_until : Nat]
NoBucket == [exists |-> FALSE, capacity |-> 0, num |-> 0, den |-> 1,
             max_concurrency |-> 0, tokens |-> 0, last_refill_at |-> 0,
             blocked_until |-> 0]

\* The rows with released_at IS NULL; nothing reads the others.
Permit == [origin : Origins \cup {None}, expires : Nat]
NoPermit == [origin |-> None, expires |-> 0]

\* asking: waits for acquire_permit; open: has a request open; blocking: has
\* it open and waits for block_origin; answered: has it open, to be closed;
\* release: in fetch()'s finally block.  clock: the reading last taken.
FetchStates == {"idle", "hop", "asking", "open", "blocking", "answered", "release"}
Open == {"open", "blocking", "answered"}
Fetch == [st : FetchStates, deadline : Nat, hops : Nat,
          origin : Origins \cup {None}, clock : Nat,
          held : [Origins -> Permits \cup {None}]]
NoFetch == [st |-> "idle", deadline |-> 0, hops |-> 0, origin |-> None,
            clock |-> 0, held |-> [o \in Origins |-> None]]
Over(r) == [NoFetch EXCEPT !.st = "release", !.held = r.held]

Init ==
    /\ now = 0
    /\ bucket = [o \in Origins |-> NoBucket]
    /\ permit = [p \in Permits |-> NoPermit]
    /\ fetch = [f \in Fetchers |-> NoFetch]
    /\ peak = [o \in Origins |-> 0]

Greatest(a, b) == IF a > b THEN a ELSE b
Least(a, b) == IF a < b THEN a ELSE b

Held(f) == {fetch[f].held[o] : o \in Origins} \ {None}

\* What counts against max_concurrency for a caller whose clock reads t.
Live(o, t) == {p \in Permits : permit[p].origin = o /\ permit[p].expires > t}

-----------------------------------------------------------------------------
(* Buckets                                                                 *)

\* ensure_bucket: a new bucket is full; an existing one keeps its tokens,
\* clipped to the new capacity, its refill time and its block.
ensure_bucket(o, pol, t) ==
    /\ bucket' = [bucket EXCEPT ![o] =
          IF @.exists
          THEN [@ EXCEPT !.capacity = pol.capacity, !.num = pol.num,
                         !.den = pol.den,
                         !.max_concurrency = pol.max_concurrency,
                         !.tokens = Least(bucket[o].tokens, pol.capacity)]
          ELSE [exists |-> TRUE, capacity |-> pol.capacity, num |-> pol.num,
                den |-> pol.den, max_concurrency |-> pol.max_concurrency,
                tokens |-> pol.capacity, last_refill_at |-> t,
                blocked_until |-> 0]]
    /\ peak' = [peak EXCEPT ![o] = Greatest(@, pol.max_concurrency)]
    /\ UNCHANGED <<now, permit, fetch>>

\* _refilled_tokens, rounded down to the quantum.
refilled_tokens(b, t) ==
    Least(b.tokens + (Greatest(t - b.last_refill_at, 0) * b.num) \div b.den,
          b.capacity)

\* Seeded fault: the last block wins.
Blocked_last(b, until) ==
    [b EXCEPT !.blocked_until = until, !.tokens = 0, !.last_refill_at = until]

\* block_origin: only a later end counts; no tokens, and refill starts at
\* the end of the block.
Blocked(b, until) ==
    IF b.blocked_until = 0 \/ b.blocked_until < until
    THEN [b EXCEPT !.blocked_until = until, !.tokens = 0, !.last_refill_at = until]
    ELSE b

-----------------------------------------------------------------------------
(* The fetch                                                               *)

\* fetch() starts.
begin(f, total) ==
    /\ fetch[f].st = "idle"
    /\ fetch' = [fetch EXCEPT ![f].st = "hop", ![f].deadline = now + total]
    /\ UNCHANGED <<now, bucket, permit, peak>>

\* acquire_permit reads the clock and waits for the bucket's row lock.
acquire(f, o) ==
    /\ fetch[f].st = "hop" /\ fetch[f].held[o] = None
    /\ fetch' = [fetch EXCEPT ![f].st = "asking", ![f].origin = o,
                              ![f].clock = now + Offset[f]]
    /\ UNCHANGED <<now, bucket, permit, peak>>

\* acquire_permit finds no bucket, or finds it blocked, without tokens or
\* without a free slot (refill is written in the last two cases); the fetch
\* is over.
acquire_denied(f) ==
    LET o == fetch[f].origin
        t == fetch[f].clock
        b == bucket[o]
        filled == refilled_tokens(b, t)
    IN  /\ fetch[f].st = "asking"
        /\ \/ /\ ~b.exists \/ b.blocked_until > t
              /\ UNCHANGED bucket
           \/ /\ b.exists /\ b.blocked_until <= t
              /\ filled < One \/ Cardinality(Live(o, t)) >= b.max_concurrency
              /\ bucket' = [bucket EXCEPT ![o].tokens = filled,
                                          ![o].last_refill_at = t]
        /\ fetch' = [fetch EXCEPT ![f] = Over(@)]
        /\ UNCHANGED <<now, permit, peak>>

Grantable(o, t) ==
    /\ bucket[o].exists
    /\ bucket[o].blocked_until <= t
    /\ refilled_tokens(bucket[o], t) >= One
    /\ Cardinality(Live(o, t)) < bucket[o].max_concurrency

\* acquire_permit grants p.  If the answer is lost, the fetch fails and does
\* not know that it has a permit.
acquire_granted(f, p, answered) ==
    LET o == fetch[f].origin
        t == fetch[f].clock
    IN  /\ fetch[f].st = "asking"
        /\ Grantable(o, t)
        /\ permit[p] = NoPermit /\ \A g \in Fetchers : p \notin Held(g)
        /\ bucket' = [bucket EXCEPT
              ![o].tokens = refilled_tokens(bucket[o], t) - One,
              ![o].last_refill_at = t]
        /\ permit' = [permit EXCEPT ![p] = [origin |-> o, expires |-> t + Lease]]
        /\ fetch' = [fetch EXCEPT ![f] =
              IF answered THEN [@ EXCEPT !.st = "hop", !.origin = None,
                                         !.clock = 0, !.held[o] = p]
                          ELSE Over(@)]
        /\ UNCHANGED <<now, peak>>

\* Seeded fault: the request is sent on any permit that has not expired.
Covered_now(f, o) ==
    permit[fetch[f].held[o]].expires > now + Offset[f]

\* The permit's lease outlasts the rest of the fetch by the margin.
Covered(f, o) ==
    permit[fetch[f].held[o]].expires - (now + Offset[f])
        >= Greatest(fetch[f].deadline - now, 0) + Margin

\* _run sends the request of a hop, or refuses it (permit_lease_too_short).
send(f, o) ==
    /\ fetch[f].st = "hop" /\ fetch[f].held[o] # None
    /\ fetch' = IF Covered(f, o)
                THEN [fetch EXCEPT ![f].st = "open", ![f].origin = o,
                                   ![f].hops = @ + 1]
                ELSE [fetch EXCEPT ![f] = Over(@)]
    /\ UNCHANGED <<now, bucket, permit, peak>>

\* The answer is a redirect: close the response, go on with the next hop.
redirect(f) ==
    /\ fetch[f].st = "open" /\ fetch[f].hops <= MaxRedirects
    /\ fetch' = [fetch EXCEPT ![f].st = "hop", ![f].origin = None]
    /\ UNCHANGED <<now, bucket, permit, peak>>

\* The answer is a 429: read the clock, then block_origin.
answer_429(f) ==
    /\ fetch[f].st = "open"
    /\ fetch' = [fetch EXCEPT ![f].st = "blocking", ![f].clock = now + Offset[f]]
    /\ UNCHANGED <<now, bucket, permit, peak>>

\* block_origin commits; the response is still open.
block_origin(f, d) ==
    /\ fetch[f].st = "blocking"
    /\ bucket' = [bucket EXCEPT
          ![fetch[f].origin] = Blocked(@, fetch[f].clock + d)]
    /\ fetch' = [fetch EXCEPT ![f].st = "answered", ![f].clock = 0]
    /\ UNCHANGED <<now, permit, peak>>

\* The fetch ends, with a result, an error, or by its timeout; whatever is
\* open is closed, a database call in progress is given up.
finish(f) ==
    /\ fetch[f].st \in {"hop", "asking"} \cup Open
    /\ fetch' = [fetch EXCEPT ![f] = Over(@)]
    /\ UNCHANGED <<now, bucket, permit, peak>>

\* _release in fetch()'s finally block; a failure is logged and the permit
\* left to expire.
release_permit(f, o, committed) ==
    /\ fetch[f].st = "release" /\ fetch[f].held[o] # None
    /\ permit' = IF committed
                 THEN [permit EXCEPT ![fetch[f].held[o]] = NoPermit]
                 ELSE permit
    /\ fetch' = [fetch EXCEPT ![f].held[o] = None]
    /\ UNCHANGED <<now, bucket, peak>>

end(f) ==
    /\ fetch[f].st = "release" /\ Held(f) = {}
    /\ fetch' = [fetch EXCEPT ![f] = NoFetch]
    /\ UNCHANGED <<now, bucket, permit, peak>>

\* The process dies; its sockets close with it, its permits stay.
kill(f) ==
    /\ fetch[f].st # "idle"
    /\ fetch' = [fetch EXCEPT ![f] = NoFetch]
    /\ UNCHANGED <<now, bucket, permit, peak>>

-----------------------------------------------------------------------------
(* Maintenance and time                                                    *)

\* expire_permits, on a scheduler whose clock reads t.
expire_permits(t) ==
    LET stale == {p \in Permits : permit[p] # NoPermit /\ permit[p].expires <= t}
    IN  /\ stale # {}
        /\ permit' = [p \in Permits |-> IF p \in stale THEN NoPermit ELSE permit[p]]
        /\ UNCHANGED <<now, bucket, fetch, peak>>

\* asyncio.timeout ends a fetch at its deadline; closing takes up to E.
Tick ==
    /\ now < MaxTime
    /\ \A f \in Fetchers : fetch[f].st \in {"hop", "asking"} \cup Open
                              => now < fetch[f].deadline + E
    /\ now' = now + 1
    /\ UNCHANGED <<bucket, permit, fetch, peak>>

FetchStep(f) ==
    \/ \E total \in Totals : begin(f, total)
    \/ redirect(f) \/ answer_429(f) \/ finish(f) \/ end(f) \/ kill(f)
    \/ acquire_denied(f)
    \/ \E o \in Origins : \/ acquire(f, o)
                          \/ send(f, o)
                          \/ \E c \in BOOLEAN : release_permit(f, o, c)
    \/ \E p \in Permits, a \in BOOLEAN : acquire_granted(f, p, a)
    \/ \E d \in RetryAfters : block_origin(f, d)

Next ==
    \/ Tick
    \/ \E f \in Fetchers : FetchStep(f)
    \/ \E o \in Origins, pol \in Policies, t \in now..(now + S) :
          ensure_bucket(o, pol, t)
    \/ \E t \in 0..(now + S) : expire_permits(t)

Spec == Init /\ [][Next]_vars
-----------------------------------------------------------------------------
(* Properties                                                              *)

\* Shape of the rows; a bucket never holds more than its capacity.
TypeOK ==
    /\ now \in Nat
    /\ bucket \in [Origins -> Bucket]
    /\ \A o \in Origins : bucket[o].tokens <= bucket[o].capacity
    /\ permit \in [Permits -> Permit]
    /\ fetch \in [Fetchers -> Fetch]
    /\ peak \in [Origins -> Nat]

Requests(o) == {f \in Fetchers : fetch[f].st \in Open /\ fetch[f].origin = o}

\* R-53: however many replicas there are, an origin never has more open
\* requests than the largest max_concurrency it was given.  Permits that
\* expire, are lost, released twice or marked expired on another clock do
\* not free the slot of a request that is still open (fetch/client.py,
\* permit_lease_too_short).
InFlightBound ==
    \A o \in Origins : Cardinality(Requests(o)) <= peak[o]

\* No burst after a 429: while a block is on, by any clock, the bucket is
\* empty and refill will start only at the end of the block (block_origin).
NoBurst ==
    \A o \in Origins : bucket[o].blocked_until > now + S =>
        bucket[o].tokens = 0 /\ bucket[o].last_refill_at = bucket[o].blocked_until

\* A block ends no earlier than any 429 asked for, and no permit is granted
\* before it ends, by the clock of the fetcher.
BlockRespected ==
    [][\A o \in Origins :
          /\ bucket[o].blocked_until <= bucket'[o].blocked_until
          /\ \A p \in Permits : permit[p] = NoPermit /\ permit'[p].origin = o
                => bucket[o].blocked_until <= now + S]_vars
=============================================================================
