------------------------ MODULE OriginLimiterProofs -------------------------
(***************************************************************************)
(* For every number of origins, fetchers, permits and policies, and for    *)
(* all clocks and timeouts that PermitMargin relates: open requests stay   *)
(* within the concurrency limit, a block leaves no burst behind, and no    *)
(* block is cut short.                                                     *)
(*                                                                         *)
(* The argument for the limit: an open request has a permit that no clock  *)
(* sees expired, two requests never share one, and the permits that no     *)
(* clock sees expired are within the limit, because whoever granted the    *)
(* last of them counted at least these.                                    *)
(***************************************************************************)
EXTENDS OriginLimiter, FiniteSetTheorems, TLAPS

Running == {"hop", "asking"} \cup Open

\* A running fetch is not past its deadline by more than E, and the reading
\* it waits with is not ahead of every clock.
Timely ==
    \A f \in Fetchers :
       /\ fetch[f].st \in Running => now <= fetch[f].deadline + E
       /\ fetch[f].clock <= now + S
       /\ fetch[f].st \in {"asking"} \cup Open => fetch[f].origin \in Origins

\* A held permit is the row it was granted as, or gone; it belongs to an
\* origin that has a bucket.
HeldRows ==
    \A f \in Fetchers, o \in Origins : fetch[f].held[o] # None =>
       /\ permit[fetch[f].held[o]] = NoPermit \/ permit[fetch[f].held[o]].origin = o
       /\ bucket[o].exists

\* No permit is held twice.
HeldOnce ==
    \A f, g \in Fetchers, o \in Origins :
       f # g /\ fetch[f].held[o] # None => fetch[f].held[o] # fetch[g].held[o]

\* The permit of an open request outlasts the request's deadline.
OpenCovered ==
    \A f \in Fetchers : fetch[f].st \in Open =>
       /\ fetch[f].held[fetch[f].origin] # None
       /\ permit[fetch[f].held[fetch[f].origin]].expires >= fetch[f].deadline + Margin

\* The permits that no clock sees expired are within the limit.
LiveBound ==
    \A o \in Origins : /\ Cardinality(Live(o, now + S)) <= peak[o]
                       /\ bucket[o].max_concurrency <= peak[o]

Buckets ==
    \A o \in Origins : ~bucket[o].exists => bucket[o] = NoBucket

LimiterInv ==
    /\ TypeOK /\ Timely /\ HeldRows /\ HeldOnce /\ OpenCovered /\ LiveBound
    /\ Buckets /\ NoBurst

-----------------------------------------------------------------------------
USE DEF None

\* Live is a set of permits, hence finite.
LEMMA LiveFinite ==
    ASSUME NEW o, NEW t
    PROVE  IsFiniteSet(Live(o, t)) /\ Cardinality(Live(o, t)) \in Nat
<1>1. Live(o, t) \in SUBSET Permits
    BY DEF Live
<1>2. IsFiniteSet(Live(o, t))
    BY <1>1, FS_Subset, LimiterAssumption
<1> QED BY <1>2, FS_CardinalityType

\* Refill keeps the tokens natural and within the capacity.
LEMMA RefillType ==
    ASSUME NEW b \in Bucket, NEW t \in Nat, b.tokens <= b.capacity
    PROVE  refilled_tokens(b, t) \in Nat /\ refilled_tokens(b, t) <= b.capacity
<1> DEFINE e == Greatest(t - b.last_refill_at, 0)
<1>1. e \in Nat
    BY DEF Greatest, Bucket
<1>2. b.num \in Nat /\ b.den \in Nat /\ b.den > 0 /\ b.tokens \in Nat /\ b.capacity \in Nat
    BY DEF Bucket
<1>3. e * b.num \in Nat
    BY <1>1, <1>2
<1>4. (e * b.num) \div b.den \in Nat
    <2> DEFINE n == e * b.num
    <2>1. n \in Nat
        BY <1>3
    <2> HIDE DEF n
    <2>2. n \div b.den \in Nat
        BY <2>1, <1>2
    <2> QED BY <2>2 DEF n
<1> HIDE DEF e
<1> QED BY <1>2, <1>4 DEF refilled_tokens, Least, e

\* A block changes what it should and no more.
LEMMA BlockedType ==
    ASSUME NEW b \in Bucket, NEW until \in Nat, b.tokens <= b.capacity
    PROVE  /\ Blocked(b, until) \in Bucket
           /\ Blocked(b, until).tokens <= Blocked(b, until).capacity
           /\ Blocked(b, until).exists = b.exists
           /\ Blocked(b, until).max_concurrency = b.max_concurrency
           /\ b.blocked_until <= Blocked(b, until).blocked_until
<1>1. CASE b.blocked_until = 0 \/ b.blocked_until < until
    <2>1. b.capacity \in Nat /\ b.blocked_until \in Nat
        BY DEF Bucket
    <2>2. Blocked(b, until) = [b EXCEPT !.blocked_until = until,
                                        !.tokens = 0, !.last_refill_at = until]
        BY <1>1 DEF Blocked
    <2>3. Blocked(b, until) \in Bucket
        <3> DEFINE c == [b EXCEPT !.blocked_until = until]
        <3>1. c \in Bucket
            BY DEF Bucket
        <3>2. [c EXCEPT !.tokens = 0] \in Bucket
            BY <3>1 DEF Bucket
        <3>3. [[c EXCEPT !.tokens = 0] EXCEPT !.last_refill_at = until] \in Bucket
            BY <3>2 DEF Bucket
        <3> QED BY <2>2, <3>3 DEF Bucket
    <2> QED BY <1>1, <2>1, <2>2, <2>3 DEF Bucket
<1>2. CASE ~(b.blocked_until = 0 \/ b.blocked_until < until)
    BY <1>2 DEF Blocked, Bucket
<1> QED BY <1>1, <1>2

\* What acquire_permit writes to a bucket.
Refilled(b, n, t) == [b EXCEPT !.tokens = n, !.last_refill_at = t]

\* Writing tokens and the refill time changes nothing else.
LEMMA RefilledType ==
    ASSUME NEW b \in Bucket, NEW n \in Nat, NEW t \in Nat, n <= b.capacity
    PROVE  /\ Refilled(b, n, t) \in Bucket
           /\ Refilled(b, n, t).tokens <= Refilled(b, n, t).capacity
           /\ Refilled(b, n, t).exists = b.exists
           /\ Refilled(b, n, t).max_concurrency = b.max_concurrency
           /\ Refilled(b, n, t).blocked_until = b.blocked_until
BY DEF Bucket, Refilled

\* With fewer permits live, the limit still holds.
LEMMA LiveShrinks ==
    ASSUME LiveBound, TypeOK, TypeOK',
           NEW o \in Origins,
           Live(o, now + S)' \subseteq Live(o, now + S),
           peak[o] <= peak'[o]
    PROVE  Cardinality(Live(o, now + S)') <= peak'[o]
<1>1. IsFiniteSet(Live(o, now + S)) /\ Cardinality(Live(o, now + S)) \in Nat
    BY LiveFinite
<1>2. Live(o, now + S)' \in SUBSET Live(o, now + S)
    OBVIOUS
<1>3. /\ IsFiniteSet(Live(o, now + S)')
      /\ Cardinality(Live(o, now + S)') <= Cardinality(Live(o, now + S))
    BY <1>1, <1>2, FS_Subset
<1>4. Cardinality(Live(o, now + S)') \in Nat
    BY <1>3, FS_CardinalityType
<1>5. Cardinality(Live(o, now + S)) <= peak[o]
    BY DEF LiveBound
<1>6. peak[o] \in Nat /\ peak'[o] \in Nat
    BY DEF TypeOK
<1> QED BY <1>1, <1>3, <1>4, <1>5, <1>6

\* LimiterInv implies the limit on open requests: they inject into the live
\* permits of their origin.
LEMMA RequestsBounded == LimiterInv => InFlightBound
<1> SUFFICES ASSUME LimiterInv, NEW o \in Origins
             PROVE  Cardinality(Requests(o)) <= peak[o]
    BY DEF InFlightBound
<1> USE LimiterAssumption, PermitMargin
<1> DEFINE m == [f \in Requests(o) |-> fetch[f].held[o]]
<1>1. ASSUME NEW f \in Requests(o)
      PROVE  fetch[f].held[o] \in Live(o, now + S)
    <2>1. f \in Fetchers /\ fetch[f].st \in Open /\ fetch[f].origin = o
        BY DEF Requests
    <2>2. /\ fetch[f].held[o] # None
          /\ permit[fetch[f].held[o]].expires >= fetch[f].deadline + Margin
          /\ now <= fetch[f].deadline + E
        BY <2>1 DEF LimiterInv, OpenCovered, Timely, Running
    <2>3. fetch[f].held[o] \in Permits /\ fetch[f].deadline \in Nat /\ now \in Nat
        BY <2>1, <2>2 DEF LimiterInv, TypeOK, Fetch
    <2>4. permit[fetch[f].held[o]] \in Permit
        BY <2>3 DEF LimiterInv, TypeOK
    <2>5. permit[fetch[f].held[o]].expires \in Nat
        BY <2>4 DEF Permit
    <2>6. permit[fetch[f].held[o]].expires > now + S
        BY <2>2, <2>3, <2>5
    <2>7. permit[fetch[f].held[o]] # NoPermit
        BY <2>3, <2>6 DEF NoPermit
    <2>8. permit[fetch[f].held[o]].origin = o
        BY <2>1, <2>2, <2>7 DEF LimiterInv, HeldRows
    <2> QED BY <2>3, <2>6, <2>8 DEF Live
<1>2. ASSUME NEW f \in Requests(o), NEW g \in Requests(o), m[f] = m[g]
      PROVE  f = g
    <2>1. f \in Fetchers /\ g \in Fetchers
        BY DEF Requests
    <2>2. fetch[f].held[o] # None
        BY <1>1, LimiterAssumption DEF Live
    <2>3. fetch[f].held[o] = fetch[g].held[o]
        BY <1>2
    <2> QED BY <2>1, <2>2, <2>3 DEF LimiterInv, HeldOnce
<1>3. m \in Injection(Requests(o), Live(o, now + S))
    <2>1. m \in [Requests(o) -> Live(o, now + S)]
        BY <1>1
    <2> HIDE DEF m
    <2> QED BY <2>1, <1>2 DEF Injection, IsInjective
<1>4. /\ IsFiniteSet(Requests(o))
      /\ Cardinality(Requests(o)) <= Cardinality(Live(o, now + S))
    BY <1>3, LiveFinite, FS_Injection
<1>5. Cardinality(Requests(o)) \in Nat
    BY <1>4, FS_CardinalityType
<1>6. Cardinality(Live(o, now + S)) \in Nat
    BY LiveFinite
<1> QED BY <1>4, <1>5, <1>6 DEF LimiterInv, LiveBound, TypeOK

-----------------------------------------------------------------------------
(* Steps that change only the fetch                                        *)

\* Such a step need only be looked at for what it does to fetch.
LEMMA FetchOnly ==
    ASSUME LimiterInv, UNCHANGED <<now, bucket, permit, peak>>,
           TypeOK', Timely', HeldRows', HeldOnce', OpenCovered'
    PROVE  LimiterInv'
<1>1. LiveBound'
    BY DEF LimiterInv, LiveBound, Live
<1>2. Buckets' /\ NoBurst'
    BY DEF LimiterInv, Buckets, NoBurst
<1> QED BY <1>1, <1>2 DEF LimiterInv

\* Permits that stay where they are stay in order.
LEMMA HeldSame ==
    ASSUME LimiterInv, UNCHANGED <<bucket, permit>>,
           \A f \in Fetchers : fetch'[f].held = fetch[f].held
    PROVE  HeldRows' /\ HeldOnce'
BY DEF LimiterInv, HeldRows, HeldOnce

\* The fetch that is over: still holding its permits, nothing else.
LEMMA OverFetch ==
    ASSUME NEW r \in Fetch
    PROVE  /\ Over(r) \in Fetch
           /\ Over(r).st = "release" /\ Over(r).clock = 0 /\ Over(r).held = r.held
BY DEF Over, NoFetch, Fetch, FetchStates

\* What the invariant asks of one fetch r by itself.
Sound(r) ==
    /\ r.st \in Running => now <= r.deadline + E
    /\ r.clock <= now + S
    /\ r.st \in {"asking"} \cup Open => r.origin \in Origins
    /\ r.st \in Open =>
          /\ r.held[r.origin] # None
          /\ permit[r.held[r.origin]].expires >= r.deadline + Margin

\* No host's clock is ahead by more than S.
LEMMA ClockReading ==
    ASSUME LimiterInv, NEW f \in Fetchers
    PROVE  now + Offset[f] \in Nat /\ now + Offset[f] <= now + S
<1>1. now \in Nat
    BY DEF LimiterInv, TypeOK
<1>2. Offset[f] \in 0..S /\ S \in Nat
    BY LimiterAssumption
<1> QED BY <1>1, <1>2

\* One fetch becomes r, holding what it held: r's own bounds are enough.
LEMMA FetchBecomes ==
    ASSUME LimiterInv, UNCHANGED <<now, bucket, permit, peak>>,
           NEW f \in Fetchers, NEW r \in Fetch, fetch' = [fetch EXCEPT ![f] = r],
           r.held = fetch[f].held, Sound(r)
    PROVE  LimiterInv'
<1> USE DEF LimiterInv, Sound
<1>1. /\ fetch' \in [Fetchers -> Fetch]
      /\ fetch'[f] = r
      /\ \A g \in Fetchers \ {f} : fetch'[g] = fetch[g]
    BY DEF TypeOK
<1>2. TypeOK'
    BY <1>1 DEF TypeOK
<1>3. Timely'
    BY <1>1 DEF Timely
<1>4. HeldRows' /\ HeldOnce'
    <2>1. \A g \in Fetchers : fetch'[g].held = fetch[g].held
        BY <1>1
    <2> QED BY <2>1, HeldSame
<1>5. OpenCovered'
    BY <1>1 DEF OpenCovered
<1> QED BY <1>2, <1>3, <1>4, <1>5, FetchOnly

\* begin
LEMMA BeginStep ==
    ASSUME LimiterInv, NEW f \in Fetchers, NEW total \in Totals, begin(f, total)
    PROVE  LimiterInv'
<1> DEFINE r == [fetch[f] EXCEPT !.st = "hop", !.deadline = now + total]
<1>1. /\ fetch[f] \in Fetch /\ fetch[f].clock <= now + S
      /\ now + total \in Nat /\ now <= (now + total) + E
    BY LimiterAssumption DEF LimiterInv, TypeOK, Timely
<1>2. r \in Fetch /\ r.held = fetch[f].held
    BY <1>1 DEF Fetch, FetchStates
<1>3. r.st = "hop" /\ r.deadline = now + total /\ r.clock = fetch[f].clock
    BY <1>1 DEF Fetch
<1>4. fetch' = [fetch EXCEPT ![f] = r] /\ UNCHANGED <<now, bucket, permit, peak>>
    BY DEF begin, LimiterInv, TypeOK
<1> HIDE DEF r
<1>5. Sound(r)
    BY <1>1, <1>3 DEF Sound, Open
<1> QED BY <1>2, <1>4, <1>5, FetchBecomes

\* acquire, the clock reading
LEMMA AcquireStep ==
    ASSUME LimiterInv, NEW f \in Fetchers, NEW o \in Origins, acquire(f, o)
    PROVE  LimiterInv'
<1> DEFINE r == [fetch[f] EXCEPT !.st = "asking", !.origin = o,
                                 !.clock = now + Offset[f]]
<1>0. fetch[f] \in Fetch /\ now <= fetch[f].deadline + E
    BY DEF LimiterInv, TypeOK, Timely, Running, acquire
<1>1. /\ fetch[f] \in Fetch /\ now <= fetch[f].deadline + E
      /\ now + Offset[f] \in Nat /\ now + Offset[f] <= now + S
    BY <1>0, ClockReading
<1>2. r \in Fetch /\ r.held = fetch[f].held
    BY <1>1 DEF Fetch, FetchStates
<1>3. /\ r.st = "asking" /\ r.deadline = fetch[f].deadline /\ r.origin = o
      /\ r.clock = now + Offset[f]
    BY <1>1 DEF Fetch
<1>4. fetch' = [fetch EXCEPT ![f] = r] /\ UNCHANGED <<now, bucket, permit, peak>>
    BY DEF acquire, LimiterInv, TypeOK
<1> HIDE DEF r
<1>5. Sound(r)
    BY <1>1, <1>3 DEF Sound, Open
<1> QED BY <1>2, <1>4, <1>5, FetchBecomes

\* send: this is where the margin is checked.
LEMMA SendStep ==
    ASSUME LimiterInv, NEW f \in Fetchers, NEW o \in Origins, send(f, o)
    PROVE  LimiterInv'
<1> DEFINE r == [fetch[f] EXCEPT !.st = "open", !.origin = o, !.hops = fetch[f].hops + 1]
<1>1. /\ fetch[f] \in Fetch /\ now \in Nat /\ now <= fetch[f].deadline + E
      /\ fetch[f].clock <= now + S /\ fetch[f].hops + 1 \in Nat
      /\ 0 <= now + S
    BY LimiterAssumption DEF LimiterInv, TypeOK, Timely, Running, Fetch, send
<1>2. UNCHANGED <<now, bucket, permit, peak>> /\ fetch[f].held[o] # None
    BY DEF send
<1>3. CASE Covered(f, o)
    <2>1. r \in Fetch /\ r.held = fetch[f].held
        BY <1>1 DEF Fetch, FetchStates
    <2>2. /\ r.st = "open" /\ r.deadline = fetch[f].deadline /\ r.origin = o
          /\ r.clock = fetch[f].clock
        BY <1>1 DEF Fetch
    <2>3. permit[fetch[f].held[o]].expires \in Nat
        BY <1>1, <1>2 DEF LimiterInv, TypeOK, Fetch, Permit
    <2>4. permit[fetch[f].held[o]].expires >= fetch[f].deadline + Margin
        BY <1>1, <1>3, <2>3, LimiterAssumption DEF Covered, Greatest, Fetch
    <2>5. fetch' = [fetch EXCEPT ![f] = r]
        BY <1>3 DEF send, LimiterInv, TypeOK
    <2> HIDE DEF r
    <2>6. Sound(r)
        BY <1>1, <1>2, <2>1, <2>2, <2>4 DEF Sound
    <2> QED BY <1>2, <2>1, <2>5, <2>6, FetchBecomes
<1>4. CASE ~Covered(f, o)
    <2>1. fetch' = [fetch EXCEPT ![f] = Over(fetch[f])]
        BY <1>4 DEF send
    <2>2. Sound(Over(fetch[f]))
        BY <1>1, OverFetch DEF Sound, Running, Open
    <2> QED BY <1>1, <1>2, <2>1, <2>2, OverFetch, FetchBecomes
<1> QED BY <1>3, <1>4

\* redirect
LEMMA RedirectStep ==
    ASSUME LimiterInv, NEW f \in Fetchers, redirect(f)
    PROVE  LimiterInv'
<1> DEFINE r == [fetch[f] EXCEPT !.st = "hop", !.origin = None]
<1>1. /\ fetch[f] \in Fetch /\ now \in Nat /\ now <= fetch[f].deadline + E
      /\ fetch[f].clock <= now + S
    BY DEF LimiterInv, TypeOK, Timely, Running, Open, redirect
<1>2. r \in Fetch /\ r.held = fetch[f].held
    BY <1>1 DEF Fetch, FetchStates
<1>3. r.st = "hop" /\ r.deadline = fetch[f].deadline /\ r.clock = fetch[f].clock
    BY <1>1 DEF Fetch
<1>4. fetch' = [fetch EXCEPT ![f] = r] /\ UNCHANGED <<now, bucket, permit, peak>>
    BY DEF redirect, LimiterInv, TypeOK
<1> HIDE DEF r
<1>5. Sound(r)
    BY <1>1, <1>3 DEF Sound, Open
<1> QED BY <1>2, <1>4, <1>5, FetchBecomes

\* answer_429
LEMMA AnswerStep ==
    ASSUME LimiterInv, NEW f \in Fetchers, answer_429(f)
    PROVE  LimiterInv'
<1> DEFINE r == [fetch[f] EXCEPT !.st = "blocking", !.clock = now + Offset[f]]
<1>0. now + Offset[f] \in Nat /\ now + Offset[f] <= now + S
    BY ClockReading
<1>1. /\ fetch[f] \in Fetch /\ now <= fetch[f].deadline + E
      /\ fetch[f].origin \in Origins
      /\ fetch[f].held[fetch[f].origin] # None
      /\ permit[fetch[f].held[fetch[f].origin]].expires >= fetch[f].deadline + Margin
    BY DEF LimiterInv, TypeOK, Timely, OpenCovered, Running, Open, answer_429
<1>2. r \in Fetch /\ r.held = fetch[f].held
    BY <1>0, <1>1 DEF Fetch, FetchStates
<1>3. /\ r.st = "blocking" /\ r.deadline = fetch[f].deadline
      /\ r.origin = fetch[f].origin /\ r.clock = now + Offset[f]
    BY <1>1 DEF Fetch
<1>4. fetch' = [fetch EXCEPT ![f] = r] /\ UNCHANGED <<now, bucket, permit, peak>>
    BY DEF answer_429, LimiterInv, TypeOK
<1> HIDE DEF r
<1>5. Sound(r)
    BY <1>0, <1>1, <1>2, <1>3 DEF Sound
<1> QED BY <1>2, <1>4, <1>5, FetchBecomes

\* finish
LEMMA FinishStep ==
    ASSUME LimiterInv, NEW f \in Fetchers, finish(f)
    PROVE  LimiterInv'
<1>1. fetch[f] \in Fetch /\ 0 <= now + S
    BY LimiterAssumption DEF LimiterInv, TypeOK
<1>2. /\ fetch' = [fetch EXCEPT ![f] = Over(fetch[f])]
      /\ UNCHANGED <<now, bucket, permit, peak>>
    BY DEF finish
<1>3. Sound(Over(fetch[f]))
    BY <1>1, OverFetch DEF Sound, Running, Open
<1> QED BY <1>1, <1>2, <1>3, OverFetch, FetchBecomes

\* end, kill: nothing is held afterwards.
LEMMA EndStep ==
    ASSUME LimiterInv, NEW f \in Fetchers, end(f) \/ kill(f)
    PROVE  LimiterInv'
<1> USE LimiterAssumption DEF LimiterInv
<1>1. fetch' = [fetch EXCEPT ![f] = NoFetch] /\ UNCHANGED <<now, bucket, permit, peak>>
    BY DEF end, kill
<1>2. /\ NoFetch \in Fetch
      /\ NoFetch.st = "idle" /\ NoFetch.clock = 0
      /\ \A o \in Origins : NoFetch.held[o] = None
    BY DEF NoFetch, Fetch, FetchStates
<1>3. /\ fetch' \in [Fetchers -> Fetch]
      /\ fetch'[f] = NoFetch
      /\ \A g \in Fetchers \ {f} : fetch'[g] = fetch[g]
    BY <1>1, <1>2 DEF TypeOK
<1>4. TypeOK'
    BY <1>1, <1>3 DEF TypeOK
<1>5. Timely'
    BY <1>1, <1>2, <1>3 DEF TypeOK, Timely, Running, Open
<1>6. HeldRows' /\ HeldOnce'
    BY <1>1, <1>2, <1>3 DEF HeldRows, HeldOnce
<1>7. OpenCovered'
    BY <1>1, <1>2, <1>3 DEF OpenCovered, Open
<1> QED BY <1>1, <1>4, <1>5, <1>6, <1>7, FetchOnly

-----------------------------------------------------------------------------
(* Steps that change buckets, permits or time                              *)

\* Tick: the permits no clock sees expired become fewer.
LEMMA TickStep ==
    ASSUME LimiterInv, Tick
    PROVE  LimiterInv'
<1> USE LimiterAssumption DEF LimiterInv, Tick
<1>1. TypeOK'
    BY DEF TypeOK
<1>2. Timely'
    <2>1. \A f \in Fetchers : fetch[f].deadline \in Nat /\ fetch[f].clock \in Nat
        BY DEF TypeOK, Fetch
    <2> QED BY <2>1 DEF TypeOK, Timely, Running
<1>3. HeldRows' /\ HeldOnce'
    BY HeldSame
<1>4. OpenCovered'
    BY DEF OpenCovered
<1>5. LiveBound'
    <2>1. ASSUME NEW o \in Origins
          PROVE  Cardinality(Live(o, now + S)') <= peak'[o]
        <3>1. \A p \in Permits : permit[p].expires \in Nat
            BY DEF TypeOK, Permit
        <3>2. Live(o, now + S)' \subseteq Live(o, now + S)
            BY <3>1 DEF TypeOK, Live
        <3>3. peak[o] <= peak'[o]
            BY DEF TypeOK
        <3> QED BY <1>1, <3>2, <3>3, LiveShrinks
    <2> QED BY <2>1 DEF LiveBound
<1>6. Buckets' /\ NoBurst'
    BY DEF TypeOK, Bucket, Buckets, NoBurst
<1> QED BY <1>1, <1>2, <1>3, <1>4, <1>5, <1>6

\* ensure_bucket
LEMMA EnsureStep ==
    ASSUME LimiterInv, NEW o \in Origins, NEW pol \in Policies,
           NEW t \in now..(now + S), ensure_bucket(o, pol, t)
    PROVE  LimiterInv'
<1> USE LimiterAssumption DEF LimiterInv, ensure_bucket
<1>0. /\ pol.capacity \in Nat /\ pol.num \in Nat /\ pol.den \in Nat \ {0}
      /\ pol.max_concurrency \in Nat /\ t \in Nat
    BY DEF TypeOK
<1>a. /\ bucket[o] \in Bucket /\ bucket[o].tokens \in Nat
      /\ Least(bucket[o].tokens, pol.capacity) \in Nat
      /\ Least(bucket[o].tokens, pol.capacity) <= pol.capacity
    BY <1>0 DEF TypeOK, Bucket, Least
<1>b. bucket'[o] \in Bucket /\ bucket'[o].tokens <= bucket'[o].capacity
    <2>1. CASE bucket[o].exists
        BY <1>0, <1>a, <2>1 DEF TypeOK, Bucket
    <2>2. CASE ~bucket[o].exists
        BY <1>0, <2>2 DEF TypeOK, Bucket
    <2> QED BY <2>1, <2>2
<1>1. TypeOK'
    <2>1. bucket' \in [Origins -> Bucket]
        BY <1>b DEF TypeOK
    <2>2. \A q \in Origins : bucket'[q].tokens <= bucket'[q].capacity
        BY <1>b DEF TypeOK
    <2>3. peak' \in [Origins -> Nat]
        BY <1>0 DEF TypeOK, Greatest
    <2> QED BY <2>1, <2>2, <2>3 DEF TypeOK
<1>2. Timely'
    BY DEF Timely
<1>3. HeldRows' /\ HeldOnce'
    BY DEF TypeOK, HeldRows, HeldOnce
<1>4. OpenCovered'
    BY DEF OpenCovered
<1>5. LiveBound'
    <2>1. ASSUME NEW q \in Origins
          PROVE  peak[q] <= peak'[q] /\ bucket'[q].max_concurrency <= peak'[q]
        BY <1>0 DEF TypeOK, Bucket, Greatest, LiveBound
    <2>2. ASSUME NEW q \in Origins
          PROVE  Cardinality(Live(q, now + S)') <= peak'[q]
        <3>1. Live(q, now + S)' \subseteq Live(q, now + S)
            BY DEF Live
        <3> QED BY <1>1, <2>1, <3>1, LiveShrinks
    <2> QED BY <2>1, <2>2 DEF LiveBound
<1>6. Buckets'
    BY DEF TypeOK, Buckets
<1>7. NoBurst'
    BY <1>0, <1>a DEF TypeOK, Bucket, NoBurst, Least
<1> QED BY <1>1, <1>2, <1>3, <1>4, <1>5, <1>6, <1>7

\* block_origin
LEMMA BlockStep ==
    ASSUME LimiterInv, NEW f \in Fetchers, NEW d \in RetryAfters, block_origin(f, d)
    PROVE  LimiterInv'
<1> USE LimiterAssumption
<1> DEFINE o == fetch[f].origin
           until == fetch[f].clock + d
           r == [fetch[f] EXCEPT !.st = "answered", !.clock = 0]
<1>0. /\ fetch[f] \in Fetch /\ now \in Nat
      /\ o \in Origins /\ bucket[o] \in Bucket /\ until \in Nat
      /\ now <= fetch[f].deadline + E
      /\ fetch[f].held[o] # None
      /\ permit[fetch[f].held[o]].expires >= fetch[f].deadline + Margin
    BY DEF LimiterInv, TypeOK, Timely, OpenCovered, Open, Running, Fetch, block_origin
<1>a. bucket[o].exists
    BY <1>0 DEF LimiterInv, HeldRows
<1>b. /\ bucket' = [bucket EXCEPT ![o] = Blocked(bucket[o], until)]
      /\ UNCHANGED <<now, permit, peak>>
    BY DEF block_origin
<1>c. fetch' = [fetch EXCEPT ![f] = r]
    BY DEF block_origin, LimiterInv, TypeOK
<1>d. /\ bucket'[o] = Blocked(bucket[o], until)
      /\ \A q \in Origins \ {o} : bucket'[q] = bucket[q]
    BY <1>0, <1>b DEF LimiterInv, TypeOK
<1>e. /\ r \in Fetch /\ r.held = fetch[f].held /\ r.st = "answered"
      /\ r.clock = 0 /\ r.origin = o /\ r.deadline = fetch[f].deadline
    BY <1>0 DEF Fetch, FetchStates
<1> HIDE DEF o, until, r
<1>f. /\ Blocked(bucket[o], until) \in Bucket
      /\ Blocked(bucket[o], until).tokens <= Blocked(bucket[o], until).capacity
      /\ Blocked(bucket[o], until).exists
      /\ Blocked(bucket[o], until).max_concurrency = bucket[o].max_concurrency
    <2>1. bucket[o].tokens <= bucket[o].capacity
        BY <1>0 DEF LimiterInv, TypeOK
    <2> QED BY <1>0, <1>a, <2>1, BlockedType
<1>1. TypeOK'
    <2>1. bucket' \in [Origins -> Bucket]
        BY <1>0, <1>b, <1>f DEF LimiterInv, TypeOK
    <2>2. \A q \in Origins : bucket'[q].tokens <= bucket'[q].capacity
        BY <1>d, <1>f DEF LimiterInv, TypeOK
    <2>3. fetch' \in [Fetchers -> Fetch]
        BY <1>c, <1>e DEF LimiterInv, TypeOK
    <2> QED BY <1>b, <2>1, <2>2, <2>3 DEF LimiterInv, TypeOK
<1>g. /\ fetch'[f] = r
      /\ \A g \in Fetchers \ {f} : fetch'[g] = fetch[g]
    BY <1>c DEF LimiterInv, TypeOK
<1>2. Timely'
    BY <1>0, <1>b, <1>e, <1>g DEF LimiterInv, Timely
<1>3. HeldRows' /\ HeldOnce'
    <2>1. \A g \in Fetchers : fetch'[g].held = fetch[g].held
        BY <1>e, <1>g
    <2>2. \A q \in Origins : bucket[q].exists => bucket'[q].exists
        BY <1>d, <1>f
    <2>3. HeldRows'
        BY <1>b, <2>1, <2>2 DEF LimiterInv, HeldRows
    <2>4. HeldOnce'
        BY <2>1 DEF LimiterInv, HeldOnce
    <2> QED BY <2>3, <2>4
<1>4. OpenCovered'
    BY <1>0, <1>b, <1>e, <1>g DEF LimiterInv, OpenCovered
<1>5. LiveBound'
    <2>1. \A q \in Origins : bucket'[q].max_concurrency = bucket[q].max_concurrency
        BY <1>d, <1>f
    <2> QED BY <1>b, <2>1 DEF LimiterInv, LiveBound, Live
<1>6. Buckets'
    BY <1>d, <1>f DEF LimiterInv, Buckets
<1>7. NoBurst'
    <2>1. ASSUME NEW q \in Origins, bucket'[q].blocked_until > now' + S
          PROVE  bucket'[q].tokens = 0 /\ bucket'[q].last_refill_at = bucket'[q].blocked_until
        <3>1. CASE q # o
            BY <1>b, <1>d, <2>1, <3>1 DEF LimiterInv, NoBurst
        <3>2. CASE q = o /\ (bucket[o].blocked_until = 0 \/ bucket[o].blocked_until < until)
            BY <1>0, <1>d, <3>2 DEF Blocked, Bucket
        <3>3. CASE q = o /\ ~(bucket[o].blocked_until = 0 \/ bucket[o].blocked_until < until)
            BY <1>b, <1>d, <2>1, <3>3 DEF LimiterInv, NoBurst, Blocked
        <3> QED BY <3>1, <3>2, <3>3
    <2> QED BY <2>1 DEF NoBurst
<1> QED BY <1>1, <1>2, <1>3, <1>4, <1>5, <1>6, <1>7 DEF LimiterInv

\* The caller of acquire_permit: its reading is at most any clock's, its
\* bucket is there.
LEMMA Asking ==
    ASSUME LimiterInv, NEW f \in Fetchers, fetch[f].st = "asking"
    PROVE  /\ fetch[f] \in Fetch /\ fetch[f].origin \in Origins
           /\ fetch[f].clock \in Nat /\ fetch[f].clock <= now + S
           /\ now \in Nat /\ now <= fetch[f].deadline + E
           /\ bucket[fetch[f].origin] \in Bucket
           /\ bucket[fetch[f].origin].tokens <= bucket[fetch[f].origin].capacity
<1>1. /\ fetch[f] \in Fetch /\ fetch[f].origin \in Origins
      /\ fetch[f].clock <= now + S
      /\ now \in Nat /\ now <= fetch[f].deadline + E
    BY DEF LimiterInv, TypeOK, Timely, Running
<1>2. fetch[f].clock \in Nat
    BY <1>1 DEF Fetch
<1> QED BY <1>1, <1>2 DEF LimiterInv, TypeOK

\* What acquire_permit writes to a bucket that is not blocked.
LEMMA BucketRefilled ==
    ASSUME LimiterInv, NEW o \in Origins, NEW n \in Nat, NEW t \in Nat,
           n <= bucket[o].capacity, t <= now + S,
           bucket[o].exists, bucket[o].blocked_until <= t,
           bucket' = [bucket EXCEPT ![o].tokens = n, ![o].last_refill_at = t],
           now' = now
    PROVE  /\ bucket' \in [Origins -> Bucket]
           /\ \A q \in Origins : /\ bucket'[q].tokens <= bucket'[q].capacity
                                 /\ bucket'[q].exists = bucket[q].exists
                                 /\ bucket'[q].max_concurrency = bucket[q].max_concurrency
                                 /\ bucket'[q].blocked_until = bucket[q].blocked_until
           /\ Buckets' /\ NoBurst'
<1> DEFINE c == Refilled(bucket[o], n, t)
<1>1. /\ bucket \in [Origins -> Bucket] /\ now \in Nat /\ S \in Nat
      /\ \A q \in Origins : bucket[q].tokens <= bucket[q].capacity
    BY LimiterAssumption DEF LimiterInv, TypeOK
<1>2. bucket' = [bucket EXCEPT ![o] = c]
    BY <1>1 DEF Refilled
<1>3. /\ c \in Bucket /\ c.tokens <= c.capacity /\ c.exists = bucket[o].exists
      /\ c.max_concurrency = bucket[o].max_concurrency
      /\ c.blocked_until = bucket[o].blocked_until
    BY <1>1, RefilledType
<1> HIDE DEF c
<1>4. bucket'[o] = c /\ \A q \in Origins \ {o} : bucket'[q] = bucket[q]
    BY <1>1, <1>2
<1>5. bucket' \in [Origins -> Bucket]
    BY <1>1, <1>2, <1>3
<1>6. \A q \in Origins : /\ bucket'[q].tokens <= bucket'[q].capacity
                         /\ bucket'[q].exists = bucket[q].exists
                         /\ bucket'[q].max_concurrency = bucket[q].max_concurrency
                         /\ bucket'[q].blocked_until = bucket[q].blocked_until
    BY <1>1, <1>3, <1>4
<1>7. Buckets'
    BY <1>3, <1>4 DEF LimiterInv, Buckets
<1>8. NoBurst'
    <2>1. bucket[o].blocked_until \in Nat
        BY <1>1 DEF Bucket
    <2>2. ~(c.blocked_until > now' + S)
        BY <1>1, <1>3, <2>1
    <2> QED BY <1>4, <2>2 DEF LimiterInv, NoBurst
<1> QED BY <1>5, <1>6, <1>7, <1>8

\* acquire_denied
LEMMA AcquireDeniedStep ==
    ASSUME LimiterInv, NEW f \in Fetchers, acquire_denied(f)
    PROVE  LimiterInv'
<1> DEFINE o == fetch[f].origin
           t == fetch[f].clock
           n == refilled_tokens(bucket[o], t)
<1>1. /\ fetch[f] \in Fetch /\ o \in Origins /\ t \in Nat /\ t <= now + S
      /\ now \in Nat /\ bucket[o] \in Bucket
      /\ bucket[o].tokens <= bucket[o].capacity
    BY Asking DEF acquire_denied
<1>2. n \in Nat /\ n <= bucket[o].capacity
    BY <1>1, RefillType
<1>3. /\ fetch' = [fetch EXCEPT ![f] = Over(fetch[f])]
      /\ UNCHANGED <<now, permit, peak>>
      /\ \/ UNCHANGED bucket
         \/ /\ bucket[o].exists /\ bucket[o].blocked_until <= t
            /\ bucket' = [bucket EXCEPT ![o].tokens = n, ![o].last_refill_at = t]
    BY DEF acquire_denied
<1> HIDE DEF o, t, n
<1>4. /\ Over(fetch[f]) \in Fetch /\ Over(fetch[f]).st = "release"
      /\ Over(fetch[f]).clock = 0 /\ Over(fetch[f]).held = fetch[f].held
    BY <1>1, OverFetch
<1>5. CASE UNCHANGED bucket
    <2>1. 0 <= now + S
        BY <1>1, LimiterAssumption
    <2>2. Sound(Over(fetch[f]))
        BY <1>4, <2>1 DEF Sound, Running, Open
    <2> QED BY <1>3, <1>4, <1>5, <2>2, FetchBecomes
<1>6. CASE /\ bucket[o].exists /\ bucket[o].blocked_until <= t
           /\ bucket' = [bucket EXCEPT ![o].tokens = n, ![o].last_refill_at = t]
    <2>1. /\ bucket' \in [Origins -> Bucket]
          /\ \A q \in Origins : /\ bucket'[q].tokens <= bucket'[q].capacity
                                /\ bucket'[q].exists = bucket[q].exists
                                /\ bucket'[q].max_concurrency = bucket[q].max_concurrency
          /\ Buckets' /\ NoBurst'
        BY <1>1, <1>2, <1>3, <1>6, BucketRefilled
    <2>2. /\ fetch' \in [Fetchers -> Fetch]
          /\ fetch'[f] = Over(fetch[f])
          /\ \A g \in Fetchers \ {f} : fetch'[g] = fetch[g]
        BY <1>3, <1>4 DEF LimiterInv, TypeOK
    <2>3. TypeOK'
        BY <1>3, <2>1, <2>2 DEF LimiterInv, TypeOK
    <2>4. Timely'
        <3>1. 0 <= now + S
            BY <1>1, LimiterAssumption
        <3> QED BY <1>3, <1>4, <2>2, <3>1 DEF LimiterInv, Timely, Running, Open
    <2>5. \A g \in Fetchers : fetch'[g].held = fetch[g].held
        BY <1>4, <2>2
    <2>6. HeldRows' /\ HeldOnce'
        BY <1>3, <2>1, <2>5 DEF LimiterInv, HeldRows, HeldOnce
    <2>7. OpenCovered'
        BY <1>3, <1>4, <2>2 DEF LimiterInv, OpenCovered, Open
    <2>8. LiveBound'
        BY <1>3, <2>1 DEF LimiterInv, LiveBound, Live
    <2> QED BY <2>1, <2>3, <2>4, <2>6, <2>7, <2>8 DEF LimiterInv
<1> QED BY <1>3, <1>5, <1>6

\* acquire_granted: the new permit is one more than what the caller counted,
\* and it counted every permit that no clock sees expired.
LEMMA AcquireGrantedStep ==
    ASSUME LimiterInv, NEW f \in Fetchers, NEW p \in Permits,
           NEW answered \in BOOLEAN, acquire_granted(f, p, answered)
    PROVE  LimiterInv'
<1> DEFINE o == fetch[f].origin
           t == fetch[f].clock
           n == refilled_tokens(bucket[o], t)
           r == [fetch[f] EXCEPT !.st = "hop", !.origin = None, !.clock = 0, !.held[o] = p]
           row == [origin |-> o, expires |-> t + Lease]
<1>1. /\ fetch[f] \in Fetch /\ o \in Origins /\ t \in Nat /\ t <= now + S
      /\ now \in Nat /\ now <= fetch[f].deadline + E /\ bucket[o] \in Bucket
      /\ bucket[o].tokens <= bucket[o].capacity
    BY Asking DEF acquire_granted
<1>2. n \in Nat /\ n <= bucket[o].capacity
    BY <1>1, RefillType
<1>3. /\ Grantable(o, t) /\ permit[p] = NoPermit
      /\ UNCHANGED <<now, peak>>
      /\ bucket' = [bucket EXCEPT ![o].tokens = n - One, ![o].last_refill_at = t]
      /\ permit' = [permit EXCEPT ![p] = row]
      /\ fetch' = [fetch EXCEPT ![f] = IF answered THEN r ELSE Over(fetch[f])]
    BY DEF acquire_granted
<1>4. \A g \in Fetchers, q \in Origins : fetch[g].held[q] # p
    BY LimiterAssumption DEF acquire_granted, Held
<1>5. n - One \in Nat /\ n - One <= bucket[o].capacity
    <2>1. n >= One /\ bucket[o].capacity \in Nat
        BY <1>1, <1>3 DEF Grantable, Bucket
    <2> QED BY <1>2, <2>1, LimiterAssumption
<1>6. /\ r \in Fetch /\ r.st = "hop" /\ r.clock = 0 /\ r.deadline = fetch[f].deadline
      /\ r.held = [fetch[f].held EXCEPT ![o] = p]
    BY <1>1 DEF Fetch, FetchStates
<1>7. row \in Permit /\ row.origin = o
    BY <1>1, LimiterAssumption DEF Permit
<1>8. /\ Over(fetch[f]) \in Fetch /\ Over(fetch[f]).st = "release"
      /\ Over(fetch[f]).clock = 0 /\ Over(fetch[f]).held = fetch[f].held
    BY <1>1, OverFetch
<1> HIDE DEF o, t, n, r, row
<1>9. bucket[o].exists /\ bucket[o].blocked_until <= t
    BY <1>3 DEF Grantable
<1>10. /\ bucket' \in [Origins -> Bucket]
       /\ \A q \in Origins : /\ bucket'[q].tokens <= bucket'[q].capacity
                             /\ bucket'[q].exists = bucket[q].exists
                             /\ bucket'[q].max_concurrency = bucket[q].max_concurrency
       /\ Buckets' /\ NoBurst'
    BY <1>1, <1>3, <1>5, <1>9, BucketRefilled
<1>11. /\ permit' \in [Permits -> Permit] /\ permit'[p] = row
       /\ \A q \in Permits \ {p} : permit'[q] = permit[q]
    BY <1>3, <1>7 DEF LimiterInv, TypeOK
<1> DEFINE s == IF answered THEN r ELSE Over(fetch[f])
<1>12. /\ s \in Fetch /\ s.st \in {"hop", "release"} /\ s.clock = 0
       /\ s.st = "hop" => s.deadline = fetch[f].deadline
       /\ s.held \in {fetch[f].held, [fetch[f].held EXCEPT ![o] = p]}
    BY <1>6, <1>8
<1>13. fetch' = [fetch EXCEPT ![f] = s]
    BY <1>3
<1> HIDE DEF s
<1>14. /\ fetch' \in [Fetchers -> Fetch] /\ fetch'[f] = s
       /\ \A g \in Fetchers \ {f} : fetch'[g] = fetch[g]
    BY <1>12, <1>13 DEF LimiterInv, TypeOK
<1>15. TypeOK'
    BY <1>3, <1>10, <1>11, <1>14 DEF LimiterInv, TypeOK
<1>16. Timely'
    <2>1. 0 <= now + S
        BY <1>1, LimiterAssumption
    <2>2. "release" \notin Running /\ {"hop", "release"} \cap ({"asking"} \cup Open) = {}
        BY DEF Running, Open
    <2> QED BY <1>1, <1>3, <1>12, <1>14, <2>1, <2>2 DEF LimiterInv, Timely
<1>17. ASSUME NEW g \in Fetchers, NEW q \in Origins
       PROVE  \/ fetch'[g].held[q] = fetch[g].held[q]
              \/ g = f /\ q = o /\ fetch'[g].held[q] = p
    <2>1. fetch[f].held \in [Origins -> Permits \cup {None}]
        BY <1>1 DEF Fetch
    <2> QED BY <1>12, <1>14, <2>1
<1>18. HeldRows'
    <2>1. ASSUME NEW g \in Fetchers, NEW q \in Origins, fetch'[g].held[q] # None
          PROVE  /\ \/ permit'[fetch'[g].held[q]] = NoPermit
                    \/ permit'[fetch'[g].held[q]].origin = q
                 /\ bucket'[q].exists
        <3>1. CASE g = f /\ q = o /\ fetch'[g].held[q] = p
            BY <1>7, <1>9, <1>10, <1>11, <3>1
        <3>2. CASE fetch'[g].held[q] = fetch[g].held[q]
            <4>1. fetch[g].held[q] \in Permits \ {p}
                BY <1>4, <2>1, <3>2 DEF LimiterInv, TypeOK, Fetch
            <4> QED BY <1>10, <1>11, <2>1, <3>2, <4>1 DEF LimiterInv, HeldRows
        <3> QED BY <1>17, <3>1, <3>2
    <2> QED BY <2>1 DEF HeldRows
<1>19. HeldOnce'
    BY <1>4, <1>17 DEF LimiterInv, HeldOnce
<1>20. OpenCovered'
    <2>1. ASSUME NEW g \in Fetchers, fetch'[g].st \in Open
          PROVE  /\ fetch'[g].held[fetch'[g].origin] # None
                 /\ permit'[fetch'[g].held[fetch'[g].origin]].expires
                       >= fetch'[g].deadline + Margin
        <3>1. g # f
            BY <1>12, <1>14, <2>1 DEF Open
        <3>2. fetch'[g] = fetch[g]
            BY <1>14, <3>1
        <3>3. fetch[g].held[fetch[g].origin] # None /\ fetch[g].origin \in Origins
            BY <2>1, <3>2 DEF LimiterInv, OpenCovered, Timely
        <3>4. fetch[g].held[fetch[g].origin] \in Permits \ {p}
            BY <1>4, <3>3 DEF LimiterInv, TypeOK, Fetch
        <3> QED BY <1>11, <2>1, <3>2, <3>4 DEF LimiterInv, OpenCovered
    <2> QED BY <2>1 DEF OpenCovered
<1>21. ASSUME NEW q \in Origins
       PROVE  Cardinality(Live(q, now + S)') <= peak'[q]
    <2>1. CASE q # o
        <3>1. Live(q, now + S)' \subseteq Live(q, now + S)
            BY <1>3, <1>7, <1>11, <2>1 DEF Live
        <3>2. peak[q] <= peak'[q]
            BY <1>3 DEF LimiterInv, TypeOK
        <3> QED BY <1>15, <3>1, <3>2, LiveShrinks DEF LimiterInv
    <2>2. CASE q = o
        <3> DEFINE L == Live(o, t)
        <3>1. IsFiniteSet(L) /\ Cardinality(L) \in Nat
            BY LiveFinite
        <3>2. Cardinality(L) < bucket[o].max_concurrency
            BY <1>3 DEF Grantable
        <3>3. bucket[o].max_concurrency <= peak[o] /\ peak[o] \in Nat
            BY <1>1 DEF LimiterInv, LiveBound, TypeOK
        <3>4. bucket[o].max_concurrency \in Nat
            BY <1>1 DEF Bucket
        <3>5. Live(q, now + S)' \in SUBSET (L \cup {p})
            <4>1. \A x \in Permits : permit[x].expires \in Nat
                BY DEF LimiterInv, TypeOK, Permit
            <4>2. \A x \in Permits : permit[x].expires > now + S => permit[x].expires > t
                BY <1>1, <4>1, LimiterAssumption
            <4> QED BY <1>3, <1>11, <2>2, <4>2 DEF Live
        <3> HIDE DEF L
        <3>6. /\ IsFiniteSet(L \cup {p})
              /\ Cardinality(L \cup {p}) = IF p \in L THEN Cardinality(L) ELSE Cardinality(L) + 1
            BY <3>1, FS_AddElement
        <3>7. /\ IsFiniteSet(Live(q, now + S)')
              /\ Cardinality(Live(q, now + S)') <= Cardinality(L \cup {p})
            BY <3>5, <3>6, FS_Subset
        <3>8. Cardinality(Live(q, now + S)') \in Nat
            BY <3>7, FS_CardinalityType
        <3>9. Cardinality(Live(q, now + S)') <= peak[o]
            BY <3>1, <3>2, <3>3, <3>4, <3>6, <3>7, <3>8
        <3> QED BY <1>3, <2>2, <3>9
    <2> QED BY <2>1, <2>2
<1>22. LiveBound'
    BY <1>3, <1>10, <1>21 DEF LimiterInv, LiveBound
<1> QED BY <1>10, <1>15, <1>16, <1>18, <1>19, <1>20, <1>22 DEF LimiterInv

\* Rows that go away, none of them under an open request, disturb nothing.
LEMMA PermitsGone ==
    ASSUME LimiterInv, UNCHANGED <<now, bucket, peak>>,
           fetch' \in [Fetchers -> Fetch],
           \A f \in Fetchers :
              /\ fetch'[f].st = fetch[f].st /\ fetch'[f].deadline = fetch[f].deadline
              /\ fetch'[f].origin = fetch[f].origin /\ fetch'[f].clock = fetch[f].clock
              /\ \A o \in Origins : fetch'[f].held[o] \in {fetch[f].held[o], None},
           permit' \in [Permits -> Permit],
           \A p \in Permits : permit'[p] \in {permit[p], NoPermit},
           \A f \in Fetchers : fetch[f].st \in Open =>
              /\ fetch'[f] = fetch[f]
              /\ permit'[fetch[f].held[fetch[f].origin]]
                    = permit[fetch[f].held[fetch[f].origin]]
    PROVE  LimiterInv'
<1>1. TypeOK'
    BY DEF LimiterInv, TypeOK
<1>2. Timely'
    BY DEF LimiterInv, Timely
<1>3. HeldRows'
    <2>1. ASSUME NEW f \in Fetchers, NEW o \in Origins, fetch'[f].held[o] # None
          PROVE  /\ \/ permit'[fetch'[f].held[o]] = NoPermit
                    \/ permit'[fetch'[f].held[o]].origin = o
                 /\ bucket'[o].exists
        <3>1. fetch'[f].held[o] = fetch[f].held[o]
            BY <2>1
        <3>2. fetch[f].held[o] \in Permits
            BY <2>1, <3>1 DEF LimiterInv, TypeOK, Fetch
        <3> QED BY <2>1, <3>1, <3>2 DEF LimiterInv, HeldRows
    <2> QED BY <2>1 DEF HeldRows
<1>4. HeldOnce'
    BY DEF LimiterInv, HeldOnce
<1>5. OpenCovered'
    BY DEF LimiterInv, OpenCovered
<1>6. LiveBound'
    <2>1. ASSUME NEW o \in Origins
          PROVE  Cardinality(Live(o, now + S)') <= peak'[o]
        <3>1. NoPermit.origin # o
            BY LimiterAssumption DEF NoPermit
        <3>2. Live(o, now + S)' \subseteq Live(o, now + S)
            BY <3>1 DEF Live
        <3>3. peak[o] <= peak'[o]
            BY DEF LimiterInv, TypeOK
        <3> QED BY <1>1, <3>2, <3>3, LiveShrinks DEF LimiterInv
    <2> QED BY <2>1 DEF LimiterInv, LiveBound
<1>7. Buckets' /\ NoBurst'
    BY DEF LimiterInv, Buckets, NoBurst
<1> QED BY <1>1, <1>2, <1>3, <1>4, <1>5, <1>6, <1>7 DEF LimiterInv

\* The permit of an open request is there, for its origin, and no clock sees
\* it expired.
LEMMA OpenPermit ==
    ASSUME LimiterInv, NEW f \in Fetchers, fetch[f].st \in Open
    PROVE  LET p == fetch[f].held[fetch[f].origin]
           IN  /\ fetch[f].origin \in Origins /\ p \in Permits
               /\ permit[p].origin = fetch[f].origin
               /\ permit[p].expires \in Nat /\ permit[p].expires > now + S
<1> DEFINE o == fetch[f].origin
           p == fetch[f].held[o]
<1>1. /\ p # None /\ permit[p].expires >= fetch[f].deadline + Margin
      /\ now <= fetch[f].deadline + E /\ o \in Origins
      /\ fetch[f] \in Fetch /\ now \in Nat
    BY DEF LimiterInv, TypeOK, OpenCovered, Timely, Running
<1>2. p \in Permits /\ fetch[f].deadline \in Nat
    BY <1>1 DEF Fetch
<1>3. permit[p].expires \in Nat
    BY <1>2 DEF LimiterInv, TypeOK, Permit
<1>4. permit[p] = NoPermit \/ permit[p].origin = o
    BY <1>1 DEF LimiterInv, HeldRows
<1> HIDE DEF o, p
<1>5. permit[p].expires > now + S
    BY <1>1, <1>2, <1>3, LimiterAssumption, PermitMargin
<1>6. permit[p] # NoPermit
    <2>1. permit[p].expires # 0
        BY <1>1, <1>3, <1>5, LimiterAssumption
    <2>2. NoPermit.expires = 0
        BY DEF NoPermit
    <2> QED BY <2>1, <2>2
<1> QED BY <1>1, <1>2, <1>3, <1>4, <1>5, <1>6 DEF o, p

\* release_permit: no open request has the permit of another fetch.
LEMMA ReleaseStep ==
    ASSUME LimiterInv, NEW f \in Fetchers, NEW o \in Origins,
           NEW committed \in BOOLEAN, release_permit(f, o, committed)
    PROVE  LimiterInv'
<1> DEFINE p == fetch[f].held[o]
           r == [fetch[f] EXCEPT !.held[o] = None]
<1>1. /\ fetch[f].st = "release" /\ p # None /\ UNCHANGED <<now, bucket, peak>>
      /\ permit' = IF committed THEN [permit EXCEPT ![p] = NoPermit] ELSE permit
    BY DEF release_permit
<1>2. fetch[f] \in Fetch /\ fetch' = [fetch EXCEPT ![f] = r]
    BY DEF release_permit, LimiterInv, TypeOK
<1>3. /\ r \in Fetch /\ r.st = fetch[f].st /\ r.deadline = fetch[f].deadline
      /\ r.origin = fetch[f].origin /\ r.clock = fetch[f].clock
      /\ r.held = [fetch[f].held EXCEPT ![o] = None]
    BY <1>2 DEF Fetch
<1>4. fetch[f].held \in [Origins -> Permits \cup {None}] /\ p \in Permits
    BY <1>1, <1>2 DEF Fetch
<1> HIDE DEF r
<1>5. /\ fetch' \in [Fetchers -> Fetch] /\ fetch'[f] = r
      /\ \A g \in Fetchers \ {f} : fetch'[g] = fetch[g]
    BY <1>2, <1>3 DEF LimiterInv, TypeOK
<1>6. \A g \in Fetchers :
         /\ fetch'[g].st = fetch[g].st /\ fetch'[g].deadline = fetch[g].deadline
         /\ fetch'[g].origin = fetch[g].origin /\ fetch'[g].clock = fetch[g].clock
         /\ \A q \in Origins : fetch'[g].held[q] \in {fetch[g].held[q], None}
    BY <1>3, <1>4, <1>5
<1>7. /\ permit' \in [Permits -> Permit]
      /\ \A x \in Permits : /\ permit'[x] \in {permit[x], NoPermit}
                            /\ x # p => permit'[x] = permit[x]
    <2>1. NoPermit \in Permit
        BY DEF NoPermit, Permit
    <2> QED BY <1>1, <1>4, <2>1 DEF LimiterInv, TypeOK
<1>8. ASSUME NEW g \in Fetchers, fetch[g].st \in Open
      PROVE  /\ fetch'[g] = fetch[g]
             /\ permit'[fetch[g].held[fetch[g].origin]]
                   = permit[fetch[g].held[fetch[g].origin]]
    <2> DEFINE q == fetch[g].origin
               x == fetch[g].held[q]
    <2>1. g # f
        BY <1>1, <1>8 DEF Open
    <2>2. /\ q \in Origins /\ x \in Permits /\ permit[x].origin = q
          /\ permit[x].expires > now + S /\ permit[x].expires \in Nat
        BY <1>8, OpenPermit
    <2>3. x # p
        <3>1. SUFFICES ASSUME x = p PROVE FALSE
            OBVIOUS
        <3>2. permit[p] = NoPermit \/ permit[p].origin = o
            BY <1>1 DEF LimiterInv, HeldRows
        <3>3. permit[p] # NoPermit
            BY <2>2, <3>1, LimiterAssumption DEF NoPermit
        <3>4. q = o
            BY <2>2, <3>1, <3>2, <3>3
        <3>5. fetch[f].held[o] = fetch[g].held[o]
            BY <3>1, <3>4
        <3> QED BY <1>1, <2>1, <3>5 DEF LimiterInv, HeldOnce
    <2> QED BY <1>5, <1>7, <2>1, <2>2, <2>3
<1> QED BY <1>1, <1>5, <1>6, <1>7, <1>8, PermitsGone

\* expire_permits
LEMMA ExpireStep ==
    ASSUME LimiterInv, NEW t \in 0..(now + S), expire_permits(t)
    PROVE  LimiterInv'
<1> DEFINE stale == {p \in Permits : permit[p] # NoPermit /\ permit[p].expires <= t}
<1>1. /\ permit' = [p \in Permits |-> IF p \in stale THEN NoPermit ELSE permit[p]]
      /\ UNCHANGED <<now, bucket, fetch, peak>>
    BY DEF expire_permits
<1>2. /\ permit' \in [Permits -> Permit]
      /\ \A p \in Permits : permit'[p] \in {permit[p], NoPermit}
    <2>1. NoPermit \in Permit
        BY DEF NoPermit, Permit
    <2> QED BY <1>1, <2>1 DEF LimiterInv, TypeOK
<1>3. ASSUME NEW f \in Fetchers, fetch[f].st \in Open
      PROVE  permit'[fetch[f].held[fetch[f].origin]]
                = permit[fetch[f].held[fetch[f].origin]]
    <2> DEFINE p == fetch[f].held[fetch[f].origin]
    <2>1. /\ p \in Permits /\ permit[p].expires \in Nat
          /\ permit[p].expires > now + S
        BY <1>3, OpenPermit
    <2>2. now + S \in Nat
        BY LimiterAssumption DEF LimiterInv, TypeOK
    <2> HIDE DEF p
    <2>3. p \notin stale
        BY <2>1, <2>2
    <2>4. permit'[p] = permit[p]
        BY <1>1, <2>1, <2>3
    <2> QED BY <2>4 DEF p
<1>4. fetch' \in [Fetchers -> Fetch]
    BY <1>1 DEF LimiterInv, TypeOK
<1> HIDE DEF stale
<1> QED BY <1>1, <1>2, <1>3, <1>4, PermitsGone

-----------------------------------------------------------------------------
(* The theorems                                                            *)

\* The empty tables and the idle fetchers satisfy the invariant.
LEMMA InitInv == Init => LimiterInv
<1> SUFFICES ASSUME Init PROVE LimiterInv
    OBVIOUS
<1> USE LimiterAssumption DEF Init
<1>1. NoBucket \in Bucket /\ NoBucket.tokens <= NoBucket.capacity
    BY DEF NoBucket, Bucket
<1>2. NoPermit \in Permit /\ NoPermit.origin = None
    BY DEF NoPermit, Permit
<1>3. /\ NoFetch \in Fetch /\ NoFetch.st = "idle" /\ NoFetch.clock = 0
      /\ \A o \in Origins : NoFetch.held[o] = None
    BY DEF NoFetch, Fetch, FetchStates
<1>4. TypeOK
    BY <1>1, <1>2, <1>3 DEF TypeOK
<1>5. Timely
    BY <1>3 DEF Timely, Running, Open
<1>6. HeldRows /\ HeldOnce
    BY <1>3 DEF HeldRows, HeldOnce
<1>7. OpenCovered
    BY <1>3 DEF OpenCovered, Open
<1>8. LiveBound
    <2>1. ASSUME NEW o \in Origins
          PROVE  Cardinality(Live(o, now + S)) <= peak[o]
        <3>1. Live(o, now + S) = {}
            BY <1>2 DEF Live
        <3>2. Cardinality(Live(o, now + S)) = 0
            BY <3>1, FS_EmptySet
        <3> QED BY <3>2
    <2>2. \A o \in Origins : bucket[o].max_concurrency <= peak[o]
        BY DEF NoBucket
    <2> QED BY <2>1, <2>2 DEF LiveBound
<1>9. Buckets
    BY DEF Buckets
<1>10. NoBurst
    BY DEF NoBurst, NoBucket
<1> QED BY <1>4, <1>5, <1>6, <1>7, <1>8, <1>9, <1>10 DEF LimiterInv

\* Every step keeps the invariant.
LEMMA StepInv == LimiterInv /\ [Next]_vars => LimiterInv'
<1> SUFFICES ASSUME LimiterInv, [Next]_vars PROVE LimiterInv'
    OBVIOUS
<1>1. CASE Tick
    BY <1>1, TickStep
<1>2. ASSUME NEW f \in Fetchers, FetchStep(f) PROVE LimiterInv'
    <2>1. CASE \E total \in Totals : begin(f, total)
        BY <2>1, BeginStep
    <2>2. CASE redirect(f)
        BY <2>2, RedirectStep
    <2>3. CASE answer_429(f)
        BY <2>3, AnswerStep
    <2>4. CASE finish(f)
        BY <2>4, FinishStep
    <2>5. CASE end(f) \/ kill(f)
        BY <2>5, EndStep
    <2>6. CASE acquire_denied(f)
        BY <2>6, AcquireDeniedStep
    <2>7. CASE \E o \in Origins : acquire(f, o)
        BY <2>7, AcquireStep
    <2>8. CASE \E o \in Origins : send(f, o)
        BY <2>8, SendStep
    <2>9. CASE \E o \in Origins : \E c \in BOOLEAN : release_permit(f, o, c)
        BY <2>9, ReleaseStep
    <2>10. CASE \E p \in Permits, a \in BOOLEAN : acquire_granted(f, p, a)
        BY <2>10, AcquireGrantedStep
    <2>11. CASE \E d \in RetryAfters : block_origin(f, d)
        BY <2>11, BlockStep
    <2> QED
        BY <1>2, <2>1, <2>2, <2>3, <2>4, <2>5, <2>6, <2>7, <2>8, <2>9, <2>10, <2>11
        DEF FetchStep
<1>3. CASE \E o \in Origins, pol \in Policies, t \in now..(now + S) :
              ensure_bucket(o, pol, t)
    BY <1>3, EnsureStep
<1>4. CASE \E t \in 0..(now + S) : expire_permits(t)
    BY <1>4, ExpireStep
<1>5. CASE UNCHANGED vars
    <2>1. UNCHANGED <<now, bucket, permit, fetch, peak>>
        BY <1>5 DEF vars
    <2>2. TypeOK' /\ Timely' /\ HeldRows' /\ HeldOnce' /\ OpenCovered'
        BY <2>1
        DEF LimiterInv, TypeOK, Timely, HeldRows, HeldOnce, OpenCovered
    <2> QED BY <2>1, <2>2, FetchOnly
<1> QED BY <1>1, <1>2, <1>3, <1>4, <1>5 DEF Next

\* The inductive invariant holds in every state.
THEOREM LimiterInvariance == Spec => []LimiterInv
<1>1. Init => LimiterInv
    BY InitInv
<1>2. LimiterInv /\ [Next]_vars => LimiterInv'
    BY StepInv
<1> QED BY <1>1, <1>2, PTL DEF Spec

\* Rows keep their shape and no bucket holds more than its capacity,
\* whatever policies ensure_bucket is called with and however clocks jump.
THEOREM BucketsWithinCapacity == Spec => []TypeOK
<1>1. LimiterInv => TypeOK
    BY DEF LimiterInv
<1> QED BY <1>1, LimiterInvariance, PTL

\* R-53 for any number of replicas: open requests to an origin never exceed
\* the largest max_concurrency it was given.
THEOREM InFlightBounded == Spec => []InFlightBound
<1>1. LimiterInv => InFlightBound
    BY RequestsBounded
<1> QED BY <1>1, LimiterInvariance, PTL

\* A blocked origin has no tokens left over for the end of its block.
THEOREM NoBurstAfterBlock == Spec => []NoBurst
<1>1. LimiterInv => NoBurst
    BY DEF LimiterInv
<1> QED BY <1>1, LimiterInvariance, PTL

\* No block is moved back, whoever steps.
LEMMA BlocksGrow ==
    ASSUME LimiterInv, [Next]_vars, NEW o \in Origins
    PROVE  bucket[o].blocked_until <= bucket'[o].blocked_until
<1>0. /\ bucket \in [Origins -> Bucket] /\ bucket[o].blocked_until \in Nat
      /\ \A q \in Origins : bucket[q].tokens <= bucket[q].capacity
    BY DEF LimiterInv, TypeOK, Bucket
<1>1. CASE UNCHANGED bucket
    BY <1>0, <1>1
<1>2. CASE \E q \in Origins, pol \in Policies, t \in now..(now + S) :
              ensure_bucket(q, pol, t)
    <2>1. PICK q \in Origins, pol \in Policies, t \in now..(now + S) :
                 ensure_bucket(q, pol, t)
        BY <1>2
    <2>2. CASE bucket[q].exists
        BY <1>0, <2>1, <2>2 DEF ensure_bucket, Bucket
    <2>3. CASE ~bucket[q].exists
        <3>1. bucket[q].blocked_until = 0
            BY <2>3 DEF LimiterInv, Buckets, NoBucket
        <3> QED BY <1>0, <2>1, <2>3, <3>1 DEF ensure_bucket
    <2> QED BY <2>2, <2>3
<1>3. ASSUME NEW f \in Fetchers, acquire_denied(f) \/ \E p \in Permits, a \in BOOLEAN :
                                     acquire_granted(f, p, a)
      PROVE  bucket[o].blocked_until <= bucket'[o].blocked_until
    <2> DEFINE q == fetch[f].origin
    <2>1. q \in Origins
        BY <1>3, Asking DEF acquire_denied, acquire_granted
    <2>2. CASE acquire_denied(f)
        BY <1>0, <2>1, <2>2 DEF acquire_denied, Bucket
    <2>3. CASE \E p \in Permits, a \in BOOLEAN : acquire_granted(f, p, a)
        BY <1>0, <2>1, <2>3 DEF acquire_granted, Bucket
    <2> QED BY <1>3, <2>2, <2>3
<1>4. ASSUME NEW f \in Fetchers, NEW d \in RetryAfters, block_origin(f, d)
      PROVE  bucket[o].blocked_until <= bucket'[o].blocked_until
    <2> DEFINE q == fetch[f].origin
               until == fetch[f].clock + d
    <2>1. bucket' = [bucket EXCEPT ![q] = Blocked(bucket[q], until)]
        BY <1>4 DEF block_origin
    <2>2. fetch[f].clock \in Nat
        BY DEF LimiterInv, TypeOK, Fetch
    <2>3. until \in Nat
        BY <2>2, LimiterAssumption
    <2> HIDE DEF q, until
    <2>4. CASE q = o
        <3>1. bucket'[o] = Blocked(bucket[o], until)
            BY <1>0, <2>1, <2>4
        <3> QED BY <1>0, <2>3, <3>1, BlockedType
    <2>5. CASE q # o
        BY <1>0, <2>1, <2>5
    <2> QED BY <2>4, <2>5
<1> QED BY <1>1, <1>2, <1>3, <1>4
    DEF Next, vars, FetchStep, Tick, begin, redirect, answer_429, finish, end, kill,
        acquire, send, release_permit, expire_permits

\* Only acquire_granted makes a permit, and only when the block is over by
\* the caller's clock.
LEMMA GrantsWait ==
    ASSUME LimiterInv, [Next]_vars, NEW o \in Origins, NEW p \in Permits,
           permit[p] = NoPermit, permit'[p].origin = o
    PROVE  bucket[o].blocked_until <= now + S
<1>1. NoPermit.origin # o
    BY LimiterAssumption DEF NoPermit
<1>2. permit'[p] # NoPermit
    BY <1>1
<1>3. permit \in [Permits -> Permit]
    BY DEF LimiterInv, TypeOK
<1>4. CASE \E f \in Fetchers, x \in Permits, a \in BOOLEAN : acquire_granted(f, x, a)
    <2>1. PICK f \in Fetchers, x \in Permits, a \in BOOLEAN : acquire_granted(f, x, a)
        BY <1>4
    <2> DEFINE q == fetch[f].origin
               t == fetch[f].clock
    <2>2. /\ q \in Origins /\ t \in Nat /\ t <= now + S /\ now \in Nat
          /\ bucket[q] \in Bucket
        BY <2>1, Asking DEF acquire_granted
    <2>3. permit' = [permit EXCEPT ![x] = [origin |-> q, expires |-> t + Lease]]
        BY <2>1 DEF acquire_granted
    <2>4. bucket[q].blocked_until <= t
        BY <2>1 DEF acquire_granted, Grantable
    <2> HIDE DEF q, t
    <2>5. p = x
        BY <1>2, <1>3, <2>3
    <2>6. q = o
        BY <1>3, <2>3, <2>5
    <2>7. bucket[o].blocked_until \in Nat
        BY <2>2, <2>6 DEF Bucket
    <2> QED BY <2>2, <2>4, <2>6, <2>7, LimiterAssumption
<1>5. CASE UNCHANGED permit
    BY <1>2, <1>5
<1>6. CASE \E f \in Fetchers, q \in Origins, c \in BOOLEAN : release_permit(f, q, c)
    BY <1>2, <1>3, <1>6 DEF release_permit
<1>7. CASE \E t \in 0..(now + S) : expire_permits(t)
    BY <1>2, <1>7 DEF expire_permits
<1> QED BY <1>4, <1>5, <1>6, <1>7
    DEF Next, vars, FetchStep, Tick, begin, redirect, answer_429, finish, end, kill,
        acquire, send, acquire_denied, block_origin, ensure_bucket

\* A 429 stands: its block is never shortened, by a later 429 or by
\* ensure_bucket, and no fetcher gets a permit before it is over.
THEOREM BlocksRespected == Spec => BlockRespected
<1>1. LimiterInv /\ [Next]_vars =>
         [\A o \in Origins :
             /\ bucket[o].blocked_until <= bucket'[o].blocked_until
             /\ \A p \in Permits : permit[p] = NoPermit /\ permit'[p].origin = o
                   => bucket[o].blocked_until <= now + S]_vars
    BY BlocksGrow, GrantsWait
<1> QED BY <1>1, LimiterInvariance, PTL DEF Spec, BlockRespected
=============================================================================
