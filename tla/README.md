# A TLA+ model of the collector's control plane

The collector is a set of Python worker processes that crawl, parse, project and
publish records. They share no memory: everything they agree on is in PostgreSQL
(queues, leases, instance rows, entity versions, outbox, rate limits, upload
claims), with object storage and MongoDB as the stores of the data itself. What
is hard in this code is the same everywhere: a lease that can run out while its
holder is still at work, a database call that may have committed although the
caller saw it fail, two systems without a common transaction, and asyncio
coroutines that use after an `await` what they read before it. The modules here
model those parts, TLC checks them on small instances, and TLAPS proves the
central ones for all instances.

Paths below are relative to `src/src/collector/`; `pg/` stands for
`persistence/postgres/`.

## 1. Inventory

| Component | State | Operations | Talks to |
|---|---|---|---|
| **Crawl job queue** `pg/repositories/queue.py` | `crawl_jobs` (status, attempt, lease, not_before), `dead_letters` | enqueue, claim, heartbeat, complete, retry, quarantine, release, recover_expired_leases | workers (claim, heartbeat, report), scheduler (recover), operator (quarantine) |
| **Worker runtime** `workers/runtime.py` | process memory: `_active`, `_fenced`, `_drain_barrier`, `_last_heartbeat_ok`, `_stop`; its `worker_instances` row | boot, claim loop, `_execute`, heartbeat tick, watchdog, drain | queue backends, pools repository, handlers |
| **Worker instances and pools** `pg/repositories/pools.py` | `worker_pools`, `worker_instances`, `scale_commands` | register, heartbeat_instance, set_instance_status, mark_stale_instances, request_scale, transition_scale_command | runtimes, controller, scheduler |
| **Queue backends** `workers/backends.py` | none of their own | adapt the crawl queue and the projection tasks to the runtime | runtime, repositories |
| **Projection pipeline** `pg/repositories/projection.py`, `reconciliation.py` | `entity_index` versions, `parsed_artifacts`, `projection_tasks`, `projection_acknowledgements`, `change_events`; Mongo documents and receipts | record_parse_result, claim/heartbeat/retry/release/quarantine/recover, acknowledge_projection, list_stale_projection_tasks | parsers, projectors, reconciler, outbox, Mongo |
| **Transactional outbox** `pg/repositories/outbox.py` | `outbox_events` | add, fetch_unpublished, mark_published, mark_failed, unpark, purge_published | projection pipeline, publisher |
| **Scheduler** `workers/scheduler.py`, `workers/advisory.py` | the advisory-lock connection, tick due times | run loop, activation, lease check, ticks (recover expired leases, mark stale instances, further registered ticks) | queue, projection tasks, pools |
| **Origin limiter and permits** `pg/repositories/limiter.py`, `fetch/permits.py`, `fetch/client.py` | `origin_rate_buckets`, `origin_rate_permits`; the permits a `fetch()` holds | ensure_bucket, acquire, release, expire, block_origin, one request per hop | fetch client, scheduler |
| **Artifact upload** `pg/repositories/artifacts.py`, `storage/` | `artifact_upload_claims`, `raw_objects`, `normalized_artifacts`, the object store | acquire, upload, commit, release, expire, sweep | fetch handler, maintenance |
| **Sources, routes, crawl runs** `pg/repositories/sources.py`, `crawl_runs.py` | source and route states, failure counters, cursors, runs | set_*_state, record_route_failure, reset, upsert_cursor, start/finish_run | fetch handler, operator |
| **Fetch pipeline** `fetch/` | none of its own; `fetches`, `raw_objects`, jobs it enqueues | permit, robots, fetch, classify, store | limiter, artifacts, queue |
| **Entity index, audit, partitions** `pg/repositories/entities.py`, `audit.py`, `pg/partitions.py` | rows | upserts, inserts, DDL | projection, maintenance |
| **Translation** `translation/` | the translation memory | detect, segment, plan, execute, preserve | the provider, other articles through the memory |
| **Contracts, Mongo schema, migrations, CLI, health API, deployment** | schemas and DDL | validation, wiring | all |

What each part must get right, and what makes it hard:

* *Queue*: one owner per job, exact attempt counting, one dead letter, final
  statuses final. Hard: two claimers in one instant, owners that come back after
  their lease went to someone else, an operator in between.
* *Runtime*: stop working on a job within a bounded time after its lease was last
  confirmed; take no work once a drain is asked for; exit in bounded time and cleanly;
  keep no slot for work that is over. Hard: every database call is an interleaving
  point and an ambiguous failure, and a job may come back while its first coroutine
  has not ended.
* *Projection*: dense versions per entity, the confirmed version is one that Mongo
  has, one change event per change. Hard: Mongo and PostgreSQL commit separately,
  versions are applied out of order, the reconciler races the worker.
* *Outbox*: at-least-once, bounded, nothing stuck. Hard: publishers that are slow
  or dead, reports after the visibility lease.
* *Limiter*: no more concurrent requests per origin than its limit. Hard: clocks of
  several hosts, permits that expire under a running request.
* *Artifact upload*: a committed reference always points at an object. Hard: PUT and
  DELETE outside any transaction, which may arrive after their senders have given up or
  died; taken-over claims.
* *Scheduler*: one active scheduler, one query at a time on its lease connection, a
  successor when it is gone. Hard: a tick is cancelled while its shielded lease check
  is on the wire; sessions end without notice.
* *Pools*: every revision has one writer and one audit entry; `applied` means that the
  instances have read it. Hard: concurrent boots, repeated requests, heartbeats written from
  an older read.
* *Sources and fetch*: the audit trail explains the rows; a fetcher does not override
  an operator; success means stored content. Hard: minutes pass between the preflight
  and the record of the answer, and the state before is read in another statement.
* *Translation*: the published text has all markup, nothing protected is sent and
  nothing foreign is left. Hard: malformed nesting, cuts in long runs, memory entries
  that other articles wrote, partial answers of the provider.

`PROJECT.json` lists the hazards line by line.

## 2. Modules

| Module | Models | Extended by |
|---|---|---|
| `JobService` | what the queue promises: the abstract specification | instantiated by `CrawlQueue` |
| `CrawlQueue` | the queue repository, one action per function | `CrawlQueueProofs`, `MCCrawlQueue` |
| `LeaseFencing` | leases against a clock: claim, execution, heartbeat, watchdog, report, recovery | `LeaseFencingProofs`, `MCLeaseFencing` |
| `WorkerRuntime` | a whole worker process against its row, the controller and the queue | `WorkerRuntimeProofs`, `MCWorkerRuntime` |
| `WorkerPools` | a pool, its revisions, its instances and its scale commands | `WorkerPoolsProofs`, `MCWorkerPools` |
| `SchedulerLease` | the singleton scheduler, its lease connection and its ticks | `WorkerPoolsProofs`, `MCSchedulerLease` |
| `Projection` | parse result, projection task, Mongo, acknowledgement, reconciler, completeness, retention | `ProjectionProofs`, `MCProjection` |
| `Outbox` | the domain topic of the outbox and its publishers | `ProjectionProofs`, `MCOutbox` |
| `OriginLimiter` | token buckets, leased permits, blocks, and the fetches that use them | `OriginLimiterProofs`, `MCOriginLimiter` |
| `ArtifactUpload` | upload claims, claimed uploads, the orphan sweeper and the object store | `FetchHandlerProofs`, `MCArtifactUpload` |
| `FetchRules` | classification of answers, validators, robots evidence, task results (operators) | `SourceRoutes` |
| `SourceRoutes` | source and route rows, policy versions, circuit breaker, audit trail, operators | `FetchHandler` |
| `FetchHandler` | the `fetch.http` handler over `SourceRoutes`: the composition of fetchers and operators | `FetchHandlerProofs`, `MCFetchHandler` |
| `Segmenter` | the HTML segmenter, one action per parser event | `Translation` |
| `Languages` | language decisions of articles and segments (operators) | `Translation` |
| `Translation` | planning and execution over the segmented document and the memory | `TranslationProofs`, `MCTranslation` |

Three proof modules extend two components each, because the parts meet there: the outbox
is written by the acknowledgement of a projection, the scheduler keeps the pools, and the
fetch handler uploads. The specifications that are extended together have names of their
own (`OutboxSpec`, `SchedulerSpec`, `UploadSpec`).

The comment `Seeded fault` marks a variant of the definition after it that contains
a plausible mistake; no specification uses it. It documents which mistake the
property listed for it in `PROJECT.json` (`mutants`) detects.

### CrawlQueue

One record per idempotency key (`ON CONFLICT DO NOTHING` makes the key the identity
of the job). Repository functions are transactions of their caller and become one
action each; `claim` becomes two (`claim_select`, `claim_commit`/`claim_rollback`),
because its row locks outlive the statement and SKIP LOCKED makes them visible to
other claimers as an absence. `recover_expired_leases` and the single-row updates
lock and update in one statement. Callers are unrestricted: any owner may call any
function for any job, whether it holds the job or not; the predicate `owned` is what
stops it. `IsBatch` is `ORDER BY priority DESC, not_before, job_id LIMIT n`. The
variable `burned` is history: attempts really used up by a failure or an expiry.
`release` covers both a planned drain and a defer.

`JobService` is the promise without rows, clocks and locks: a job waits, is held by one
owner, and ends once; `tries` counts used-up attempts. `CrawlQueue` instantiates it:
`Stage` maps the status (a quarantined row is `exhausted` or `discarded` by its dead
letter), and `UsedUp` is `attempt` without the attempt in progress, which `claim` counts
ahead of time. `ImplementsJobService` says that every step of the queue is a step of the
service or none: a late call of an owner that lost its lease, an expiry during a claim
or an operator's quarantine never moves a job in a way the service does not know.
`JobService` has no bound on `Lose`, because the code has none (section 5).

### LeaseFencing

The same lease seen from the process that holds it, with one integer clock that stops
for nobody: it may advance between any two steps, so a statement may take any time and
the watchdog may come any time late. The one bound is the one the code enforces,
`wait_for` around a heartbeat tick: a tick that resumes more than `D`
(`heartbeat_tick_budget`) after its clock reading does not confirm. That bound takes
from `docs/workers.md` (section 5, rule 1) that handlers do not block the event loop;
`wait_for` is a timer of that loop.

A database call is three steps (start, commit, resume), and may fail before or after
its commit; `claim_begin`, `claim_commit` and `claim_resume` are those of `_claim`, whose
clock reading lies between the first two. `active[w][j]` is the entry of `_active`,
`task[w][j][h]` a coroutine: a job can have several at once in one process, because
`Requeue` contains 0 (a defer to a moment already past is a defer to now) and because
any expired lease may be recovered and claimed again. `execute_end` pops the entry of the
job, whichever coroutine it belongs to. A cancelled coroutine's report may still take
effect. `watched` is when the watchdog last ran, and `sure` is history: of a job in
`_active` the later of the start of its coroutine and the clock reading of the last tick
that extended its lease. `kill` is SIGKILL: a restarted container is a new instance id,
so the process does not come back.

### WorkerRuntime

The complete process, without the clock: `_boot` with its retries, the claim loop
with `_claim_allowed` (FOR SHARE on the instance row, held from `_claim_allowed` to
`claim_commit`), `_start`, `_execute`/`_report`, the heartbeat tick with what it
writes and reads back, the fence, SIGTERM and the phases of `_drain`, and the exit.
A transaction takes effect in one step; a call whose caller is cancelled while the
commit is on its way commits before the cancellation or not at all, both of which
are behaviours of the model. `active[w][j]` is the entry of `_active`; `task[w][j][h]`
is a coroutine, so that one job can have two coroutines while only one has the entry.
`Handles` bounds the coroutines of a job in a process.
`overdue` says that `fence_after` may have passed since the last confirmation.
`recover_expired_leases` takes any lease, since any may be found expired; a report may
put its job back for now, and `ripen`, the passing of `not_before`, waits for nothing.
Left out: `slots` and
`active_leases` columns (informational), the `_status == "starting"` branch of the
heartbeat (unreachable after a successful boot), metrics and logging.

### WorkerPools

One pool. `upsert_pool`, `request_scale` and `transition_scale_command` with their
revision checks; the boot of an instance (`ensure_pool`, `create_pool` with the lost
INSERT race, `register_instance`, which writes the pool's concurrency as it is), its
heartbeat as a read of the pool and a later write, capped at `MaxSlots`, status changes
and staleness. `request_scale` is a step per statement that can
see another transaction: the first lookup of the key, the wait for the row lock, the
second lookup, the write; its answer may be lost, and clients repeat. `trail` is the
audit log. A process that dies takes no more steps; a failed heartbeat is one whose read
is repeated. `InstanceTargets` and `CommandTargets` say which statuses callers ask for.
`upsert_pool` does not supersede commands, and neither does the model.

### SchedulerLease

Processes with one lease connection each. A query is sent and answered in two steps,
because the session may end in between; `_lease_check` is `mutex`. The loop
(`try_activate`, `send_check`), a domain tick's `lease_is_ours()` (`tick_asks`) and the
final release share the connection; `tick_times_out` is `wait_for` cancelling a tick
whose shielded check goes on (`detached_answered`). Sessions are terminated, processes
die and are started again, and the server may notice later. The first tick of a pass
follows the check of the loop; the ones after it re-check, as `_run_due_ticks` does.
`activate_fails` is an attempt that fails after `pg_try_advisory_lock` has succeeded: the
connection is closed into the pool, and with it the lock (`leaked`), or it was broken and
its session ends. The process itself gets the lock again: an advisory lock is re-entrant
for its session, SQLAlchemy's queue pool hands connections out in turn, and a process that
is not active uses none for anything else. The lock then counts two, `release` unlocks
once, and the rest goes when the engine is disposed (`release_answered`).

### Projection

`upsert_entity` may be repeated at any time. `record_parse_result` is two steps, its
entity-row lock and its commit, so that two parsers of an entity meet. A parse brings one
of `States`, so two parses of an entity may bring the same artifact or different ones, and
a repeated parse may bring another state than before (a conflict). Projectors claim tasks,
apply them in Mongo (`project`, external: the receipt and the conditional update of the
current document, as the contract of `contracts/projection.py` and the acknowledgement
read them), and acknowledge, with the receipt checked against the task and against an
earlier acknowledgement. Any lease may expire at any time. The reconciler lists a stale
task in one transaction and acknowledges it in another, without a lease.
`projection_completeness` is the report of `reconciliation.py`. `purge_published` is
retention of the internal topic.

### Outbox

Rows of the domain topic with their two counters, and publishers that fetch, deliver
outside any transaction, report, are slow, or die. The publisher itself is not in the
repository and follows the cycle the module's docstring gives. Times are remaining
times, so the state space is finite without a bound on the clock.

### OriginLimiter

`pg/repositories/limiter.py` together with the part of `fetch/client.py` that lives
under a permit. `acquire_permit` and `block_origin` are two steps, because both use a
clock reading from before they wait for the bucket's row lock; the others read and
write in one. Each fetcher's host has its own clock, ahead of the reference by at most
`S`; expiry is judged on the clock of whoever judges it. A fetch holds at most one
permit per origin and keeps it over redirects; `send` is the margin check
(`permit_lease_too_short`) with the request it admits; a request is open until the
response is closed, at most `E` after the deadline of `asyncio.timeout`. The answer of
`acquire_permit` may be lost, `release_permit` may fail, a process may be killed, and
`expire_permits` may run at any time. Tokens are counted in `TOKEN_QUANTUM`, and
refill is rounded down as in `_refilled_tokens`. `peak` is history: the largest
`max_concurrency` an origin was ever given. `ensure_bucket` and `expire_permits` have
no caller in the repository yet; their docstrings give them to the scheduler. The
operator's call of `block_origin` and `live_permit_count` (read-only) are left out.

### ArtifactUpload

One object key: keys are content-addressed, so every writer of a key writes the same
bytes, and nothing done to one key depends on another. Repository calls are single
transactions on the claim row and one action each; PUT, HEAD and DELETE are steps of
their own, outside any transaction. An upload is `acquire`, `put`, `head`,
`commit_reference` (the claim and the caller's reference in one transaction), or the
way through a committed claim (`committed_claim`, `head`, `reference_again`); it may
fail at each step, and a PUT without its caller may land at any later time (`stray`).
The answer of `acquire_upload_claim` may be lost. A sweep is `list`, `sweep_acquire`,
`delete`, `release_claim`. The answer to a DELETE says little: whether it returned or
failed, it may have arrived, may arrive later (a request the client gave up or sent
again), or both, and the claim is released in either case. `late` are the generations
of DELETEs that may still arrive at any time, also those of dead sweepers; `overtaken` is
history: a DELETE arrived after its claim had passed to a new generation, and the object
has not been PUT since. `Owner` maps actors to owners: coroutines of a process share
one, and with it the claim and its generation. Each host's clock is ahead of the
reference by at most `Skew`, and the clock stops for nobody. A reading taken before the
wait for the row lock acts like a clock that is behind: in `acquire_upload_claim` it
refuses more and leases for less, and in `commit_reference` owner and generation decide.
`expire_claims` takes any reading. One assumption is left to the configuration,
`SweeperOwner`: a sweeper shares its owner with nobody. One that did would only extend a
live claim of the other and work under the same generation. Claim
rows are never removed: the repository has no retention for them.
`sweep_orphans` and `expire_claims` have no caller in the repository yet.

### FetchRules, SourceRoutes, FetchHandler

`FetchRules` are the pure decisions: status and error to outcome, which answers carry
validators or count as robots evidence, outcome to disposition. `SourceRoutes` keeps one
source with one route. `set_source_state` and `set_route_state` are two steps, since the
state before is read in a statement of its own; the conditional UPDATE then compares
revisions. Operators act from forms that show an older revision. `record_route_failure`
and `reset_route_failures` lock or update the row at once; the former has no caller in the
repository yet and is a step of its own.

`FetchHandler` adds workers. `handle()` is cut at its awaits: preflight (with
validators), robots snapshot, answer, record, report. A request has no effect on the
database, so the step that decides to send it also takes its answer; the origin may be
at any version each time, and answers 304 exactly to the validators of its version. The
history in `fetches` is kept by what its queries return. Commits may be lost, answers of
commits may be lost, workers die, upload claims are busy, permits are denied. Permits
and upload claims themselves are in `OriginLimiter` and `ArtifactUpload`.

### Segmenter, Languages, Translation

`Segmenter` is the state machine that `html.parser` drives: one action per event, with
implied end tags, protected regions and their closers, the inline run, and the cuts of
long runs at ends of sentences outside tag pairs. Text consists of atoms <<event,
position>> of the kinds white space, word, number, end of sentence; each atom of a
document is distinct, so that loss, duplication and reordering are visible.
`Languages` decides articles and segments from metadata, `lang`, inheritance and the
classifier, whose verdict is nondeterministic. `Translation` plans a document, looks the
keys up in a memory that other articles have written under the same normalised hash,
asks the provider (per language batch, which may come back short), validates each text
(placeholders, tag pairs, numbers) and assembles. A provider's text is reduced to the
order of placeholders in it. The tag sets are those of `segmenter.py` reduced to a few
members of each class. Left out: `translate_attributes` (empty by default), CDATA
inside scripts, title and lead as fields of their own, glossary terms.

## 3. Runs

| Run | Instance | Shows |
|---|---|---|
| `crawl_queue` | 2 jobs (max_attempts 1 and 2), 2 owners, lease 1, clock to 4 | claim exclusion, attempt accounting, refinement of `JobService` |
| `lease_fencing` | 1 instance, 1 job, 2 coroutines, L = D = 2, F = 1, requeue after 0 or 1, clock to 5 | the fence window, and how far a task outlives its lease |
| `worker_runtime` | 1 process, 2 jobs, desired 1 or 2, `MaxSlots` 1, claim batch 2 | drain barrier, drain intent, slot ceiling |
| `worker_liveness` | 1 process, 1 job, 2 coroutines of it, desired 2, `MaxSlots` 2 | live entries, clean exit; termination and end of lost work under fairness |
| `worker_pools` | 2 instances, 2 clients, 2 keys, 3 revisions, `MaxSlots` 2 | revisions and audit, repeated requests, confirmed application |
| `scheduler_lease` | 2 schedulers, maintenance and 1 domain tick, 3 faults | one query, ticks under the lease, release, take-over |
| `projection` | 1 entity, 2 parses, 2 states, 2 parsers, 2 projectors | confirmation, events, completeness, retention |
| `outbox` | 1 event, 3 publishers | at-least-once, bounded deliveries, settlement |
| `origin_limiter` | 1 origin, 2 fetchers with clocks 0 and 1, 3 permits, 2 policies, clock to 4 | concurrency limit, blocks |
| `artifact_upload` | 1 key, 3 uploads (two of one process), 1 sweeper, leases of 1, 4 generations, clock to 4 | references have objects, generations are fencing tokens |
| `fetch_handler` | 1 source, 1 route, 1 operator, 2 workers, 2 jobs, 2 versions | audit chain, decisions kept, success has content |
| `translation` | documents of up to 5 events over 6 start tags, 4 end tags, 1 empty tag, 2 texts; 2 executions | segmentation and assembly |

Why the bounds suffice for the interesting cases. `crawl_queue`: two rows make priority
and LIMIT matter, two owners make every stale-owner call possible, and four clock units
are enough for lease, expiry, second lease, second expiry and a delayed requeue;
max_attempts 1 and 2 reach both branches of `retry`. `lease_fencing`: the constants have
the proportions of the default configuration, and a clock of 5 spans a claim, failed
ticks, the fence, D + F past the last extension, expiry and a second claim. One instance
suffices because another one touches it only through the row: read "leased to another" as
"free", and its claims, ticks and requeues are stutterings and its other reports
quarantines of this instance's model. The proofs have any number of both.
`worker_runtime`: desired 2 with `MaxSlots` 1 and a claim batch of 2 makes every cap bind.
`worker_liveness` has what this run leaves out, two coroutines of one job at a time, of
which the second loses its entry to the first. Symmetry is over jobs (a claim takes an
arbitrary subset, nothing orders them). `worker_liveness` uses no symmetry. `projection`:
two parses of one entity with different states can be applied in either order; three
claims per task reach the attempt limit, a release and a loss; entities do not interact;
two states are the same artifact twice or a change, and a change back. Symmetry is over
parses, states, parsers and workers. `outbox`: three publishers allow a lease holder, a
late reporter and a new fetcher at once. `origin_limiter`: a margin of 2 is the smallest
that exceeds S + E = 1; fetches of total timeout 1 and 3 under a lease of 3 are ones the
margin check lets through and ones it refuses; three permits are one more than the largest
`max_concurrency`; a block of 2 begins and ends within the clock bound. `artifact_upload`:
two uploads with one owner and one with another make every sharing and takeover of a
generation possible; with leases and grace of 1, four clock units hold an upload that
expires, the sweep, its expiry and an upload after it under which the late DELETE arrives,
and four generations suffice for that. Symmetry is over the two uploads of one process,
which differ in nothing. `worker_pools`: two keys supersede each other, one call per
client is repeated by the other client with the same key, and three revisions hold the
bootstrap and two writers; the keys ask for different concurrency and the operator for a
third, above `MaxSlots`, so that old and capped settings show. `scheduler_lease`: three
faults are a lost session, a dead process and one more during the take-over, or two and a
failed activation; one domain tick after maintenance is the shortest pass with a re-check.
`fetch_handler`: a threshold of 1 opens the circuit at once, so that failure counter, 403
and operator meet within three revisions of the route; one version is an ordinary page and
one a media binary; jobs are pages, robots files and an unknown kind. Symmetry is over
jobs and over workers. `translation`: five events hold an open and a close with text
between them, inside and after another element; a segment limit of three atoms cuts a run
of two texts; documents of up to three events are planned and executed twice, the longer
ones only segmented. Three events give two segments, or a segment with one pair of tags;
two pairs would take four tags, so this run does not reach the clause of `MarkupKept` that
pairs do not cross. `PublishedIsValidated` proves for any document that nothing is
published which `validate_preservation` has not passed.

`CHECK_DEADLOCK FALSE` is set where the instance really may stop: at the bounds on clocks,
revisions, attempts, calls and documents, and in `WorkerRuntime` and `SchedulerLease` when
the processes have exited.

**Fairness.** `WorkerRuntime`: the event loop resumes every coroutine that can continue;
a database call ends, because of `statement_timeout` and the tick budget, but may fail
every time; handlers obey cancellation and need not return otherwise. No fairness for
signals, the controller, the scheduler or the return of a handler. `Outbox`: time passes
and some publisher keeps fetching; nothing obliges it to deliver or survive.
`SchedulerLease`: a query is answered or fails (the engine's `command_timeout`,
`cli.py:567`; the lease connection has no `statement_timeout`), a tick ends
(`wait_for`), a waiting scheduler tries again (`lease_retry_seconds`), and PostgreSQL
ends the sessions of clients that are gone; nothing obliges a tick to end before its
time-out, and `SomeoneActive` does not ask for a scheduler when all are told to stop
again and again.

## 4. Proofs

`CrawlQueueProofs` proves for every set of keys, owners, priorities, limits, delays
and every clock bound (under `QueueAssumption`) the type invariant, `NoDoubleClaim`,
`OneDeadLetter`, `AttemptAccounting`, `SpentBeforeDeadLetter` and the action
properties `TerminalForever` and `NoLeaseHandover`. The invariants are not inductive
alone: that a quarantined row has exactly one dead letter needs that rows which were
never enqueued have none, and that a late commit of `claim` does not touch a finished
row needs `NoDoubleClaim`. `QueueInv` is their conjunction with the type invariant and
`FreshKeys` (a key that was never enqueued has no history). One lemma per action shows
it preserved.

`LeaseFencingProofs` proves `FenceWindow`, `OverrunBounded` and the type invariant for
every number of instances, jobs and overlapping coroutines and all values of `L`, `F`,
`D` and `Requeue`; no margin between them is assumed. `FenceWindow`: whenever the
watchdog has looked and a task is still in `_active`, the last confirmation was less
than F old. `OverrunBounded`: it was then less than D + F after the start of the task or
after the clock reading of the last tick that extended its lease. The factor D is real:
`_last_heartbeat_ok` is taken when a tick resumes and not when it read its clock, and a
task started while a tick was on its way is not covered by that tick.

By default D = L = 2F (`config.py:46,50,182,196`). A task whose lease a tick gave it may
therefore work on after the lease has ended and another instance may have the job, but
the watchdog ends that before F has passed. The first lease of a task is older than
its start by what the claim took, each statement of which the engine's
`command_timeout` = F bounds (`cli.py:548`, `config.py:214`). That is the narrow window in
which `docs/workers.md:79-80` and ADR-0006 (lines 129-134) call double execution possible
and require idempotent handlers: there is no theorem that excludes it, because the code
does not. To the bound comes the time until the watchdog really runs, normally F/4.

The inductive invariant `FenceInv` has four parts per instance: clock readings are in the
past (`Clocks`); a fenced instance has no entry, and an unfenced one was last looked at
less than F after its last confirmation (`Fence`); the tasks that a tick under way does
not know, or has found to be its own, started or were extended no earlier than the tick's
clock reading (`Beat`); and a task is at most D older than the last confirmation (`Sure`).
`Beat` is what makes `Sure` inductive: when a tick confirms, it abandons the others.

`OriginLimiterProofs` proves `InFlightBound`, `NoBurst`, `BlockRespected` and that no
bucket exceeds its capacity, for every number of origins, fetchers, permits and
policies, and all leases, timeouts and clocks that satisfy `PermitMargin`: S + E <
Margin. With the default margin of 1 s, clocks of different hosts and the closing of a
cancelled request together must stay below one second; that is what the constant in
`fetch/client.py` stands for. The argument: an open request holds a permit that
outlasts its deadline by the margin (`OpenCovered`), so that no clock sees it expired
while the request is open (`Timely`); two requests never hold the same permit
(`HeldOnce`); and the permits no clock sees expired are within the limit (`LiveBound`),
because whoever granted the last one counted at least these on its own clock. The open
requests inject into them. `HeldRows` and `Buckets` (a held permit is its own row, an
origin with permits has a bucket) close the induction. The rate itself is not among
the theorems: it does not hold (section 5).

`FetchHandlerProofs` proves of `ArtifactUpload` `ReferenceHasObject`, `TokenUnique` and
the type invariant for any number of uploads, processes and sweepers, under
`UploadAssumption` and `SweeperOwner`, with no bound on how long a PUT or a DELETE is on
its way. The grace of the sweeper is not needed: generations alone protect the upload
between HEAD and commit, and grace only saves work. The argument: no token is newer than
the claim's, and the newest belongs to its owner (`Tokens`), also those of DELETEs that
nobody waits for (`LateTokens`); an upload that would still be allowed to commit has
verified the object under the newest generation (`Verified`). A DELETE sent under that
generation would be of the same owner, but sweepers have their own; one sent under
another has been overtaken, which is the exception `ReferenceHasObject` names. Only an
upload commits (`Committer`), a deduplicated upload started from a committed claim, which
is final (`Deduplicated`), and an existing row has a generation (`Leased`). Without
`Tokens` a takeover could make an old upload's generation current again and break
`Verified`.

`CrawlQueueProofs` also proves the refinement, `QueueServes`: under the mapping of
`CrawlQueue` every step is a step of `JobService` or leaves the service's view alone. The
initial states map to initial states; each action has a lemma that names the service step
it implements. `QueueInv` is needed where the code acts on what it selected before: a
`claim` that commits late can only touch rows that are still queued or whose lease has
ended, and a recovery only leases, so neither can look to the service like a job handed
from one owner to the next.

`ProjectionProofs` proves `ConfirmedIsApplied`, `EventOncePerChange`, `CommandKept`,
`CompleteIsShown` and the type invariant for any numbers of entities, parsers, projectors
and states. The argument starts at the entity lock of `record_parse_result`: while one
parser holds it, nobody else gives out a version, so the versions of an entity are
dense. Each task has then one version, its receipt in Mongo is for that version and its
state, and an acknowledgement that passed the receipt check was for a version Mongo has
applied. The current document is the highest version applied; the confirmed columns are
the highest acknowledged; and the recorded changes form a chain that starts with the
first version and ends with the last. When no task is open, the two ends meet:
`CompleteIsShown`. Neither the order of acknowledgements nor who makes them (projector or
reconciler) is assumed.

Of `Outbox` it proves `NeverLost`, `DeliveryBound` and that a published event is never
handed out again, for any number of events and publishers and every limit
(`OutboxAssumption`). `NeverLost` alone is not inductive: a publisher that reports success
is believed, so its report must follow a delivery (`SentInv`); and the limit on deliveries
is kept by the row's counter, so the counter must be what was really handed out as long as
the row exists (`HandedInv`), and only a parked row may have used up its attempts
(`AttemptsInv`), or `unpark` would not be the only way to more.

`WorkerPoolsProofs` proves `RevisionLedger`, `StaleIsTrue` and the action property
`AppliedConfirmed` for any numbers of instances, clients and keys. The ledger carries the
proof: the revision of the pool is the length of its audit trail, so that a revision
names one entry for good. A process holds a revision the pool has had, with the
concurrency of that entry (`ProcInv`); its row shows no later one; a command names the
entry it was written with (`CommandInv`); and a client sent to its second lookup expects
a revision the pool has left behind (`ClientInv`), which is what makes `stale` true.

Of `SchedulerLease` it proves `OneQuery`, `StartsUnderLease` and that whoever starts a tick
is at that moment the holder of the advisory lock, for any number of schedulers, ticks and
faults (`SchedulerAssumption`: `"none"`, which stands for no holder, is not the name of a
scheduler). `SchedulerInv` says for each process how lock, query and position of control
fit (`LockOk`): the lock is taken exactly where the code has a query in flight, and a
detached check still has it after its tick was cancelled. `HolderInv` ties the connection
to the server's side: a session that works, and one on which a failed activation left the
lock, is the one that holds it.

`WorkerRuntimeProofs` has two layers, for any numbers of workers, jobs and slots.

* The control layer, `ControlInv`: types, `DrainIntent` and the action property
  `DrainBarrier`. It follows the row lock: a claim in flight holds FOR SHARE on the
  instance row from `_claim_allowed` to its commit, so a drain waits for it, and the tick
  in flight writes only a status that the row's intent allows.
* The work layer, `RuntimeInv`: `EntriesAreLive`, `SlotCeiling` and `CleanExit`, with any
  number of coroutines per job. It follows the entries of `_active`, not the coroutines,
  because a coroutine may lose its entry to another one of its job (section 5). An entry
  belongs to a coroutine that has not ended (`ActiveOK`), because whoever ends or cancels a
  coroutine pops an entry of that job first or with it; only a drain that timed out keeps
  entries of cancelled tasks, to release their leases. Slots are counted at the claim
  limit, which reserves what the claim in flight may return (`SlotOK`). The drain's list
  has all the entries there are, since no claim is in flight any more (`DrainOK`), so that
  `_active` is empty when it ends.

`FetchHandlerProofs` proves `AuditChain`, `DecisionKept`, `SuccessHasContent` and the type
invariant for any numbers of operators, fetchers, jobs and versions. Two arguments meet.
The journal: a form or an incident whose revision is still the row's has read the state
of the row (`FormsFit`, `Fits`), because every change of state takes a new revision; so
what it records as the state before is where the chain ended. A preflight that is still
current saw a route that may be fetched, so a fetcher opens only circuits that may be
opened. The content: a version is kept when it is stored or a binary; validators are
always of a kept version (`ValidatorsFit`), so a 304 shows one; any other success brings
its body and stores it in the transaction that records it. Stored versions are never
removed and handlers are only ever compared with later rows, so a handler that fits
stays fit while others work (`FitsLasts`). `FetchAssumption` says of `Failures` that they
are answers which `classify_status` and `classify_error` do not call a success.

`TranslationProofs` proves `RoundTrip`, `TextAccounted` and `NothingLeftForeign` for every
document, every set of tags and texts, any limit on the length of a segment and all
languages, under
`TextsAssumption` (texts are not empty) and `ExtraAssumption` (Ukrainian is no source
language; `parse_extra_source_languages` refuses it).

* `RoundTrip`. The invariant `Reads(p, Atoms)` says that the source so far is, piece by
  piece and in order, what the parts and segments reassemble to, followed by the run,
  followed by the buffer of a protected element (`Whole`); that outside of a protected
  element the buffer is empty, and that a protected block has no run before it (`Good`):
  without the last, `_end_skip` would put the block before text that came earlier. One
  lemma per function of `_Segmenter` shows what it adds to the text read: `_text`,
  `_opaque`, `_start`, `handle_endtag` exactly their event, `_end_skip` and `_flush`
  nothing. Under `_flush` lie the cuts: the run is split at its unmatched edges
  (`ThreeRuns`), each token into sentences, these into units and the units into chunks
  (`ChunksText`), and a chunk loses white space at its edges to the parts (`EmitText`);
  each has the same text, in order, as what it was made of.
* `TextAccounted`. For an atom of the source, `Offered` says that it is text of a segment
  or of the run. Every function of `_Segmenter` but `_text` keeps what is offered, white
  space at the edges of a segment excepted (`Offers`), and `_text` offers its text exactly
  outside of a protected element. What is left is that the machine knows when it is
  outside, in both directions. `Follows` is the first: an element of the source that is
  still open is open in `_Skip` at least as often as its start tags exceed its end tags
  (`Holds`), counted in `depth` if it is the protected element and in `inner` if it is
  inside of it. This needs `SkipOK`: `inner` never has the name of the protected element,
  so an end tag counts the right one down, and an inline element has only inline tags in
  `inner`, so the element counted there is never the block at which an inline one is left.
  `Tracks` is the other: if `_Skip` is on, it is that of an element of the source that has
  not ended (`Since`), counted exactly as long as it has only its own tags in it, and
  with its parent's tag among the closers. That needs the parent to be known when the
  element starts: a start tag with only text after it is on the stack, or among the open
  tags of the run (`KnownOpen`), which are what the recursive function `OpenInline` finds; its
  lemmas say what one more token does to them. At `close` an open element means that
  `_Skip` is on, and the document is marked. Nothing is said of text after a protected
  element with other elements in it whose end tags are missing.
* The loops are inductions over lists. The library's induction theorems cannot be used
  here, but `WFMin` (every set of numbers has a least one) can: `Induct` is induction up
  to n for a *set* of numbers, and `Recursion` that counting up defines a function, from
  which each loop's function gets its defining equation (`IsFold`). The loops of
  `Segmenter` are therefore recursive functions over top-level steps (`AddAtom`,
  `AddToken`, `Join`, ...), one step per pass of the loop in the code.
* `NothingLeftForeign` follows from `PublishedInv`: when an article is done, each segment
  is Ukrainian or has a final text, and each final text is of a segment to translate and
  passed `validate_preservation` for that segment (`PublishedIsValidated`), memory hits
  included.

Several operators were restated for the proofs without changing what they mean: arms of a
`CASE` that could both be true are now disjoint or an `IF` (the code tests them in order;
`CASE` takes any that is true), the early returns of `handle` are the operator `refusal`,
the update a report makes is `Reported`, and `Chain` is stated over positions of the
journal instead of a filtered copy.

The type invariants, `OneDeadLetter`, `SpentBeforeDeadLetter`, `TerminalForever`,
`NoLeaseHandover`, `NoBurst` and `HolderInv` are proved and not among the
properties of the runs: the theorems cover every instance. The inductive invariants were
checked with TLC on small instances before they were proved.

Only model-checked: all liveness (fairness and `ENABLED` are out of the prover's reach),
and of the translation `PairsTogether` and `MarkupKept`, which speak about where in a
segment, or in which one, a piece of markup is.

## 5. Observed while modelling

Behaviours of the code that a maintainer should know, and how the models treat them:

* The attempt limit is looked at in `retry` alone. `recover_expired_leases` and `claim`
  never compare `attempt` with `max_attempts`: a job that takes its worker down each time
  is leased without end and never becomes a dead letter. `JobService!Lose` therefore has
  no limit.
* `_execute` removes its `_active` entry by job id (`workers/runtime.py:549`). A job
  deferred to a past moment, or lost and claimed again, can have a second coroutine in the
  same process before that, and this one then runs without an entry: heartbeat, fence and
  drain do not reach it, the claim loop does not count it, and it may outlive a graceful
  drain. The models contain it; `OverrunBounded`, `SlotCeiling`, `CleanExit` and
  `LostWorkStops` speak about the tasks in `_active`, and their comments say so.
* A heartbeat tick judges the jobs it copied before its transaction. If a job is lost
  and the same instance claims it again before the tick resumes, `_abandon` cancels the
  new task although its lease is held (`runtime.py:733`, `783`); the job then waits for
  that lease to run out.
* Two instances can execute a job at the same time for up to the fence window after its
  lease has ended (section 4); handlers have to be idempotent, as `docs/workers.md` says.
* `sweep_orphans` releases its claim in `finally` whatever became of its DELETE
  (`sweeper.py:69-80`), and nothing bounds a DELETE by the lease, which
  `list_orphan_candidates` asks for ("поки lease sweeper-а живий"). A DELETE that arrives
  after a producer has taken the key over and committed it leaves a reference without an
  object. `ReferenceHasObject` has this one exception, and names it.
* `try_acquire` closes its connection when an attempt fails after the lock was granted
  (`advisory.py:93-97`), where `is_held` and `release` invalidate theirs: the lock stays on
  a pooled session. The process gets it again with its next attempt, so that a scheduler
  still becomes active (`SomeoneActive`); other processes wait for that one meanwhile.
* An instance registers with the pool's concurrency, uncapped (`runtime.py:318`), and only
  its heartbeats report what it can run. A command can become `applied` from a slot number
  the instance will not run; `AppliedConfirmed` therefore says what instances have read.
* `mark_failed` by a publisher whose visibility lease has expired shortens the lease of
  the publisher that has the row now (`outbox.py:208`). Delivery stays at least once and
  bounded; two publishers may deliver at the same time.
* `acquire_permit` writes the clock reading it took before it waited for the row lock to
  `last_refill_at`, also when the row already has a later time (`limiter.py:137`). The
  next caller is then credited an interval that was credited before: replicas that
  contend for an origin, or whose clocks differ, raise its rate above the policy. The
  concurrency limit and blocks are not affected. Refill is also rounded down to 0.0001
  with every denied attempt (`limiter.py:326`); whether frequent polling starves an
  origin depends on its policy.
* A boot whose `ready` was written but not acknowledged repeats it, and so withdraws a
  drain requested in between (`runtime.py:354`); the model contains the step.
* `translation_memory_key` hashes the text with placeholders, not which of them are pairs.
  An entry of another article may so fail `validate_preservation` for this one; a hit is
  not sent to the provider again, and the article stays incomplete for as long as the
  entry exists. Nothing wrong is published (`MarkupKept`).
* `upsert_pool` bumps the revision without superseding active scale commands; such a
  command can still become `applied`. `AppliedConfirmed` states what holds then.
* `upsert_cursor` reads `before_value` without a lock; two writers may record the same
  one.

## 6. Plan

Done: the modules of section 2 and the proofs of section 4. What is left, in the order of
what it would say:

1. `PairsTogether`: the induction over a run that `UnitsText` makes, with where a pair
   stands added to it;
2. `MarkupKept`, from `RoundTrip`, `PublishedIsValidated` and what `mask_segment` does with
   a segment of any length.

## 7. Not modelled

Crawl runs and source cursors (no code of the repository calls them from several actors
yet); URL normalisation, address checks, decoding and metrics of the fetch client, the
n-gram classifier, glossary terms and attribute translation, schema export and
validation: data transformations without shared state. Partitions run DDL; Mongo
schemas and users, migrations, roles, CLI, health API, signal wiring and deployment
files are configuration. The reasons stand with each component in `PROJECT.json`.
