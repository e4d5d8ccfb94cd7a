------------------------------ MODULE WorkerPools ------------------------------
(***************************************************************************)
(* One worker pool (repositories/pools.py): its desired state under an     *)
(* optimistic revision, the boot and the heartbeats of its instances, and  *)
(* the scale commands that an operator requests and a controller carries   *)
(* out.  Each statement that can see another transaction's commit is a     *)
(* step: the lookup of an idempotency key, the wait for the pool's row     *)
(* lock, the second lookup, the pool read of a heartbeat and its write.  A *)
(* process that dies is one that takes no further step.                    *)
(***************************************************************************)
EXTENDS Integers, Sequences, FiniteSets, FiniteSetsExt

CONSTANTS
    Instances,    \* boot UUIDs
    Clients,      \* callers of request_scale
    Keys,         \* idempotency keys
    Want,         \* per key: the requested [replicas, concurrency]
    Default,      \* default_pool_spec of the role, a PoolDesiredState
    States,       \* PoolDesiredStates an operator may write with upsert_pool
    MaxSlots,     \* max_slots of an instance's configuration
    InstanceTargets, \* statuses that callers of set_instance_status ask for
    CommandTargets,  \* statuses that the controller asks for
    MaxRevision,  \* bound on worker_pools.revision
    MaxCalls      \* bound on the calls of request_scale per client

VARIABLES
    pool,     \* the worker_pools row; revision 0: no row
    trail,    \* audit_log of the pool: who wrote each revision, and its concurrency
    cmd,      \* the scale_commands row per key
    client,   \* per client: where request_scale is, what it asked, what it was told
    row,      \* the worker_instances rows
    proc      \* per instance: where its process is, the pool snapshot it last read

vars == <<pool, trail, cmd, client, row, proc>>

SCALE_COMMAND_TERMINAL == {"applied", "failed", "superseded"}
SCALE_COMMAND_TRANSITIONS ==
    [requested             |-> {"draining", "failed", "superseded"},
     draining              |-> {"awaiting_manual_apply", "applying", "failed", "superseded"},
     awaiting_manual_apply |-> {"applying", "applied", "failed", "superseded"},
     applying              |-> {"applied", "failed", "superseded"},
     applied |-> {}, failed |-> {}, superseded |-> {}]

INSTANCE_TRANSITIONS ==
    [starting |-> {"ready", "stopped", "stale"},
     ready    |-> {"draining", "stopped", "stale"},
     draining |-> {"ready", "stopped", "stale"},
     stale    |-> {"ready", "draining", "stopped"},
     stopped  |-> {}]

\* PoolDesiredState.validate, and the CHECKs of worker_pools.
Valid(s) ==
    /\ 0 <= s.min /\ s.min <= s.max
    /\ s.replicas \in s.min .. s.max
    /\ s.concurrency >= 1

\* A PoolDesiredState, its revision apart.
Setting == [replicas : Int, concurrency : Int, min : Int, max : Int]

ASSUME PoolsAssumption ==
    /\ IsFiniteSet(Instances)
    /\ Keys # {} /\ Keys \cap {"upsert", "create"} = {}
    /\ Default \in Setting /\ Valid(Default) /\ States \subseteq Setting
    /\ MaxSlots \in Nat \ {0} /\ MaxRevision \in Nat /\ MaxCalls \in Nat
    /\ InstanceTargets \subseteq {"ready", "draining", "stopped"}
    /\ CommandTargets \subseteq DOMAIN SCALE_COMMAND_TRANSITIONS
    /\ Want \in [Keys -> [replicas : Nat, concurrency : Nat \ {0}]]

NoCommand == [status |-> "none", expected |-> 0, revision |-> 0]
NoRow     == [status |-> "none", slots |-> 0, revision |-> 0, fresh |-> FALSE, drain |-> FALSE]
Init ==
    /\ pool = [replicas |-> 0, concurrency |-> 0, min |-> 0, max |-> 0, revision |-> 0]
    /\ trail = <<>>
    /\ cmd = [k \in Keys |-> NoCommand]
    /\ client = [c \in Clients |->
          [at |-> "idle", key |-> CHOOSE k \in Keys : TRUE, expected |-> 0, reply |-> "none", calls |-> 0]]
    /\ row = [i \in Instances |-> NoRow]
    /\ proc = [i \in Instances |-> [at |-> "boot", concurrency |-> 0, revision |-> 0]]

Exists  == pool.revision > 0
Snap(i, at) == [at |-> at, concurrency |-> pool.concurrency, revision |-> pool.revision]
Written(by, s) == Append(trail, [by |-> by, concurrency |-> s.concurrency])

(***************************************************************************)
(* The pool.                                                               *)
(***************************************************************************)
Desired(s, revision) ==
    [replicas |-> s.replicas, concurrency |-> s.concurrency, min |-> s.min, max |-> s.max,
     revision |-> revision]

\* An operator's update.  It was computed from the revision it expects, so an update whose
\* expectation is old ends in StaleRevisionError and writes nothing.
upsert_pool(s) ==
    /\ Exists /\ pool.revision < MaxRevision /\ Valid(s)
    /\ pool' = Desired(s, pool.revision + 1)
    /\ trail' = Written("upsert", s)
    /\ UNCHANGED <<cmd, client, row, proc>>

(***************************************************************************)
(* An instance.                                                            *)
(***************************************************************************)
Min2(a, b) == IF a < b THEN a ELSE b

\* _ensure_pool reads the pool; on an empty database it goes on to create it.
ensure_pool(i) ==
    /\ proc[i].at = "boot"
    /\ proc' = [proc EXCEPT ![i] = Snap(i, IF Exists THEN "register" ELSE "create")]
    /\ UNCHANGED <<pool, trail, cmd, client, row>>

Created_overwrites == Desired(Default, 1)

\* Another replica may have created it meanwhile (ConflictError, or IntegrityError on the
\* primary key); then its row is read.
Created == IF Exists THEN pool ELSE Desired(Default, 1)

create_pool(i) ==
    /\ proc[i].at = "create"
    /\ pool' = Created
    /\ trail' = IF pool' = pool THEN trail ELSE Written("create", Default)
    /\ proc' = [proc EXCEPT ![i] =
          [at |-> "register", concurrency |-> pool'.concurrency, revision |-> pool'.revision]]
    /\ UNCHANGED <<cmd, client, row>>

\* The row is registered with the pool's concurrency; only heartbeats cap it at MaxSlots.
register_instance(i) ==
    /\ proc[i].at = "register"
    /\ row' = [row EXCEPT ![i] =
          [status |-> "starting", slots |-> proc[i].concurrency,
           revision |-> proc[i].revision, fresh |-> TRUE, drain |-> FALSE]]
    /\ proc' = [proc EXCEPT ![i].at = "running"]
    /\ UNCHANGED <<pool, trail, cmd, client>>

\* _heartbeat: the pool is read, then the row is locked and written from that snapshot.
\* A heartbeat that fails writes nothing, and the next one reads the pool again.
heartbeat_read(i) ==
    /\ proc[i].at \in {"running", "beat"}
    /\ proc' = [proc EXCEPT ![i] = Snap(i, "beat")]
    /\ UNCHANGED <<pool, trail, cmd, client, row>>

Beaten(i) ==
    [row[i] EXCEPT !.status   = IF @ # "stale" THEN @ ELSE IF row[i].drain THEN "draining" ELSE "ready",
                   !.slots    = Min2(proc[i].concurrency, MaxSlots),
                   !.revision = proc[i].revision,
                   !.fresh    = TRUE]

heartbeat_instance(i) ==
    /\ proc[i].at = "beat"
    /\ \/ /\ row[i].status # "stopped"
          /\ row' = [row EXCEPT ![i] = Beaten(i)]
          /\ proc' = [proc EXCEPT ![i].at = "running"]
       \/ /\ row[i].status = "stopped"               \* InvalidTransitionError: the process stops
          /\ proc' = [proc EXCEPT ![i].at = "off"]
          /\ row' = row
    /\ UNCHANGED <<pool, trail, cmd, client>>

\* mark_ready, mark_draining and mark_stopped, by the process or by the controller.
set_instance_status(i, s) ==
    /\ row[i].status # "none"
    /\ s \in INSTANCE_TRANSITIONS[row[i].status]
    /\ row' = [row EXCEPT ![i].status = s,
                          ![i].drain = IF s \in {"draining", "ready"} THEN s = "draining" ELSE @]
    /\ UNCHANGED <<pool, trail, cmd, client, proc>>

\* heartbeat_ttl passes without a heartbeat; the maintenance tick marks the row.
grows_old(i) ==
    /\ row[i].fresh /\ row[i].status \notin {"stale", "stopped"}   \* nothing reads it there
    /\ row' = [row EXCEPT ![i].fresh = FALSE]
    /\ UNCHANGED <<pool, trail, cmd, client, proc>>
mark_stale_instances ==
    /\ row' = [i \in Instances |->
          IF row[i].status \in {"starting", "ready", "draining"} /\ ~row[i].fresh
          THEN [row[i] EXCEPT !.status = "stale"] ELSE row[i]]
    /\ row' # row
    /\ UNCHANGED <<pool, trail, cmd, client, proc>>

(***************************************************************************)
(* request_scale.  A client asks for Want[k]: with the pool's revision, or *)
(* again with what it asked before, because no answer came.                *)
(***************************************************************************)
Told(c, reply) == client' = [client EXCEPT ![c].at = "idle", ![c].reply = reply]

call(c, k, expected) ==
    /\ Exists /\ client[c].at = "idle" /\ client[c].calls < MaxCalls
    /\ expected \in {pool.revision} \cup {client[d].expected : d \in {d \in Clients : client[d].key = k}}
    /\ client' = [client EXCEPT ![c] = [at |-> "find", key |-> k, expected |-> expected,
                                        reply |-> "none", calls |-> client[c].calls + 1]]
    /\ UNCHANGED <<pool, trail, cmd, row, proc>>

find_command(c) ==
    /\ client[c].at = "find"
    /\ IF cmd[client[c].key].status # "none" THEN Told(c, "command")
                                         ELSE client' = [client EXCEPT ![c].at = "lock"]
    /\ UNCHANGED <<pool, trail, cmd, row, proc>>

\* SELECT ... WHERE revision = expected FOR UPDATE returned no row.
pool_moved(c) ==
    /\ client[c].at = "lock" /\ pool.revision # client[c].expected
    /\ client' = [client EXCEPT ![c].at = "again"]
    /\ UNCHANGED <<pool, trail, cmd, row, proc>>

Again_skipped(k) == FALSE

Again(k) == cmd[k].status # "none"

find_again(c) ==
    /\ client[c].at = "again"
    /\ Told(c, IF Again(client[c].key) THEN "command" ELSE "stale")
    /\ UNCHANGED <<pool, trail, cmd, row, proc>>

\* UNIQUE (idempotency_key): the insert of a second command fails and takes the
\* transaction with it.
KeyFree(k) == cmd[k].status = "none"

\* UPDATE scale_commands SET status = 'superseded' WHERE status NOT IN terminal.
Superseded(k) ==
    IF cmd[k].status \in SCALE_COMMAND_TERMINAL \cup {"none"}
    THEN cmd[k] ELSE [cmd[k] EXCEPT !.status = "superseded"]

\* The rest of the transaction, under the row lock of the pool.
InBounds(k) == Want[k].replicas \in pool.min .. pool.max

scale(c) ==
    LET k == client[c].key
    IN  /\ client[c].at = "lock" /\ pool.revision = client[c].expected
        /\ pool.revision < MaxRevision
        /\ InBounds(k) /\ KeyFree(k)
        /\ pool' = [pool EXCEPT !.replicas = Want[k].replicas, !.concurrency = Want[k].concurrency,
                                !.revision = @ + 1]
        /\ trail' = Written(k, Want[k])
        /\ cmd' = [[l \in Keys |-> Superseded(l)] EXCEPT ![k] =
              [status |-> "requested", expected |-> client[c].expected, revision |-> pool.revision + 1]]
        /\ \E reply \in {"command", "lost"} : Told(c, reply)
        /\ UNCHANGED <<row, proc>>

\* InvalidValueError, NotFoundError, IntegrityError, or a transaction that fails.
scale_fails(c) ==
    /\ client[c].at = "lock" /\ pool.revision = client[c].expected
    /\ Told(c, "lost")
    /\ UNCHANGED <<pool, trail, cmd, row, proc>>

(***************************************************************************)
(* transition_scale_command.                                               *)
(***************************************************************************)
Counted == {i \in Instances : row[i].status = "ready" /\ row[i].fresh}

Confirmed_by_capacity(k) ==
    /\ Cardinality(Counted) = Want[k].replicas
    /\ MapThenSumSet(LAMBDA i : row[i].slots, Counted) = Want[k].replicas * Want[k].concurrency

Confirmed(k) ==
    /\ Cardinality(Counted) = Want[k].replicas
    /\ MapThenSumSet(LAMBDA i : row[i].slots, Counted) = Want[k].replicas * Want[k].concurrency
    /\ Want[k].replicas = 0 \/ \A i \in Counted : row[i].revision >= cmd[k].revision

transition_scale_command(k, s) ==
    /\ cmd[k].status # "none"
    /\ s \in SCALE_COMMAND_TRANSITIONS[cmd[k].status]
    /\ s = "applied" => Confirmed(k)
    /\ cmd' = [cmd EXCEPT ![k].status = s]
    /\ UNCHANGED <<pool, trail, client, row, proc>>

InstanceStep(i) ==
    \/ ensure_pool(i) \/ create_pool(i) \/ register_instance(i)
    \/ heartbeat_read(i) \/ heartbeat_instance(i) \/ grows_old(i)
    \/ \E s \in InstanceTargets : set_instance_status(i, s)
ClientStep(c) ==
    \/ \E k \in Keys, e \in 1 .. MaxRevision : call(c, k, e)
    \/ find_command(c) \/ pool_moved(c) \/ find_again(c) \/ scale(c) \/ scale_fails(c)
Next ==
    \/ \E i \in Instances : InstanceStep(i)
    \/ \E c \in Clients : ClientStep(c)
    \/ \E s \in States : upsert_pool(s)
    \/ mark_stale_instances
    \/ \E k \in Keys, s \in CommandTargets : transition_scale_command(k, s)

Spec == Init /\ [][Next]_vars

(***************************************************************************)
(* Properties.                                                             *)
(***************************************************************************)
\* Every revision of the pool has one audit entry by one writer, and the revision a command
\* names is the one it wrote: replicas that boot together create the pool once and never
\* reset what an operator has written since, and a key scales the pool once however often
\* it is repeated (runtime._ensure_pool, pools.upsert_pool, pools.request_scale).
RevisionLedger ==
    /\ Len(trail) = pool.revision
    /\ Exists => trail[pool.revision].concurrency = pool.concurrency
    /\ \A k \in Keys : {n \in DOMAIN trail : trail[n].by = k}
                          = IF cmd[k].status = "none" THEN {} ELSE {cmd[k].revision}

\* A client is told that its revision is old only if the very request it made has not been
\* carried out, even when a concurrent repeat of it won the row lock
\* (pools.request_scale, the second _find_command).
StaleIsTrue ==
    \A c \in Clients : client[c].reply = "stale" =>
        LET k == client[c].key
        IN  ~(cmd[k].status # "none" /\ cmd[k].expected = client[c].expected)

\* When a command becomes applied every instance that counts has read the pool at its
\* revision or a later one, and unless an operator has rewritten the pool since, each of
\* them has read the requested concurrency: the sum of slots, which adds up the same for
\* unlike settings, hides no instance with old ones (pools.transition_scale_command,
\* observed_capacity).  How many slots it runs is for its own max_slots to say.
AppliedConfirmed ==
    [][\A k \in Keys : cmd'[k].status = "applied" /\ cmd[k].status # "applied" =>
          \A i \in Counted :
              /\ proc[i].revision >= cmd[k].revision
              /\ pool.revision = cmd[k].revision => proc[i].concurrency = Want[k].concurrency]_vars
================================================================================
