----------------------------- MODULE Projection -----------------------------
(***************************************************************************)
(* From a parse result to the current document and its domain.changed      *)
(* event (repositories/projection.py): a parser is issued the next         *)
(* projection_version of its entity, a projector applies the task to Mongo,*)
(* and the acknowledgement moves the receipt back into PostgreSQL.         *)
(*                                                                         *)
(* PostgreSQL and Mongo share no transaction: a worker may lose its lease, *)
(* or die, between the Mongo commit and the acknowledgement, and tasks of  *)
(* one entity may be applied and acknowledged in any order.                *)
(*                                                                         *)
(* A parse step (its parse_key) names its task: projection_tasks.parse_key *)
(* is unique.  Leases have no clock here, any lease may expire.            *)
(***************************************************************************)
EXTENDS Integers, FiniteSets

CONSTANTS
    Parses,       \* parse steps, i.e. values of parse_key
    Entities,
    EntityOf,     \* the entity a parse step is about
    States,       \* hashes of the artifacts a parse can produce
    Parsers, Workers,
    MaxAttempts,  \* projection_tasks.max_attempts
    MaxClaims     \* bound: claims of one task

Nobody == "Nobody"   \* the owner of a task without a lease

ASSUME ProjectionAssumption ==
    /\ EntityOf \in [Parses -> Entities]
    /\ "none" \notin States \cup Parses
    /\ Nobody \notin Workers
    /\ MaxAttempts \in Nat \ {0}
    /\ MaxClaims \in Nat

VARIABLES
    indexed,    \* entities that have a row in entity_index
    version,    \* entity_index.projection_version
    confirmed,  \* entity_index.confirmed_projection_version
    task,       \* projection_tasks, by parse_key
    artifact,   \* normalized_artifacts: the first parse that brought these bytes
    command,    \* the outbox row of the projection.command: none, stored, purged
    acks,       \* projection_acknowledgements: the receipt a task was acknowledged with
    events,     \* change_events (and domain outbox rows) written for a task
    parser,     \* the record_parse_result in progress
    worker,     \* the task a projector works on, and whether Mongo has it
    listed,     \* the stale task the reconciler is about to acknowledge
    current,    \* Mongo: current document of an entity
    receipt     \* Mongo: applied_projection_receipts

pgvars == <<indexed, version, confirmed, task, artifact, command, acks, events>>
mongo == <<current, receipt>>
vars == <<indexed, version, confirmed, task, artifact, command, acks, events, parser,
          worker, listed, current, receipt>>

-----------------------------------------------------------------------------
CLAIMABLE_PROJECTION_STATUSES == {"pending", "retry"}
TERMINAL_TASK_STATUSES == {"succeeded", "quarantined"}
OPEN_TASK_STATUSES == CLAIMABLE_PROJECTION_STATUSES \cup {"leased"}

NoTask == [status |-> "none", owner |-> Nobody, attempt |-> 0, version |-> 0,
           state |-> "none"]
NoParse == [parse |-> "none", state |-> "none", base |-> 0, known |-> FALSE]
Idle == [parse |-> "none", applied |-> FALSE]
NoReceipt == [version |-> 0, applied |-> FALSE, changed |-> FALSE, previous |-> "none"]
NoDocument == [version |-> 0, state |-> "none"]

Init ==
    /\ indexed = {}
    /\ version = [e \in Entities |-> 0]
    /\ confirmed = [e \in Entities |-> 0]
    /\ task = [p \in Parses |-> NoTask]
    /\ artifact = [r \in Entities \X States |-> "none"]
    /\ command = [p \in Parses |-> "none"]
    /\ acks = [p \in Parses |-> NoReceipt]
    /\ events = [p \in Parses |-> 0]
    /\ parser = [k \in Parsers |-> NoParse]
    /\ worker = [w \in Workers |-> Idle]
    /\ listed = "none"
    /\ current = [e \in Entities |-> NoDocument]
    /\ receipt = [p \in Parses |-> NoReceipt]

Release(p, status) ==
    task' = [task EXCEPT ![p].status = status, ![p].owner = Nobody]

(* Seeded fault: the last acknowledgement wins.                            *)
GREATEST_last(a, b) == b

GREATEST(a, b) == IF a > b THEN a ELSE b

acknowledged(p) == acks[p] # NoReceipt

_is_acknowledged(p) == task[p].status = "succeeded" /\ acknowledged(p)

_owned(p, w) == task[p].status = "leased" /\ task[p].owner = w

-----------------------------------------------------------------------------
(* INSERT ... ON CONFLICT DO NOTHING: a new row has both counters at 0, a   *)
(* known one keeps them.                                                   *)
upsert_entity(e) ==
    /\ indexed' = indexed \cup {e}
    /\ version'   = [version EXCEPT ![e] = IF e \in indexed THEN @ ELSE 0]
    /\ confirmed' = [confirmed EXCEPT ![e] = IF e \in indexed THEN @ ELSE 0]
    /\ UNCHANGED <<task, artifact, command, acks, events, parser, worker, listed, mongo>>

-----------------------------------------------------------------------------
(* record_parse_result *)

(* Seeded fault: the counter is read without a row lock.                   *)
EntityUnlocked_always(e) == TRUE

(* No other transaction holds SELECT ... FOR UPDATE on the entity's row.   *)
EntityUnlocked(e) ==
    \A k \in Parsers : parser[k] # NoParse => EntityOf[parser[k].parse] # e

(* The lock of the entity's row is granted (without a row: NotFoundError), *)
(* then the parse_key and the counter are read.  A retried job or a replay *)
(* may bring a parse that is already recorded.                             *)
record_parse_result_lock(k, p, s) ==
    /\ parser[k] = NoParse
    /\ EntityOf[p] \in indexed
    /\ EntityUnlocked(EntityOf[p])
    /\ parser' = [parser EXCEPT ![k] =
          [parse |-> p, state |-> s, base |-> version[EntityOf[p]],
           known |-> task[p] # NoTask]]
    /\ UNCHANGED <<pgvars, mongo, worker, listed>>

(* Equal bytes of one entity share a row (A -> B -> A), which keeps the    *)
(* lineage of the first parse that brought them.                           *)
_artifact_for(p, s) ==
    artifact' = [artifact EXCEPT ![<<EntityOf[p], s>>] =
                    IF @ = "none" THEN p ELSE @]

_command_outbox_row(p) == command' = [command EXCEPT ![p] = "stored"]

(* What a repeated parse is answered from: it brings the bytes of the      *)
(* first one, and the command written with the task is there, or else its  *)
(* acknowledgement.  Otherwise it raises ConflictError.                    *)
_existing_parse_result(p, s) ==
    task[p].state = s /\ (command[p] = "stored" \/ _is_acknowledged(p))

(* A known parse writes nothing, whether it is answered or refused; a new  *)
(* one gets the next version, a task and the projection.command.           *)
record_parse_result_commit(k) ==
    /\ parser[k] # NoParse
    /\ parser' = [parser EXCEPT ![k] = NoParse]
    /\ LET p == parser[k].parse
           s == parser[k].state
           v == parser[k].base + 1 IN
          IF parser[k].known
          THEN UNCHANGED <<version, task, artifact, command>>
          ELSE /\ _artifact_for(p, s)
               /\ version' = [version EXCEPT ![EntityOf[p]] = v]
               /\ task' = [task EXCEPT ![p] =
                     [NoTask EXCEPT !.status = "pending", !.version = v, !.state = s]]
               /\ _command_outbox_row(p)
    /\ UNCHANGED <<indexed, confirmed, acks, events, mongo, worker, listed>>

record_parse_result_rollback(k) ==
    /\ parser[k] # NoParse
    /\ parser' = [parser EXCEPT ![k] = NoParse]
    /\ UNCHANGED <<pgvars, mongo, worker, listed>>

-----------------------------------------------------------------------------
(* Leases of projection tasks *)

claim_projection_tasks(w, p) ==
    /\ worker[w] = Idle
    /\ task[p].status \in CLAIMABLE_PROJECTION_STATUSES
    /\ task[p].attempt < MaxClaims
    /\ task' = [task EXCEPT ![p].status = "leased", ![p].owner = w, ![p].attempt = @ + 1]
    /\ worker' = [worker EXCEPT ![w] = [parse |-> p, applied |-> FALSE]]
    /\ UNCHANGED <<indexed, version, confirmed, artifact, command, acks, events, parser, listed, mongo>>

(* The worker lets go of its task: an action of the queue if it still owns *)
(* the lease (LeaseNotOwnedError otherwise).                               *)
LetGo(w) ==
    /\ worker[w] # Idle
    /\ worker' = [worker EXCEPT ![w] = Idle]

Mine(w) == _owned(worker[w].parse, w)

_quarantine_locked(p) == Release(p, "quarantined")

retry_projection_task(w) ==
    /\ LetGo(w) /\ Mine(w)
    /\ LET p == worker[w].parse IN
          IF task[p].attempt >= MaxAttempts THEN _quarantine_locked(p) ELSE Release(p, "retry")
    /\ UNCHANGED <<indexed, version, confirmed, artifact, command, acks, events, parser, listed, mongo>>

(* Drain or defer: the claim's attempt is given back.                      *)
release_projection_task(w) ==
    /\ LetGo(w) /\ Mine(w)
    /\ LET p == worker[w].parse IN
          task' = [task EXCEPT ![p].status = "pending", ![p].owner = Nobody,
                               ![p].attempt = GREATEST(@ - 1, 0)]
    /\ UNCHANGED <<indexed, version, confirmed, artifact, command, acks, events, parser, listed, mongo>>

quarantine(w) ==
    /\ LetGo(w) /\ Mine(w)
    /\ _quarantine_locked(worker[w].parse)
    /\ UNCHANGED <<indexed, version, confirmed, artifact, command, acks, events, parser, listed, mongo>>

(* Killed, fenced, or its report failed: nothing is written.               *)
lose(w) ==
    /\ LetGo(w)
    /\ UNCHANGED <<pgvars, parser, listed, mongo>>

recover_expired_projection_leases(p) ==
    /\ task[p].status = "leased"
    /\ Release(p, "pending")
    /\ UNCHANGED <<indexed, version, confirmed, artifact, command, acks, events, parser, worker, listed, mongo>>

(* The operator's quarantine asks for no lease.                            *)
quarantine_projection_task(p) ==
    /\ task[p] # NoTask /\ task[p].status \notin TERMINAL_TASK_STATUSES
    /\ _quarantine_locked(p)
    /\ UNCHANGED <<indexed, version, confirmed, artifact, command, acks, events, parser, worker, listed, mongo>>

-----------------------------------------------------------------------------
(* The projector's Mongo transaction, as AppliedProjectionReceipt fixes    *)
(* it: a task that has a receipt is not applied again, an older version    *)
(* does not touch the current document.  A worker without its lease may    *)
(* still do it.                                                            *)
project(w) ==
    /\ worker[w] # Idle /\ ~worker[w].applied
    /\ worker' = [worker EXCEPT ![w].applied = TRUE]
    /\ LET p == worker[w].parse
           doc == current[EntityOf[p]]
           t == task[p]
           newer == t.version > doc.version IN
          IF receipt[p] # NoReceipt
          THEN UNCHANGED mongo
          ELSE /\ receipt' = [receipt EXCEPT ![p] =
                     [version |-> t.version, applied |-> newer,
                      changed |-> newer /\ doc.state # t.state,
                      previous |-> doc.state]]
               /\ current' = [current EXCEPT ![EntityOf[p]] =
                     IF newer THEN [version |-> t.version, state |-> t.state] ELSE @]
    /\ UNCHANGED <<pgvars, parser, listed>>

should_emit_domain_changed(r) == r.applied /\ r.changed

-----------------------------------------------------------------------------
(* acknowledge_projection *)

(* Seeded fault: a repeated acknowledgement is applied again.              *)
acknowledge_again(p) ==
    /\ acks' = [acks EXCEPT ![p] = receipt[p]]
    /\ confirmed' = [confirmed EXCEPT ![EntityOf[p]] = GREATEST(@, receipt[p].version)]
    /\ Release(p, "succeeded")
    /\ events' = [events EXCEPT ![p] =
          IF should_emit_domain_changed(receipt[p]) THEN @ + 1 ELSE @]

(* A repeated acknowledgement has to bring the receipt of the first one,   *)
(* otherwise ConflictError.                                                *)
_require_same_receipt(p) == acks[p] = receipt[p]

(* Both ways a second acknowledgement writes nothing; the first one waits  *)
(* for the row lock of the entity.                                         *)
acknowledge_projection(p) ==
    IF acknowledged(p)
    THEN UNCHANGED <<acks, confirmed, task, events>>
    ELSE /\ EntityUnlocked(EntityOf[p])
         /\ acks' = [acks EXCEPT ![p] = receipt[p]]
         /\ confirmed' = [confirmed EXCEPT ![EntityOf[p]] = GREATEST(@, receipt[p].version)]
         /\ Release(p, "succeeded")
         /\ events' = [events EXCEPT ![p] =
               IF should_emit_domain_changed(receipt[p]) THEN @ + 1 ELSE @]

(* ProjectionTasksBackend.complete: fenced by the lease.                   *)
complete(w) ==
    /\ worker[w].applied
    /\ LetGo(w) /\ Mine(w)
    /\ acknowledge_projection(worker[w].parse)
    /\ UNCHANGED <<indexed, version, artifact, command, parser, listed, mongo>>

(* The reconciler finds the receipt of a stale task ...                    *)
list_stale_projection_tasks(p) ==
    /\ listed = "none"
    /\ task[p].status \in OPEN_TASK_STATUSES
    /\ receipt[p] # NoReceipt
    /\ listed' = p
    /\ UNCHANGED <<pgvars, parser, worker, mongo>>

(* ... and acknowledges it without a lease, whatever happened since.       *)
reconcile ==
    /\ listed # "none"
    /\ acknowledge_projection(listed)
    /\ listed' = "none"
    /\ UNCHANGED <<indexed, version, artifact, command, parser, worker, mongo>>

(* Seeded fault: retention takes every terminal task for a finished one.   *)
purge_published_succeededOrQuarantined(p) ==
    /\ command[p] = "stored"
    /\ task[p].status \in TERMINAL_TASK_STATUSES
    /\ command' = [command EXCEPT ![p] = "purged"]
    /\ UNCHANGED <<indexed, version, confirmed, task, artifact, acks, events, parser, worker, listed, mongo>>

(* Retention of the internal topic.                                        *)
purge_published(p) ==
    /\ command[p] = "stored"
    /\ _is_acknowledged(p)
    /\ command' = [command EXCEPT ![p] = "purged"]
    /\ UNCHANGED <<indexed, version, confirmed, task, artifact, acks, events, parser, worker, listed, mongo>>

-----------------------------------------------------------------------------
ParserStep(k) ==
    \/ \E p \in Parses, s \in States : record_parse_result_lock(k, p, s)
    \/ record_parse_result_commit(k) \/ record_parse_result_rollback(k)

ProjectorStep(w) ==
    \/ \E p \in Parses : claim_projection_tasks(w, p)
    \/ project(w) \/ complete(w) \/ retry_projection_task(w)
    \/ release_projection_task(w) \/ quarantine(w) \/ lose(w)

MaintenanceStep ==
    \/ \E p \in Parses : \/ recover_expired_projection_leases(p)
                         \/ quarantine_projection_task(p)
                         \/ list_stale_projection_tasks(p)
                         \/ purge_published(p)
    \/ reconcile

Next ==
    \/ \E e \in Entities : upsert_entity(e)
    \/ \E k \in Parsers : ParserStep(k)
    \/ \E w \in Workers : ProjectorStep(w)
    \/ MaintenanceStep

Spec == Init /\ [][Next]_vars

-----------------------------------------------------------------------------
Recorded(e) == {p \in Parses : EntityOf[p] = e /\ task[p] # NoTask}

(* The report on a cursor, per entity and without a watermark.             *)
projection_completeness(e) ==
    LET tasks == {p \in Recorded(e) : task[p].status # "succeeded"} IN
    [open_tasks |-> Cardinality({p \in tasks : task[p].status \in OPEN_TASK_STATUSES}),
     quarantined_tasks |-> Cardinality({p \in tasks : task[p].status = "quarantined"})]

settled(report) == report.open_tasks = 0

complete_cursor(report) == settled(report) /\ report.quarantined_tasks = 0

-----------------------------------------------------------------------------
TaskRow == [status : {"none"} \cup OPEN_TASK_STATUSES \cup TERMINAL_TASK_STATUSES,
            owner : Workers \cup {Nobody}, attempt : Nat, version : Nat,
            state : States \cup {"none"}]
Receipt == [version : Nat, applied : BOOLEAN, changed : BOOLEAN,
            previous : States \cup {"none"}]

(* Shape of the rows; the leased tasks are those that have an owner.       *)
TypeOK ==
    /\ indexed \subseteq Entities
    /\ version \in [Entities -> Nat]
    /\ confirmed \in [Entities -> Nat]
    /\ task \in [Parses -> TaskRow]
    /\ \A p \in Parses : task[p].owner # Nobody <=> task[p].status = "leased"
    /\ artifact \in [Entities \X States -> Parses \cup {"none"}]
    /\ command \in [Parses -> {"none", "stored", "purged"}]
    /\ acks \in [Parses -> Receipt]
    /\ events \in [Parses -> Nat]
    /\ parser \in [Parsers -> {NoParse} \cup
                     [parse : Parses, state : States, base : Nat, known : BOOLEAN]]
    /\ worker \in [Workers -> {Idle} \cup [parse : Parses, applied : BOOLEAN]]
    /\ listed \in Parses \cup {"none"}
    /\ current \in [Entities -> {NoDocument} \cup [version : Nat, state : States]]
    /\ receipt \in [Parses -> Receipt]

(* The confirmed version is the highest one acknowledged, in whatever      *)
(* order acknowledgements arrive; the acknowledgement a task was closed    *)
(* with is the receipt Mongo still holds, so a replay of it by the         *)
(* reconciler is never a ConflictError and the Read API's lookup of        *)
(* {entity_uuid, confirmed version} finds a document.                      *)
ConfirmedIsApplied ==
    /\ \A p \in Parses : acknowledged(p) =>
          _require_same_receipt(p) /\ receipt[p].version = task[p].version
    /\ \A e \in Entities :
          LET vs == {task[p].version : p \in {q \in Recorded(e) : acknowledged(q)}} IN
          IF vs = {} THEN confirmed[e] = 0
          ELSE confirmed[e] \in vs /\ \A v \in vs : v <= confirmed[e]

(* domain.changed is written exactly once for each acknowledged receipt    *)
(* that changed the current document, and for no other task, however often *)
(* worker and reconciler acknowledge it.                                   *)
EventOncePerChange ==
    \A p \in Parses :
        events[p] = IF acknowledged(p) /\ should_emit_domain_changed(receipt[p]) THEN 1 ELSE 0

Emitted(e) == {p \in Recorded(e) : events[p] > 0}
Before(p) == {q \in Emitted(EntityOf[p]) : task[q].version < task[p].version}
Follows(p, q) == Before(p) = Before(q) \cup {q} /\ q \in Before(p)

(* When the report calls an entity complete, each version that was issued  *)
(* belongs to one task and is acknowledged, the newest one is confirmed    *)
(* and is the current document in Mongo, and the events, read in version   *)
(* order, lead from no document to that document without a gap: each one's *)
(* previous state is the state the one before it announced.                *)
CompleteIsShown ==
    \A e \in Entities : complete_cursor(projection_completeness(e)) =>
        /\ \A v \in 1..version[e] :
              Cardinality({p \in Recorded(e) : task[p].version = v /\ acknowledged(p)}) = 1
        /\ Cardinality(Recorded(e)) = version[e]
        /\ confirmed[e] = version[e] /\ current[e].version = version[e]
        /\ \A p \in Emitted(e) :
              IF Before(p) = {} THEN acks[p].previous = "none"
              ELSE \E q \in Emitted(e) : Follows(p, q) /\ acks[p].previous = task[q].state
        /\ version[e] > 0 => \E p \in Emitted(e) :
              task[p].state = current[e].state /\ \A q \in Emitted(e) : ~Follows(q, p)

(* The projection.command stays in the outbox until its task is            *)
(* acknowledged, so a replayed parse is always answered with its task and  *)
(* never with a ConflictError.                                             *)
CommandKept ==
    \A p \in Parses : task[p] # NoTask => _existing_parse_result(p, task[p].state)
=============================================================================
