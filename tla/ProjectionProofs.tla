-------------------------- MODULE ProjectionProofs --------------------------
(***************************************************************************)
(* What Projection guarantees for every number of parses, entities,        *)
(* parsers, projectors and attempts.                                       *)
(*                                                                         *)
(* The properties are about acknowledgements, which arrive in any order,   *)
(* while the argument is about the two orders behind them: versions are    *)
(* issued densely under the entity's row lock (ParseInv, VersionInv), and  *)
(* Mongo applies them in increasing order (ChainInv).  TaskInv and         *)
(* ReceiptInv tie a task, its receipt and its acknowledgement together.    *)
(***************************************************************************)
EXTENDS Projection, Outbox, FiniteSetTheorems, TLAPS

\* A receipt that reports a change of the current document.
Changed(p) == receipt[p].applied /\ receipt[p].changed

\* A row of entity_index, once there, is never taken for a new one.
IndexInv == \A e \in Entities : e \notin indexed => version[e] = 0 /\ confirmed[e] = 0

\* A recorded task has a version its entity has issued, and is succeeded exactly when it is
\* acknowledged; it can be answered from its command or its acknowledgement.
TaskInv ==
    \A p \in Parses :
       /\ task[p].status = "none" => task[p] = NoTask
       /\ task[p].status # "none" =>
             /\ EntityOf[p] \in indexed
             /\ task[p].version \in 1..version[EntityOf[p]]
             /\ task[p].state \in States
             /\ command[p] = "stored" \/ acknowledged(p)
       /\ acknowledged(p) <=> task[p].status = "succeeded"

\* The issued versions of an entity and its tasks are one to one.
VersionInv ==
    /\ \A p, q \in Parses :
          /\ task[p].status # "none" /\ task[q].status # "none"
          /\ EntityOf[p] = EntityOf[q] /\ task[p].version = task[q].version
          => p = q
    /\ \A e \in Entities : \A v \in 1..version[e] :
          \E p \in Parses : /\ EntityOf[p] = e /\ task[p].status # "none"
                            /\ task[p].version = v
    /\ \A e \in Entities : /\ IsFiniteSet(Recorded(e))
                           /\ Cardinality(Recorded(e)) = version[e]

\* Under the row lock what a parser has read stays true.
ParseInv ==
    \A k \in Parsers : parser[k] # NoParse =>
       /\ EntityOf[parser[k].parse] \in indexed
       /\ parser[k].base = version[EntityOf[parser[k].parse]]
       /\ ~parser[k].known => task[parser[k].parse].status = "none"
       /\ \A j \in Parsers \ {k} : parser[j] # NoParse =>
             EntityOf[parser[j].parse] # EntityOf[parser[k].parse]

\* A projector, and the reconciler, work on recorded tasks; those they are about to
\* acknowledge have a receipt.
WorkerInv ==
    /\ \A w \in Workers : worker[w] # Idle =>
          /\ task[worker[w].parse].status # "none"
          /\ worker[w].applied => receipt[worker[w].parse] # NoReceipt
    /\ listed # "none" => receipt[listed] # NoReceipt

\* A receipt is that of its task, and an acknowledgement is that receipt.
ReceiptInv ==
    \A p \in Parses :
       /\ receipt[p] # NoReceipt => /\ task[p].status # "none"
                                    /\ receipt[p].version = task[p].version
       /\ acknowledged(p) => acks[p] = receipt[p]

\* The confirmed version is the highest acknowledged one.
ConfirmedInv ==
    /\ \A p \in Parses : acknowledged(p) => task[p].version <= confirmed[EntityOf[p]]
    /\ \A e \in Entities : confirmed[e] # 0 =>
          \E p \in Parses : /\ EntityOf[p] = e /\ acknowledged(p)
                            /\ task[p].version = confirmed[e]

\* The document is that of the newest version that has a receipt.
CurrentInv ==
    /\ \A p \in Parses : receipt[p] # NoReceipt
                            => task[p].version <= current[EntityOf[p]].version
    /\ \A e \in Entities : current[e] # NoDocument =>
          \E p \in Parses : /\ EntityOf[p] = e /\ receipt[p] # NoReceipt
                            /\ task[p].version = current[e].version

\* q brought the change that is the last one before version v of entity e.
LastChange(e, v, q) ==
    /\ EntityOf[q] = e /\ Changed(q) /\ task[q].version < v
    /\ \A r \in Parses : EntityOf[r] = e /\ Changed(r) /\ task[r].version < v
                            => task[r].version <= task[q].version

\* s is the state that the changes of e before version v lead to.
LedTo(e, v, s) ==
    \/ /\ s = "none"
       /\ \A q \in Parses : EntityOf[q] = e /\ Changed(q) => task[q].version >= v
    \/ \E q \in Parses : LastChange(e, v, q) /\ task[q].state = s

\* The changes of an entity, in version order, form a chain that ends in its document.
ChainInv ==
    /\ \A p \in Parses : Changed(p) => LedTo(EntityOf[p], task[p].version, receipt[p].previous)
    /\ \A e \in Entities : LedTo(e, current[e].version + 1, current[e].state)

\* The inductive invariant.
ProjectionInv ==
    /\ TypeOK
    /\ IndexInv
    /\ TaskInv
    /\ VersionInv
    /\ ParseInv
    /\ WorkerInv
    /\ ReceiptInv
    /\ ConfirmedInv
    /\ EventOncePerChange
    /\ CurrentInv
    /\ ChainInv

-----------------------------------------------------------------------------
(* Rows                                                                    *)

\* The statuses of a task row.
LEMMA Statuses ==
    /\ OPEN_TASK_STATUSES = {"pending", "retry", "leased"}
    /\ TERMINAL_TASK_STATUSES = {"succeeded", "quarantined"}
BY DEF OPEN_TASK_STATUSES, TERMINAL_TASK_STATUSES, CLAIMABLE_PROJECTION_STATUSES

\* One row of projection_tasks is replaced by another one.
LEMMA OneTask ==
    ASSUME TypeOK, NEW p \in Parses, NEW t \in TaskRow, task' = [task EXCEPT ![p] = t]
    PROVE  /\ task' \in [Parses -> TaskRow]
           /\ \A q \in Parses \ {p} : task'[q] = task[q]
           /\ task'[p] = t
BY DEF TypeOK

\* Setting status and owner of a row gives a row again and keeps its version and state.
LEMMA LeaseColumns ==
    ASSUME TypeOK, NEW p \in Parses, NEW o \in Workers \cup {Nobody}, NEW n \in Nat,
           NEW s \in {"none"} \cup OPEN_TASK_STATUSES \cup TERMINAL_TASK_STATUSES,
           task' = [task EXCEPT ![p].status = s, ![p].owner = o, ![p].attempt = n]
    PROVE  /\ task' \in [Parses -> TaskRow]
           /\ \A q \in Parses \ {p} : task'[q] = task[q]
           /\ task'[p].status = s /\ task'[p].owner = o
           /\ task'[p].version = task[p].version /\ task'[p].state = task[p].state
<1> DEFINE t == [task[p] EXCEPT !.status = s, !.owner = o, !.attempt = n]
<1>1. task[p] \in TaskRow
  BY DEF TypeOK
<1>2. /\ t \in TaskRow /\ t.status = s /\ t.owner = o
      /\ t.version = task[p].version /\ t.state = task[p].state
  BY <1>1 DEF TaskRow
<1>3. task' = [task EXCEPT ![p] = t]
  BY <1>1 DEF TypeOK, TaskRow
<1> HIDE DEF t
<1>4. QED  BY <1>2, <1>3, OneTask

\* The same for Release, which leaves the attempt alone.
LEMMA ReleaseColumns ==
    ASSUME TypeOK, NEW p \in Parses, NEW s \in OPEN_TASK_STATUSES \cup TERMINAL_TASK_STATUSES,
           Release(p, s)
    PROVE  /\ task' \in [Parses -> TaskRow]
           /\ \A q \in Parses \ {p} : task'[q] = task[q]
           /\ task'[p].status = s /\ task'[p].owner = Nobody
           /\ task'[p].version = task[p].version /\ task'[p].state = task[p].state
<1> DEFINE t == [task[p] EXCEPT !.status = s, !.owner = Nobody]
<1>1. task[p] \in TaskRow
  BY DEF TypeOK
<1>2. /\ t \in TaskRow /\ t.status = s /\ t.owner = Nobody
      /\ t.version = task[p].version /\ t.state = task[p].state
  BY <1>1 DEF TaskRow
<1>3. task' = [task EXCEPT ![p] = t]
  BY <1>1 DEF Release, TypeOK, TaskRow
<1> HIDE DEF t
<1>4. QED  BY <1>2, <1>3 DEF TypeOK

\* The recorded tasks are those that have a status.
LEMMA RecordedStatus ==
    ASSUME TaskInv, NEW e \in Entities
    PROVE  Recorded(e) = {p \in Parses : EntityOf[p] = e /\ task[p].status # "none"}
BY DEF Recorded, TaskInv, NoTask

\* The same after a step.
LEMMA RecordedStatusNext ==
    ASSUME TaskInv', NEW e \in Entities
    PROVE  Recorded(e)' = {p \in Parses : EntityOf[p] = e /\ task'[p].status # "none"}
BY DEF Recorded, TaskInv, NoTask

\* An empty database satisfies the invariant.
LEMMA InitInv == Init => ProjectionInv
<1> SUFFICES ASSUME Init
             PROVE  ProjectionInv
  OBVIOUS
<1> USE ProjectionAssumption DEF Init
<1>1. NoTask \in TaskRow /\ NoReceipt \in Receipt
  BY DEF NoTask, NoReceipt, TaskRow, Receipt
<1>2. TypeOK
  BY <1>1 DEF TypeOK, NoTask
<1>3. TaskInv
  BY DEF TaskInv, NoTask, acknowledged
<1>4. VersionInv
  <2>1. \A e \in Entities : Recorded(e) = {}
    BY DEF Recorded
  <2>2. \A e \in Entities : IsFiniteSet(Recorded(e)) /\ Cardinality(Recorded(e)) = version[e]
    BY <2>1, FS_EmptySet
  <2>3. \A p \in Parses : task[p].status = "none"
    BY DEF NoTask
  <2>4. \A e \in Entities : 1..version[e] = {}
    OBVIOUS
  <2>5. QED  BY <2>2, <2>3, <2>4 DEF VersionInv
<1>5. IndexInv /\ ParseInv /\ WorkerInv /\ ReceiptInv /\ ConfirmedInv
  BY DEF IndexInv, ParseInv, WorkerInv, ReceiptInv, ConfirmedInv, acknowledged
<1>6. EventOncePerChange
  BY DEF EventOncePerChange, acknowledged
<1>7. CurrentInv
  BY DEF CurrentInv, NoDocument
<1>8. ChainInv
  BY DEF ChainInv, LedTo, Changed, NoReceipt, NoDocument
<1>9. QED  BY <1>2, <1>3, <1>4, <1>5, <1>6, <1>7, <1>8 DEF ProjectionInv

-----------------------------------------------------------------------------
(* Steps that move the lease of a task                                     *)

\* The recorded tasks stay the same if no task appears.
LEMMA RecordedSame ==
    ASSUME TaskInv, TaskInv', NEW e \in Entities,
           \A q \in Parses : task'[q].status = "none" <=> task[q].status = "none"
    PROVE  Recorded(e)' = Recorded(e)
BY DEF Recorded, TaskInv, NoTask

\* The chain of changes is one of Mongo's: it depends on no lease and no acknowledgement.
LEMMA ChainFrame ==
    ASSUME ChainInv, UNCHANGED mongo,
           \A q \in Parses : Changed(q) =>
              task'[q].version = task[q].version /\ task'[q].state = task[q].state
    PROVE  ChainInv'
<1>1. receipt' = receipt /\ current' = current
  BY DEF mongo
<1> DEFINE Led(e, v, s) ==
       \/ /\ s = "none"
          /\ \A q \in Parses : EntityOf[q] = e /\ Changed(q)' => task'[q].version >= v
       \/ \E q \in Parses :
             /\ /\ EntityOf[q] = e /\ Changed(q)' /\ task'[q].version < v
                /\ \A r \in Parses : EntityOf[r] = e /\ Changed(r)' /\ task'[r].version < v
                                        => task'[r].version <= task'[q].version
             /\ task'[q].state = s
<1>2. ASSUME NEW e, NEW v, NEW s, LedTo(e, v, s)
      PROVE  Led(e, v, s)
  BY <1>1, <1>2 DEF LedTo, LastChange, Changed
<1>3. ASSUME NEW p \in Parses, Changed(p)'
      PROVE  LedTo(EntityOf[p], task[p].version, receipt[p].previous)'
  <2>1. LedTo(EntityOf[p], task[p].version, receipt[p].previous)
    BY <1>1, <1>3 DEF ChainInv, Changed
  <2>2. Led(EntityOf[p], task[p].version, receipt[p].previous)
    BY <1>2, <2>1
  <2>3. task'[p].version = task[p].version /\ receipt'[p].previous = receipt[p].previous
    BY <1>1, <1>3 DEF Changed
  <2>4. QED  BY <2>2, <2>3 DEF LedTo, LastChange
<1>4. ASSUME NEW e \in Entities
      PROVE  LedTo(e, current[e].version + 1, current[e].state)'
  <2>1. LedTo(e, current[e].version + 1, current[e].state)
    BY DEF ChainInv
  <2>2. Led(e, current[e].version + 1, current[e].state)
    BY <1>2, <2>1
  <2>3. QED  BY <1>1, <2>2 DEF LedTo, LastChange
<1>5. QED  BY <1>3, <1>4 DEF ChainInv

\* A lease moves from or to a task that is neither new nor acknowledged: no property looks
\* at more of it than that, its version and its state.
LEMMA LeaseStep ==
    ASSUME ProjectionInv, NEW p \in Parses,
           task' \in [Parses -> TaskRow],
           \A q \in Parses \ {p} : task'[q] = task[q],
           task[p].status \in OPEN_TASK_STATUSES,
           task'[p].status \in OPEN_TASK_STATUSES \cup {"quarantined"},
           task'[p].version = task[p].version, task'[p].state = task[p].state,
           task'[p].owner # Nobody <=> task'[p].status = "leased",
           worker' \in [Workers -> {Idle} \cup [parse : Parses, applied : BOOLEAN]],
           \A w \in Workers : worker'[w] \in {worker[w], Idle, [parse |-> p, applied |-> FALSE]},
           UNCHANGED <<indexed, version, confirmed, artifact, command, acks, events, parser,
                       listed, mongo>>
    PROVE  ProjectionInv'
<1> USE Statuses DEF ProjectionInv, mongo, acknowledged
<1>1. \A q \in Parses : /\ task'[q].version = task[q].version
                        /\ task'[q].state = task[q].state
                        /\ task'[q].status = "none" <=> task[q].status = "none"
                        /\ task'[q].status = "succeeded" <=> task[q].status = "succeeded"
  OBVIOUS
<1>2. TypeOK'
  BY DEF TypeOK
<1>3. TaskInv'
  BY <1>1 DEF TaskInv
<1>4. IndexInv' /\ ParseInv' /\ EventOncePerChange'
  BY <1>1 DEF IndexInv, ParseInv, EventOncePerChange, TypeOK
<1>5. VersionInv'
  <2>1. \A e \in Entities : Recorded(e)' = Recorded(e)
    BY <1>1, <1>3, RecordedSame
  <2>2. QED  BY <1>1, <2>1 DEF VersionInv
<1>6. WorkerInv'
  BY <1>1 DEF WorkerInv, TypeOK, Idle
<1>7. ReceiptInv' /\ ConfirmedInv' /\ CurrentInv'
  BY <1>1 DEF ReceiptInv, ConfirmedInv, CurrentInv
<1>8. ChainInv'
  BY <1>1, ChainFrame
<1>9. QED  BY <1>2, <1>3, <1>4, <1>5, <1>6, <1>7, <1>8

\* A worker that lets go of its task is idle, and the others are as before.
LEMMA LetGoStep ==
    ASSUME TypeOK, NEW w \in Workers, LetGo(w)
    PROVE  /\ worker' \in [Workers -> {Idle} \cup [parse : Parses, applied : BOOLEAN]]
           /\ \A u \in Workers : worker'[u] \in {worker[u], Idle}
           /\ worker[w].parse \in Parses
BY DEF LetGo, TypeOK

\* claim_projection_tasks
LEMMA ClaimInv ==
    ASSUME ProjectionInv, NEW w \in Workers, NEW p \in Parses, claim_projection_tasks(w, p)
    PROVE  ProjectionInv'
<1> USE Statuses, ProjectionAssumption DEF ProjectionInv
<1>1. task[p] \in TaskRow /\ task[p].attempt + 1 \in Nat
  BY DEF TypeOK, TaskRow
<1>2. task' = [task EXCEPT ![p].status = "leased", ![p].owner = w,
                           ![p].attempt = task[p].attempt + 1]
  BY <1>1 DEF claim_projection_tasks, TypeOK, TaskRow
<1>3. /\ task' \in [Parses -> TaskRow]
      /\ \A q \in Parses \ {p} : task'[q] = task[q]
      /\ task'[p].status = "leased" /\ task'[p].owner = w
      /\ task'[p].version = task[p].version /\ task'[p].state = task[p].state
  BY <1>1, <1>2, LeaseColumns
<1>4. /\ worker' \in [Workers -> {Idle} \cup [parse : Parses, applied : BOOLEAN]]
      /\ \A u \in Workers : worker'[u] \in {worker[u], [parse |-> p, applied |-> FALSE]}
  BY DEF claim_projection_tasks, TypeOK
<1>5. /\ task[p].status \in OPEN_TASK_STATUSES
      /\ UNCHANGED <<indexed, version, confirmed, artifact, command, acks, events, parser,
                     listed, mongo>>
  BY DEF claim_projection_tasks, CLAIMABLE_PROJECTION_STATUSES
<1> HIDE DEF ProjectionInv
<1>6. QED  BY <1>3, <1>4, <1>5, LeaseStep

\* A task that is open gives up its lease, whoever asks for it.
LEMMA ReleaseStep ==
    ASSUME ProjectionInv, NEW p \in Parses, task[p].status \in OPEN_TASK_STATUSES,
           NEW s \in {"pending", "retry", "quarantined"}, Release(p, s),
           worker' \in [Workers -> {Idle} \cup [parse : Parses, applied : BOOLEAN]],
           \A w \in Workers : worker'[w] \in {worker[w], Idle},
           UNCHANGED <<indexed, version, confirmed, artifact, command, acks, events, parser,
                       listed, mongo>>
    PROVE  ProjectionInv'
<1>1. /\ task' \in [Parses -> TaskRow]
      /\ \A q \in Parses \ {p} : task'[q] = task[q]
      /\ task'[p].status = s /\ task'[p].owner = Nobody
      /\ task'[p].version = task[p].version /\ task'[p].state = task[p].state
  BY Statuses, ReleaseColumns DEF ProjectionInv
<1>2. QED  BY <1>1, Statuses, LeaseStep

\* retry_projection_task and the worker's quarantine
LEMMA RetryQuarantineInv ==
    ASSUME ProjectionInv, NEW w \in Workers, retry_projection_task(w) \/ quarantine(w)
    PROVE  ProjectionInv'
<1>1. LetGo(w) /\ Mine(w)
  BY DEF retry_projection_task, quarantine
<1>2. /\ worker' \in [Workers -> {Idle} \cup [parse : Parses, applied : BOOLEAN]]
      /\ \A u \in Workers : worker'[u] \in {worker[u], Idle}
      /\ worker[w].parse \in Parses
  BY <1>1, LetGoStep DEF ProjectionInv
<1>3. task[worker[w].parse].status \in OPEN_TASK_STATUSES
  BY <1>1, Statuses DEF Mine, _owned
<1>4. /\ Release(worker[w].parse, "retry") \/ Release(worker[w].parse, "quarantined")
      /\ UNCHANGED <<indexed, version, confirmed, artifact, command, acks, events, parser,
                     listed, mongo>>
  BY DEF retry_projection_task, quarantine, _quarantine_locked
<1>5. QED  BY <1>2, <1>3, <1>4, ReleaseStep

\* release_projection_task
LEMMA DrainInv ==
    ASSUME ProjectionInv, NEW w \in Workers, release_projection_task(w)
    PROVE  ProjectionInv'
<1> DEFINE p == worker[w].parse
           n == GREATEST(task[p].attempt - 1, 0)
<1>1. LetGo(w) /\ Mine(w)
  BY DEF release_projection_task
<1>2. /\ worker' \in [Workers -> {Idle} \cup [parse : Parses, applied : BOOLEAN]]
      /\ \A u \in Workers : worker'[u] \in {worker[u], Idle}
      /\ p \in Parses
  BY <1>1, LetGoStep DEF ProjectionInv
<1>3. task[p].status \in OPEN_TASK_STATUSES
  BY <1>1, Statuses DEF Mine, _owned
<1>4. task[p] \in TaskRow /\ n \in Nat
  BY <1>2 DEF ProjectionInv, TypeOK, TaskRow, GREATEST
<1>5. /\ task' = [task EXCEPT ![p].status = "pending", ![p].owner = Nobody, ![p].attempt = n]
      /\ UNCHANGED <<indexed, version, confirmed, artifact, command, acks, events, parser,
                     listed, mongo>>
  BY <1>2, <1>4 DEF release_projection_task, ProjectionInv, TypeOK, TaskRow
<1> HIDE DEF p, n
<1>6. /\ task' \in [Parses -> TaskRow]
      /\ \A q \in Parses \ {p} : task'[q] = task[q]
      /\ task'[p].status = "pending" /\ task'[p].owner = Nobody
      /\ task'[p].version = task[p].version /\ task'[p].state = task[p].state
  BY <1>2, <1>4, <1>5, Statuses, LeaseColumns DEF ProjectionInv
<1>7. QED  BY <1>2, <1>3, <1>5, <1>6, Statuses, LeaseStep

\* recover_expired_projection_leases and the operator's quarantine
LEMMA RecoverInv ==
    ASSUME ProjectionInv, NEW p \in Parses,
           recover_expired_projection_leases(p) \/ quarantine_projection_task(p)
    PROVE  ProjectionInv'
<1>1. /\ Release(p, "pending") \/ Release(p, "quarantined")
      /\ UNCHANGED <<indexed, version, confirmed, artifact, command, acks, events, parser,
                     worker, listed, mongo>>
  BY DEF recover_expired_projection_leases, quarantine_projection_task, _quarantine_locked
<1>2. task[p].status \in OPEN_TASK_STATUSES
  <2>1. task[p] # NoTask => task[p].status # "none"
    BY DEF ProjectionInv, TaskInv
  <2>2. QED
    BY <2>1, Statuses
    DEF recover_expired_projection_leases, quarantine_projection_task, ProjectionInv,
        TypeOK, TaskRow
<1>3. worker' \in [Workers -> {Idle} \cup [parse : Parses, applied : BOOLEAN]]
  BY <1>1 DEF ProjectionInv, TypeOK
<1>4. QED  BY <1>1, <1>2, <1>3, ReleaseStep

-----------------------------------------------------------------------------
(* Steps of the parsers, and those that only look                          *)

\* A step that writes no version, task, receipt or acknowledgement keeps what is said about
\* them; a command it removes has done its work.
LEMMA QuietStep ==
    ASSUME ProjectionInv, TypeOK', ParseInv', WorkerInv',
           UNCHANGED <<indexed, version, confirmed, task, acks, events, mongo>>,
           \A p \in Parses : command[p] = "stored" => command'[p] = "stored" \/ acknowledged(p)
    PROVE  ProjectionInv'
<1> USE DEF ProjectionInv, acknowledged
<1>1. receipt' = receipt /\ current' = current
  BY DEF mongo
<1>2. TaskInv'
  BY DEF TaskInv
<1>3. VersionInv'
  <2>1. \A e \in Entities : Recorded(e)' = Recorded(e)
    BY <1>2, RecordedSame
  <2>2. QED  BY <2>1 DEF VersionInv
<1>4. IndexInv' /\ EventOncePerChange' /\ ReceiptInv' /\ ConfirmedInv' /\ CurrentInv'
  BY <1>1 DEF IndexInv, EventOncePerChange, ReceiptInv, ConfirmedInv, CurrentInv
<1>5. ChainInv'
  BY ChainFrame
<1>6. QED  BY <1>2, <1>3, <1>4, <1>5

\* Nothing happens.
LEMMA StutterInv ==
    ASSUME ProjectionInv, UNCHANGED vars
    PROVE  ProjectionInv'
<1>1. TypeOK' /\ ParseInv' /\ WorkerInv'
  BY DEF vars, ProjectionInv, TypeOK, ParseInv, WorkerInv
<1>2. QED  BY <1>1, QuietStep DEF vars, mongo

\* upsert_entity: ON CONFLICT DO NOTHING keeps the counters of a known entity, and those of a
\* new one were 0.
LEMMA UpsertInv ==
    ASSUME ProjectionInv, NEW e \in Entities, upsert_entity(e)
    PROVE  ProjectionInv'
<1> USE DEF ProjectionInv, acknowledged
<1>1. version' = version /\ confirmed' = confirmed
  BY DEF upsert_entity, IndexInv, TypeOK
<1>2. /\ indexed \subseteq indexed' /\ indexed' \subseteq Entities
      /\ UNCHANGED <<task, artifact, command, acks, events, parser, worker, listed, mongo>>
  BY DEF upsert_entity, TypeOK
<1>3. receipt' = receipt /\ current' = current
  BY <1>2 DEF mongo
<1>4. TypeOK'
  BY <1>1, <1>2, <1>3 DEF TypeOK
<1>5. TaskInv'
  BY <1>1, <1>2 DEF TaskInv
<1>6. VersionInv'
  <2>1. \A f \in Entities : Recorded(f)' = Recorded(f)
    BY <1>2, <1>5, RecordedSame
  <2>2. QED  BY <1>1, <1>2, <2>1 DEF VersionInv
<1>7. IndexInv' /\ ParseInv' /\ WorkerInv' /\ EventOncePerChange'
  BY <1>1, <1>2, <1>3 DEF IndexInv, ParseInv, WorkerInv, EventOncePerChange
<1>8. ReceiptInv' /\ ConfirmedInv' /\ CurrentInv'
  BY <1>1, <1>2, <1>3 DEF ReceiptInv, ConfirmedInv, CurrentInv
<1>9. ChainInv'
  BY <1>2, ChainFrame
<1>10. QED  BY <1>4, <1>5, <1>6, <1>7, <1>8, <1>9

\* The row lock: no other parser is inside the entity while this one reads its counter.
LEMMA LockInv ==
    ASSUME ProjectionInv, NEW k \in Parsers, NEW p \in Parses, NEW s \in States,
           record_parse_result_lock(k, p, s)
    PROVE  ProjectionInv'
<1> USE ProjectionAssumption
<1> DEFINE b == [parse |-> p, state |-> s, base |-> version[EntityOf[p]],
                 known |-> task[p] # NoTask]
<1>1. /\ UNCHANGED <<indexed, version, confirmed, task, artifact, command, acks, events,
                     worker, listed, mongo>>
      /\ parser' = [parser EXCEPT ![k] = b]
  BY DEF record_parse_result_lock, pgvars
<1>2. /\ b \in [parse : Parses, state : States, base : Nat, known : BOOLEAN]
      /\ b.parse = p /\ b.base = version[EntityOf[p]]
      /\ ~b.known => task[p].status = "none"
  <2>1. version[EntityOf[p]] \in Nat
    BY DEF ProjectionInv, TypeOK
  <2>2. PICK known \in BOOLEAN : known = (task[p] # NoTask)
    OBVIOUS
  <2>3. b = [parse |-> p, state |-> s, base |-> version[EntityOf[p]], known |-> known]
    BY <2>2
  <2>4. task[p] = NoTask => task[p].status = "none"
    BY DEF NoTask
  <2>5. ~known => task[p] = NoTask
    BY <2>2
  <2>6. QED  BY <2>1, <2>3, <2>4, <2>5
<1> HIDE DEF b
<1>3. TypeOK'
  BY <1>1, <1>2 DEF ProjectionInv, TypeOK, mongo
<1>4. ParseInv'
  <2>1. parser'[k] = b /\ \A j \in Parsers \ {k} : parser'[j] = parser[j]
    BY <1>1 DEF ProjectionInv, TypeOK
  <2>2. /\ EntityOf[p] \in indexed
        /\ \A j \in Parsers \ {k} : parser[j] # NoParse => EntityOf[parser[j].parse] # EntityOf[p]
    BY DEF record_parse_result_lock, EntityUnlocked
  <2>3. QED  BY <1>1, <1>2, <2>1, <2>2 DEF ProjectionInv, ParseInv
<1>5. WorkerInv'
  BY <1>1 DEF ProjectionInv, WorkerInv, mongo
<1>6. QED  BY <1>1, <1>3, <1>4, <1>5, QuietStep

\* A rolled back parse releases the lock.
LEMMA RollbackInv ==
    ASSUME ProjectionInv, NEW k \in Parsers, record_parse_result_rollback(k)
    PROVE  ProjectionInv'
<1> USE DEF record_parse_result_rollback
<1>1. UNCHANGED <<indexed, version, confirmed, task, artifact, command, acks, events,
                  worker, listed, mongo>>
  BY DEF pgvars
<1>2. TypeOK'
  BY <1>1 DEF ProjectionInv, TypeOK, mongo
<1>3. ParseInv'
  BY <1>1 DEF ProjectionInv, ParseInv, TypeOK
<1>4. WorkerInv'
  BY <1>1 DEF ProjectionInv, WorkerInv, mongo
<1>5. QED  BY <1>1, <1>2, <1>3, <1>4, QuietStep

\* A worker that is gone, a task that is listed, a command that is purged
LEMMA LookInv ==
    ASSUME ProjectionInv,
           \/ \E w \in Workers : lose(w)
           \/ \E p \in Parses : list_stale_projection_tasks(p) \/ purge_published(p)
    PROVE  ProjectionInv'
<1>1. CASE \E w \in Workers : lose(w)
  <2>1. PICK w \in Workers : lose(w)
    BY <1>1
  <2>2. /\ UNCHANGED <<indexed, version, confirmed, task, artifact, command, acks, events,
                       parser, listed, mongo>>
        /\ LetGo(w)
    BY <2>1 DEF lose, pgvars
  <2>3. /\ worker' \in [Workers -> {Idle} \cup [parse : Parses, applied : BOOLEAN]]
        /\ \A u \in Workers : worker'[u] \in {worker[u], Idle}
    BY <2>2, LetGoStep DEF ProjectionInv
  <2>4. TypeOK'
    BY <2>2, <2>3 DEF ProjectionInv, TypeOK, mongo
  <2>5. ParseInv' /\ WorkerInv'
    BY <2>2, <2>3 DEF ProjectionInv, ParseInv, WorkerInv, mongo
  <2>6. QED  BY <2>2, <2>4, <2>5, QuietStep
<1>2. CASE \E p \in Parses : list_stale_projection_tasks(p)
  <2>1. PICK p \in Parses : list_stale_projection_tasks(p)
    BY <1>2
  <2>2. UNCHANGED <<indexed, version, confirmed, task, artifact, command, acks, events,
                    parser, worker, mongo>>
    BY <2>1 DEF list_stale_projection_tasks, pgvars
  <2>3. TypeOK'
    BY <2>1, <2>2 DEF list_stale_projection_tasks, ProjectionInv, TypeOK, mongo
  <2>4. ParseInv' /\ WorkerInv'
    BY <2>1, <2>2 DEF list_stale_projection_tasks, ProjectionInv, ParseInv, WorkerInv, mongo
  <2>5. QED  BY <2>2, <2>3, <2>4, QuietStep
<1>3. CASE \E p \in Parses : purge_published(p)
  <2>1. PICK p \in Parses : purge_published(p)
    BY <1>3
  <2>2. UNCHANGED <<indexed, version, confirmed, task, artifact, acks, events, parser,
                    worker, listed, mongo>>
    BY <2>1 DEF purge_published
  <2>3. TypeOK'
    BY <2>1, <2>2 DEF purge_published, ProjectionInv, TypeOK, mongo
  <2>4. ParseInv' /\ WorkerInv'
    BY <2>2 DEF ProjectionInv, ParseInv, WorkerInv, mongo
  <2>5. \A q \in Parses : command[q] = "stored" => command'[q] = "stored" \/ acknowledged(q)
    BY <2>1 DEF purge_published, _is_acknowledged, ProjectionInv, TypeOK
  <2>6. QED  BY <2>2, <2>3, <2>4, <2>5, QuietStep
<1>4. QED  BY <1>1, <1>2, <1>3

\* The row of a new task.
LEMMA NewRow ==
    ASSUME NEW v \in Nat, NEW s \in States
    PROVE  LET t == [NoTask EXCEPT !.status = "pending", !.version = v, !.state = s] IN
           /\ t \in TaskRow /\ t.status = "pending" /\ t.owner = Nobody
           /\ t.version = v /\ t.state = s
<1>1. NoTask \in TaskRow /\ NoTask.owner = Nobody
  BY DEF NoTask, TaskRow
<1>2. ASSUME NEW r \in TaskRow
      PROVE  LET t == [r EXCEPT !.status = "pending", !.version = v, !.state = s] IN
             /\ t \in TaskRow /\ t.status = "pending" /\ t.owner = r.owner
             /\ t.version = v /\ t.state = s
  BY Statuses DEF TaskRow
<1>3. QED  BY <1>1, <1>2

\* A new task: it has the next version of its entity, and no past.
LEMMA NewTaskInv ==
    ASSUME ProjectionInv, NEW k \in Parsers, parser[k] # NoParse, ~parser[k].known,
           record_parse_result_commit(k)
    PROVE  ProjectionInv'
<1> USE ProjectionAssumption
<1>0. PICK p \in Parses, s \in States, b \in Nat :
         parser[k].parse = p /\ parser[k].state = s /\ parser[k].base = b
  BY DEF ProjectionInv, TypeOK
<1> DEFINE e == EntityOf[p]
           v == b + 1
           t == [NoTask EXCEPT !.status = "pending", !.version = v, !.state = s]
<1>1. e \in Entities /\ v \in Nat
  OBVIOUS
<1>2. /\ e \in indexed
      /\ b = version[e]
      /\ task[p].status = "none"
      /\ version[e] \in Nat
  BY <1>0, <1>1 DEF ProjectionInv, ParseInv, TypeOK
<1>3. /\ version' = [version EXCEPT ![e] = v]
      /\ task' = [task EXCEPT ![p] = t]
      /\ artifact' = [artifact EXCEPT ![<<e, s>>] = IF @ = "none" THEN p ELSE @]
      /\ command' = [command EXCEPT ![p] = "stored"]
      /\ parser' = [parser EXCEPT ![k] = NoParse]
      /\ UNCHANGED <<indexed, confirmed, acks, events, mongo, worker, listed>>
  BY <1>0, <1>2 DEF record_parse_result_commit, _artifact_for, _command_outbox_row
<1>4. /\ t \in TaskRow /\ t.status = "pending" /\ t.owner = Nobody
      /\ t.version = v /\ t.state = s
  <2> HIDE DEF v
  <2> QED  BY <1>1, NewRow
<1> HIDE DEF t
<1>5. /\ task'[p] = t
      /\ task' \in [Parses -> TaskRow]
      /\ \A q \in Parses \ {p} : task'[q] = task[q]
  BY <1>1, <1>3, <1>4 DEF ProjectionInv, TypeOK
<1>6. /\ version'[e] = version[e] + 1
      /\ \A f \in Entities \ {e} : version'[f] = version[f]
      /\ version' \in [Entities -> Nat]
  BY <1>1, <1>2, <1>3 DEF ProjectionInv, TypeOK
<1>7. receipt[p] = NoReceipt /\ ~acknowledged(p)
  BY <1>1, <1>2 DEF ProjectionInv, ReceiptInv, TaskInv
<1>8. receipt' = receipt /\ current' = current
  BY <1>3 DEF mongo
<1> HIDE DEF e, v
<1>9. TypeOK'
  <2>1. artifact' \in [Entities \X States -> Parses \cup {"none"}]
    BY <1>1, <1>3 DEF ProjectionInv, TypeOK
  <2>2. command' \in [Parses -> {"none", "stored", "purged"}]
    BY <1>1, <1>3 DEF ProjectionInv, TypeOK
  <2>3. parser' \in [Parsers -> {NoParse} \cup
                       [parse : Parses, state : States, base : Nat, known : BOOLEAN]]
    BY <1>3 DEF ProjectionInv, TypeOK
  <2>4. \A q \in Parses : task'[q].owner # Nobody <=> task'[q].status = "leased"
    BY <1>4, <1>5 DEF ProjectionInv, TypeOK
  <2>5. QED  BY <1>3, <1>5, <1>6, <1>8, <2>1, <2>2, <2>3, <2>4 DEF ProjectionInv, TypeOK
<1>10. TaskInv'
  <2>1. ASSUME NEW q \in Parses \ {p}
        PROVE  /\ task'[q] = task[q] /\ command'[q] = command[q] /\ acks'[q] = acks[q]
               /\ task[q].version \in 1..version[EntityOf[q]]
                     => task[q].version \in 1..version'[EntityOf[q]]
    BY <1>1, <1>2, <1>3, <1>5, <1>6, <2>1 DEF ProjectionInv, TypeOK
  <2>2. \A q \in Parses \ {p} :
           /\ task'[q].status = "none" => task'[q] = NoTask
           /\ task'[q].status # "none" =>
                 /\ EntityOf[q] \in indexed'
                 /\ task'[q].version \in 1..version'[EntityOf[q]]
                 /\ task'[q].state \in States
                 /\ command'[q] = "stored" \/ acknowledged(q)'
           /\ acknowledged(q)' <=> task'[q].status = "succeeded"
    BY <1>3, <2>1 DEF ProjectionInv, TaskInv, acknowledged
  <2>3. /\ task'[p].status = "pending" /\ EntityOf[p] \in indexed'
        /\ task'[p].version \in 1..version'[EntityOf[p]]
        /\ task'[p].state \in States
    BY <1>2, <1>3, <1>4, <1>5, <1>6 DEF e, v
  <2>4. command'[p] = "stored" /\ ~acknowledged(p)'
    BY <1>1, <1>3, <1>7 DEF ProjectionInv, TypeOK, acknowledged
  <2>5. QED  BY <2>2, <2>3, <2>4 DEF TaskInv
<1>11. VersionInv'
  <2>1. \A q \in Parses \ {p} : task'[q].status # "none" /\ EntityOf[q] = e
                                   => task'[q].version \in 1..version[e]
    BY <1>5 DEF ProjectionInv, TaskInv
  <2>2. \A q, r \in Parses :
           /\ task'[q].status # "none" /\ task'[r].status # "none"
           /\ EntityOf[q] = EntityOf[r] /\ task'[q].version = task'[r].version
           => q = r
    <3>1. \A q \in Parses \ {p} : task'[q].status # "none" /\ EntityOf[q] = EntityOf[p]
                                   => task'[q].version # task'[p].version
      BY <1>2, <1>4, <1>5, <2>1 DEF e, v
    <3>2. \A q, r \in Parses \ {p} :
             /\ task'[q].status # "none" /\ task'[r].status # "none"
             /\ EntityOf[q] = EntityOf[r] /\ task'[q].version = task'[r].version
             => q = r
      BY <1>5 DEF ProjectionInv, VersionInv
    <3>3. QED  BY <3>1, <3>2
  <2>3. ASSUME NEW f \in Entities, NEW n \in 1..version'[f]
        PROVE  \E q \in Parses : EntityOf[q] = f /\ task'[q].status # "none"
                                    /\ task'[q].version = n
    <3>1. CASE f = e /\ n = v
      BY <1>1, <1>4, <1>5, <3>1 DEF e
    <3>2. CASE ~(f = e /\ n = v)
      <4>1. n \in 1..version[f]
        <5>1. n \in Nat /\ n >= 1 /\ n <= version'[f] /\ version[f] \in Nat
          BY <1>6 DEF ProjectionInv, TypeOK
        <5>2. f = e => n <= version[f]
          BY <1>2, <1>6, <3>2, <5>1 DEF v
        <5>3. QED  BY <1>6, <5>1, <5>2
      <4>2. PICK q \in Parses : EntityOf[q] = f /\ task[q].status # "none" /\ task[q].version = n
        BY <2>3, <4>1 DEF ProjectionInv, VersionInv
      <4>3. q # p
        BY <1>2, <4>2
      <4>4. QED  BY <1>5, <4>2, <4>3
    <3>3. QED  BY <3>1, <3>2
  <2>4. ASSUME NEW f \in Entities
        PROVE  IsFiniteSet(Recorded(f)') /\ Cardinality(Recorded(f)') = version'[f]
    <3>1. /\ IsFiniteSet(Recorded(f)) /\ Cardinality(Recorded(f)) = version[f]
          /\ Recorded(f) = {q \in Parses : EntityOf[q] = f /\ task[q].status # "none"}
          /\ Recorded(f)' = {q \in Parses : EntityOf[q] = f /\ task'[q].status # "none"}
      BY <1>10, RecordedStatus, RecordedStatusNext DEF ProjectionInv, VersionInv
    <3>2. CASE f = e
      <4>1. Recorded(f)' = Recorded(f) \cup {p} /\ p \notin Recorded(f)
        BY <1>1, <1>2, <1>4, <1>5, <3>1, <3>2 DEF e
      <4>2. QED  BY <1>6, <3>1, <3>2, <4>1, FS_AddElement
    <3>3. CASE f # e
      <4>1. Recorded(f)' = Recorded(f)
        BY <1>5, <3>1, <3>3 DEF e
      <4>2. QED  BY <1>6, <3>1, <3>3, <4>1
    <3>4. QED  BY <3>2, <3>3
  <2>5. QED  BY <2>2, <2>3, <2>4 DEF VersionInv
<1>12. ParseInv'
  <2>1. \A j \in Parsers \ {k} : parser'[j] = parser[j]
    BY <1>3 DEF ProjectionInv, TypeOK
  <2>2. parser'[k] = NoParse
    BY <1>3 DEF ProjectionInv, TypeOK
  <2>3. \A j \in Parsers \ {k} : parser[j] # NoParse =>
           parser[j].parse \in Parses /\ EntityOf[parser[j].parse] # e
    BY <1>0 DEF ProjectionInv, ParseInv, TypeOK, e
  <2>4. \A j \in Parsers \ {k} : parser[j] # NoParse =>
           /\ version'[EntityOf[parser[j].parse]] = version[EntityOf[parser[j].parse]]
           /\ task'[parser[j].parse] = task[parser[j].parse]
    BY <1>5, <1>6, <2>3 DEF e
  <2>5. QED  BY <1>3, <2>1, <2>2, <2>4 DEF ProjectionInv, ParseInv
<1>13. IndexInv'
  BY <1>2, <1>3, <1>6 DEF ProjectionInv, IndexInv
<1>14. WorkerInv'
  <2>1. \A q \in Parses : task[q].status # "none" => task'[q].status # "none"
    BY <1>4, <1>5
  <2>2. QED  BY <1>3, <1>8, <2>1 DEF ProjectionInv, WorkerInv, TypeOK
<1>15. ReceiptInv'
  BY <1>3, <1>5, <1>7, <1>8 DEF ProjectionInv, ReceiptInv, acknowledged
<1>16. ConfirmedInv'
  BY <1>3, <1>5, <1>7 DEF ProjectionInv, ConfirmedInv, acknowledged
<1>17. EventOncePerChange' /\ CurrentInv'
  BY <1>3, <1>5, <1>7, <1>8 DEF ProjectionInv, EventOncePerChange, CurrentInv, acknowledged
<1>18. ChainInv'
  <2>1. ~Changed(p)
    BY <1>7 DEF Changed, NoReceipt
  <2>2. QED  BY <1>3, <1>5, <2>1, ChainFrame DEF ProjectionInv
<1>19. QED
  BY <1>9, <1>10, <1>11, <1>12, <1>13, <1>14, <1>15, <1>16, <1>17, <1>18 DEF ProjectionInv

\* record_parse_result, the commit: a parse that is known writes nothing.
LEMMA CommitInv ==
    ASSUME ProjectionInv, NEW k \in Parsers, record_parse_result_commit(k)
    PROVE  ProjectionInv'
<1>1. parser[k] # NoParse
  BY DEF record_parse_result_commit
<1>2. CASE ~parser[k].known
  BY <1>1, <1>2, NewTaskInv
<1>3. CASE parser[k].known
  <2>1. /\ UNCHANGED <<indexed, version, confirmed, task, artifact, command, acks, events,
                       worker, listed, mongo>>
        /\ parser' = [parser EXCEPT ![k] = NoParse]
    BY <1>3 DEF record_parse_result_commit
  <2>2. TypeOK'
    BY <2>1 DEF ProjectionInv, TypeOK, mongo
  <2>3. ParseInv'
    BY <2>1 DEF ProjectionInv, ParseInv, TypeOK
  <2>4. WorkerInv'
    BY <2>1 DEF ProjectionInv, WorkerInv, mongo
  <2>5. QED  BY <2>1, <2>2, <2>3, <2>4, QuietStep
<1>4. QED  BY <1>2, <1>3

-----------------------------------------------------------------------------
(* The projector                                                           *)

\* What project writes for a task without a receipt.
Applies(p, r) ==
    LET e == EntityOf[p]
        newer == task[p].version > current[e].version IN
    /\ receipt' = [receipt EXCEPT ![p] = r]
    /\ r.version = task[p].version
    /\ r.applied <=> newer
    /\ r.changed <=> newer /\ current[e].state # task[p].state
    /\ r.previous = current[e].state
    /\ current' = [current EXCEPT ![e] =
          IF newer THEN [version |-> task[p].version, state |-> task[p].state] ELSE @]

\* A document has a version, and a state unless its version is 0.
LEMMA Documents ==
    ASSUME TypeOK, NEW e \in Entities
    PROVE  current[e].version \in Nat /\ current[e].state \in States \cup {"none"}
BY DEF TypeOK, NoDocument

\* A task that is applied extends the chain of its entity at the end, and a task that comes
\* too late, or changes nothing, leaves it as it is.
LEMMA ChainProject ==
    ASSUME ProjectionInv, NEW p \in Parses, NEW r, Applies(p, r),
           receipt[p] = NoReceipt, task[p].status # "none", UNCHANGED task
    PROVE  ChainInv'
<1> USE ProjectionAssumption
<1> DEFINE e == EntityOf[p]
           v == task[p].version
           c == current[e].version
<1>1. /\ e \in Entities /\ v \in Nat /\ c \in Nat
      /\ \A q \in Parses : task[q].version \in Nat
      /\ \A f \in Entities : current[f].version \in Nat
  BY Documents DEF ProjectionInv, TypeOK, TaskRow
<1>2. ~Changed(p)
  BY DEF Changed, NoReceipt
<1>3. /\ \A q \in Parses \ {p} : receipt'[q] = receipt[q] /\ (Changed(q)' <=> Changed(q))
      /\ receipt'[p] = r
      /\ Changed(p)' <=> v > c /\ current[e].state # task[p].state
  BY DEF Applies, Changed, ProjectionInv, TypeOK
<1>4. /\ \A f \in Entities \ {e} : current'[f] = current[f]
      /\ v > c => current'[e].version = v /\ current'[e].state = task[p].state
      /\ ~(v > c) => current'[e] = current[e]
  BY <1>1 DEF Applies, ProjectionInv, TypeOK
<1>5. \A q \in Parses : Changed(q) /\ EntityOf[q] = e => task[q].version <= c
  <2>1. \A q \in Parses : Changed(q) => receipt[q] # NoReceipt
    BY DEF Changed, NoReceipt
  <2>2. QED  BY <2>1 DEF ProjectionInv, CurrentInv
<1> HIDE DEF e, v, c
<1>c. PICK C : C = {q \in Parses : Changed(q)'}
  OBVIOUS
<1> DEFINE Led(f, n, s) ==
       \/ /\ s = "none"
          /\ \A q \in C : EntityOf[q] = f => task[q].version >= n
       \/ \E q \in C :
             /\ /\ EntityOf[q] = f /\ task[q].version < n
                /\ \A x \in C : EntityOf[x] = f /\ task[x].version < n
                                   => task[x].version <= task[q].version
             /\ task[q].state = s
<1>6. ASSUME NEW f, NEW n \in Nat, NEW s, LedTo(f, n, s), f # e \/ ~Changed(p)' \/ v >= n
      PROVE  Led(f, n, s)
  <2>1. \A q \in Parses : EntityOf[q] = f /\ Changed(q)' /\ task[q].version < n <=>
                          EntityOf[q] = f /\ Changed(q) /\ task[q].version < n
    BY <1>1, <1>2, <1>3, <1>6 DEF e, v
  <2>2. CASE /\ s = "none"
             /\ \A q \in Parses : EntityOf[q] = f /\ Changed(q) => task[q].version >= n
    BY <1>1, <1>c, <2>1, <2>2
  <2>3. CASE \E q \in Parses : LastChange(f, n, q) /\ task[q].state = s
    <3>1. PICK q \in Parses : LastChange(f, n, q) /\ task[q].state = s
      BY <2>3
    <3>2. QED  BY <1>c, <2>1, <3>1 DEF LastChange
  <2>4. QED  BY <1>6, <2>2, <2>3 DEF LedTo
<1> HIDE DEF Led
<1>7. ASSUME NEW s, NEW n \in Nat, LedTo(e, c + 1, s), n > c
      PROVE  LedTo(e, n, s)
  <2>1. \A q \in Parses : EntityOf[q] = e /\ Changed(q) => task[q].version < c + 1 /\ task[q].version < n
    BY <1>1, <1>5, <1>7
  <2>2. CASE /\ s = "none"
             /\ \A q \in Parses : EntityOf[q] = e /\ Changed(q) => task[q].version >= c + 1
    <3>1. \A q \in Parses : EntityOf[q] = e => ~Changed(q)
      BY <1>1, <2>1, <2>2
    <3>2. QED  BY <2>2, <3>1 DEF LedTo
  <2>3. CASE \E q \in Parses : LastChange(e, c + 1, q) /\ task[q].state = s
    <3>1. PICK q \in Parses : LastChange(e, c + 1, q) /\ task[q].state = s
      BY <2>3
    <3>2. LastChange(e, n, q)
      BY <2>1, <3>1 DEF LastChange
    <3>3. QED  BY <3>1, <3>2 DEF LedTo
  <2>4. QED  BY <1>7, <2>2, <2>3 DEF LedTo
<1>8. LedTo(e, c + 1, current[e].state)
  BY <1>1 DEF ProjectionInv, ChainInv, c
<1>9. ASSUME NEW q \in Parses, Changed(q)'
      PROVE  LedTo(EntityOf[q], task[q].version, receipt[q].previous)'
  <2>1. CASE q = p
    <3>1. v > c /\ receipt'[q].previous = current[e].state
      BY <1>3, <1>9, <2>1 DEF Applies, e
    <3>2. LedTo(e, v, current[e].state)
      BY <1>1, <1>7, <1>8, <3>1
    <3>3. Led(e, v, current[e].state)
      BY <1>1, <1>6, <3>2
    <3>4. QED  BY <1>c, <2>1, <3>1, <3>3 DEF Led, LedTo, LastChange, e, v
  <2>2. CASE q # p
    <3>1. Changed(q) /\ receipt'[q].previous = receipt[q].previous
      BY <1>3, <1>9, <2>2
    <3>2. LedTo(EntityOf[q], task[q].version, receipt[q].previous)
      BY <3>1 DEF ProjectionInv, ChainInv
    <3>3. EntityOf[q] # e \/ ~Changed(p)' \/ v >= task[q].version
      BY <1>1, <1>3, <1>5, <3>1
    <3>4. Led(EntityOf[q], task[q].version, receipt[q].previous)
      BY <1>1, <1>6, <3>2, <3>3
    <3>5. QED  BY <1>c, <3>1, <3>4 DEF Led, LedTo, LastChange
  <2>3. QED  BY <2>1, <2>2
<1>10. ASSUME NEW f \in Entities
       PROVE  LedTo(f, current[f].version + 1, current[f].state)'
  <2>1. CASE f # e \/ ~(v > c)
    <3>1. current'[f] = current[f] /\ (f # e \/ ~Changed(p)')
      BY <1>3, <1>4, <2>1
    <3>2. LedTo(f, current[f].version + 1, current[f].state)
      BY DEF ProjectionInv, ChainInv
    <3>3. Led(f, current[f].version + 1, current[f].state)
      BY <1>1, <1>6, <3>1, <3>2
    <3>4. QED  BY <1>c, <3>1, <3>3 DEF Led, LedTo, LastChange
  <2>2. CASE f = e /\ v > c /\ current[e].state = task[p].state
    <3>1. current'[f].version = v /\ current'[f].state = current[e].state /\ ~Changed(p)'
      BY <1>3, <1>4, <2>2
    <3>2. LedTo(e, v + 1, current[e].state)
      BY <1>1, <1>7, <1>8, <2>2
    <3>3. Led(e, v + 1, current[e].state)
      BY <1>1, <1>6, <3>1, <3>2
    <3>4. QED  BY <1>c, <2>2, <3>1, <3>3 DEF Led, LedTo, LastChange
  <2>3. CASE f = e /\ v > c /\ current[e].state # task[p].state
    <3>1. current'[f].version = v /\ current'[f].state = task[p].state /\ Changed(p)'
      BY <1>3, <1>4, <2>3
    <3>2. \A q \in Parses : Changed(q)' /\ EntityOf[q] = e => task[q].version <= v
      BY <1>1, <1>3, <1>5, <2>3 DEF v
    <3>3. Led(e, v + 1, task[p].state)
      BY <1>1, <1>c, <3>1, <3>2 DEF Led, e, v
    <3>4. QED  BY <1>c, <2>3, <3>1, <3>3 DEF Led, LedTo, LastChange
  <2>4. QED  BY <2>1, <2>2, <2>3
<1>11. QED  BY <1>9, <1>10 DEF ChainInv

\* project: a task that has a receipt is not applied again.
LEMMA ProjectInv ==
    ASSUME ProjectionInv, NEW w \in Workers, project(w)
    PROVE  ProjectionInv'
<1> USE ProjectionAssumption
<1>1. PICK p \in Parses : worker[w].parse = p
  BY DEF project, ProjectionInv, TypeOK
<1>2. /\ worker[w] # Idle /\ task[p].status # "none"
      /\ worker' = [worker EXCEPT ![w].applied = TRUE]
      /\ UNCHANGED <<indexed, version, confirmed, task, artifact, command, acks, events,
                     parser, listed>>
  BY <1>1 DEF project, pgvars, ProjectionInv, WorkerInv
<1>3. /\ worker' \in [Workers -> {Idle} \cup [parse : Parses, applied : BOOLEAN]]
      /\ \A u \in Workers \ {w} : worker'[u] = worker[u]
      /\ worker'[w].parse = p
  <2>1. worker[w] \in [parse : Parses, applied : BOOLEAN]
    BY <1>2 DEF ProjectionInv, TypeOK
  <2>2. PICK x \in [parse : Parses, applied : BOOLEAN] : x = [worker[w] EXCEPT !.applied = TRUE]
    BY <2>1
  <2>3. worker' = [worker EXCEPT ![w] = x] /\ x.parse = p
    BY <1>1, <1>2, <2>1, <2>2
  <2>4. QED  BY <2>3 DEF ProjectionInv, TypeOK
<1>4. ParseInv'
  BY <1>2 DEF ProjectionInv, ParseInv
<1>5. CASE receipt[p] # NoReceipt
  <2>1. UNCHANGED mongo
    BY <1>1, <1>5 DEF project
  <2>2. TypeOK'
    BY <1>2, <1>3, <2>1 DEF ProjectionInv, TypeOK, mongo
  <2>3. WorkerInv'
    BY <1>2, <1>3, <1>5, <2>1 DEF ProjectionInv, WorkerInv, mongo
  <2>4. QED  BY <1>2, <1>4, <2>1, <2>2, <2>3, QuietStep
<1>6. CASE receipt[p] = NoReceipt
  <2> DEFINE e == EntityOf[p]
             newer == task[p].version > current[e].version
             r == [version |-> task[p].version, applied |-> newer,
                   changed |-> newer /\ current[e].state # task[p].state,
                   previous |-> current[e].state]
  <2>1. /\ receipt' = [receipt EXCEPT ![p] = r]
        /\ current' = [current EXCEPT ![e] =
              IF newer THEN [version |-> task[p].version, state |-> task[p].state] ELSE @]
    BY <1>1, <1>6 DEF project
  <2>2. /\ task[p].version \in Nat /\ task[p].version > 0 /\ task[p].state \in States
        /\ e \in Entities
        /\ current[e].version \in Nat /\ current[e].state \in States \cup {"none"}
    BY <1>2, Documents DEF ProjectionInv, TypeOK, TaskRow, TaskInv
  <2>3. r \in Receipt /\ r # NoReceipt /\ Applies(p, r)
    <3>a. PICK a \in BOOLEAN : a = newer
      <4> HIDE DEF newer
      <4>1. newer \in BOOLEAN
        BY DEF newer
      <4>2. QED  BY <4>1
    <3>b. PICK b \in BOOLEAN : b = (newer /\ current[e].state # task[p].state)
      OBVIOUS
    <3>1. a = newer /\ b = (newer /\ current[e].state # task[p].state)
      BY <3>a, <3>b
    <3>2. r = [version |-> task[p].version, applied |-> a, changed |-> b,
               previous |-> current[e].state]
      BY <3>1
    <3>3. r \in Receipt /\ r.version = task[p].version /\ r.previous = current[e].state
          /\ r.applied = a /\ r.changed = b
      BY <2>2, <3>2 DEF Receipt
    <3>4. r # NoReceipt
      BY <2>2, <3>3 DEF NoReceipt
    <3> HIDE DEF r
    <3>5. QED  BY <2>1, <3>1, <3>3, <3>4 DEF Applies
  <2> HIDE DEF r
  <2>4. ChainInv'
    BY <1>2, <1>6, <2>3, ChainProject
  <2>5. /\ receipt' \in [Parses -> Receipt] /\ receipt'[p] = r
        /\ \A q \in Parses \ {p} : receipt'[q] = receipt[q]
    BY <2>1, <2>3 DEF ProjectionInv, TypeOK
  <2>6. current' \in [Entities -> {NoDocument} \cup [version : Nat, state : States]]
    BY <2>1, <2>2 DEF ProjectionInv, TypeOK
  <2>7. /\ \A f \in Entities \ {e} : current'[f] = current[f]
        /\ newer => current'[e].version = task[p].version
        /\ ~newer => current'[e] = current[e]
    BY <2>1, <2>2 DEF ProjectionInv, TypeOK
  <2>8. TypeOK'
    BY <1>2, <1>3, <2>5, <2>6 DEF ProjectionInv, TypeOK
  <2>9. ~acknowledged(p)
    BY <1>6 DEF ProjectionInv, ReceiptInv, acknowledged
  <2>10. TaskInv'
    BY <1>2 DEF ProjectionInv, TaskInv, acknowledged
  <2>11. VersionInv'
    <3>1. \A f \in Entities : Recorded(f)' = Recorded(f)
      BY <1>2, <2>10, RecordedSame DEF ProjectionInv
    <3>2. QED  BY <1>2, <3>1 DEF ProjectionInv, VersionInv
  <2>12. WorkerInv'
    BY <1>2, <1>3, <2>3, <2>5 DEF ProjectionInv, WorkerInv, TypeOK
  <2>13. ReceiptInv'
    BY <1>2, <2>3, <2>5, <2>9 DEF ProjectionInv, ReceiptInv, acknowledged, Applies
  <2>14. IndexInv' /\ ConfirmedInv'
    BY <1>2 DEF ProjectionInv, IndexInv, ConfirmedInv, acknowledged
  <2>15. EventOncePerChange'
    BY <1>2, <2>5, <2>9 DEF ProjectionInv, EventOncePerChange, acknowledged
  <2>16. CurrentInv'
    <3>1. \A q \in Parses : receipt'[q] # NoReceipt
                               => task'[q].version <= current'[EntityOf[q]].version
      <4>1. \A q \in Parses : task[q].version \in Nat
        BY DEF ProjectionInv, TypeOK, TaskRow
      <4>2. \A q \in Parses \ {p} : receipt'[q] # NoReceipt
                               => task[q].version <= current'[EntityOf[q]].version
        BY <2>2, <2>5, <2>7, <4>1 DEF ProjectionInv, CurrentInv
      <4>3. task[p].version <= current'[e].version
        BY <2>2, <2>7
      <4>4. QED  BY <1>2, <4>2, <4>3
    <3>2. ASSUME NEW f \in Entities, current'[f] # NoDocument
          PROVE  \E q \in Parses : /\ EntityOf[q] = f /\ receipt'[q] # NoReceipt
                                   /\ task'[q].version = current'[f].version
      <4>1. CASE f = e /\ newer
        BY <1>2, <2>3, <2>5, <2>7, <4>1
      <4>2. CASE ~(f = e /\ newer)
        <5>1. current'[f] = current[f]
          BY <2>7, <4>2
        <5>2. PICK q \in Parses : /\ EntityOf[q] = f /\ receipt[q] # NoReceipt
                                  /\ task[q].version = current[f].version
          BY <3>2, <5>1 DEF ProjectionInv, CurrentInv
        <5>3. q # p
          BY <1>6, <5>2
        <5>4. QED  BY <1>2, <2>5, <5>1, <5>2, <5>3
      <4>3. QED  BY <4>1, <4>2
    <3>3. QED  BY <3>1, <3>2 DEF CurrentInv
  <2>17. QED
    BY <1>4, <2>4, <2>8, <2>10, <2>11, <2>12, <2>13, <2>14, <2>15, <2>16 DEF ProjectionInv
<1>7. QED  BY <1>5, <1>6

-----------------------------------------------------------------------------
(* Acknowledgements                                                        *)

\* acknowledge_projection, called by the lease holder or by the reconciler: the first call
\* closes the task with the receipt, a later one changes nothing.
LEMMA AcknowledgeInv ==
    ASSUME ProjectionInv, NEW p \in Parses, receipt[p] # NoReceipt,
           acknowledge_projection(p),
           worker' \in [Workers -> {Idle} \cup [parse : Parses, applied : BOOLEAN]],
           \A w \in Workers : worker'[w] \in {worker[w], Idle},
           listed' \in {listed, "none"},
           UNCHANGED <<indexed, version, artifact, command, parser, mongo>>
    PROVE  ProjectionInv'
<1> USE ProjectionAssumption
<1>1. receipt' = receipt /\ current' = current
  BY DEF mongo
<1>2. CASE acknowledged(p)
  <2>1. UNCHANGED <<acks, confirmed, task, events>>
    BY <1>2 DEF acknowledge_projection
  <2>2. TypeOK'
    BY <1>1, <2>1 DEF ProjectionInv, TypeOK
  <2>3. ParseInv' /\ WorkerInv'
    BY <1>1, <2>1 DEF ProjectionInv, ParseInv, WorkerInv
  <2>4. QED  BY <2>1, <2>2, <2>3, QuietStep
<1>3. CASE ~acknowledged(p)
  <2> DEFINE e == EntityOf[p]
             v == task[p].version
  <2>1. /\ acks' = [acks EXCEPT ![p] = receipt[p]]
        /\ confirmed' = [confirmed EXCEPT ![e] = GREATEST(@, receipt[p].version)]
        /\ Release(p, "succeeded")
        /\ events' = [events EXCEPT ![p] =
              IF should_emit_domain_changed(receipt[p]) THEN @ + 1 ELSE @]
    BY <1>3 DEF acknowledge_projection
  <2>2. /\ task[p].status # "none" /\ receipt[p].version = v
        /\ v \in Nat /\ v > 0 /\ e \in Entities /\ e \in indexed
        /\ confirmed[e] \in Nat /\ receipt[p] \in Receipt
        /\ \A q \in Parses : task[q].version \in Nat
    BY DEF ProjectionInv, TypeOK, TaskRow, ReceiptInv, TaskInv
  <2>3. /\ task' \in [Parses -> TaskRow]
        /\ \A q \in Parses \ {p} : task'[q] = task[q]
        /\ task'[p].status = "succeeded" /\ task'[p].owner = Nobody
        /\ task'[p].version = v /\ task'[p].state = task[p].state
    BY <2>1, Statuses, ReleaseColumns DEF ProjectionInv
  <2>4. \A q \in Parses : /\ task'[q].version = task[q].version
                          /\ task'[q].state = task[q].state
                          /\ task'[q].status = "none" <=> task[q].status = "none"
    BY <2>2, <2>3
  <2>5. /\ acks' \in [Parses -> Receipt]
        /\ acks'[p] = receipt[p]
        /\ \A q \in Parses \ {p} : acks'[q] = acks[q]
    BY <2>1, <2>2 DEF ProjectionInv, TypeOK
  <2>6. /\ confirmed' \in [Entities -> Nat]
        /\ confirmed'[e] = IF confirmed[e] > v THEN confirmed[e] ELSE v
        /\ \A f \in Entities \ {e} : confirmed'[f] = confirmed[f]
    BY <2>1, <2>2 DEF ProjectionInv, TypeOK, GREATEST
  <2>7. /\ events' \in [Parses -> Nat]
        /\ events'[p] = IF should_emit_domain_changed(receipt[p]) THEN events[p] + 1 ELSE events[p]
        /\ \A q \in Parses \ {p} : events'[q] = events[q]
    BY <2>1 DEF ProjectionInv, TypeOK
  <2> HIDE DEF e, v
  <2>8. TypeOK'
    <3>1. \A q \in Parses : task'[q].owner # Nobody <=> task'[q].status = "leased"
      BY <2>3 DEF ProjectionInv, TypeOK
    <3>2. QED  BY <1>1, <2>3, <2>5, <2>6, <2>7, <3>1 DEF ProjectionInv, TypeOK
  <2>9. acknowledged(p)' /\ \A q \in Parses \ {p} : acknowledged(q)' <=> acknowledged(q)
    BY <2>5 DEF acknowledged
  <2>10. TaskInv'
    <3>1. \A q \in Parses \ {p} :
             /\ task'[q].status = "none" => task'[q] = NoTask
             /\ task'[q].status # "none" =>
                   /\ EntityOf[q] \in indexed'
                   /\ task'[q].version \in 1..version'[EntityOf[q]]
                   /\ task'[q].state \in States
                   /\ command'[q] = "stored" \/ acknowledged(q)'
             /\ acknowledged(q)' <=> task'[q].status = "succeeded"
      BY <2>3, <2>9 DEF ProjectionInv, TaskInv
    <3>2. /\ EntityOf[p] \in indexed'
          /\ task'[p].version \in 1..version'[EntityOf[p]]
          /\ task'[p].state \in States
      BY <2>2, <2>3 DEF ProjectionInv, TaskInv, v
    <3>3. QED  BY <2>3, <2>9, <3>1, <3>2 DEF TaskInv
  <2>11. VersionInv'
    <3>1. \A f \in Entities : Recorded(f)' = Recorded(f)
      BY <2>4, <2>10, RecordedSame DEF ProjectionInv
    <3>2. QED  BY <2>4, <3>1 DEF ProjectionInv, VersionInv
  <2>12. IndexInv'
    BY <2>2, <2>6 DEF ProjectionInv, IndexInv
  <2>13. ParseInv'
    BY <2>4 DEF ProjectionInv, ParseInv, TypeOK
  <2>14. WorkerInv'
    BY <1>1, <2>4 DEF ProjectionInv, WorkerInv, TypeOK
  <2>15. ReceiptInv'
    BY <1>1, <2>4, <2>5, <2>9 DEF ProjectionInv, ReceiptInv
  <2>16. ConfirmedInv'
    <3>1. \A q \in Parses : acknowledged(q)' => task'[q].version <= confirmed'[EntityOf[q]]
      <4>1. v <= confirmed'[e] /\ confirmed[e] <= confirmed'[e]
        BY <2>2, <2>6
      <4>2. \A q \in Parses \ {p} : acknowledged(q) => task[q].version <= confirmed'[EntityOf[q]]
        BY <2>2, <2>6, <4>1 DEF ProjectionInv, ConfirmedInv, TypeOK
      <4>3. QED  BY <2>3, <2>9, <4>1, <4>2 DEF e
    <3>2. ASSUME NEW f \in Entities, confirmed'[f] # 0
          PROVE  \E q \in Parses : /\ EntityOf[q] = f /\ acknowledged(q)'
                                   /\ task'[q].version = confirmed'[f]
      <4>1. CASE f = e /\ confirmed'[e] = v
        BY <2>3, <2>9, <4>1 DEF e
      <4>2. CASE ~(f = e /\ confirmed'[e] = v)
        <5>1. confirmed'[f] = confirmed[f]
          BY <2>6, <4>2
        <5>2. PICK q \in Parses : /\ EntityOf[q] = f /\ acknowledged(q)
                                  /\ task[q].version = confirmed[f]
          BY <3>2, <5>1 DEF ProjectionInv, ConfirmedInv
        <5>3. QED  BY <1>3, <2>4, <2>9, <5>1, <5>2
      <4>3. QED  BY <4>1, <4>2
    <3>3. QED  BY <3>1, <3>2 DEF ConfirmedInv
  <2>17. EventOncePerChange'
    <3>1. events[p] = 0
      BY <1>3 DEF ProjectionInv, EventOncePerChange
    <3>2. QED  BY <1>1, <2>7, <2>9, <3>1 DEF ProjectionInv, EventOncePerChange
  <2>18. CurrentInv'
    BY <1>1, <2>4 DEF ProjectionInv, CurrentInv
  <2>19. ChainInv'
    BY <2>4, ChainFrame DEF ProjectionInv
  <2>20. QED
    BY <2>8, <2>10, <2>11, <2>12, <2>13, <2>14, <2>15, <2>16, <2>17, <2>18, <2>19
    DEF ProjectionInv
<1>4. QED  BY <1>2, <1>3

\* ProjectionTasksBackend.complete and the reconciler both bring a receipt.
LEMMA CloseInv ==
    ASSUME ProjectionInv, reconcile \/ \E w \in Workers : complete(w)
    PROVE  ProjectionInv'
<1>1. CASE reconcile
  <2>1. PICK p \in Parses : p = listed /\ receipt[p] # NoReceipt
    BY <1>1 DEF reconcile, ProjectionInv, TypeOK, WorkerInv
  <2>2. worker' = worker /\ worker \in [Workers -> {Idle} \cup [parse : Parses, applied : BOOLEAN]]
    BY <1>1 DEF reconcile, ProjectionInv, TypeOK
  <2>3. acknowledge_projection(p)
    BY <1>1, <2>1 DEF reconcile, acknowledge_projection, acknowledged, EntityUnlocked, Release,
                      should_emit_domain_changed
  <2>4. QED  BY <1>1, <2>1, <2>2, <2>3, AcknowledgeInv DEF reconcile
<1>2. ASSUME NEW w \in Workers, complete(w)
      PROVE  ProjectionInv'
  <2>1. /\ worker' \in [Workers -> {Idle} \cup [parse : Parses, applied : BOOLEAN]]
        /\ \A u \in Workers : worker'[u] \in {worker[u], Idle}
        /\ worker[w].parse \in Parses
    BY <1>2, LetGoStep DEF complete, ProjectionInv
  <2>2. PICK p \in Parses : p = worker[w].parse /\ receipt[p] # NoReceipt
    BY <1>2, <2>1 DEF complete, LetGo, ProjectionInv, WorkerInv
  <2>3. acknowledge_projection(p)
    BY <1>2, <2>2 DEF complete, acknowledge_projection, acknowledged, EntityUnlocked, Release,
                      should_emit_domain_changed
  <2>4. QED  BY <1>2, <2>1, <2>2, <2>3, AcknowledgeInv DEF complete
<1>3. QED  BY <1>1, <1>2

-----------------------------------------------------------------------------
(* The theorems                                                            *)

\* The invariant holds in every reachable state.
THEOREM ProjectionInvariance == Spec => []ProjectionInv
<1>1. ProjectionInv /\ [Next]_vars => ProjectionInv'
  <2>1. SUFFICES ASSUME ProjectionInv, [Next]_vars
                 PROVE  ProjectionInv'
    OBVIOUS
  <2>2. ASSUME NEW e \in Entities, upsert_entity(e)
        PROVE  ProjectionInv'
    BY <2>1, <2>2, UpsertInv
  <2>3. ASSUME NEW k \in Parsers, ParserStep(k)
        PROVE  ProjectionInv'
    BY <2>1, <2>3, LockInv, CommitInv, RollbackInv DEF ParserStep
  <2>4. ASSUME NEW w \in Workers, ProjectorStep(w)
        PROVE  ProjectionInv'
    <3>1. CASE (\E p \in Parses : claim_projection_tasks(w, p)) \/ project(w)
      BY <2>1, <3>1, ClaimInv, ProjectInv
    <3>2. CASE retry_projection_task(w) \/ quarantine(w) \/ release_projection_task(w)
      BY <2>1, <3>2, RetryQuarantineInv, DrainInv
    <3>3. CASE complete(w)
      BY <2>1, <3>3, CloseInv
    <3>4. CASE lose(w)
      BY <2>1, <3>4, LookInv
    <3>5. QED  BY <2>4, <3>1, <3>2, <3>3, <3>4 DEF ProjectorStep
  <2>5. CASE MaintenanceStep
    <3>1. ASSUME NEW p \in Parses,
                 recover_expired_projection_leases(p) \/ quarantine_projection_task(p)
          PROVE  ProjectionInv'
      BY <2>1, <3>1, RecoverInv
    <3>2. ASSUME NEW p \in Parses, list_stale_projection_tasks(p) \/ purge_published(p)
          PROVE  ProjectionInv'
      BY <2>1, <3>2, LookInv
    <3>3. CASE reconcile
      BY <2>1, <3>3, CloseInv
    <3>4. QED  BY <2>5, <3>1, <3>2, <3>3 DEF MaintenanceStep
  <2>6. CASE UNCHANGED vars
    BY <2>1, <2>6, StutterInv
  <2>7. QED  BY <2>1, <2>2, <2>3, <2>4, <2>5, <2>6 DEF Next
<1>2. QED  BY InitInv, <1>1, PTL DEF Spec

\* The rows are well formed, and the leased tasks are those that have an owner.
THEOREM TypeCorrect == Spec => []TypeOK
BY ProjectionInvariance, PTL DEF ProjectionInv

\* domain.changed is written once per acknowledged change, however often a task is
\* acknowledged and by whom.
THEOREM OneEventPerChange == Spec => []EventOncePerChange
BY ProjectionInvariance, PTL DEF ProjectionInv

\* A replayed parse is always answered: its command is kept until it is acknowledged.
THEOREM ReplayAnswered == Spec => []CommandKept
<1>1. ProjectionInv => CommandKept
  BY DEF ProjectionInv, TaskInv, CommandKept, _existing_parse_result, _is_acknowledged, NoTask
<1>2. QED  BY <1>1, ProjectionInvariance, PTL

\* The confirmed version is the highest acknowledged one, in whatever order acknowledgements
\* arrive, and each acknowledgement is the receipt Mongo holds.
THEOREM ConfirmedIsHighest == Spec => []ConfirmedIsApplied
<1>1. ProjectionInv => ConfirmedIsApplied
  <2> SUFFICES ASSUME ProjectionInv
               PROVE  ConfirmedIsApplied
    OBVIOUS
  <2>1. \A p \in Parses : acknowledged(p) =>
           /\ _require_same_receipt(p) /\ receipt[p].version = task[p].version
           /\ task[p].status # "none"
    BY DEF ProjectionInv, ReceiptInv, _require_same_receipt, acknowledged
  <2>2. ASSUME NEW e \in Entities
        PROVE  LET vs == {task[p].version : p \in {q \in Recorded(e) : acknowledged(q)}} IN
               IF vs = {} THEN confirmed[e] = 0
               ELSE confirmed[e] \in vs /\ \A v \in vs : v <= confirmed[e]
    <3> DEFINE A == {q \in Recorded(e) : acknowledged(q)}
               vs == {task[p].version : p \in A}
    <3>1. A = {p \in Parses : EntityOf[p] = e /\ acknowledged(p)}
      BY <2>1, RecordedStatus DEF ProjectionInv
    <3> HIDE DEF A
    <3>2. \A v \in vs : v <= confirmed[e]
      BY <3>1 DEF ProjectionInv, ConfirmedInv
    <3>3. confirmed[e] # 0 => confirmed[e] \in vs
      BY <3>1 DEF ProjectionInv, ConfirmedInv
    <3>4. \A v \in vs : v # 0
      <4>1. \A p \in A : task[p].version \in 1..version[EntityOf[p]]
        BY <2>1, <3>1 DEF ProjectionInv, TaskInv
      <4>2. \A p \in A : task[p].version # 0
        BY <4>1
      <4>3. QED  BY <4>2
    <3>5. vs # {} => confirmed[e] # 0
      <4>1. \A v \in vs : v \in Nat
        BY <3>1 DEF ProjectionInv, TypeOK, TaskRow
      <4>2. confirmed[e] \in Nat
        BY DEF ProjectionInv, TypeOK
      <4> HIDE DEF vs
      <4>3. QED  BY <3>2, <3>4, <4>1, <4>2
    <3>6. QED  BY <3>2, <3>3, <3>5 DEF A
  <2>3. QED  BY <2>1, <2>2 DEF ConfirmedIsApplied
<1>2. QED  BY <1>1, ProjectionInvariance, PTL

\* A complete report means that each recorded task is acknowledged.
LEMMA CompleteAcknowledged ==
    ASSUME ProjectionInv, NEW e \in Entities, complete_cursor(projection_completeness(e))
    PROVE  \A p \in Recorded(e) : acknowledged(p)
<1> DEFINE T == {p \in Recorded(e) : task[p].status # "succeeded"}
           O == {p \in T : task[p].status \in OPEN_TASK_STATUSES}
           Q == {p \in T : task[p].status = "quarantined"}
<1>1. Cardinality(O) = 0 /\ Cardinality(Q) = 0
  BY DEF complete_cursor, settled, projection_completeness
<1>2. IsFiniteSet(Recorded(e))
  BY DEF ProjectionInv, VersionInv
<1>3. IsFiniteSet(O) /\ IsFiniteSet(Q)
  <2>1. O \in SUBSET Recorded(e) /\ Q \in SUBSET Recorded(e)
    OBVIOUS
  <2> HIDE DEF O, Q
  <2>2. QED  BY <1>2, <2>1, FS_Subset
<1>4. O = {} /\ Q = {}
  <2> HIDE DEF O, Q
  <2>1. QED  BY <1>1, <1>3, FS_EmptySet
<1>5. \A p \in Recorded(e) : task[p].status \in {"succeeded", "quarantined"} \cup OPEN_TASK_STATUSES
  BY RecordedStatus, Statuses DEF ProjectionInv, TypeOK, TaskRow
<1>6. \A p \in Recorded(e) : p \in Parses /\ task[p].status = "succeeded"
  BY <1>4, <1>5 DEF Recorded
<1>7. QED  BY <1>6 DEF ProjectionInv, TaskInv

\* The events of an entity whose tasks are all acknowledged are its changes.
LEMMA EmittedIsChanged ==
    ASSUME ProjectionInv, NEW e \in Entities, \A p \in Recorded(e) : acknowledged(p)
    PROVE  /\ Emitted(e) = {p \in Parses : EntityOf[p] = e /\ Changed(p)}
           /\ \A p \in Emitted(e) : acks[p] = receipt[p]
<1>1. \A p \in Parses : Changed(p) => task[p].status # "none"
  BY DEF Changed, NoReceipt, ProjectionInv, ReceiptInv
<1>2. \A p \in Recorded(e) : p \in Parses /\ EntityOf[p] = e /\ (events[p] > 0 <=> Changed(p))
  BY DEF Recorded, ProjectionInv, EventOncePerChange, Changed, should_emit_domain_changed
<1>3. \A p \in Parses : EntityOf[p] = e /\ Changed(p) => p \in Recorded(e)
  BY <1>1, RecordedStatus DEF ProjectionInv
<1>4. QED  BY <1>2, <1>3 DEF Emitted, ProjectionInv, ReceiptInv

\* What the chain says of the state before version n, in the terms of CompleteIsShown.
LEMMA ChainEvents ==
    ASSUME ProjectionInv, NEW e \in Entities, NEW n \in Nat, NEW s,
           LedTo(e, n, s),
           Emitted(e) = {p \in Parses : EntityOf[p] = e /\ Changed(p)}
    PROVE  LET B == {q \in Emitted(e) : task[q].version < n} IN
           IF B = {} THEN s = "none"
           ELSE \E q \in B : B = Before(q) \cup {q} /\ s = task[q].state
<1> DEFINE B == {q \in Emitted(e) : task[q].version < n}
<1>1. \A q \in Parses : task[q].version \in Nat
  BY DEF ProjectionInv, TypeOK, TaskRow
<1>2. CASE /\ s = "none"
           /\ \A q \in Parses : EntityOf[q] = e /\ Changed(q) => task[q].version >= n
  <2>1. B = {}
    BY <1>1, <1>2
  <2>2. QED  BY <1>2, <2>1
<1>3. CASE \E q \in Parses : LastChange(e, n, q) /\ task[q].state = s
  <2>1. PICK q \in Parses : LastChange(e, n, q) /\ task[q].state = s
    BY <1>3
  <2>2. q \in B /\ EntityOf[q] = e
    BY <2>1 DEF LastChange
  <2>3. Before(q) = {r \in Emitted(e) : task[r].version < task[q].version}
    BY <2>2 DEF Before
  <2>4. \A r \in B : r \in Parses /\ EntityOf[r] = e /\ task[r].version <= task[q].version
                     /\ task[r].status # "none"
    <3>1. \A r \in B : r \in Parses /\ EntityOf[r] = e /\ Changed(r) /\ task[r].version < n
      OBVIOUS
    <3>2. \A r \in Parses : Changed(r) => task[r].status # "none"
      BY DEF Changed, NoReceipt, ProjectionInv, ReceiptInv
    <3>3. QED  BY <2>1, <3>1, <3>2 DEF LastChange
  <2>5. \A r \in B : r # q => task[r].version # task[q].version
    BY <2>2, <2>4 DEF ProjectionInv, VersionInv
  <2>6. B \subseteq Before(q) \cup {q}
    BY <1>1, <2>3, <2>4, <2>5
  <2>7. Before(q) \subseteq B
    BY <1>1, <2>2, <2>3
  <2>8. B = Before(q) \cup {q}
    BY <2>2, <2>6, <2>7
  <2>9. QED  BY <2>1, <2>2, <2>8
<1>4. QED  BY <1>2, <1>3 DEF LedTo

\* A complete entity shows its newest version, confirmed and current, and its events lead
\* there without a gap, in whatever order its tasks were applied and acknowledged.
THEOREM CompleteShows == Spec => []CompleteIsShown
<1>1. ProjectionInv => CompleteIsShown
  <2> SUFFICES ASSUME ProjectionInv, NEW e \in Entities,
                      complete_cursor(projection_completeness(e))
               PROVE  /\ \A v \in 1..version[e] :
                            Cardinality({p \in Recorded(e) : task[p].version = v /\ acknowledged(p)}) = 1
                      /\ Cardinality(Recorded(e)) = version[e]
                      /\ confirmed[e] = version[e] /\ current[e].version = version[e]
                      /\ \A p \in Emitted(e) :
                            IF Before(p) = {} THEN acks[p].previous = "none"
                            ELSE \E q \in Emitted(e) : Follows(p, q) /\ acks[p].previous = task[q].state
                      /\ version[e] > 0 => \E p \in Emitted(e) :
                            task[p].state = current[e].state /\ \A q \in Emitted(e) : ~Follows(q, p)
    BY DEF CompleteIsShown
  <2>1. \A p \in Recorded(e) : acknowledged(p)
    BY CompleteAcknowledged
  <2>2. Recorded(e) = {p \in Parses : EntityOf[p] = e /\ task[p].status # "none"}
    BY RecordedStatus DEF ProjectionInv
  <2>3. /\ version[e] \in Nat /\ confirmed[e] \in Nat /\ current[e].version \in Nat
        /\ \A p \in Parses : task[p].version \in Nat
    BY Documents DEF ProjectionInv, TypeOK, TaskRow
  <2>4. \A v \in 1..version[e] : \E p \in Recorded(e) : task[p].version = v
    BY <2>2 DEF ProjectionInv, VersionInv
  <2>5. \A p \in Recorded(e) : task[p].version \in 1..version[e]
    BY <2>2 DEF ProjectionInv, TaskInv
  <2>6. \A p \in Recorded(e) : receipt[p] # NoReceipt
    BY <2>1, <2>2 DEF ProjectionInv, ReceiptInv, acknowledged
  <2>7. ASSUME NEW v \in 1..version[e]
        PROVE  Cardinality({p \in Recorded(e) : task[p].version = v /\ acknowledged(p)}) = 1
    <3>1. PICK p \in Recorded(e) : task[p].version = v
      BY <2>4
    <3>2. {q \in Recorded(e) : task[q].version = v /\ acknowledged(q)} = {p}
      BY <2>1, <2>2, <3>1 DEF ProjectionInv, VersionInv
    <3>3. QED  BY <3>2, FS_Singleton
  <2>8. Cardinality(Recorded(e)) = version[e]
    BY DEF ProjectionInv, VersionInv
  <2>9. confirmed[e] = version[e]
    <3>1. \A p \in Recorded(e) : task[p].version <= confirmed[e]
      BY <2>1, <2>2 DEF ProjectionInv, ConfirmedInv
    <3>2. confirmed[e] # 0 => confirmed[e] \in 1..version[e]
      <4>1. \A p \in Parses : acknowledged(p) => task[p].status # "none"
        BY DEF ProjectionInv, TaskInv
      <4>2. QED  BY <2>2, <2>5, <4>1 DEF ProjectionInv, ConfirmedInv
    <3>3. version[e] # 0 => version[e] \in 1..version[e]
      BY <2>3
    <3>4. QED  BY <2>3, <2>4, <3>1, <3>2, <3>3
  <2>10. current[e].version = version[e]
    <3>1. \A p \in Recorded(e) : task[p].version <= current[e].version
      BY <2>2, <2>6 DEF ProjectionInv, CurrentInv
    <3>2. current[e].version # 0 => current[e].version \in 1..version[e]
      <4>1. \A p \in Parses : receipt[p] # NoReceipt => task[p].status # "none"
        BY DEF ProjectionInv, ReceiptInv
      <4>2. current[e].version # 0 => current[e] # NoDocument
        BY DEF NoDocument
      <4>3. QED  BY <2>2, <2>5, <4>1, <4>2 DEF ProjectionInv, CurrentInv
    <3>3. version[e] # 0 => version[e] \in 1..version[e]
      BY <2>3
    <3>4. QED  BY <2>3, <2>4, <3>1, <3>2, <3>3
  <2>11. /\ Emitted(e) = {p \in Parses : EntityOf[p] = e /\ Changed(p)}
         /\ \A p \in Emitted(e) : acks[p] = receipt[p]
    BY <2>1, EmittedIsChanged
  <2>12. ASSUME NEW p \in Emitted(e)
         PROVE  IF Before(p) = {} THEN acks[p].previous = "none"
                ELSE \E q \in Emitted(e) : Follows(p, q) /\ acks[p].previous = task[q].state
    <3>1. p \in Parses /\ EntityOf[p] = e /\ Changed(p)
      BY <2>11
    <3>2. LedTo(e, task[p].version, acks[p].previous)
      BY <2>11, <3>1 DEF ProjectionInv, ChainInv
    <3>3. Before(p) = {q \in Emitted(e) : task[q].version < task[p].version}
      BY <3>1 DEF Before
    <3>4. IF Before(p) = {} THEN acks[p].previous = "none"
          ELSE \E q \in Before(p) : Before(p) = Before(q) \cup {q} /\ acks[p].previous = task[q].state
      BY <2>3, <2>11, <3>1, <3>2, <3>3, ChainEvents
    <3>5. QED  BY <3>3, <3>4 DEF Follows
  <2>13. ASSUME version[e] > 0
         PROVE  \E p \in Emitted(e) :
                   task[p].state = current[e].state /\ \A q \in Emitted(e) : ~Follows(q, p)
    <3> DEFINE n == current[e].version + 1
               B == {q \in Emitted(e) : task[q].version < n}
    <3>1. LedTo(e, n, current[e].state) /\ n \in Nat
      BY <2>3 DEF ProjectionInv, ChainInv
    <3>2. B = Emitted(e)
      BY <2>3, <2>5, <2>10 DEF Emitted
    <3>3. current[e].state # "none"
      <4>1. current[e] # NoDocument
        BY <2>10, <2>13, <2>3 DEF NoDocument
      <4>2. QED  BY <4>1, ProjectionAssumption DEF ProjectionInv, TypeOK
    <3>4. IF B = {} THEN current[e].state = "none"
          ELSE \E q \in B : B = Before(q) \cup {q} /\ current[e].state = task[q].state
      <4> HIDE DEF n
      <4>1. QED  BY <2>11, <3>1, ChainEvents
    <3> HIDE DEF B
    <3>5. PICK p \in Emitted(e) : Emitted(e) = Before(p) \cup {p} /\ current[e].state = task[p].state
      BY <3>2, <3>3, <3>4
    <3>6. ASSUME NEW q \in Emitted(e), Follows(q, p)
          PROVE  FALSE
      <4>1. p \in Parses /\ q \in Parses /\ EntityOf[p] = e /\ EntityOf[q] = e
        BY <2>11
      <4>2. task[p].version < task[q].version
        BY <3>6, <4>1 DEF Follows, Before
      <4>3. task[q].version <= task[p].version
        BY <2>3, <3>5, <4>1 DEF Before
      <4>4. QED  BY <2>3, <4>1, <4>2, <4>3
    <3>7. QED  BY <3>5, <3>6
  <2>14. QED  BY <2>7, <2>8, <2>9, <2>10, <2>12, <2>13
<1>2. QED  BY <1>1, ProjectionInvariance, PTL

-----------------------------------------------------------------------------
(***************************************************************************)
(* The outbox that carries the events of acknowledged tasks to consumers   *)
(* (module Outbox, for any constants).  Publishers report late, twice or   *)
(* never, so nothing follows from a report alone: the argument is about    *)
(* rows, one at a time (RowOk), and about what the publisher that reports  *)
(* success has done before (SentInv).                                      *)
(***************************************************************************)
RowStates == {"none", "new", "published", "purged"}
OutboxRow == [state : RowStates, hidden : Nat, attempts : 0..PublishAttempts,
              delivery : 0..MaxDelivery, parked : BOOLEAN, age : 0..(Retention + 1)]

\* Whoever is about to report success has delivered.
SentInv == \A p \in Publishers, e \in Events : held[p][e] = "sent" => e \in delivered

\* The row counts what was handed out, until it is gone.
HandedInv == \A e \in Events : row[e].state # "purged" => handed[e] = row[e].delivery

\* Only a parked row has used up its attempts.
AttemptsInv == \A e \in Events : ~row[e].parked => row[e].attempts < PublishAttempts

OutboxInv == OutboxTypeOK /\ NeverLost /\ DeliveryBound /\ SentInv /\ HandedInv
             /\ AttemptsInv

\* What an action may make of a row: it stays well formed, its events stay delivered, and its
\* counter is the times it was handed out.
RowOk(r, e, received, times) ==
    /\ r \in OutboxRow
    /\ r.state \in {"published", "purged"} => e \in received
    /\ times \in Nat /\ times <= MaxDelivery
    /\ r.state # "purged" => times = r.delivery
    /\ ~r.parked => r.attempts < PublishAttempts

\* The invariant, row by row.
ByRow(rows, holds, received, times) ==
    /\ rows = [e \in Events |-> rows[e]] /\ times = [e \in Events |-> times[e]]
    /\ \A e \in Events : RowOk(rows[e], e, received, times[e])
    /\ holds \in [Publishers -> [Events -> {"no", "taken", "sent"}]]
    /\ received \subseteq Events
    /\ \A p \in Publishers, e \in Events : holds[p][e] = "sent" => e \in received

\* Both forms of the invariant say the same.
LEMMA OutboxByRow ==
    ASSUME OutboxAssumption
    PROVE  /\ OutboxInv <=> ByRow(row, held, delivered, handed)
           /\ OutboxInv' <=> ByRow(row', held', delivered', handed')
BY DEF OutboxInv, OutboxTypeOK, NeverLost, DeliveryBound, HandedInv, SentInv, AttemptsInv, ByRow, RowOk,
       OutboxRow, RowStates, OutboxAssumption

\* The columns that add, unpark, purge_published set.
LEMMA SetState ==
    ASSUME NEW r \in OutboxRow, NEW s \in RowStates
    PROVE  LET x == [r EXCEPT !.state = s] IN x \in OutboxRow /\ x.state = s /\ x.delivery = r.delivery
                             /\ x.parked = r.parked /\ x.attempts = r.attempts
BY DEF OutboxRow

\* The row that is not there.
LEMMA NoRowIsRow ==
    ASSUME OutboxAssumption
    PROVE  NoRow \in OutboxRow /\ NoRow.delivery = 0 /\ ~NoRow.parked
           /\ NoRow.attempts < PublishAttempts
<1>1. PICK f \in BOOLEAN : f = FALSE
  BY Zenon
<1>2. [state |-> "none", hidden |-> 0, attempts |-> 0, delivery |-> 0, parked |-> f, age |-> 0] \in OutboxRow
  BY DEF OutboxRow, RowStates, OutboxAssumption
<1>3. ~NoRow.parked
  BY Zenon DEF NoRow
<1>4. NoRow.delivery = 0 /\ NoRow.attempts < PublishAttempts
  BY DEF NoRow, OutboxAssumption
<1>5. NoRow \in OutboxRow
  BY <1>1, <1>2 DEF NoRow
<1>6. QED  BY <1>3, <1>4, <1>5

\* A new table has no rows, and nobody holds any.
LEMMA OutboxStart ==
    ASSUME OutboxAssumption, OutboxInit
    PROVE  OutboxInv
BY OutboxByRow DEF OutboxAssumption, OutboxInit, NoRow, ByRow, RowOk, OutboxRow, RowStates

\* add, purge_published, unpark: one row is replaced.
LEMMA OneRow ==
    ASSUME OutboxAssumption, ByRow(row, held, delivered, handed), NEW e \in Events, NEW r, NEW n,
           RowOk(r, e, delivered, n),
           row' = [row EXCEPT ![e] = r], handed' = [handed EXCEPT ![e] = n],
           held' \in [Publishers -> [Events -> {"no", "taken", "sent"}]],
           \A p \in Publishers, d \in Events : held'[p][d] = "sent" => held[p][d] = "sent",
           delivered' = delivered
    PROVE  OutboxInv'
<1>1. ByRow(row', held', delivered', handed')
  BY DEF ByRow
<1>2. QED  BY <1>1, OutboxByRow

\* acknowledge_projection adds a row that was never handed out.
LEMMA AddKeeps ==
    ASSUME OutboxAssumption, OutboxInv, NEW e \in Events, add(e)
    PROVE  OutboxInv'
<1>1. ByRow(row, held, delivered, handed)
  BY OutboxByRow
<1>2. RowOk([row[e] EXCEPT !.state = "new"], e, delivered, handed[e])
  <2>0. RowOk(row[e], e, delivered, handed[e]) /\ row[e] = NoRow
    BY <1>1 DEF ByRow, add
  <2>1. RowOk(row[e], e, delivered, handed[e]) /\ row[e].state = "none"
    BY <2>0 DEF NoRow
  <2>2. row[e] \in OutboxRow /\ "new" \in RowStates
    BY <2>1 DEF RowOk, RowStates
  <2>3. QED  BY <2>1, <2>2, SetState DEF RowOk
<1>3. row' = [row EXCEPT ![e] = [row[e] EXCEPT !.state = "new"]]
      /\ handed' = [handed EXCEPT ![e] = handed[e]] /\ held' = held /\ delivered' = delivered
  BY <1>1 DEF add, ByRow
<1>4. QED  BY <1>1, <1>2, <1>3, OneRow DEF ByRow

\* purge_published removes a row only once its event was received.
LEMMA PurgeKeeps ==
    ASSUME OutboxAssumption, OutboxInv, NEW e \in Events, purge_published_events(e)
    PROVE  OutboxInv'
<1>1. ByRow(row, held, delivered, handed)
  BY OutboxByRow
<1>2. RowOk([NoRow EXCEPT !.state = "purged"], e, delivered, handed[e])
  <2>1. RowOk(row[e], e, delivered, handed[e]) /\ row[e].state = "published"
    BY <1>1 DEF ByRow, purge_published_events
  <2>2. NoRow \in OutboxRow /\ "purged" \in RowStates
    BY NoRowIsRow DEF RowStates
  <2>3. QED  BY <2>1, <2>2, NoRowIsRow, SetState DEF RowOk
<1>3. row' = [row EXCEPT ![e] = [NoRow EXCEPT !.state = "purged"]]
      /\ handed' = [handed EXCEPT ![e] = handed[e]] /\ held' = held /\ delivered' = delivered
  BY <1>1 DEF purge_published_events, ByRow
<1>4. QED  BY <1>1, <1>2, <1>3, OneRow DEF ByRow

\* unpark starts the count anew.
LEMMA UnparkKeeps ==
    ASSUME OutboxAssumption, OutboxInv, NEW e \in Events, unpark(e)
    PROVE  OutboxInv'
<1>1. ByRow(row, held, delivered, handed)
  BY OutboxByRow
<1>2. RowOk([NoRow EXCEPT !.state = "new"], e, delivered, 0)
  <2>1. NoRow \in OutboxRow /\ "new" \in RowStates /\ 0 <= MaxDelivery
    BY NoRowIsRow DEF RowStates, OutboxAssumption
  <2>2. QED  BY <2>1, NoRowIsRow, SetState DEF RowOk
<1>3. row' = [row EXCEPT ![e] = [NoRow EXCEPT !.state = "new"]]
      /\ handed' = [handed EXCEPT ![e] = 0] /\ held' = held /\ delivered' = delivered
  BY DEF unpark
<1>4. QED  BY <1>1, <1>2, <1>3, OneRow DEF ByRow

\* mark_published is called by a publisher that has delivered.
LEMMA PublishedKeeps ==
    ASSUME OutboxAssumption, OutboxInv, NEW p \in Publishers, NEW e \in Events,
           mark_published(p, e)
    PROVE  OutboxInv'
<1> DEFINE r == IF row[e].state = "new" THEN [row[e] EXCEPT !.state = "published", !.age = 0] ELSE row[e]
<1>1. ByRow(row, held, delivered, handed)
  BY OutboxByRow
<1>2. e \in delivered
  BY <1>1 DEF ByRow, mark_published
<1>3. RowOk(r, e, delivered, handed[e])
  <2>1. RowOk(row[e], e, delivered, handed[e])
    BY <1>1 DEF ByRow
  <2>2. row[e] \in OutboxRow /\ "published" \in RowStates /\ 0 \in 0..(Retention + 1)
    BY <2>1 DEF RowOk, RowStates, OutboxAssumption
  <2>3. PICK z \in 0..(Retention + 1) : z = 0
    BY <2>2
  <2>4. RowOk([row[e] EXCEPT !.state = "published", !.age = z], e, delivered, handed[e])
        \/ row[e].state # "new"
    <3> DEFINE x == [row[e] EXCEPT !.state = "published", !.age = z]
    <3>1. /\ x \in OutboxRow /\ x.state = "published" /\ x.delivery = row[e].delivery
          /\ x.parked = row[e].parked /\ x.attempts = row[e].attempts
      BY <2>2, <2>3 DEF OutboxRow
    <3> HIDE DEF x
    <3>2. row[e].state = "new" => RowOk(x, e, delivered, handed[e])
      BY <1>2, <2>1, <3>1 DEF RowOk
    <3>3. QED  BY <3>2 DEF x
  <2>5. QED  BY <2>1, <2>3, <2>4
<1>4. row' = [row EXCEPT ![e] = r]
      /\ handed' = [handed EXCEPT ![e] = handed[e]] /\ held' = [held EXCEPT ![p][e] = "no"]
      /\ delivered' = delivered
  BY <1>1 DEF mark_published, LetGoEvent, ByRow
<1>5. /\ held' \in [Publishers -> [Events -> {"no", "taken", "sent"}]]
      /\ \A q \in Publishers, d \in Events : held'[q][d] = "sent" => held[q][d] = "sent"
  BY <1>1, <1>4 DEF ByRow
<1> HIDE DEF r
<1>6. QED  BY <1>1, <1>3, <1>4, <1>5, OneRow

\* mark_failed counts on a row that is neither published nor parked, whoever reports.
LEMMA FailedKeeps ==
    ASSUME OutboxAssumption, OutboxInv, NEW p \in Publishers, NEW e \in Events,
           mark_failed(p, e)
    PROVE  OutboxInv'
<1>1. ByRow(row, held, delivered, handed)
  BY OutboxByRow
<1>2. PICK delay \in Backoffs : row' = [row EXCEPT ![e] =
             IF row[e].state # "new" \/ row[e].parked THEN row[e]
             ELSE IF row[e].attempts + 1 >= PublishAttempts
                  THEN [row[e] EXCEPT !.attempts = row[e].attempts + 1, !.parked = TRUE]
                  ELSE [row[e] EXCEPT !.attempts = row[e].attempts + 1, !.hidden = delay]]
  BY <1>1 DEF mark_failed, ByRow
<1> DEFINE r == IF row[e].state # "new" \/ row[e].parked THEN row[e]
                ELSE IF row[e].attempts + 1 >= PublishAttempts
                     THEN [row[e] EXCEPT !.attempts = row[e].attempts + 1, !.parked = TRUE]
                     ELSE [row[e] EXCEPT !.attempts = row[e].attempts + 1, !.hidden = delay]
<1>3. RowOk(r, e, delivered, handed[e])
  <2>1. RowOk(row[e], e, delivered, handed[e])
    BY <1>1 DEF ByRow
  <2>2. row[e] \in OutboxRow /\ row[e].attempts \in 0..PublishAttempts /\ delay \in Nat
    BY <2>1 DEF RowOk, OutboxRow, OutboxAssumption
  <2>3. CASE row[e].state # "new" \/ row[e].parked
    BY <2>1, <2>3
  <2>4. CASE ~(row[e].state # "new" \/ row[e].parked) /\ row[e].attempts + 1 >= PublishAttempts
    <3>1. PICK t \in BOOLEAN : t = TRUE
      BY Zenon
    <3>2. PICK a \in 0..PublishAttempts : a = row[e].attempts + 1
      BY <2>2, <2>4, <2>1 DEF OutboxAssumption, RowOk
    <3>3. RowOk([row[e] EXCEPT !.attempts = a, !.parked = t], e, delivered, handed[e])
      <4> DEFINE x == [row[e] EXCEPT !.attempts = a, !.parked = t]
      <4>1. /\ x \in OutboxRow /\ x.state = row[e].state /\ x.delivery = row[e].delivery /\ x.parked = t
        BY <2>2, <3>1, <3>2 DEF OutboxRow
      <4> HIDE DEF x
      <4>2. RowOk(x, e, delivered, handed[e])
        BY <2>1, <3>1, <4>1 DEF RowOk
      <4>3. QED  BY <4>2 DEF x
    <3>4. QED  BY <2>4, <3>1, <3>2, <3>3
  <2>5. CASE ~(row[e].state # "new" \/ row[e].parked) /\ ~(row[e].attempts + 1 >= PublishAttempts)
    <3>1. PICK a \in 0..PublishAttempts : a = row[e].attempts + 1 /\ a < PublishAttempts
      BY <2>2, <2>5 DEF OutboxAssumption
    <3>2. RowOk([row[e] EXCEPT !.attempts = a, !.hidden = delay], e, delivered, handed[e])
      <4> DEFINE x == [row[e] EXCEPT !.attempts = a, !.hidden = delay]
      <4>1. /\ x \in OutboxRow /\ x.state = row[e].state /\ x.delivery = row[e].delivery
            /\ x.attempts = a
        BY <2>2, <3>1 DEF OutboxRow
      <4> HIDE DEF x
      <4>2. RowOk(x, e, delivered, handed[e])
        BY <2>1, <3>1, <4>1 DEF RowOk
      <4>3. QED  BY <4>2 DEF x
    <3>3. QED  BY <2>5, <3>1, <3>2
  <2>6. QED  BY <2>3, <2>4, <2>5
<1>4. row' = [row EXCEPT ![e] = r]
      /\ handed' = [handed EXCEPT ![e] = handed[e]] /\ held' = [held EXCEPT ![p][e] = "no"]
      /\ delivered' = delivered
  BY <1>1, <1>2 DEF mark_failed, LetGoEvent, ByRow
<1>5. /\ held' \in [Publishers -> [Events -> {"no", "taken", "sent"}]]
      /\ \A q \in Publishers, d \in Events : held'[q][d] = "sent" => held[q][d] = "sent"
  BY <1>1, <1>4 DEF ByRow
<1> HIDE DEF r
<1>6. QED  BY <1>1, <1>3, <1>4, <1>5, OneRow

\* Reading and delivering changes no row; what was sent is received.
LEMMA DeliverKeeps ==
    ASSUME OutboxAssumption, OutboxInv, NEW p \in Publishers, NEW e \in Events, deliver(p, e)
    PROVE  OutboxInv'
<1>1. ByRow(row, held, delivered, handed)
  BY OutboxByRow
<1>2. ASSUME NEW d \in Events
      PROVE  RowOk(row[d], d, delivered \cup {e}, handed[d])
  BY <1>1 DEF ByRow, RowOk
<1>3. ByRow(row, [held EXCEPT ![p][e] = "sent"], delivered \cup {e}, handed)
  BY <1>1, <1>2 DEF ByRow
<1>4. QED  BY <1>3, OutboxByRow DEF deliver

\* A publisher that dies forgets what it held.
LEMMA KillKeeps ==
    ASSUME OutboxAssumption, OutboxInv, NEW p \in Publishers, kill(p)
    PROVE  OutboxInv'
<1>1. ByRow(row, held, delivered, handed)
  BY OutboxByRow
<1>2. ByRow(row, [held EXCEPT ![p] = [e \in Events |-> "no"]], delivered, handed)
  BY <1>1 DEF ByRow
<1>3. QED  BY <1>2, OutboxByRow DEF kill

\* Time does not change what the invariant is about.
LEMMA TickKeeps ==
    ASSUME OutboxAssumption, OutboxInv, Tick
    PROVE  OutboxInv'
<1>1. ByRow(row, held, delivered, handed)
  BY OutboxByRow
<1>2. row' = [e \in Events |-> row'[e]] /\ UNCHANGED <<held, delivered, handed>>
  BY DEF Tick
<1>3. ASSUME NEW e \in Events
      PROVE  RowOk(row'[e], e, delivered, handed[e])
  <2>1. RowOk(row[e], e, delivered, handed[e])
    BY <1>1 DEF ByRow
  <2>2. row[e] \in OutboxRow /\ row[e].hidden \in Nat /\ row[e].age \in 0..(Retention + 1)
    BY <2>1 DEF RowOk, OutboxRow
  <2>3. PICK h \in Nat : h = Down(row[e].hidden)
    BY <2>2 DEF Down
  <2>4. PICK g \in 0..(Retention + 1) :
           g = IF row[e].state = "published" /\ row[e].age <= Retention THEN row[e].age + 1 ELSE row[e].age
    BY <2>2 DEF OutboxAssumption
  <2> DEFINE x == [row[e] EXCEPT !.hidden = h, !.age = g]
  <2>5. row'[e] = x
    BY <2>2, <2>3, <2>4 DEF Tick, OutboxRow
  <2>6. /\ x \in OutboxRow /\ x.state = row[e].state /\ x.delivery = row[e].delivery
        /\ x.parked = row[e].parked /\ x.attempts = row[e].attempts
    BY <2>2, <2>3, <2>4 DEF OutboxRow
  <2> HIDE DEF x
  <2>7. QED  BY <2>1, <2>5, <2>6 DEF RowOk
<1>4. ByRow(row', held', delivered', handed')
  BY <1>1, <1>2, <1>3 DEF ByRow
<1>5. QED  BY <1>4, OutboxByRow

\* A row that has been handed out as often as allowed is parked instead; every other one that
\* is fetched is counted, in the row and by who receives it.
LEMMA FetchKeeps ==
    ASSUME OutboxAssumption, OutboxInv, NEW p \in Publishers, NEW F \in SUBSET Events,
           fetch_unpublished(p, F)
    PROVE  OutboxInv'
<1>1. ByRow(row, held, delivered, handed)
  BY OutboxByRow
<1>2. /\ row' = [e \in Events |-> row'[e]] /\ handed' = [e \in Events |-> handed'[e]]
      /\ delivered' = delivered
  BY DEF fetch_unpublished
<1>3. ASSUME NEW e \in Events
      PROVE  RowOk(row'[e], e, delivered, handed'[e])
  <2>1. RowOk(row[e], e, delivered, handed[e])
    BY <1>1 DEF ByRow
  <2>2. row[e] \in OutboxRow /\ row[e].delivery \in 0..MaxDelivery
    BY <2>1 DEF RowOk, OutboxRow
  <2>3. CASE e \notin F
    <3>1. row'[e] = row[e] /\ handed'[e] = handed[e]
      BY <2>3 DEF fetch_unpublished
    <3>2. QED  BY <2>1, <3>1
  <2>4. CASE e \in F /\ exhausted(e)
    <3>1. PICK t \in BOOLEAN : t = TRUE
      BY Zenon
    <3> DEFINE x == [row[e] EXCEPT !.parked = t]
    <3>2. row'[e] = x /\ handed'[e] = handed[e]
      BY <2>4, <3>1 DEF fetch_unpublished
    <3>3. x \in OutboxRow /\ x.state = row[e].state /\ x.delivery = row[e].delivery /\ x.parked = t
      BY <2>2 DEF OutboxRow
    <3> HIDE DEF x
    <3>4. QED  BY <2>1, <3>1, <3>2, <3>3 DEF RowOk
  <2>5. CASE e \in F /\ ~exhausted(e)
    <3>1. PICK d \in 0..MaxDelivery : d = row[e].delivery + 1
      BY <2>2, <2>5 DEF exhausted, OutboxAssumption
    <3> DEFINE x == [row[e] EXCEPT !.hidden = Visibility, !.delivery = d]
    <3>2. row'[e] = x /\ handed'[e] = handed[e] + 1
      BY <2>2, <2>5, <3>1 DEF fetch_unpublished, OutboxRow
    <3>3. x \in OutboxRow /\ x.state = row[e].state /\ x.delivery = d /\ x.parked = row[e].parked
          /\ x.attempts = row[e].attempts
      BY <2>2, <3>1 DEF OutboxRow, OutboxAssumption
    <3> HIDE DEF x
    <3>4. row[e].state = "new"
      BY <2>5 DEF fetch_unpublished, Candidates
    <3>5. QED  BY <2>1, <3>1, <3>2, <3>3, <3>4 DEF RowOk
  <2>6. QED  BY <2>3, <2>4, <2>5
<1>4. /\ held' \in [Publishers -> [Events -> {"no", "taken", "sent"}]]
      /\ \A q \in Publishers, e \in Events : held'[q][e] = "sent" => held[q][e] = "sent"
  <2>1. PICK given : held' = [held EXCEPT ![p] = [e \in Events |-> IF e \in given THEN "taken" ELSE held[p][e]]]
    BY <1>1 DEF fetch_unpublished, ByRow
  <2>2. QED  BY <1>1, <2>1 DEF ByRow
<1>5. ByRow(row', held', delivered', handed')
  BY <1>1, <1>2, <1>3, <1>4 DEF ByRow
<1>6. QED  BY <1>5, OutboxByRow

\* The outbox keeps its invariant, whatever publishers, the operator and the clock do.
THEOREM OutboxInvariance ==
    ASSUME OutboxAssumption
    PROVE  OutboxSpec => []OutboxInv
<1>1. OutboxInit => OutboxInv
  BY OutboxStart
<1>2. OutboxInv /\ [OutboxNext]_outboxVars => OutboxInv'
  <2> SUFFICES ASSUME OutboxInv, [OutboxNext]_outboxVars
               PROVE  OutboxInv'
    OBVIOUS
  <2>1. ASSUME NEW p \in Publishers, PublisherStep(p)
        PROVE  OutboxInv'
    BY <2>1, FetchKeeps, DeliverKeeps, PublishedKeeps, FailedKeeps, KillKeeps DEF PublisherStep
  <2>2. ASSUME NEW e \in Events, add(e) \/ unpark(e) \/ purge_published_events(e)
        PROVE  OutboxInv'
    BY <2>2, AddKeeps, UnparkKeeps, PurgeKeeps
  <2>3. CASE UNCHANGED outboxVars
    <3>1. ByRow(row', held', delivered', handed')
      BY <2>3, OutboxByRow DEF outboxVars
    <3>2. QED  BY <3>1, OutboxByRow
  <2>4. QED  BY <2>1, <2>2, <2>3, TickKeeps DEF OutboxNext
<1>3. QED  BY <1>1, <1>2, PTL DEF OutboxSpec

\* NeverLost for every number of events, publishers and retries: an event leaves the outbox only
\* after a consumer received it.
THEOREM AtLeastOnce ==
    ASSUME OutboxAssumption
    PROVE  OutboxSpec => []NeverLost
<1>1. OutboxInv => NeverLost
  BY DEF OutboxInv
<1>2. QED  BY <1>1, OutboxInvariance, PTL

\* DeliveryBound for every limit: between two decisions of the operator a row is handed out at
\* most max_delivery_attempts times.
THEOREM DeliveriesBounded ==
    ASSUME OutboxAssumption
    PROVE  OutboxSpec => []DeliveryBound
<1>1. OutboxInv => DeliveryBound
  BY DEF OutboxInv
<1>2. QED  BY <1>1, OutboxInvariance, PTL

\* What is published is not taken back: no late report of failure, no unpark and no fetch of
\* another publisher makes a published or purged event be handed out again.
THEOREM PublishedIsFinal ==
    ASSUME OutboxAssumption
    PROVE  OutboxSpec =>
              [][\A e \in Events : row[e].state \in {"published", "purged"} =>
                    row'[e].state \in {"published", "purged"} /\ handed'[e] = handed[e]]_outboxVars
<1> DEFINE Final == \A e \in Events : row[e].state \in {"published", "purged"} =>
                       row'[e].state \in {"published", "purged"} /\ handed'[e] = handed[e]
<1>1. OutboxInv /\ [OutboxNext]_outboxVars => [Final]_outboxVars
  <2> SUFFICES ASSUME OutboxInv, OutboxNext, NEW e \in Events, row[e].state \in {"published", "purged"}
               PROVE  row'[e].state \in {"published", "purged"} /\ handed'[e] = handed[e]
    OBVIOUS
  <2>1. /\ row = [d \in Events |-> row[d]] /\ handed = [d \in Events |-> handed[d]]
        /\ \A d \in Events : row[d] \in OutboxRow
    BY DEF OutboxInv, OutboxTypeOK, OutboxRow, RowStates
  <2>2. ASSUME NEW p \in Publishers, NEW S \in SUBSET Events, fetch_unpublished(p, S)
        PROVE  row'[e] = row[e] /\ handed'[e] = handed[e]
    BY <2>2 DEF fetch_unpublished, Candidates
  <2>3. ASSUME NEW p \in Publishers, NEW d \in Events,
               deliver(p, d) \/ mark_published(p, d) \/ mark_failed(p, d)
        PROVE  row'[e] = row[e] /\ handed'[e] = handed[e]
    BY <2>1, <2>3 DEF deliver, mark_published, mark_failed
  <2>4. ASSUME NEW d \in Events, add(d) \/ unpark(d)
        PROVE  row'[e] = row[e] /\ handed'[e] = handed[e]
    BY <2>1, <2>4 DEF add, unpark, NoRow
  <2>5. ASSUME NEW d \in Events, purge_published_events(d)
        PROVE  row'[e].state \in {"published", "purged"} /\ handed'[e] = handed[e]
    BY <2>1, <2>5 DEF purge_published_events, NoRow
  <2>6. CASE Tick
    BY <2>1, <2>6 DEF Tick, OutboxRow
  <2>7. CASE \E p \in Publishers : kill(p)
    BY <2>7 DEF kill
  <2>8. QED  BY <2>2, <2>3, <2>4, <2>5, <2>6, <2>7 DEF OutboxNext, PublisherStep
<1>2. QED  BY <1>1, OutboxInvariance, PTL DEF OutboxSpec
=============================================================================
