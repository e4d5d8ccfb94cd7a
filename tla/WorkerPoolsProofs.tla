--------------------------- MODULE WorkerPoolsProofs ---------------------------
(***************************************************************************)
(* The properties of WorkerPools, for any numbers of instances, clients    *)
(* and keys.  The ledger is the argument: the revision of the pool is the  *)
(* length of its audit trail, so a revision names one entry for good, and  *)
(* a snapshot of the pool is that entry whenever it was read.              *)
(***************************************************************************)
EXTENDS WorkerPools, SchedulerLease, FiniteSetTheorems, WellFoundedInduction, TLAPS

Entry == [by : Keys \cup {"upsert", "create"}, concurrency : Int]
PoolRow == [replicas : Int, concurrency : Int, min : Int, max : Int, revision : Nat]
Command == [status : DOMAIN SCALE_COMMAND_TRANSITIONS \cup {"none"}, expected : Nat, revision : Nat]
Caller == [at : {"idle", "find", "lock", "again"}, key : Keys, expected : Nat,
           reply : {"none", "command", "stale", "lost"}, calls : Nat]
InstanceRow == [status : DOMAIN INSTANCE_TRANSITIONS \cup {"none"}, slots : Int, revision : Nat,
                fresh : BOOLEAN, drain : BOOLEAN]
Process == [at : {"boot", "create", "register", "running", "beat", "off"}, concurrency : Int,
            revision : Nat]

TypeOK ==
    /\ pool \in PoolRow
    /\ trail \in Seq(Entry)
    /\ cmd \in [Keys -> Command]
    /\ client \in [Clients -> Caller]
    /\ row \in [Instances -> InstanceRow]
    /\ proc \in [Instances -> Process]

\* The entry a command names carries what the command asked for.
CommandInv ==
    \A k \in Keys : cmd[k].status # "none" =>
        /\ cmd[k].revision \in 1 .. pool.revision
        /\ trail[cmd[k].revision].concurrency = Want[k].concurrency

\* A process holds a revision no later than the pool's, with the concurrency that revision
\* was written with, and its row shows a revision no later than the process's.
ProcInv ==
    \A i \in Instances :
        /\ row[i].revision <= proc[i].revision
        /\ proc[i].revision <= pool.revision
        /\ proc[i].revision > 0 => proc[i].concurrency = trail[proc[i].revision].concurrency

\* What a client expects is a revision the pool has had; a client sent to its second lookup,
\* or told that its revision is old, expects one the pool has left behind.
ClientInv ==
    \A c \in Clients :
        /\ client[c].expected <= pool.revision
        /\ (client[c].at = "again" \/ client[c].reply = "stale")
              => client[c].expected < pool.revision

PoolsInv == TypeOK /\ RevisionLedger /\ CommandInv /\ ProcInv /\ ClientInv /\ StaleIsTrue

--------------------------------------------------------------------------------
(***************************************************************************)
(* What a step that writes one variable keeps.                             *)
(***************************************************************************)

\* A step of an instance's process or row leaves the pool, its trail, the commands and the
\* clients alone, and with them the ledger.
LEMMA LedgerKept ==
    ASSUME PoolsInv, UNCHANGED <<pool, trail, cmd, client>>
    PROVE  RevisionLedger' /\ CommandInv' /\ ClientInv' /\ StaleIsTrue'
<1>1. RevisionLedger'
  BY DEF PoolsInv, RevisionLedger, Exists
<1>2. CommandInv'
  BY DEF PoolsInv, CommandInv
<1>3. ClientInv'
  BY DEF PoolsInv, ClientInv
<1>4. StaleIsTrue'
  BY DEF PoolsInv, StaleIsTrue
<1>5. QED BY <1>1, <1>2, <1>3, <1>4

\* A step of request_scale that writes nothing leaves the pool, its trail, the commands,
\* the instances and their processes alone.
LEMMA InstancesKept ==
    ASSUME PoolsInv, UNCHANGED <<pool, trail, row, proc>>
    PROVE  ProcInv'
  BY DEF PoolsInv, ProcInv

\* Appending the entry of the next revision (upsert_pool, create_pool, request_scale) keeps
\* the entries of every earlier revision, and with them what the processes and the commands
\* hold.
LEMMA Appended ==
    ASSUME PoolsInv, NEW e \in Entry,
           pool' \in PoolRow, pool'.revision = pool.revision + 1, trail' = Append(trail, e)
    PROVE  /\ trail' \in Seq(Entry)
           /\ Len(trail') = pool'.revision
           /\ DOMAIN trail' = DOMAIN trail \cup {pool'.revision}
           /\ trail'[pool'.revision] = e
           /\ \A n \in 1 .. pool.revision : trail'[n] = trail[n]
           /\ pool'.revision \notin DOMAIN trail
<1>1. trail \in Seq(Entry) /\ pool \in PoolRow /\ Len(trail) = pool.revision
  BY DEF PoolsInv, TypeOK, RevisionLedger
<1>2. pool.revision \in Nat
  BY <1>1 DEF PoolRow
<1>3. QED BY <1>1, <1>2

\* A process's snapshot outlives a later revision.
LEMMA SnapshotKept ==
    ASSUME PoolsInv, pool'.revision = pool.revision + 1,
           \A n \in 1 .. pool.revision : trail'[n] = trail[n],
           NEW i \in Instances, row'[i] = row[i], proc'[i] = proc[i]
    PROVE  /\ row'[i].revision <= proc'[i].revision
           /\ proc'[i].revision <= pool'.revision
           /\ proc'[i].revision > 0 => proc'[i].concurrency = trail'[proc'[i].revision].concurrency
<1>1. pool.revision \in Nat /\ proc[i].revision \in Nat /\ row[i].revision \in Nat
  BY DEF PoolsInv, TypeOK, PoolRow, Process, InstanceRow
<1>2. /\ row[i].revision <= proc[i].revision /\ proc[i].revision <= pool.revision
      /\ proc[i].revision > 0 => proc[i].concurrency = trail[proc[i].revision].concurrency
  BY DEF PoolsInv, ProcInv
<1>3. proc[i].revision > 0 => proc[i].revision \in 1 .. pool.revision
  BY <1>1, <1>2
<1>4. QED BY <1>1, <1>2, <1>3

\* So do all of them.
LEMMA SnapshotsKept ==
    ASSUME PoolsInv, NEW e \in Entry,
           pool' \in PoolRow, pool'.revision = pool.revision + 1, trail' = Append(trail, e),
           UNCHANGED <<row, proc>>
    PROVE  ProcInv'
  BY Appended, SnapshotKept DEF ProcInv

\* The commands of every other key outlive it too, and an entry by no key adds no command.
LEMMA CommandsKept ==
    ASSUME PoolsInv, NEW e \in Entry, e.by \notin Keys,
           pool' \in PoolRow, pool'.revision = pool.revision + 1, trail' = Append(trail, e),
           pool'.concurrency = e.concurrency,
           UNCHANGED <<cmd, client>>
    PROVE  RevisionLedger' /\ CommandInv' /\ ClientInv' /\ StaleIsTrue'
<1>1. /\ Len(trail') = pool'.revision
      /\ DOMAIN trail' = DOMAIN trail \cup {pool'.revision}
      /\ trail'[pool'.revision] = e
      /\ \A n \in 1 .. pool.revision : trail'[n] = trail[n]
  BY Appended
<1>2. pool.revision \in Nat /\ DOMAIN trail = 1 .. pool.revision
  BY DEF PoolsInv, TypeOK, PoolRow, RevisionLedger
<1>3. RevisionLedger'
  <2>1. Exists' => trail'[pool'.revision].concurrency = pool'.concurrency
    BY <1>1
  <2>2. ASSUME NEW k \in Keys
        PROVE  {n \in DOMAIN trail' : trail'[n].by = k} = {n \in DOMAIN trail : trail[n].by = k}
    BY <1>1, <1>2
  <2>3. ASSUME NEW k \in Keys
        PROVE  {n \in DOMAIN trail' : trail'[n].by = k}
                  = IF cmd'[k].status = "none" THEN {} ELSE {cmd'[k].revision}
    BY <2>2 DEF PoolsInv, RevisionLedger
  <2>4. QED BY <1>1, <2>1, <2>3 DEF RevisionLedger
<1>4. CommandInv'
  BY <1>1, <1>2 DEF PoolsInv, CommandInv
<1>5. ClientInv'
  <2>1. \A c \in Clients : client[c].expected \in Nat
    BY DEF PoolsInv, TypeOK, Caller
  <2>2. QED BY <2>1, <1>2 DEF PoolsInv, ClientInv
<1>6. StaleIsTrue'
  BY DEF PoolsInv, StaleIsTrue
<1>7. QED BY <1>3, <1>4, <1>5, <1>6

--------------------------------------------------------------------------------
(***************************************************************************)
(* The initial state, and one lemma per action.                            *)
(***************************************************************************)

\* The empty database: no pool, no command, no instance.
LEMMA InitPools == Init => PoolsInv
<1> SUFFICES ASSUME Init PROVE PoolsInv
  OBVIOUS
<1>1. TypeOK
  <2>1. (CHOOSE k \in Keys : TRUE) \in Keys
    BY PoolsAssumption
  <2>2. client \in [Clients -> Caller]
    BY <2>1 DEF Init, Caller
  <2>3. row \in [Instances -> InstanceRow]
    BY DEF Init, InstanceRow, NoRow
  <2>4. cmd \in [Keys -> Command]
    BY DEF Init, Command, NoCommand
  <2>5. pool \in PoolRow /\ trail \in Seq(Entry) /\ proc \in [Instances -> Process]
    BY DEF Init, PoolRow, Process
  <2>6. QED BY <2>2, <2>3, <2>4, <2>5 DEF TypeOK
<1>2. RevisionLedger
  BY DEF Init, RevisionLedger, NoCommand, Exists
<1>3. CommandInv
  BY DEF Init, CommandInv, NoCommand
<1>4. ProcInv
  BY DEF Init, ProcInv, NoRow
<1>5. ClientInv /\ StaleIsTrue
  BY DEF Init, ClientInv, StaleIsTrue
<1>6. QED BY <1>1, <1>2, <1>3, <1>4, <1>5 DEF PoolsInv

\* pools.upsert_pool.
LEMMA UpsertStep == ASSUME PoolsInv, NEW s \in States, upsert_pool(s) PROVE PoolsInv'
<1> DEFINE e == [by |-> "upsert", concurrency |-> s.concurrency]
<1>1. s \in Setting
  BY PoolsAssumption
<1>2. pool.revision \in Nat
  BY DEF PoolsInv, TypeOK, PoolRow
<1>3. pool' \in PoolRow /\ pool'.revision = pool.revision + 1 /\ pool'.concurrency = s.concurrency
  BY <1>1, <1>2 DEF upsert_pool, Desired, PoolRow, Setting
<1>4. e \in Entry /\ e.by \notin Keys /\ e.concurrency = s.concurrency
  BY <1>1, PoolsAssumption DEF Setting, Entry
<1>5. trail' = Append(trail, e) /\ UNCHANGED <<cmd, client, row, proc>>
  BY DEF upsert_pool, Written
<1> HIDE DEF e
<1>6. RevisionLedger' /\ CommandInv' /\ ClientInv' /\ StaleIsTrue'
  BY <1>3, <1>4, <1>5, CommandsKept
<1>7. ProcInv'
  BY <1>3, <1>4, <1>5, SnapshotsKept
<1>8. TypeOK'
  BY <1>3, <1>4, <1>5, Appended DEF PoolsInv, TypeOK
<1>9. QED BY <1>6, <1>7, <1>8 DEF PoolsInv

\* A process that takes a snapshot of the pool as it is (ensure_pool, heartbeat_read).
LEMMA SnapStep ==
    ASSUME PoolsInv, NEW i \in Instances, NEW where \in {"create", "register", "beat"},
           proc' = [proc EXCEPT ![i] = Snap(i, where)],
           UNCHANGED <<pool, trail, cmd, client, row>>
    PROVE  PoolsInv'
<1>1. Snap(i, where) \in Process
  BY DEF PoolsInv, TypeOK, Snap, Process, PoolRow
<1>2. TypeOK'
  BY <1>1 DEF PoolsInv, TypeOK
<1>3. ProcInv'
  <2>1. pool.revision \in Nat /\ \A j \in Instances : proc[j].revision \in Nat /\ row[j].revision \in Nat
    BY DEF PoolsInv, TypeOK, PoolRow, Process, InstanceRow
  <2>2. pool.revision > 0 => trail[pool.revision].concurrency = pool.concurrency
    BY DEF PoolsInv, RevisionLedger, Exists
  <2>3. ASSUME NEW j \in Instances
        PROVE  /\ row'[j].revision <= proc'[j].revision
               /\ proc'[j].revision <= pool'.revision
               /\ proc'[j].revision > 0 => proc'[j].concurrency = trail'[proc'[j].revision].concurrency
    <3>1. CASE j = i
      <4>1. proc'[j].revision = pool.revision /\ proc'[j].concurrency = pool.concurrency
        BY <3>1 DEF PoolsInv, TypeOK, Snap
      <4>2. QED BY <2>1, <2>2, <4>1 DEF PoolsInv, ProcInv
    <3>2. CASE j # i
      BY <3>2 DEF PoolsInv, TypeOK, ProcInv
    <3>3. QED BY <3>1, <3>2
  <2>4. QED BY <2>3 DEF ProcInv
<1>4. QED BY <1>2, <1>3, LedgerKept DEF PoolsInv

\* runtime._ensure_pool: the lookup.
LEMMA EnsureStep == ASSUME PoolsInv, NEW i \in Instances, ensure_pool(i) PROVE PoolsInv'
  BY SnapStep DEF ensure_pool

\* runtime._heartbeat: the read of the pool.
LEMMA ReadStep == ASSUME PoolsInv, NEW i \in Instances, heartbeat_read(i) PROVE PoolsInv'
  BY SnapStep DEF heartbeat_read

\* runtime._ensure_pool: the insert.  Another replica's pool is taken over as it is, so the
\* step is then a snapshot.
LEMMA CreateStep == ASSUME PoolsInv, NEW i \in Instances, create_pool(i) PROVE PoolsInv'
<1>1. CASE Exists
  <2>1. pool' = pool /\ trail' = trail
    BY <1>1 DEF create_pool, Created
  <2>2. proc' = [proc EXCEPT ![i] = Snap(i, "register")]
    BY <2>1 DEF create_pool, Snap
  <2>3. QED BY <2>1, <2>2, SnapStep DEF create_pool
<1>2. CASE ~Exists
  <2> DEFINE e == [by |-> "create", concurrency |-> Default.concurrency]
  <2>1. pool.revision = 0
    BY <1>2 DEF PoolsInv, TypeOK, PoolRow, Exists
  <2>2. pool' \in PoolRow /\ pool'.revision = pool.revision + 1
           /\ pool'.concurrency = Default.concurrency
    BY <1>2, <2>1, PoolsAssumption DEF create_pool, Created, Desired, PoolRow, Setting
  <2>3. e \in Entry /\ e.by \notin Keys /\ e.concurrency = Default.concurrency
    BY PoolsAssumption DEF Setting, Entry
  <2>4. trail' = Append(trail, e) /\ UNCHANGED <<cmd, client, row>>
    BY <2>1, <2>2 DEF create_pool, Written
  <2> HIDE DEF e
  <2>5. RevisionLedger' /\ CommandInv' /\ ClientInv' /\ StaleIsTrue'
    BY <2>2, <2>3, <2>4, CommandsKept
  <2>6. trail' \in Seq(Entry) /\ trail'[1] = e
    BY <2>1, <2>2, <2>3, <2>4, Appended
  <2>7. /\ proc \in [Instances -> Process]
        /\ proc' = [proc EXCEPT ![i] =
              [at |-> "register", concurrency |-> Default.concurrency, revision |-> 1]]
    BY <2>1, <2>2 DEF create_pool, PoolsInv, TypeOK
  <2>8. proc' \in [Instances -> Process]
    BY <2>7, PoolsAssumption DEF Process, Setting
  <2>9. TypeOK'
    BY <2>2, <2>4, <2>6, <2>8 DEF PoolsInv, TypeOK
  <2>10. ASSUME NEW j \in Instances
         PROVE  /\ row'[j].revision <= proc'[j].revision
                /\ proc'[j].revision <= pool'.revision
                /\ proc'[j].revision > 0 => proc'[j].concurrency = trail'[proc'[j].revision].concurrency
    <3>1. proc[j].revision = 0 /\ row[j].revision = 0
      BY <2>1 DEF PoolsInv, ProcInv, TypeOK, Process, InstanceRow
    <3>2. CASE j = i
      BY <2>1, <2>2, <2>3, <2>4, <2>6, <2>7, <3>1, <3>2
    <3>3. CASE j # i
      BY <2>1, <2>2, <2>4, <2>7, <3>1, <3>3
    <3>4. QED BY <3>2, <3>3
  <2>11. ProcInv'
    BY <2>10 DEF ProcInv
  <2>12. QED BY <2>5, <2>9, <2>11 DEF PoolsInv
<1>3. QED BY <1>1, <1>2

\* pools.register_instance: the row shows the revision the process holds.
LEMMA RegisterStep == ASSUME PoolsInv, NEW i \in Instances, register_instance(i) PROVE PoolsInv'
<1> DEFINE r == [status |-> "starting", slots |-> proc[i].concurrency,
                 revision |-> proc[i].revision, fresh |-> TRUE, drain |-> FALSE]
<1>1. /\ proc \in [Instances -> Process] /\ row \in [Instances -> InstanceRow]
      /\ row' = [row EXCEPT ![i] = r] /\ proc' = [proc EXCEPT ![i].at = "running"]
      /\ UNCHANGED <<pool, trail, cmd, client>>
  BY DEF PoolsInv, TypeOK, register_instance
<1>2. proc[i] \in Process
  BY <1>1
<1>3. r \in InstanceRow
  BY <1>2, PoolsAssumption DEF Process, InstanceRow, INSTANCE_TRANSITIONS
<1>4. [proc[i] EXCEPT !.at = "running"] \in Process
  BY <1>2 DEF Process
<1>5. proc' = [proc EXCEPT ![i] = [proc[i] EXCEPT !.at = "running"]]
  BY <1>1
<1>6. TypeOK'
  BY <1>1, <1>3, <1>4, <1>5 DEF PoolsInv, TypeOK
<1>7. ASSUME NEW j \in Instances
      PROVE  /\ row'[j].revision <= proc'[j].revision
             /\ proc'[j].revision = proc[j].revision /\ proc'[j].concurrency = proc[j].concurrency
  <2>1. proc[j] \in Process /\ row[j].revision <= proc[j].revision
    BY <1>1 DEF PoolsInv, ProcInv
  <2>2. CASE j = i
    BY <1>1, <1>2, <1>5, <2>2 DEF Process
  <2>3. CASE j # i
    BY <1>1, <1>5, <2>1, <2>3
  <2>4. QED BY <2>2, <2>3
<1>8. ProcInv'
  BY <1>1, <1>7 DEF PoolsInv, ProcInv
<1>9. QED BY <1>1, <1>6, <1>8, LedgerKept DEF PoolsInv

\* A step that rewrites rows without touching their revisions (set_instance_status,
\* grows_old, mark_stale_instances).
LEMMA RowStep ==
    ASSUME PoolsInv, row' \in [Instances -> InstanceRow],
           \A i \in Instances : row'[i].revision = row[i].revision,
           UNCHANGED <<pool, trail, cmd, client, proc>>
    PROVE  PoolsInv'
<1>1. ProcInv'
  BY DEF PoolsInv, ProcInv
<1>2. TypeOK'
  BY DEF PoolsInv, TypeOK
<1>3. QED BY <1>1, <1>2, LedgerKept DEF PoolsInv

\* The row that a heartbeat writes is an instance row that shows the process's revision.
LEMMA BeatenRow ==
    ASSUME PoolsInv, NEW i \in Instances
    PROVE  Beaten(i) \in InstanceRow /\ Beaten(i).revision = proc[i].revision
<1>1. row[i] \in InstanceRow /\ proc[i] \in Process
  BY DEF PoolsInv, TypeOK
<1>2. PICK st \in DOMAIN INSTANCE_TRANSITIONS \cup {"none"} :
        st = IF row[i].status # "stale" THEN row[i].status
             ELSE IF row[i].drain THEN "draining" ELSE "ready"
  BY <1>1 DEF InstanceRow, INSTANCE_TRANSITIONS
<1>3. PICK n \in Int : n = Min2(proc[i].concurrency, MaxSlots)
  BY <1>1, PoolsAssumption DEF Process, Min2
<1>4. Beaten(i) = [row[i] EXCEPT !.status = st, !.slots = n, !.revision = proc[i].revision,
                                 !.fresh = TRUE]
  BY <1>2, <1>3 DEF Beaten
<1>5. QED BY <1>1, <1>2, <1>3, <1>4 DEF InstanceRow, Process

\* pools.heartbeat_instance.
LEMMA BeatStep == ASSUME PoolsInv, NEW i \in Instances, heartbeat_instance(i) PROVE PoolsInv'
<1>1. /\ proc \in [Instances -> Process] /\ row \in [Instances -> InstanceRow]
      /\ UNCHANGED <<pool, trail, cmd, client>>
  BY DEF PoolsInv, TypeOK, heartbeat_instance
<1>2. PICK where \in {"running", "off"} : proc' = [proc EXCEPT ![i].at = where]
  BY DEF heartbeat_instance
<1>3. proc[i] \in Process
  BY <1>1
<1>4. [proc[i] EXCEPT !.at = where] \in Process
  BY <1>3 DEF Process
<1>5. proc' = [proc EXCEPT ![i] = [proc[i] EXCEPT !.at = where]]
  BY <1>2
<1>6. proc' \in [Instances -> Process]
  BY <1>1, <1>4, <1>5
<1>7. \A j \in Instances : proc'[j].revision = proc[j].revision
                            /\ proc'[j].concurrency = proc[j].concurrency
  BY <1>1, <1>3, <1>5 DEF Process
<1>8. row' = row \/ row' = [row EXCEPT ![i] = Beaten(i)]
  BY DEF heartbeat_instance
<1>9. row' \in [Instances -> InstanceRow]
  BY <1>1, <1>8, BeatenRow
<1>10. ASSUME NEW j \in Instances PROVE row'[j].revision <= proc'[j].revision
  <2>1. row[j].revision <= proc[j].revision /\ proc[j].revision \in Nat
    BY <1>1 DEF PoolsInv, ProcInv, Process
  <2>2. row'[j].revision \in {row[j].revision, proc[j].revision}
    BY <1>1, <1>8, BeatenRow
  <2>3. QED BY <1>7, <2>1, <2>2
<1>11. ProcInv'
  BY <1>1, <1>7, <1>10 DEF PoolsInv, ProcInv
<1>12. TypeOK'
  BY <1>1, <1>6, <1>9 DEF PoolsInv, TypeOK
<1>13. QED BY <1>1, <1>11, <1>12, LedgerKept DEF PoolsInv

\* pools.set_instance_status.
LEMMA StatusStep ==
    ASSUME PoolsInv, NEW i \in Instances, NEW s \in InstanceTargets, set_instance_status(i, s)
    PROVE  PoolsInv'
<1>1. row \in [Instances -> InstanceRow] /\ UNCHANGED <<pool, trail, cmd, client, proc>>
  BY DEF PoolsInv, TypeOK, set_instance_status
<1>2. row[i] \in InstanceRow
  BY <1>1
<1>3. row[i].drain \in BOOLEAN
  BY <1>2 DEF InstanceRow
<1>4. PICK d \in BOOLEAN : d = IF s \in {"draining", "ready"} THEN s = "draining" ELSE row[i].drain
  BY <1>3
<1>5. row' = [row EXCEPT ![i] = [row[i] EXCEPT !.status = s, !.drain = d]]
  BY <1>1, <1>2, <1>4, Zenon DEF set_instance_status
<1>6. s \in DOMAIN INSTANCE_TRANSITIONS
  BY PoolsAssumption DEF INSTANCE_TRANSITIONS
<1>7. [row[i] EXCEPT !.status = s, !.drain = d] \in InstanceRow
  BY <1>2, <1>4, <1>6 DEF InstanceRow
<1>8. row' \in [Instances -> InstanceRow]
  BY <1>1, <1>5, <1>7
<1>9. \A j \in Instances : row'[j].revision = row[j].revision
  BY <1>1, <1>2, <1>5 DEF InstanceRow
<1>10. QED BY <1>1, <1>8, <1>9, RowStep

\* The ttl of a heartbeat passes.
LEMMA OldStep == ASSUME PoolsInv, NEW i \in Instances, grows_old(i) PROVE PoolsInv'
<1>1. row \in [Instances -> InstanceRow] /\ UNCHANGED <<pool, trail, cmd, client, proc>>
  BY DEF PoolsInv, TypeOK, grows_old
<1>2. row[i] \in InstanceRow /\ row' = [row EXCEPT ![i] = [row[i] EXCEPT !.fresh = FALSE]]
  BY <1>1 DEF grows_old
<1>3. [row[i] EXCEPT !.fresh = FALSE] \in InstanceRow
  BY <1>2 DEF InstanceRow
<1>4. row' \in [Instances -> InstanceRow]
  BY <1>1, <1>2, <1>3
<1>5. \A j \in Instances : row'[j].revision = row[j].revision
  BY <1>1, <1>2 DEF InstanceRow
<1>6. QED BY <1>1, <1>4, <1>5, RowStep

\* pools.mark_stale_instances.
LEMMA MarkStep == ASSUME PoolsInv, mark_stale_instances PROVE PoolsInv'
<1>1. row \in [Instances -> InstanceRow] /\ UNCHANGED <<pool, trail, cmd, client, proc>>
  BY DEF PoolsInv, TypeOK, mark_stale_instances
<1>2. ASSUME NEW j \in Instances
      PROVE  [row[j] EXCEPT !.status = "stale"] \in InstanceRow
             /\ [row[j] EXCEPT !.status = "stale"].revision = row[j].revision
  <2>1. row[j] \in InstanceRow
    BY <1>1
  <2>2. QED BY <2>1 DEF InstanceRow, INSTANCE_TRANSITIONS
<1>3. \A j \in Instances : row'[j] \in {row[j], [row[j] EXCEPT !.status = "stale"]}
  BY DEF mark_stale_instances
<1>4. \A j \in Instances : row'[j] \in InstanceRow /\ row'[j].revision = row[j].revision
  BY <1>1, <1>2, <1>3
<1>5. row' \in [Instances -> InstanceRow]
  BY <1>4 DEF mark_stale_instances
<1>6. QED BY <1>1, <1>4, <1>5, RowStep

\* The lookups of request_scale and the client's call write the client alone; what it
\* expects is no later than the pool's revision, and earlier once it is sent to its second
\* lookup or told that its revision is old.
LEMMA ClientOnly ==
    ASSUME PoolsInv, NEW c \in Clients, NEW r \in Caller, client' = [client EXCEPT ![c] = r],
           r.expected <= pool.revision,
           (r.at = "again" \/ r.reply = "stale") => r.expected < pool.revision,
           r.reply = "stale" => ~(cmd[r.key].status # "none" /\ cmd[r.key].expected = r.expected),
           UNCHANGED <<pool, trail, cmd, row, proc>>
    PROVE  PoolsInv'
<1>1. client \in [Clients -> Caller]
  BY DEF PoolsInv, TypeOK
<1>2. TypeOK'
  BY <1>1 DEF PoolsInv, TypeOK
<1>3. \A d \in Clients : client'[d] = IF d = c THEN r ELSE client[d]
  BY <1>1
<1>4. ClientInv'
  BY <1>3 DEF PoolsInv, ClientInv
<1>5. StaleIsTrue'
  BY <1>3 DEF PoolsInv, StaleIsTrue
<1>6. RevisionLedger' /\ CommandInv' /\ ProcInv'
  BY InstancesKept DEF PoolsInv, RevisionLedger, CommandInv, Exists
<1>7. QED BY <1>2, <1>4, <1>5, <1>6 DEF PoolsInv

\* A client asks: with the revision of the pool, or with one it or another client asked with.
LEMMA CallStep ==
    ASSUME PoolsInv, NEW c \in Clients, NEW k \in Keys, NEW e \in 1 .. MaxRevision, call(c, k, e)
    PROVE  PoolsInv'
<1> DEFINE r == [at |-> "find", key |-> k, expected |-> e, reply |-> "none",
                 calls |-> client[c].calls + 1]
<1>1. client[c].calls \in Nat /\ pool.revision \in Nat
  BY DEF PoolsInv, TypeOK, Caller, PoolRow
<1>2. r \in Caller
  BY <1>1, PoolsAssumption DEF Caller
<1>3. e <= pool.revision
  BY <1>1 DEF call, PoolsInv, ClientInv
<1>4. QED BY <1>2, <1>3, ClientOnly DEF call

\* pools._find_command, before the lock.
LEMMA FindStep == ASSUME PoolsInv, NEW c \in Clients, find_command(c) PROVE PoolsInv'
<1>1. client[c] \in Caller
  BY DEF PoolsInv, TypeOK
<1>2. client[c].expected <= pool.revision
      /\ (client[c].reply = "stale" => client[c].expected < pool.revision)
  BY DEF PoolsInv, ClientInv
<1>3. client[c].reply = "stale" =>
        ~(cmd[client[c].key].status # "none" /\ cmd[client[c].key].expected = client[c].expected)
  BY DEF PoolsInv, StaleIsTrue
<1>4. CASE cmd[client[c].key].status # "none"
  <2> DEFINE r == [client[c] EXCEPT !.at = "idle", !.reply = "command"]
  <2>1. r \in Caller /\ r.at = "idle" /\ r.reply = "command" /\ r.expected = client[c].expected
    BY <1>1 DEF Caller
  <2>2. client' = [client EXCEPT ![c] = r] /\ UNCHANGED <<pool, trail, cmd, row, proc>>
    BY <1>4 DEF find_command, Told
  <2> HIDE DEF r
  <2>3. QED BY <1>2, <2>1, <2>2, ClientOnly
<1>5. CASE cmd[client[c].key].status = "none"
  <2> DEFINE r == [client[c] EXCEPT !.at = "lock"]
  <2>1. /\ r \in Caller /\ r.at = "lock" /\ r.reply = client[c].reply
        /\ r.expected = client[c].expected /\ r.key = client[c].key
    BY <1>1 DEF Caller
  <2>2. client' = [client EXCEPT ![c] = r] /\ UNCHANGED <<pool, trail, cmd, row, proc>>
    BY <1>5 DEF find_command
  <2> HIDE DEF r
  <2>3. QED BY <1>2, <1>3, <2>1, <2>2, ClientOnly
<1>6. QED BY <1>4, <1>5

\* The locked read found no row with the expected revision.
LEMMA MovedStep == ASSUME PoolsInv, NEW c \in Clients, pool_moved(c) PROVE PoolsInv'
<1> DEFINE r == [client[c] EXCEPT !.at = "again"]
<1>1. client[c] \in Caller /\ pool.revision \in Nat
  BY DEF PoolsInv, TypeOK, PoolRow
<1>2. client[c].expected < pool.revision
  BY <1>1 DEF PoolsInv, ClientInv, pool_moved, Caller
<1>3. client[c].reply = "stale" =>
        ~(cmd[client[c].key].status # "none" /\ cmd[client[c].key].expected = client[c].expected)
  BY DEF PoolsInv, StaleIsTrue
<1>4. /\ r \in Caller /\ r.reply = client[c].reply
      /\ r.expected = client[c].expected /\ r.key = client[c].key /\ r.expected \in Nat
  BY <1>1 DEF Caller
<1>5. client' = [client EXCEPT ![c] = r] /\ UNCHANGED <<pool, trail, cmd, row, proc>>
  BY DEF pool_moved
<1>6. r.expected <= pool.revision /\ r.expected < pool.revision
  BY <1>1, <1>2, <1>4
<1> HIDE DEF r
<1>7. QED BY <1>3, <1>4, <1>5, <1>6, ClientOnly

\* pools._find_command, after it.
LEMMA AgainStep == ASSUME PoolsInv, NEW c \in Clients, find_again(c) PROVE PoolsInv'
<1>1. client[c] \in Caller /\ pool.revision \in Nat /\ client[c].expected \in Nat
  BY DEF PoolsInv, TypeOK, PoolRow, Caller
<1>2. client[c].expected < pool.revision
  BY DEF PoolsInv, ClientInv, find_again
<1>3. PICK reply \in {"command", "stale"} :
        reply = IF Again(client[c].key) THEN "command" ELSE "stale"
  OBVIOUS
<1> DEFINE r == [client[c] EXCEPT !.at = "idle", !.reply = reply]
<1>4. /\ r \in Caller /\ r.reply = reply
      /\ r.expected = client[c].expected /\ r.key = client[c].key
  BY <1>1 DEF Caller
<1>5. client' = [client EXCEPT ![c] = r] /\ UNCHANGED <<pool, trail, cmd, row, proc>>
  BY <1>3 DEF find_again, Told
<1>6. r.reply = "stale" => cmd[r.key].status = "none"
  BY <1>3, <1>4 DEF Again
<1>7. r.expected <= pool.revision /\ r.expected < pool.revision
  BY <1>1, <1>2, <1>4
<1> HIDE DEF r
<1>8. QED BY <1>4, <1>5, <1>6, <1>7, ClientOnly

\* A transaction of request_scale that fails.
LEMMA FailsStep == ASSUME PoolsInv, NEW c \in Clients, scale_fails(c) PROVE PoolsInv'
<1> DEFINE r == [client[c] EXCEPT !.at = "idle", !.reply = "lost"]
<1>1. client[c] \in Caller
  BY DEF PoolsInv, TypeOK
<1>2. client[c].expected <= pool.revision
  BY DEF PoolsInv, ClientInv
<1>3. r \in Caller /\ r.at = "idle" /\ r.reply = "lost" /\ r.expected = client[c].expected
  BY <1>1 DEF Caller
<1>4. client' = [client EXCEPT ![c] = r] /\ UNCHANGED <<pool, trail, cmd, row, proc>>
  BY DEF scale_fails, Told
<1> HIDE DEF r
<1>5. QED BY <1>2, <1>3, <1>4, ClientOnly

\* A command superseded by a later one keeps its row but for the status.
LEMMA SupersededRow ==
    ASSUME PoolsInv, NEW l \in Keys
    PROVE  /\ Superseded(l) \in Command
           /\ Superseded(l).expected = cmd[l].expected /\ Superseded(l).revision = cmd[l].revision
           /\ (Superseded(l).status = "none") <=> (cmd[l].status = "none")
<1>1. cmd[l] \in Command
  BY DEF PoolsInv, TypeOK
<1>2. CASE Superseded(l) = cmd[l]
  BY <1>1, <1>2
<1>3. CASE /\ Superseded(l) = [cmd[l] EXCEPT !.status = "superseded"]
           /\ cmd[l].status # "none"
  BY <1>1, <1>3 DEF Command, SCALE_COMMAND_TRANSITIONS
<1>4. QED BY <1>2, <1>3 DEF Superseded

\* pools.request_scale under the row lock: the entry it appends is the one the new command
\* names, its key had none, and every client that was refused expects an earlier revision.
LEMMA ScaleStep == ASSUME PoolsInv, NEW c \in Clients, scale(c) PROVE PoolsInv'
<1>1. PICK k \in Keys : k = client[c].key
  BY DEF PoolsInv, TypeOK, Caller
<1> DEFINE e == [by |-> k, concurrency |-> Want[k].concurrency]
           new == [status |-> "requested", expected |-> client[c].expected,
                   revision |-> pool.revision + 1]
<1>2. PICK reply \in {"command", "lost"} : Told(c, reply)
  BY DEF scale
<1> DEFINE r == [client[c] EXCEPT !.at = "idle", !.reply = reply]
<1>3. /\ pool \in PoolRow /\ pool.revision \in Nat /\ client[c] \in Caller
      /\ client[c].expected \in Nat /\ DOMAIN trail = 1 .. pool.revision
      /\ client \in [Clients -> Caller]
  BY DEF PoolsInv, TypeOK, PoolRow, Caller, RevisionLedger
<1>4. /\ Want[k].replicas \in Nat /\ Want[k].concurrency \in Nat
  BY PoolsAssumption
<1>5. /\ client[c].expected = pool.revision /\ cmd[k].status = "none"
      /\ pool' = [pool EXCEPT !.replicas = Want[k].replicas, !.concurrency = Want[k].concurrency,
                              !.revision = @ + 1]
      /\ trail' = Append(trail, e)
      /\ cmd' = [[l \in Keys |-> Superseded(l)] EXCEPT ![k] = new]
      /\ client' = [client EXCEPT ![c] = r]
      /\ UNCHANGED <<row, proc>>
  BY <1>1, <1>2 DEF scale, KeyFree, Written, Told
<1>6. pool' \in PoolRow /\ pool'.revision = pool.revision + 1
        /\ pool'.concurrency = Want[k].concurrency
  <2>1. PICK m \in Int, n \in Int : m = Want[k].replicas /\ n = Want[k].concurrency
    BY <1>4
  <2>2. pool' = [pool EXCEPT !.replicas = m, !.concurrency = n, !.revision = pool.revision + 1]
    BY <1>5, <2>1
  <2>3. pool \in PoolRow /\ pool.revision + 1 \in Nat
    BY <1>3
  <2>4. QED BY <2>1, <2>2, <2>3 DEF PoolRow
<1>7. e \in Entry /\ e.by = k /\ e.concurrency = Want[k].concurrency
  BY <1>4 DEF Entry
<1>8. new \in Command /\ new.status = "requested" /\ new.expected = pool.revision
        /\ new.revision = pool.revision + 1
  BY <1>3, <1>5 DEF Command, SCALE_COMMAND_TRANSITIONS
<1>9. r \in Caller /\ r.at = "idle" /\ r.reply # "stale" /\ r.expected = pool.revision
  BY <1>3, <1>5 DEF Caller
<1> HIDE DEF e, new, r
<1>10. /\ trail' \in Seq(Entry) /\ Len(trail') = pool'.revision
       /\ DOMAIN trail' = DOMAIN trail \cup {pool'.revision}
       /\ trail'[pool'.revision] = e
       /\ \A n \in 1 .. pool.revision : trail'[n] = trail[n]
  BY <1>5, <1>6, <1>7, Appended
<1>11. \A l \in Keys : cmd'[l] = IF l = k THEN new ELSE Superseded(l)
  BY <1>5
<1>12. \A d \in Clients : client'[d] = IF d = c THEN r ELSE client[d]
  BY <1>3, <1>5
<1>13. TypeOK'
  <2>1. cmd' \in [Keys -> Command]
    BY <1>5, <1>8, SupersededRow
  <2>2. client' \in [Clients -> Caller]
    BY <1>3, <1>5, <1>9
  <2>3. QED BY <1>5, <1>6, <1>10, <2>1, <2>2 DEF PoolsInv, TypeOK
<1>14. ProcInv'
  BY <1>5, <1>6, <1>7, SnapshotsKept
<1>15. RevisionLedger'
  <2>1. ASSUME NEW l \in Keys
        PROVE  {n \in DOMAIN trail' : trail'[n].by = l}
                  = IF cmd'[l].status = "none" THEN {} ELSE {cmd'[l].revision}
    <3>1. {n \in DOMAIN trail : trail[n].by = l}
             = IF cmd[l].status = "none" THEN {} ELSE {cmd[l].revision}
      BY DEF PoolsInv, RevisionLedger
    <3>2. CASE l = k
      <4>1. \A n \in DOMAIN trail : trail[n].by # k
        BY <3>1, <3>2, <1>5
      <4>2. {n \in DOMAIN trail' : trail'[n].by = k} = {pool'.revision}
        BY <1>3, <1>7, <1>10, <4>1
      <4>3. QED BY <3>2, <4>2, <1>6, <1>8, <1>11
    <3>3. CASE l # k
      <4>1. {n \in DOMAIN trail' : trail'[n].by = l} = {n \in DOMAIN trail : trail[n].by = l}
        BY <1>3, <1>7, <1>10, <3>3
      <4>2. QED BY <3>1, <3>3, <4>1, <1>11, SupersededRow
    <3>4. QED BY <3>2, <3>3
  <2>2. Exists' => trail'[pool'.revision].concurrency = pool'.concurrency
    BY <1>6, <1>7, <1>10
  <2>3. QED BY <1>10, <2>1, <2>2 DEF RevisionLedger
<1>16. CommandInv'
  <2>1. ASSUME NEW l \in Keys, cmd'[l].status # "none"
        PROVE  /\ cmd'[l].revision \in 1 .. pool'.revision
               /\ trail'[cmd'[l].revision].concurrency = Want[l].concurrency
    <3>1. CASE l = k
      BY <1>3, <1>6, <1>7, <1>8, <1>10, <1>11, <3>1
    <3>2. CASE l # k
      <4>1. cmd'[l].revision = cmd[l].revision /\ cmd[l].status # "none"
        BY <1>11, <2>1, <3>2, SupersededRow
      <4>2. /\ cmd[l].revision \in 1 .. pool.revision
            /\ trail[cmd[l].revision].concurrency = Want[l].concurrency
        BY <4>1 DEF PoolsInv, CommandInv
      <4>3. QED BY <1>3, <1>6, <1>10, <4>1, <4>2
    <3>3. QED BY <3>1, <3>2
  <2>2. QED BY <2>1 DEF CommandInv
<1>17. ClientInv'
  <2>1. ASSUME NEW d \in Clients
        PROVE  /\ client'[d].expected <= pool'.revision
               /\ (client'[d].at = "again" \/ client'[d].reply = "stale")
                     => client'[d].expected < pool'.revision
    <3>1. CASE d = c
      BY <1>3, <1>6, <1>9, <1>12, <3>1
    <3>2. CASE d # c
      <4>1. client[d].expected \in Nat /\ client[d].expected <= pool.revision
        BY DEF PoolsInv, ClientInv, TypeOK, Caller
      <4>2. client'[d] = client[d] /\ client[d].expected < pool'.revision
        BY <1>3, <1>6, <1>12, <3>2, <4>1
      <4>3. QED BY <1>3, <1>6, <4>1, <4>2
    <3>3. QED BY <3>1, <3>2
  <2>2. QED BY <2>1 DEF ClientInv
<1>18. StaleIsTrue'
  <2>1. ASSUME NEW d \in Clients, client'[d].reply = "stale"
        PROVE  ~( /\ cmd'[client'[d].key].status # "none"
                  /\ cmd'[client'[d].key].expected = client'[d].expected )
    <3>1. d # c /\ client'[d] = client[d] /\ client[d].reply = "stale"
      BY <1>9, <1>12, <2>1
    <3>2. client[d].expected \in Nat /\ client[d].expected < pool.revision /\ client[d].key \in Keys
      BY <3>1 DEF PoolsInv, ClientInv, TypeOK, Caller
    <3>3. CASE client[d].key = k
      <4>1. cmd'[client'[d].key].expected = pool.revision
        BY <1>8, <1>11, <3>1, <3>3
      <4>2. QED BY <1>3, <3>1, <3>2, <4>1
    <3>4. CASE client[d].key # k
      <4>1. cmd'[client[d].key] = Superseded(client[d].key)
        BY <1>11, <3>2, <3>4
      <4>2. ~( /\ cmd[client[d].key].status # "none"
               /\ cmd[client[d].key].expected = client[d].expected )
        BY <3>1 DEF PoolsInv, StaleIsTrue
      <4>3. QED BY <3>1, <3>2, <4>1, <4>2, SupersededRow
    <3>5. QED BY <3>3, <3>4
  <2>2. QED BY <2>1 DEF StaleIsTrue
<1>19. QED BY <1>13, <1>14, <1>15, <1>16, <1>17, <1>18 DEF PoolsInv

\* pools.transition_scale_command writes the status of one command.
LEMMA TransitionStep ==
    ASSUME PoolsInv, NEW k \in Keys, NEW s \in CommandTargets, transition_scale_command(k, s)
    PROVE  PoolsInv'
<1>1. /\ cmd \in [Keys -> Command] /\ cmd[k].status # "none"
      /\ cmd' = [cmd EXCEPT ![k] = [cmd[k] EXCEPT !.status = s]]
      /\ UNCHANGED <<pool, trail, client, row, proc>>
  BY DEF PoolsInv, TypeOK, transition_scale_command
<1>2. cmd[k] \in Command /\ s \in DOMAIN SCALE_COMMAND_TRANSITIONS /\ s # "none"
  BY <1>1, PoolsAssumption DEF SCALE_COMMAND_TRANSITIONS
<1>3. [cmd[k] EXCEPT !.status = s] \in Command
  BY <1>2 DEF Command
<1>4. TypeOK'
  BY <1>1, <1>3 DEF PoolsInv, TypeOK
<1>5. \A l \in Keys : /\ cmd'[l].expected = cmd[l].expected /\ cmd'[l].revision = cmd[l].revision
                      /\ (cmd'[l].status = "none") <=> (cmd[l].status = "none")
  BY <1>1, <1>2 DEF Command
<1>6. RevisionLedger'
  BY <1>1, <1>5 DEF PoolsInv, RevisionLedger, Exists
<1>7. CommandInv'
  BY <1>1, <1>5 DEF PoolsInv, CommandInv
<1>8. StaleIsTrue'
  <2>1. \A d \in Clients : client[d].key \in Keys
    BY DEF PoolsInv, TypeOK, Caller
  <2>2. QED BY <1>1, <1>5, <2>1 DEF PoolsInv, StaleIsTrue
<1>9. ClientInv' /\ ProcInv'
  BY <1>1, InstancesKept DEF PoolsInv, ClientInv
<1>10. QED BY <1>4, <1>6, <1>7, <1>8, <1>9 DEF PoolsInv

--------------------------------------------------------------------------------
(***************************************************************************)
(* The theorems.                                                           *)
(***************************************************************************)

\* Every step of the pool, its instances, its clients and its controller keeps PoolsInv.
LEMMA NextPools == ASSUME PoolsInv, [Next]_vars PROVE PoolsInv'
<1>1. ASSUME NEW i \in Instances, InstanceStep(i) PROVE PoolsInv'
  BY <1>1, EnsureStep, CreateStep, RegisterStep, ReadStep, BeatStep, OldStep, StatusStep
     DEF InstanceStep
<1>2. ASSUME NEW c \in Clients, ClientStep(c) PROVE PoolsInv'
  BY <1>2, CallStep, FindStep, MovedStep, AgainStep, ScaleStep, FailsStep DEF ClientStep
<1>3. CASE UNCHANGED vars
  BY <1>3, LedgerKept, InstancesKept DEF vars, PoolsInv, TypeOK
<1>4. QED BY <1>1, <1>2, <1>3, UpsertStep, MarkStep, TransitionStep DEF Next

\* Every reachable state satisfies the inductive invariant: its types, the ledger, the
\* snapshots and the clients' expectations.
THEOREM PoolsInvariance == Spec => []PoolsInv
<1>1. Init => PoolsInv
  BY InitPools
<1>2. PoolsInv /\ [Next]_vars => PoolsInv'
  BY NextPools
<1>3. QED BY <1>1, <1>2, PTL DEF Spec

\* Every revision of a pool has one audit entry by one writer, and a key scales the pool at
\* most once: replicas that boot together create the pool once and reset nothing, and a
\* repeated request_scale writes nothing (runtime._ensure_pool, pools.upsert_pool,
\* pools.request_scale).
THEOREM OneWriterPerRevision == Spec => []RevisionLedger
<1>1. PoolsInv => RevisionLedger
  BY DEF PoolsInv
<1>2. QED BY <1>1, PoolsInvariance, PTL

\* A client that is told that its revision is old has not had that request carried out
\* (pools.request_scale, the second _find_command).
THEOREM StaleReplyIsTrue == Spec => []StaleIsTrue
<1>1. PoolsInv => StaleIsTrue
  BY DEF PoolsInv
<1>2. QED BY <1>1, PoolsInvariance, PTL

\* The step that applies a command finds every counted instance at the command's revision
\* or later, and with the command's concurrency while the pool is at that revision.
LEMMA AppliedStep ==
    ASSUME PoolsInv, [Next]_vars,
           NEW k \in Keys, cmd'[k].status = "applied", cmd[k].status # "applied",
           NEW i \in Counted
    PROVE  /\ proc[i].revision >= cmd[k].revision
           /\ pool.revision = cmd[k].revision => proc[i].concurrency = Want[k].concurrency
<1>1. transition_scale_command(k, "applied")
  <2>1. cmd' # cmd
    OBVIOUS
  <2>2. \/ \E c \in Clients : scale(c)
        \/ \E l \in Keys, s \in CommandTargets : transition_scale_command(l, s)
    BY <2>1 DEF Next, vars, InstanceStep, ClientStep, ensure_pool, create_pool,
       register_instance, heartbeat_read, heartbeat_instance, grows_old, set_instance_status,
       call, find_command, pool_moved, find_again, scale_fails, upsert_pool, mark_stale_instances
  <2>3. ASSUME NEW c \in Clients, scale(c) PROVE FALSE
    <3>1. PICK l \in Keys : l = client[c].key
      BY DEF PoolsInv, TypeOK, Caller
    <3>2. cmd'[k].status \in {"requested", "superseded", cmd[k].status}
      <4>1. cmd[k] \in Command
        BY DEF PoolsInv, TypeOK
      <4>2. CASE k = l
        BY <2>3, <3>1, <4>2 DEF scale
      <4>3. CASE k # l
        <5>1. cmd'[k] = Superseded(k)
          BY <2>3, <3>1, <4>3 DEF scale
        <5>2. QED BY <4>1, <5>1 DEF Superseded, Command
      <4>4. QED BY <4>2, <4>3
    <3>3. QED BY <3>2
  <2>4. ASSUME NEW l \in Keys, NEW s \in CommandTargets, transition_scale_command(l, s)
        PROVE  l = k /\ s = "applied"
    <3>1. cmd \in [Keys -> Command] /\ cmd[l] \in Command
      BY DEF PoolsInv, TypeOK
    <3>2. cmd'[k].status = IF k = l THEN s ELSE cmd[k].status
      BY <2>4, <3>1 DEF transition_scale_command, Command
    <3>3. QED BY <3>2
  <2>5. QED BY <2>2, <2>3, <2>4
<1>2. /\ cmd[k].status # "none" /\ Cardinality(Counted) = Want[k].replicas
      /\ Want[k].replicas = 0 \/ row[i].revision >= cmd[k].revision
  BY <1>1 DEF transition_scale_command, Confirmed
<1>3. Want[k].replicas # 0
  <2>1. IsFiniteSet(Counted)
    BY PoolsAssumption, FS_Subset DEF Counted
  <2>2. QED BY <1>2, <2>1, FS_EmptySet
<1>4. i \in Instances
  BY DEF Counted
<1>5. /\ row[i].revision \in Nat /\ proc[i].revision \in Nat /\ pool.revision \in Nat
  BY <1>4 DEF PoolsInv, TypeOK, InstanceRow, Process, PoolRow
<1>6. /\ cmd[k].revision \in 1 .. pool.revision
      /\ trail[cmd[k].revision].concurrency = Want[k].concurrency
  BY <1>2 DEF PoolsInv, CommandInv
<1>7. /\ row[i].revision <= proc[i].revision /\ proc[i].revision <= pool.revision
      /\ proc[i].revision > 0 => proc[i].concurrency = trail[proc[i].revision].concurrency
  BY <1>4 DEF PoolsInv, ProcInv
<1>8. proc[i].revision >= cmd[k].revision
  BY <1>2, <1>3, <1>5, <1>6, <1>7
<1>9. ASSUME pool.revision = cmd[k].revision PROVE proc[i].concurrency = Want[k].concurrency
  <2>1. proc[i].revision = cmd[k].revision /\ proc[i].revision > 0
    BY <1>5, <1>6, <1>7, <1>8, <1>9
  <2>2. QED BY <1>6, <1>7, <2>1
<1>10. QED BY <1>8, <1>9

\* A scale command becomes applied only when every instance that counts has read the pool
\* at its revision or a later one, and has read the requested concurrency unless an operator
\* has written the pool since (pools.transition_scale_command).
THEOREM AppliedMeansRead == Spec => AppliedConfirmed
<1>1. PoolsInv /\ [Next]_vars =>
        [\A k \in Keys : cmd'[k].status = "applied" /\ cmd[k].status # "applied" =>
            \A i \in Counted :
               /\ proc[i].revision >= cmd[k].revision
               /\ pool.revision = cmd[k].revision => proc[i].concurrency = Want[k].concurrency]_vars
  BY AppliedStep
<1>2. QED BY <1>1, PoolsInvariance, PTL DEF Spec, AppliedConfirmed

--------------------------------------------------------------------------------
(***************************************************************************)
(* The scheduler, which is a pool of one by its advisory lease (module     *)
(* SchedulerLease, for any constants).  LockOk is the argument for the     *)
(* connection: whoever has _lease_check is the only one with a query on    *)
(* it, and control is where the code took the lock.                        *)
(***************************************************************************)
Positions == {"loop", "loop_check", "recheck", "tick_check", "tick", "release", "stopped"}

\* Whoever has _lease_check is the only one with a query in flight, and is where the code
\* takes the lock.
LockOk(q, m, pos) ==
    /\ m = "free" => q = {}
    /\ m = "loop" => q = {"loop"} /\ pos \in {"loop_check", "tick_check"}
    /\ m = "tick" => q = {"tick"} /\ pos = "tick"
    /\ m = "detached" => q = {"detached"}
    /\ m = "release" => q \subseteq {"release"} /\ pos = "release"
    /\ pos \in {"loop_check", "tick_check"} => m = "loop"
    /\ pos = "release" => m = "release"

\* A scheduler that is not active, and not about to release, has no connection.
ProcessOk(c, q, m, a, pos, it, d) ==
    /\ c \in {"none", "open", "dead"}
    /\ m \in {"free", "loop", "tick", "detached", "release"}
    /\ a \in BOOLEAN
    /\ pos \in Positions
    /\ it \in Nat /\ d \subseteq Nat
    /\ LockOk(q, m, pos)
    /\ a \/ pos \in {"loop", "release", "stopped"}
    /\ a \/ pos = "release" \/ c = "none"

SchedulerInv ==
    /\ \A f \in {conn, query, mutex, active, stop, at, item, due} : f = [s \in Schedulers |-> f[s]]
    /\ \A s \in Schedulers :
          ProcessOk(conn[s], query[s], mutex[s], active[s], at[s], item[s], due[s])

\* A step of one scheduler changes nothing of another one.
StepOf(s) ==
    /\ conn' = [conn EXCEPT ![s] = conn'[s]] /\ query' = [query EXCEPT ![s] = query'[s]]
    /\ mutex' = [mutex EXCEPT ![s] = mutex'[s]] /\ active' = [active EXCEPT ![s] = active'[s]]
    /\ stop' = [stop EXCEPT ![s] = stop'[s]] /\ at' = [at EXCEPT ![s] = at'[s]]
    /\ item' = [item EXCEPT ![s] = item'[s]] /\ due' = [due EXCEPT ![s] = due'[s]]

\* The invariant survives if it does for the scheduler that took the step.
LEMMA OneScheduler ==
    ASSUME SchedulerInv, NEW s \in Schedulers, StepOf(s),
           ProcessOk(conn'[s], query'[s], mutex'[s], active'[s], at'[s], item'[s], due'[s])
    PROVE  SchedulerInv'
<1>1. /\ conn = [t \in Schedulers |-> conn[t]] /\ query = [t \in Schedulers |-> query[t]]
      /\ mutex = [t \in Schedulers |-> mutex[t]] /\ active = [t \in Schedulers |-> active[t]]
      /\ stop = [t \in Schedulers |-> stop[t]] /\ at = [t \in Schedulers |-> at[t]]
      /\ item = [t \in Schedulers |-> item[t]] /\ due = [t \in Schedulers |-> due[t]]
  BY DEF SchedulerInv
<1>2. /\ conn' = [t \in Schedulers |-> conn'[t]] /\ query' = [t \in Schedulers |-> query'[t]]
      /\ mutex' = [t \in Schedulers |-> mutex'[t]] /\ active' = [t \in Schedulers |-> active'[t]]
      /\ stop' = [t \in Schedulers |-> stop'[t]] /\ at' = [t \in Schedulers |-> at'[t]]
      /\ item' = [t \in Schedulers |-> item'[t]] /\ due' = [t \in Schedulers |-> due'[t]]
  BY <1>1 DEF StepOf
<1>3. ASSUME NEW t \in Schedulers, t # s
      PROVE  /\ conn'[t] = conn[t] /\ query'[t] = query[t] /\ mutex'[t] = mutex[t]
             /\ active'[t] = active[t] /\ at'[t] = at[t] /\ item'[t] = item[t] /\ due'[t] = due[t]
  BY <1>1, <1>3 DEF StepOf
<1>4. ASSUME NEW t \in Schedulers
      PROVE  ProcessOk(conn'[t], query'[t], mutex'[t], active'[t], at'[t], item'[t], due'[t])
  BY <1>3 DEF SchedulerInv
<1>5. QED  BY <1>2, <1>4 DEF SchedulerInv

\* The values of one scheduler.
LEMMA ValuesOf ==
    ASSUME SchedulerInv, NEW s \in Schedulers
    PROVE  /\ conn = [t \in Schedulers |-> conn[t]] /\ query = [t \in Schedulers |-> query[t]]
           /\ mutex = [t \in Schedulers |-> mutex[t]] /\ active = [t \in Schedulers |-> active[t]]
           /\ stop = [t \in Schedulers |-> stop[t]] /\ at = [t \in Schedulers |-> at[t]]
           /\ item = [t \in Schedulers |-> item[t]] /\ due = [t \in Schedulers |-> due[t]]
           /\ ProcessOk(conn[s], query[s], mutex[s], active[s], at[s], item[s], due[s])
BY DEF SchedulerInv

\* A set of numbers that is not empty has a smallest one.
LEMMA LeastNumber ==
    ASSUME NEW T, T \subseteq Nat, T # {}
    PROVE  \E x \in T : \A y \in T : x <= y
<1>1. PICK x \in T : \A y \in T : ~(<<y, x>> \in OpToRel(<, Nat))
  BY WFMin, NatLessThanWellFounded
<1>2. ASSUME NEW y \in T, y < x
      PROVE  FALSE
  <2>1. <<y, x>> \in Nat \X Nat /\ <<y, x>>[1] < <<y, x>>[2]
    BY <1>2
  <2>2. <<y, x>> \in OpToRel(<, Nat)
    BY <2>1 DEF OpToRel
  <2>3. QED  BY <1>1, <2>2
<1>3. QED  BY <1>2

\* _run_due_ticks goes on at the first tick that is due, and only the maintenance tick starts
\* without another check of the lease.
LEMMA PassGoesOn ==
    ASSUME SchedulerInv, NEW s \in Schedulers, NEW n \in Nat, Pass(s, n)
    PROVE  /\ at' = [at EXCEPT ![s] = at'[s]] /\ item' = [item EXCEPT ![s] = item'[s]]
           /\ at'[s] \in {"loop", "recheck", "tick"} /\ item'[s] \in Nat
           /\ n # 0 => at'[s] # "tick"
<1>1. /\ at = [t \in Schedulers |-> at[t]] /\ item = [t \in Schedulers |-> item[t]]
      /\ item[s] \in Nat /\ due[s] \subseteq Nat
  BY ValuesOf DEF ProcessOk
<1>2. CASE stop[s] \/ NextDue(s, n) = {}
  BY <1>1, <1>2 DEF Pass
<1>3. CASE ~(stop[s] \/ NextDue(s, n) = {})
  <2> DEFINE t == First(NextDue(s, n))
  <2>1. NextDue(s, n) \subseteq Nat /\ NextDue(s, n) # {}
    BY <1>1, <1>3 DEF NextDue
  <2>2. t \in NextDue(s, n)
    <3>1. \E x \in NextDue(s, n) : \A y \in NextDue(s, n) : x <= y
      BY <2>1, LeastNumber
    <3>2. QED  BY <3>1 DEF First
  <2>3. t \in Nat /\ t >= n
    BY <1>1, <2>2 DEF NextDue
  <2>4. /\ item' = [item EXCEPT ![s] = t]
        /\ at' = [at EXCEPT ![s] = IF Recheck(t) THEN "recheck" ELSE "tick"]
    BY <1>3 DEF Pass
  <2> HIDE DEF t
  <2>5. n # 0 => Recheck(t)
    BY <2>3 DEF Recheck, MAINTENANCE_TICK
  <2>6. QED  BY <1>1, <2>3, <2>4, <2>5
<1>4. QED  BY <1>2, <1>3

\* An inactive scheduler has no connection: what it gets is a new one.
LEMMA ActivateKeeps ==
    ASSUME SchedulerInv, NEW s \in Schedulers, try_activate(s),
           SchedulerAssumption
    PROVE  SchedulerInv'
<1>1. ProcessOk(conn[s], query[s], mutex[s], active[s], at[s], item[s], due[s])
  BY ValuesOf
<1>2. StepOf(s)
  BY ValuesOf DEF StepOf, try_activate, leaseVars
<1>3. ProcessOk(conn'[s], query'[s], mutex'[s], active'[s], at'[s], item'[s], due'[s])
  <2>1. active'[s] = TRUE /\ conn[s] = "none"
    BY <1>1, ValuesOf, Zenon DEF ProcessOk, try_activate
  <2>2. /\ conn'[s] = "open" /\ query'[s] = query[s] /\ mutex'[s] = mutex[s] /\ at'[s] = "tick"
        /\ item'[s] \in Nat /\ due'[s] \subseteq Nat
    BY <2>1, ValuesOf DEF try_activate, Ticks, MAINTENANCE_TICK,
       SchedulerAssumption
  <2>3. LockOk(query'[s], mutex'[s], at'[s])
    BY <1>1, <2>2 DEF LockOk, ProcessOk, try_activate
  <2>4. active'[s] \in BOOLEAN
    BY <2>1, Zenon
  <2>5. QED  BY <1>1, <2>1, <2>2, <2>3, <2>4 DEF ProcessOk, Positions
<1>4. QED  BY <1>2, <1>3, OneScheduler

\* A failed attempt leaves the process as it was, whatever it left on the server.
LEMMA ActivateFailsKeeps ==
    ASSUME SchedulerInv, NEW s \in Schedulers, activate_fails(s)
    PROVE  SchedulerInv'
<1>1. UNCHANGED <<conn, query, mutex, active, stop, at, item, due>>
  BY DEF activate_fails
<1>2. QED  BY <1>1 DEF SchedulerInv

\* The check waits for the lock, and with the lock nothing is in flight.
LEMMA CheckSentKeeps ==
    ASSUME SchedulerInv, NEW s \in Schedulers, send_check(s)
    PROVE  SchedulerInv'
<1>1. ProcessOk(conn[s], query[s], mutex[s], active[s], at[s], item[s], due[s])
  BY ValuesOf
<1>2. StepOf(s)
  BY ValuesOf DEF StepOf, send_check, leaseVars
<1>3. ProcessOk(conn'[s], query'[s], mutex'[s], active'[s], at'[s], item'[s], due'[s])
  BY <1>1, ValuesOf DEF ProcessOk, LockOk, Positions, send_check, leaseVars, Held,
     Forgotten, Ticks, MAINTENANCE_TICK, SchedulerAssumption
<1>4. QED  BY <1>2, <1>3, OneScheduler

\* The tick asks under the same lock.
LEMMA TickAsksKeeps ==
    ASSUME SchedulerInv, NEW s \in Schedulers, tick_asks(s)
    PROVE  SchedulerInv'
<1>1. ProcessOk(conn[s], query[s], mutex[s], active[s], at[s], item[s], due[s])
  BY ValuesOf
<1>2. StepOf(s)
  BY ValuesOf DEF StepOf, tick_asks, leaseVars
<1>3. ProcessOk(conn'[s], query'[s], mutex'[s], active'[s], at'[s], item'[s], due'[s])
  BY <1>1, ValuesOf DEF ProcessOk, LockOk, Positions, tick_asks, leaseVars, Held,
     Forgotten, Ticks, MAINTENANCE_TICK, SchedulerAssumption
<1>4. QED  BY <1>2, <1>3, OneScheduler

\* The answer of the tick's own check.
LEMMA TickAnsweredKeeps ==
    ASSUME SchedulerInv, NEW s \in Schedulers, tick_answered(s)
    PROVE  SchedulerInv'
<1>1. ProcessOk(conn[s], query[s], mutex[s], active[s], at[s], item[s], due[s])
  BY ValuesOf
<1>2. StepOf(s)
  BY ValuesOf DEF StepOf, tick_answered, leaseVars
<1>3. ProcessOk(conn'[s], query'[s], mutex'[s], active'[s], at'[s], item'[s], due'[s])
  BY <1>1, ValuesOf DEF ProcessOk, LockOk, Positions, tick_answered, leaseVars, Held,
     Forgotten, Ticks, MAINTENANCE_TICK, SchedulerAssumption
<1>4. QED  BY <1>2, <1>3, OneScheduler

\* The answer to a check nobody waits for any more frees the lock.
LEMMA DetachedKeeps ==
    ASSUME SchedulerInv, NEW s \in Schedulers, detached_answered(s)
    PROVE  SchedulerInv'
<1>1. ProcessOk(conn[s], query[s], mutex[s], active[s], at[s], item[s], due[s])
  BY ValuesOf
<1>2. StepOf(s)
  BY ValuesOf DEF StepOf, detached_answered, leaseVars
<1>3. ProcessOk(conn'[s], query'[s], mutex'[s], active'[s], at'[s], item'[s], due'[s])
  BY <1>1, ValuesOf DEF ProcessOk, LockOk, Positions, detached_answered, leaseVars, Held,
     Forgotten, MutexAfterDetached, Ticks, MAINTENANCE_TICK, SchedulerAssumption
<1>4. QED  BY <1>2, <1>3, OneScheduler

\* The release waits for the lock as well.
LEMMA ReleaseSentKeeps ==
    ASSUME SchedulerInv, NEW s \in Schedulers, send_release(s)
    PROVE  SchedulerInv'
<1>1. ProcessOk(conn[s], query[s], mutex[s], active[s], at[s], item[s], due[s])
  BY ValuesOf
<1>2. StepOf(s)
  BY ValuesOf DEF StepOf, send_release, leaseVars
<1>3. ProcessOk(conn'[s], query'[s], mutex'[s], active'[s], at'[s], item'[s], due'[s])
  BY <1>1, ValuesOf DEF ProcessOk, LockOk, Positions, send_release, leaseVars, Held,
     Forgotten, Ticks, MAINTENANCE_TICK, SchedulerAssumption
<1>4. QED  BY <1>2, <1>3, OneScheduler

\* The release is over.
LEMMA ReleaseKeeps ==
    ASSUME SchedulerInv, NEW s \in Schedulers, release_answered(s)
    PROVE  SchedulerInv'
<1>1. ProcessOk(conn[s], query[s], mutex[s], active[s], at[s], item[s], due[s])
  BY ValuesOf
<1>2. StepOf(s)
  BY ValuesOf DEF StepOf, release_answered, leaseVars
<1>3. ProcessOk(conn'[s], query'[s], mutex'[s], active'[s], at'[s], item'[s], due'[s])
  BY <1>1, ValuesOf DEF ProcessOk, LockOk, Positions, release_answered, leaseVars, Held,
     Forgotten, Ticks, MAINTENANCE_TICK, SchedulerAssumption
<1>4. QED  BY <1>2, <1>3, OneScheduler

\* stop() changes no more than the flag.
LEMMA StopKeeps ==
    ASSUME SchedulerInv, NEW s \in Schedulers, request_stop(s)
    PROVE  SchedulerInv'
<1>1. ProcessOk(conn[s], query[s], mutex[s], active[s], at[s], item[s], due[s])
  BY ValuesOf
<1>2. StepOf(s)
  BY ValuesOf DEF StepOf, request_stop, leaseVars
<1>3. ProcessOk(conn'[s], query'[s], mutex'[s], active'[s], at'[s], item'[s], due'[s])
  BY <1>1, ValuesOf DEF ProcessOk, LockOk, Positions, request_stop, leaseVars, Held,
     Forgotten, Ticks, MAINTENANCE_TICK, SchedulerAssumption
<1>4. QED  BY <1>2, <1>3, OneScheduler

\* A tick becomes due.
LEMMA DueKeeps ==
    ASSUME SchedulerInv, NEW s \in Schedulers, comes_due(s),
           SchedulerAssumption
    PROVE  SchedulerInv'
<1>1. ProcessOk(conn[s], query[s], mutex[s], active[s], at[s], item[s], due[s])
  BY ValuesOf
<1>2. StepOf(s)
  BY ValuesOf DEF StepOf, comes_due, leaseVars
<1>3. ProcessOk(conn'[s], query'[s], mutex'[s], active'[s], at'[s], item'[s], due'[s])
  BY <1>1, ValuesOf DEF ProcessOk, LockOk, Positions, comes_due, leaseVars, Held,
     Forgotten, Ticks, MAINTENANCE_TICK, SchedulerAssumption
<1>4. QED  BY <1>2, <1>3, OneScheduler

\* A terminated session is not noticed yet.
LEMMA TerminateKeeps ==
    ASSUME SchedulerInv, NEW s \in Schedulers, terminate_session(s)
    PROVE  SchedulerInv'
<1>1. ProcessOk(conn[s], query[s], mutex[s], active[s], at[s], item[s], due[s])
  BY ValuesOf
<1>2. StepOf(s)
  BY ValuesOf DEF StepOf, terminate_session, leaseVars
<1>3. ProcessOk(conn'[s], query'[s], mutex'[s], active'[s], at'[s], item'[s], due'[s])
  BY <1>1, ValuesOf DEF ProcessOk, LockOk, Positions, terminate_session, leaseVars, Held,
     Forgotten, Ticks, MAINTENANCE_TICK, SchedulerAssumption
<1>4. QED  BY <1>2, <1>3, OneScheduler

\* A new process starts with nothing.
LEMMA RestartKeeps ==
    ASSUME SchedulerInv, NEW s \in Schedulers, restart(s)
    PROVE  SchedulerInv'
<1>1. ProcessOk(conn[s], query[s], mutex[s], active[s], at[s], item[s], due[s])
  BY ValuesOf
<1>2. StepOf(s)
  BY ValuesOf DEF StepOf, restart, leaseVars
<1>3. ProcessOk(conn'[s], query'[s], mutex'[s], active'[s], at'[s], item'[s], due'[s])
  BY <1>1, ValuesOf DEF ProcessOk, LockOk, Positions, restart, leaseVars, Held,
     Forgotten, Ticks, MAINTENANCE_TICK, SchedulerAssumption
<1>4. QED  BY <1>2, <1>3, OneScheduler

\* The loop goes on under the lease, or starts again without it.
LEMMA CheckAnsweredKeeps ==
    ASSUME SchedulerInv, NEW s \in Schedulers, check_answered(s)
    PROVE  SchedulerInv'
<1>1. ProcessOk(conn[s], query[s], mutex[s], active[s], at[s], item[s], due[s])
  BY ValuesOf
<1>2. query'[s] = {} /\ mutex'[s] = "free"
  BY <1>1, ValuesOf DEF ProcessOk, LockOk, check_answered
<1>3. CASE Held(s) /\ at[s] = "loop_check"
  <2>1. Pass(s, 0)
    BY <1>3 DEF check_answered, MAINTENANCE_TICK
  <2>2. /\ at' = [at EXCEPT ![s] = at'[s]] /\ item' = [item EXCEPT ![s] = item'[s]]
        /\ at'[s] \in {"loop", "recheck", "tick"} /\ item'[s] \in Nat
    BY <2>1, PassGoesOn
  <2>3. /\ conn'[s] = conn[s] /\ active'[s] = active[s] /\ due'[s] = due[s]
    BY <1>3 DEF check_answered
  <2>4. StepOf(s)
    BY <1>3, <2>2, ValuesOf DEF StepOf, check_answered
  <2>5. ProcessOk(conn'[s], query'[s], mutex'[s], active'[s], at'[s], item'[s], due'[s])
    BY <1>1, <1>2, <1>3, <2>2, <2>3 DEF ProcessOk, LockOk, Positions
  <2>6. QED  BY <2>4, <2>5, OneScheduler
<1>4. CASE ~(Held(s) /\ at[s] = "loop_check")
  <2>1. StepOf(s)
    BY <1>4, ValuesOf DEF StepOf, check_answered
  <2>2. ProcessOk(conn'[s], query'[s], mutex'[s], active'[s], at'[s], item'[s], due'[s])
    BY <1>1, <1>2, <1>4, ValuesOf DEF ProcessOk, LockOk, Positions, check_answered,
       Forgotten
  <2>3. QED  BY <2>1, <2>2, OneScheduler
<1>5. QED  BY <1>3, <1>4

\* The tick after the one that ended is rechecked before it starts.
LEMMA TickEndsKeeps ==
    ASSUME SchedulerInv, NEW s \in Schedulers, tick_ends(s)
    PROVE  SchedulerInv' /\ at'[s] # "tick"
<1>1. ProcessOk(conn[s], query[s], mutex[s], active[s], at[s], item[s], due[s])
  BY ValuesOf
<1>2. item[s] + 1 \in Nat /\ item[s] + 1 # 0 /\ Pass(s, item[s] + 1)
  BY <1>1 DEF ProcessOk, tick_ends
<1>3. /\ at' = [at EXCEPT ![s] = at'[s]] /\ item' = [item EXCEPT ![s] = item'[s]]
      /\ at'[s] \in {"loop", "recheck"} /\ item'[s] \in Nat
  BY <1>2, PassGoesOn
<1>4. StepOf(s)
  BY <1>3, ValuesOf DEF StepOf, tick_ends, leaseVars
<1>5. ProcessOk(conn'[s], query'[s], mutex'[s], active'[s], at'[s], item'[s], due'[s])
  BY <1>1, <1>3, ValuesOf DEF ProcessOk, LockOk, Positions, tick_ends, leaseVars
<1>6. QED  BY <1>3, <1>4, <1>5, OneScheduler

\* The check a cancelled tick leaves behind keeps the lock.
LEMMA TickTimesOutKeeps ==
    ASSUME SchedulerInv, NEW s \in Schedulers, tick_times_out(s)
    PROVE  SchedulerInv' /\ at'[s] # "tick"
<1>1. ProcessOk(conn[s], query[s], mutex[s], active[s], at[s], item[s], due[s])
  BY ValuesOf
<1>2. item[s] + 1 \in Nat /\ item[s] + 1 # 0 /\ Pass(s, item[s] + 1)
  BY <1>1 DEF ProcessOk, tick_times_out
<1>3. /\ at' = [at EXCEPT ![s] = at'[s]] /\ item' = [item EXCEPT ![s] = item'[s]]
      /\ at'[s] \in {"loop", "recheck"} /\ item'[s] \in Nat
  BY <1>2, PassGoesOn
<1>4. StepOf(s)
  BY <1>3, ValuesOf DEF StepOf, tick_times_out
<1>5. /\ conn'[s] = conn[s] /\ active'[s] = active[s] /\ due'[s] \subseteq due[s]
      /\ mutex'[s] = IF "tick" \in query[s] THEN "detached" ELSE mutex[s]
      /\ query'[s] = IF "tick" \in query[s] THEN (query[s] \ {"tick"}) \cup {"detached"} ELSE query[s]
  BY ValuesOf DEF tick_times_out, MutexAfterCancel
<1>6. LockOk(query'[s], mutex'[s], at'[s])
  BY <1>1, <1>3, <1>5 DEF ProcessOk, LockOk, tick_times_out
<1>7. ProcessOk(conn'[s], query'[s], mutex'[s], active'[s], at'[s], item'[s], due'[s])
  BY <1>1, <1>3, <1>5, <1>6 DEF ProcessOk, Positions, tick_times_out
<1>8. QED  BY <1>3, <1>4, <1>7, OneScheduler

\* The scheduler's steps keep the invariant.
LEMMA SchedulerStepKeeps ==
    ASSUME SchedulerAssumption, SchedulerInv, [SchedulerNext]_schedulerVars
    PROVE  SchedulerInv'
<1>1. ASSUME NEW s \in Schedulers, SchedulerStep(s) \/ Environment(s)
      PROVE  SchedulerInv'
  BY <1>1, ActivateKeeps, CheckSentKeeps, CheckAnsweredKeeps, TickEndsKeeps, TickAnsweredKeeps,
     TickTimesOutKeeps, DetachedKeeps, ReleaseSentKeeps, ReleaseKeeps, StopKeeps,
     DueKeeps, TerminateKeeps, RestartKeeps, TickAsksKeeps, ActivateFailsKeeps DEF SchedulerStep, Environment
<1>2. ASSUME server_notices \/ UNCHANGED schedulerVars
      PROVE  SchedulerInv'
  <2>1. UNCHANGED <<conn, query, mutex, active, stop, at, item, due>>
    BY <1>2 DEF server_notices, schedulerVars
  <2>2. QED  BY <2>1 DEF SchedulerInv
<1>3. QED  BY <1>1, <1>2 DEF SchedulerNext

\* A started process has no connection and runs nothing.
LEMMA SchedulerStart == SchedulerInit => SchedulerInv
<1> SUFFICES ASSUME SchedulerInit PROVE SchedulerInv
  OBVIOUS
<1>1. ASSUME NEW s \in Schedulers
      PROVE  ProcessOk(conn[s], query[s], mutex[s], active[s], at[s], item[s], due[s])
  BY DEF SchedulerInit, ProcessOk, LockOk, Positions
<1>2. QED  BY <1>1 DEF SchedulerInit, SchedulerInv

\* The lock and the control of every scheduler fit together, whatever fails.
THEOREM SchedulerInvariance ==
    ASSUME SchedulerAssumption
    PROVE  SchedulerSpec => []SchedulerInv
<1>1. SchedulerInv /\ [SchedulerNext]_schedulerVars => SchedulerInv'
  BY SchedulerStepKeeps
<1>2. QED  BY <1>1, SchedulerStart, PTL DEF SchedulerSpec

\* OneQuery for any number of schedulers and ticks.
THEOREM OneQueryInFlight ==
    ASSUME SchedulerAssumption
    PROVE  SchedulerSpec => []OneQuery
<1>1. SchedulerInv => OneQuery
  <2> SUFFICES ASSUME SchedulerInv, NEW s \in Schedulers
               PROVE  \A a, b \in query[s] : a = b
    BY DEF OneQuery
  <2>1. LockOk(query[s], mutex[s], at[s]) /\ mutex[s] \in {"free", "loop", "tick", "detached", "release"}
    BY ValuesOf DEF ProcessOk
  <2>2. QED  BY <2>1 DEF LockOk
<1>2. QED  BY <1>1, SchedulerInvariance, PTL

\* What the session knows: a connection that works is the one that holds the lock, and so is
\* the pooled session an attempt left it on.
HolderInv ==
    /\ leaked = [s \in Schedulers |-> leaked[s]]
    /\ \A s \in Schedulers : conn[s] = "open" \/ leaked[s] => holder = s

\* The lock has one holder, also while the server still counts a dead session.
LEMMA HolderStep ==
    ASSUME SchedulerAssumption, SchedulerInv, HolderInv, [SchedulerNext]_schedulerVars
    PROVE  HolderInv'
<1> USE DEF HolderInv
<1>1. ASSUME NEW s \in Schedulers, holder \in {"none", s}, holder' = s,
             NEW c, conn' = [conn EXCEPT ![s] = c],
             NEW l, leaked' = [leaked EXCEPT ![s] = l]
      PROVE  HolderInv'
  <2>1. ASSUME NEW t \in Schedulers, t # s
        PROVE  ~(conn'[t] = "open" \/ leaked'[t])
    BY <1>1, <2>1, ValuesOf DEF SchedulerAssumption
  <2>2. QED  BY <1>1, <2>1
<1>2. ASSUME NEW s \in Schedulers, try_activate(s)
      PROVE  HolderInv'
  <2>1. conn[s] = "none"
    BY <1>2, ValuesOf DEF try_activate, ProcessOk
  <2>2. /\ holder \in {"none", s} /\ holder' = s /\ conn' = [conn EXCEPT ![s] = "open"]
        /\ leaked' = [leaked EXCEPT ![s] = leaked[s]]
    BY <1>2, <2>1 DEF try_activate, Acquired
  <2>3. QED  BY <1>1, <2>2
<1>3. ASSUME NEW s \in Schedulers, activate_fails(s)
      PROVE  HolderInv'
  <2>1. /\ holder \in {"none", s} /\ holder' = s /\ conn' = [conn EXCEPT ![s] = conn[s]]
        /\ \E l \in BOOLEAN : leaked' = [leaked EXCEPT ![s] = l]
    BY <1>3, ValuesOf DEF activate_fails, Acquired
  <2>2. QED  BY <1>1, <2>1
<1>4. ASSUME NEW s \in Schedulers, release_answered(s)
      PROVE  HolderInv'
  BY <1>4, ValuesOf DEF release_answered
<1>5. ASSUME NEW s \in Schedulers, holder' = holder,
             NEW c \in {"none", "dead", conn[s]}, conn' = [conn EXCEPT ![s] = c],
             NEW l \in {FALSE, leaked[s]}, leaked' = [leaked EXCEPT ![s] = l]
      PROVE  HolderInv'
  BY <1>5, ValuesOf
<1>6. ASSUME NEW s \in Schedulers, SchedulerStep(s) \/ Environment(s)
      PROVE  HolderInv'
  <2>1. CASE check_answered(s) \/ tick_answered(s) \/ detached_answered(s)
    <3>1. /\ holder' = holder /\ leaked' = [leaked EXCEPT ![s] = leaked[s]]
          /\ \E c \in {"none", "dead", conn[s]} : conn' = [conn EXCEPT ![s] = c]
      BY <2>1, ValuesOf DEF check_answered, tick_answered, detached_answered, Forgotten
    <3>2. QED  BY <1>5, <3>1
  <2>2. CASE terminate_session(s) \/ restart(s)
    <3>1. /\ holder' = holder /\ leaked' = [leaked EXCEPT ![s] = FALSE]
          /\ \E c \in {"none", "dead", conn[s]} : conn' = [conn EXCEPT ![s] = c]
      BY <2>2, ValuesOf DEF terminate_session, restart
    <3>2. QED  BY <1>5, <3>1
  <2>3. CASE send_check(s) \/ tick_ends(s) \/ tick_times_out(s)
             \/ send_release(s) \/ request_stop(s) \/ comes_due(s)
             \/ tick_asks(s)
    BY <2>3 DEF send_check, tick_ends, tick_times_out, send_release,
       request_stop, comes_due, tick_asks, leaseVars
  <2>4. QED  BY <1>2, <1>3, <1>4, <1>6, <2>1, <2>2, <2>3 DEF SchedulerStep, Environment
<1>7. ASSUME server_notices
      PROVE  HolderInv'
  BY <1>7 DEF server_notices
<1>8. QED  BY <1>6, <1>7 DEF SchedulerNext, schedulerVars

\* Two sessions never both hold the lock that makes the scheduler a singleton.
THEOREM OneSessionHolds ==
    ASSUME SchedulerAssumption
    PROVE  SchedulerSpec => []HolderInv
<1>1. SchedulerInit => HolderInv
  BY DEF SchedulerInit, HolderInv
<1>2. SchedulerInv /\ HolderInv /\ [SchedulerNext]_schedulerVars => HolderInv'
  BY HolderStep
<1>3. QED  BY <1>1, <1>2, SchedulerInvariance, PTL DEF SchedulerSpec

\* A tick starts with the answer that the session is there.
LEMMA TickStart ==
    ASSUME SchedulerAssumption, SchedulerInv, [SchedulerNext]_schedulerVars,
           NEW t \in Schedulers, at'[t] = "tick", at[t] # "tick" \/ item'[t] # item[t]
    PROVE  conn'[t] = "open"
<1>1. ~UNCHANGED <<at, item>>
  OBVIOUS
<1>2. PICK s \in Schedulers : SchedulerStep(s) \/ restart(s)
  BY <1>1 DEF SchedulerNext, schedulerVars, Environment, request_stop,
     comes_due, terminate_session, tick_asks, activate_fails, server_notices
<1>3. at = [u \in Schedulers |-> at[u]] /\ item = [u \in Schedulers |-> item[u]]
  BY ValuesOf
<1>4. CASE try_activate(s)
  <2>1. conn[s] = "none"
    BY <1>4, ValuesOf DEF try_activate, ProcessOk
  <2>2. /\ conn' = [conn EXCEPT ![s] = "open"] /\ at' = [at EXCEPT ![s] = "tick"]
        /\ item' = [item EXCEPT ![s] = MAINTENANCE_TICK]
    BY <1>4, <2>1 DEF try_activate
  <2>3. t = s
    BY <1>3, <2>2
  <2>4. QED  BY <2>2, <2>3, ValuesOf
<1>5. CASE tick_ends(s) \/ tick_times_out(s)
  <2>1. at'[s] # "tick"
    BY <1>5, TickEndsKeeps, TickTimesOutKeeps
  <2>2. at' = [at EXCEPT ![s] = at'[s]] /\ item' = [item EXCEPT ![s] = item'[s]]
    <3>1. item[s] + 1 \in Nat /\ Pass(s, item[s] + 1)
      BY <1>5, ValuesOf DEF ProcessOk, tick_ends, tick_times_out
    <3>2. QED  BY <3>1, PassGoesOn
  <2>3. QED  BY <1>3, <2>1, <2>2
<1>6. CASE check_answered(s)
  <2>1. at' = [at EXCEPT ![s] = at'[s]] /\ item' = [item EXCEPT ![s] = item'[s]]
    <3>1. CASE Pass(s, 0)
      BY <3>1, PassGoesOn
    <3>2. CASE ~Pass(s, 0)
      BY <1>3, <1>6, <3>2 DEF check_answered, MAINTENANCE_TICK
    <3>3. QED  BY <3>1, <3>2
  <2>2. t = s
    BY <1>3, <2>1
  <2>3. Held(s) => conn'[s] = "open"
    BY <1>6 DEF check_answered, Held
  <2>4. ~Held(s) => at'[s] = "loop"
    BY <1>3, <1>6 DEF check_answered
  <2>5. QED  BY <2>2, <2>3, <2>4
<1>7. CASE send_check(s) \/ tick_answered(s) \/ detached_answered(s)
           \/ send_release(s) \/ release_answered(s) \/ restart(s)
  BY <1>3, <1>7 DEF send_check, tick_answered, detached_answered,
     send_release, release_answered, restart
<1>8. QED  BY <1>2, <1>4, <1>5, <1>6, <1>7 DEF SchedulerStep

\* StartsUnderLease for any number of schedulers and ticks.
THEOREM TicksStartUnderLease ==
    ASSUME SchedulerAssumption
    PROVE  SchedulerSpec => StartsUnderLease
<1>1. SchedulerInv /\ [SchedulerNext]_schedulerVars
      => [\A s \in Schedulers : at'[s] = "tick" /\ (at[s] # "tick" \/ item'[s] # item[s])
                                   => conn'[s] = "open"]_schedulerVars
  BY TickStart
<1>2. QED  BY <1>1, SchedulerInvariance, PTL DEF SchedulerSpec, StartsUnderLease

\* Whoever starts a tick is, at that moment, the one whose session has the advisory lock: no
\* two schedulers start ticks under the same tenure.
THEOREM TicksStartAtHolder ==
    ASSUME SchedulerAssumption
    PROVE  SchedulerSpec =>
              [][\A s \in Schedulers :
                    at'[s] = "tick" /\ (at[s] # "tick" \/ item'[s] # item[s]) => holder' = s]_schedulerVars
<1>1. SchedulerInv /\ HolderInv /\ [SchedulerNext]_schedulerVars
      => [\A s \in Schedulers : at'[s] = "tick" /\ (at[s] # "tick" \/ item'[s] # item[s])
                                   => holder' = s]_schedulerVars
  <2> SUFFICES ASSUME SchedulerInv, HolderInv, [SchedulerNext]_schedulerVars, NEW s \in Schedulers,
                      at'[s] = "tick", at[s] # "tick" \/ item'[s] # item[s]
               PROVE  holder' = s
    OBVIOUS
  <2>1. conn'[s] = "open"
    BY TickStart
  <2>2. HolderInv'
    BY HolderStep
  <2>3. QED  BY <2>1, <2>2 DEF HolderInv
<1>2. QED  BY <1>1, SchedulerInvariance, OneSessionHolds, PTL DEF SchedulerSpec
================================================================================
