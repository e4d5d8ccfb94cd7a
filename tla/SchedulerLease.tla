---------------------------- MODULE SchedulerLease ----------------------------
(***************************************************************************)
(* The singleton scheduler (workers/scheduler.py) and its session advisory *)
(* lease (workers/advisory.py).  Each process keeps one connection for the *)
(* lease; the loop, the running domain tick and the final release query    *)
(* it, one at a time under `_lease_check`.  A tick that times out leaves a *)
(* shielded check behind on the connection.  Sessions may be terminated,   *)
(* processes may die, and the server may notice either only later.         *)
(*                                                                         *)
(* A query is two steps, sent and answered: what happens between them may  *)
(* change the answer.  What the code does without an await between two     *)
(* queries is one step.                                                    *)
(***************************************************************************)
EXTENDS Naturals

CONSTANTS
    Schedulers,   \* scheduler processes
    DomainTicks,  \* domain ticks of the registry, in order 1 .. DomainTicks
    MaxFaults     \* bound on terminated sessions, dead processes and failed activations

ASSUME SchedulerAssumption ==
    DomainTicks \in Nat /\ MaxFaults \in Nat /\ "none" \notin Schedulers

VARIABLES
    holder,   \* whose session holds the advisory lock on the server, or "none"
    conn,     \* _connection: "none", "open", or "dead" (gone, and not noticed yet)
    leaked,   \* the process' session has a lock from an attempt that failed afterwards
    query,    \* who has a query in flight on the connection
    mutex,    \* who holds _lease_check, or "free"
    active,   \* _active
    stop,     \* _stop is set
    at,       \* where run() is
    item,     \* index of the tick that _run_due_ticks is at; 0 is maintenance
    due,      \* ticks whose next_due has passed
    faults    \* faults so far

schedulerVars == <<holder, conn, leaked, query, mutex, active, stop, at, item, due, faults>>
leaseVars == <<holder, conn, leaked, query, mutex>>

Ticks == 0 .. DomainTicks
MAINTENANCE_TICK == 0

SchedulerInit ==
    /\ holder = "none"
    /\ conn = [s \in Schedulers |-> "none"]
    /\ leaked = [s \in Schedulers |-> FALSE]
    /\ query = [s \in Schedulers |-> {}]
    /\ mutex = [s \in Schedulers |-> "free"]
    /\ active = [s \in Schedulers |-> FALSE]
    /\ stop = [s \in Schedulers |-> FALSE]
    /\ at = [s \in Schedulers |-> "loop"]
    /\ item = [s \in Schedulers |-> 0]
    /\ due = [s \in Schedulers |-> {}]
    /\ faults = 0

(***************************************************************************)
(* AdvisoryLease.                                                          *)
(***************************************************************************)
Forgotten_kept(s) == conn[s]

\* _discard(invalidate=True): the client forgets the connection; its session ends when
\* the server notices.
Forgotten(s) == "none"

\* try_acquire: pg_try_advisory_lock on a pooled connection.  The lock is re-entrant, so the
\* process that left it on a pooled session gets it again: nothing else uses the pool while
\* it is inactive, and the pool hands its connections out in turn.
Acquired(s) == holder = "none" \/ (holder = s /\ leaked[s])

\* is_held answers from pg_locks; an error or a lock that is gone discards the connection.
Held(s) == conn[s] = "open"

(***************************************************************************)
(* _run_due_ticks: from tick n on, as far as the next await.               *)
(***************************************************************************)
NextDue(s, n) == {t \in due[s] : t >= n}
First(S) == CHOOSE t \in S : \A u \in S : t <= u

Recheck_never(t) == FALSE

\* A domain tick is preceded by a check of the lease, the maintenance tick is not.
Recheck(t) == t # MAINTENANCE_TICK

\* The pass goes on at tick n after the loop or the tick before has answered.
Pass(s, n) ==
    IF stop[s] \/ NextDue(s, n) = {}
    THEN /\ at' = [at EXCEPT ![s] = "loop"]
         /\ UNCHANGED item
    ELSE LET t == First(NextDue(s, n))
         IN  /\ item' = [item EXCEPT ![s] = t]
             /\ at' = [at EXCEPT ![s] = IF Recheck(t) THEN "recheck" ELSE "tick"]

(***************************************************************************)
(* run().                                                                  *)
(***************************************************************************)
\* _try_activate.  A new active singleton runs all its ticks.
try_activate(s) ==
    /\ at[s] = "loop" /\ ~stop[s] /\ ~active[s]
    /\ conn[s] = "none" => Acquired(s)
    /\ IF conn[s] = "none"
       THEN holder' = s /\ conn' = [conn EXCEPT ![s] = "open"]
       ELSE UNCHANGED <<holder, conn>>                    \* "already ours"
    /\ active' = [active EXCEPT ![s] = TRUE]
    /\ due' = [due EXCEPT ![s] = Ticks]
    /\ item' = [item EXCEPT ![s] = MAINTENANCE_TICK]
    /\ at' = [at EXCEPT ![s] = "tick"]
    /\ UNCHANGED <<leaked, query, mutex, stop, faults>>

\* The attempt fails after the server granted the lock.  The connection goes back to the pool
\* with the lock on its session, or it is broken and its session ends.
activate_fails(s) ==
    /\ at[s] = "loop" /\ ~stop[s] /\ ~active[s]
    /\ conn[s] = "none" /\ Acquired(s) /\ faults < MaxFaults
    /\ faults' = faults + 1
    /\ holder' = s
    /\ \E pooled \in BOOLEAN : leaked' = [leaked EXCEPT ![s] = pooled]
    /\ UNCHANGED <<conn, query, mutex, active, stop, at, item, due>>

\* _still_active, at the top of the loop or before a domain tick: the query is sent.
send_check(s) ==
    /\ \/ at[s] = "loop" /\ ~stop[s] /\ active[s]
       \/ at[s] = "recheck"
    /\ mutex[s] = "free"
    /\ mutex' = [mutex EXCEPT ![s] = "loop"]
    /\ query' = [query EXCEPT ![s] = @ \cup {"loop"}]
    /\ at' = [at EXCEPT ![s] = IF @ = "loop" THEN "loop_check" ELSE "tick_check"]
    /\ UNCHANGED <<holder, conn, leaked, active, stop, item, due, faults>>

check_answered(s) ==
    /\ at[s] \in {"loop_check", "tick_check"} /\ "loop" \in query[s]
    /\ mutex' = [mutex EXCEPT ![s] = "free"]
    /\ query' = [query EXCEPT ![s] = @ \ {"loop"}]
    /\ IF Held(s)
       THEN /\ IF at[s] = "loop_check" THEN Pass(s, MAINTENANCE_TICK)
                                       ELSE at' = [at EXCEPT ![s] = "tick"] /\ UNCHANGED item
            /\ UNCHANGED <<conn, active>>
       ELSE /\ conn' = [conn EXCEPT ![s] = Forgotten(s)]
            /\ active' = [active EXCEPT ![s] = FALSE]
            /\ at' = [at EXCEPT ![s] = "loop"]
            /\ UNCHANGED item
    /\ UNCHANGED <<holder, leaked, stop, due, faults>>

\* The running tick ends, by itself or with an exception.
tick_ends(s) ==
    /\ at[s] = "tick" /\ "tick" \notin query[s]
    /\ due' = [due EXCEPT ![s] = @ \ {item[s]}]
    /\ Pass(s, item[s] + 1)
    /\ UNCHANGED <<leaseVars, active, stop, faults>>

\* A domain tick asks lease_is_ours().
tick_asks(s) ==
    /\ at[s] = "tick" /\ item[s] # MAINTENANCE_TICK /\ "tick" \notin query[s]
    /\ conn[s] # "none" /\ mutex[s] = "free"
    /\ mutex' = [mutex EXCEPT ![s] = "tick"]
    /\ query' = [query EXCEPT ![s] = @ \cup {"tick"}]
    /\ UNCHANGED <<holder, conn, leaked, active, stop, at, item, due, faults>>

tick_answered(s) ==
    /\ at[s] = "tick" /\ "tick" \in query[s]
    /\ mutex' = [mutex EXCEPT ![s] = "free"]
    /\ query' = [query EXCEPT ![s] = @ \ {"tick"}]
    /\ conn' = [conn EXCEPT ![s] = IF Held(s) THEN @ ELSE Forgotten(s)]
    /\ UNCHANGED <<holder, leaked, active, stop, at, item, due, faults>>

MutexAfterCancel_released(s) == "free"

\* wait_for cancels the tick.  A check in flight goes on, shielded, and the lock stays
\* with it until its callback.
MutexAfterCancel(s) == IF "tick" \in query[s] THEN "detached" ELSE mutex[s]

tick_times_out(s) ==
    /\ at[s] = "tick"
    /\ mutex' = [mutex EXCEPT ![s] = MutexAfterCancel(s)]
    /\ query' = [query EXCEPT ![s] =
          IF "tick" \in @ THEN (@ \ {"tick"}) \cup {"detached"} ELSE @]
    /\ due' = [due EXCEPT ![s] = @ \ {item[s]}]
    /\ Pass(s, item[s] + 1)
    /\ UNCHANGED <<holder, conn, leaked, active, stop, faults>>

MutexAfterDetached_forgotten(s) == mutex[s]

\* _finish_cancelled_lease_check.
MutexAfterDetached(s) == "free"

detached_answered(s) ==
    /\ "detached" \in query[s]
    /\ query' = [query EXCEPT ![s] = @ \ {"detached"}]
    /\ mutex' = [mutex EXCEPT ![s] = MutexAfterDetached(s)]
    /\ conn' = [conn EXCEPT ![s] = IF Held(s) THEN @ ELSE Forgotten(s)]
    /\ UNCHANGED <<holder, leaked, active, stop, at, item, due, faults>>

\* The finally block: release() under the same lock.
send_release(s) ==
    /\ at[s] = "loop" /\ stop[s] /\ mutex[s] = "free"
    /\ active' = [active EXCEPT ![s] = FALSE]
    /\ mutex' = [mutex EXCEPT ![s] = "release"]
    /\ query' = [query EXCEPT ![s] = IF conn[s] = "none" THEN @ ELSE @ \cup {"release"}]
    /\ at' = [at EXCEPT ![s] = "release"]
    /\ UNCHANGED <<holder, conn, leaked, stop, item, due, faults>>

\* pg_advisory_unlock confirmed, or the connection is invalidated.  One unlock leaves a lock
\* that was taken twice; the process then ends its pool (engine.dispose).
release_answered(s) ==
    /\ at[s] = "release"
    /\ holder' = IF conn[s] = "open" /\ ~leaked[s] THEN "none" ELSE holder
    /\ leaked' = [leaked EXCEPT ![s] = FALSE]
    /\ conn' = [conn EXCEPT ![s] = "none"]
    /\ query' = [query EXCEPT ![s] = @ \ {"release"}]
    /\ mutex' = [mutex EXCEPT ![s] = "free"]
    /\ at' = [at EXCEPT ![s] = "stopped"]
    /\ UNCHANGED <<active, stop, item, due, faults>>

(***************************************************************************)
(* The environment.                                                        *)
(***************************************************************************)
request_stop(s) ==
    /\ at[s] # "stopped" /\ ~stop[s]
    /\ stop' = [stop EXCEPT ![s] = TRUE]
    /\ UNCHANGED <<leaseVars, active, at, item, due, faults>>

\* next_due of a tick passes.
comes_due(s) ==
    /\ active[s] /\ due[s] # Ticks
    /\ \E t \in Ticks \ due[s] : due' = [due EXCEPT ![s] = @ \cup {t}]
    /\ UNCHANGED <<leaseVars, active, stop, at, item, faults>>

\* pg_terminate_backend, a failover, a cut: the client learns of it with its next query.
terminate_session(s) ==
    /\ conn[s] = "open" \/ leaked[s]
    /\ faults < MaxFaults
    /\ faults' = faults + 1
    /\ conn' = [conn EXCEPT ![s] = IF @ = "open" THEN "dead" ELSE @]
    /\ leaked' = [leaked EXCEPT ![s] = FALSE]
    /\ UNCHANGED <<holder, query, mutex, active, stop, at, item, due>>

\* The process dies and is started again with nothing in memory.
restart(s) ==
    /\ at[s] # "stopped" /\ faults < MaxFaults
    /\ faults' = faults + 1
    /\ conn' = [conn EXCEPT ![s] = "none"] /\ query' = [query EXCEPT ![s] = {}]
    /\ leaked' = [leaked EXCEPT ![s] = FALSE]
    /\ mutex' = [mutex EXCEPT ![s] = "free"]
    /\ active' = [active EXCEPT ![s] = FALSE] /\ stop' = [stop EXCEPT ![s] = FALSE]
    /\ at' = [at EXCEPT ![s] = "loop"] /\ due' = [due EXCEPT ![s] = {}]
    /\ item' = [item EXCEPT ![s] = 0]
    /\ UNCHANGED holder

\* The session behind a dead or forgotten connection ends, and its lock with it.
server_notices ==
    /\ holder # "none" /\ conn[holder] # "open" /\ ~leaked[holder]
    /\ holder' = "none"
    /\ UNCHANGED <<conn, leaked, query, mutex, active, stop, at, item, due, faults>>

SchedulerStep(s) ==
    \/ try_activate(s) \/ send_check(s) \/ check_answered(s)
    \/ tick_ends(s) \/ tick_answered(s) \/ tick_times_out(s) \/ detached_answered(s)
    \/ send_release(s) \/ release_answered(s)
Environment(s) ==
    \/ request_stop(s) \/ comes_due(s) \/ tick_asks(s)
    \/ terminate_session(s) \/ restart(s) \/ activate_fails(s)
SchedulerNext ==
    \/ \E s \in Schedulers : SchedulerStep(s) \/ Environment(s)
    \/ server_notices

\* Queries are bounded by the driver's command_timeout (cli._run_scheduler) and ticks by
\* wait_for, so every wait of the loop ends; a waiting scheduler tries again every
\* lease_retry_seconds; PostgreSQL ends the sessions of clients that are gone.
SchedulerFairness ==
    /\ \A s \in Schedulers :
          /\ WF_schedulerVars(try_activate(s) \/ send_check(s) \/ check_answered(s) \/ tick_times_out(s)
                        \/ send_release(s) \/ release_answered(s))
          /\ WF_schedulerVars(detached_answered(s))
    /\ WF_schedulerVars(server_notices)
SchedulerSpec == SchedulerInit /\ [][SchedulerNext]_schedulerVars /\ SchedulerFairness

(***************************************************************************)
(* Properties.                                                             *)
(***************************************************************************)
\* No two queries are ever in flight on the lease connection (asyncpg: "another operation
\* is in progress"), also while a cancelled tick's check is still running
\* (scheduler._lease_held, run() finally).
OneQuery == \A s \in Schedulers : \A a, b \in query[s] : a = b

\* A tick starts only in the step that learnt from the server that the session still holds
\* the lease, even when the lease was lost earlier in the pass
\* (scheduler._run_due_ticks, _still_active).
StartsUnderLease ==
    [][\A s \in Schedulers :
          at'[s] = "tick" /\ (at[s] # "tick" \/ item'[s] # item[s]) => conn'[s] = "open"]_schedulerVars

\* A scheduler that is asked to stop ends and leaves no lock behind, or dies and is started
\* again (scheduler.run finally, advisory.release).
StopFrees ==
    \A s \in Schedulers : stop[s] ~> ~stop[s] \/ (at[s] = "stopped" /\ holder # s)

\* If some scheduler is not stopped for good, an active one holds the lease again and
\* again: neither a lost session, nor a dead or stopped holder, nor a lock left on a pooled
\* session leaves the system without a scheduler (scheduler.run, advisory.try_acquire).
SomeoneActive ==
    \/ []<>(\E s \in Schedulers : active[s] /\ holder = s)
    \/ \A s \in Schedulers : []<>stop[s]
===============================================================================
