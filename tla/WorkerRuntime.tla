---------------------------- MODULE WorkerRuntime ---------------------------
(***************************************************************************)
(* The life of a worker instance (workers/runtime.py): boot, the claim     *)
(* loop, the tasks it starts, the heartbeat tick, self-fencing, and the    *)
(* drain that SIGTERM starts, against the controller's and the scheduler's *)
(* updates of its worker_instances row (repositories/pools.py).            *)
(*                                                                         *)
(* A coroutine's step between two awaits is one action; a transaction of   *)
(* the repositories is one action at its commit, except the claim, whose   *)
(* FOR SHARE lock on the instance row is held over two steps.              *)
(*                                                                         *)
(* There is no clock here: any lease may be found expired and any          *)
(* not_before may have passed; how long an instance goes unconfirmed is    *)
(* the Boolean overdue.  LeaseFencing has the clock.                       *)
(***************************************************************************)
EXTENDS Integers, FiniteSets

CONSTANTS
    Jobs, Workers,
    Desired,      \* values of worker_pools.desired_concurrency
    MaxSlots,     \* config.max_slots, fixed when the process starts
    ClaimBatch,   \* config.claim_batch
    Handles       \* bound: coroutines of one job in one process

Nobody == "Nobody"

ASSUME RuntimeAssumption ==
    /\ IsFiniteSet(Jobs)
    /\ Nobody \notin Workers
    /\ Desired \subseteq Nat /\ Desired # {}
    /\ MaxSlots \in Nat
    /\ ClaimBatch \in Nat \ {0}
    /\ Handles \in Nat \ {0}

VARIABLES
    row,      \* crawl_jobs: status, lease_owner, not_before in the future
    pool,     \* worker_pools.desired_concurrency
    inst,     \* worker_instances: status, drain_requested_at is set
    phase,    \* where run() is
    stop,     \* _stop
    slots,    \* _pool.desired_concurrency, as last read
    barrier,  \* _drain_barrier
    fenced,   \* _fenced
    overdue,  \* fence_after may have passed since _last_heartbeat_ok
    active,   \* _active: the handle kept for a job, 0 for none
    task,     \* the _execute coroutines, by job and handle
    claim,    \* the _claim in progress
    beat,     \* the _heartbeat in progress
    pending   \* the handles _drain waits for or releases

local == <<slots, barrier, fenced, overdue>>
vars == <<row, pool, inst, phase, stop, slots, barrier, fenced, overdue,
          active, task, claim, beat, pending>>

-----------------------------------------------------------------------------
INSTANCE_TRANSITIONS ==
    [s \in {"starting", "ready", "draining", "stale", "stopped"} |->
        CASE s = "starting" -> {"ready", "stopped", "stale"}
          [] s = "ready"    -> {"draining", "stopped", "stale"}
          [] s = "draining" -> {"ready", "stopped", "stale"}
          [] s = "stale"    -> {"ready", "draining", "stopped"}
          [] s = "stopped"  -> {}]

Statuses == {"absent"} \cup DOMAIN INSTANCE_TRANSITIONS

(* run() is past _boot and its background tasks have not been cancelled.   *)
Background == {"loop", "drain", "wait", "gather", "release", "await", "stopping"}
Gone == {"exited", "dead"}
Phases == {"boot", "starting"} \cup Background \cup Gone

Row == [status : {"queued", "leased", "done"}, owner : Workers \cup {Nobody},
        wait : BOOLEAN]
Queued(wait) == [status |-> "queued", owner |-> Nobody, wait |-> wait]
Done == [status |-> "done", owner |-> Nobody, wait |-> FALSE]
Leased(w) == [status |-> "leased", owner |-> w, wait |-> FALSE]

TaskStates == {"none", "handling", "reported", "cancelled"}
Coroutines == [1..Handles -> TaskStates]

Instance == [status : Statuses, drain : BOOLEAN]

(* A claim first holds the instance row's share lock, then has committed.  *)
Claim == [step : {"none", "locked", "taken"}, limit : Nat, jobs : SUBSET Jobs]
NoClaim == [step |-> "none", limit |-> 0, jobs |-> {}]

(* A tick is on its way with the leases it extends, then brings an answer. *)
Beat == [step : {"none", "sent", "answered"}, jobs : SUBSET Jobs, drain : BOOLEAN, desired : Nat]
NoBeat == [step |-> "none", jobs |-> {}, drain |-> FALSE, desired |-> 0]

Owned(w, j) == row[j].status = "leased" /\ row[j].owner = w
Tracked(w) == {j \in Jobs : active[w][j] # 0}
ActiveHandles(w) == {<<j, active[w][j]>> : j \in Tracked(w)}
Finished(w, hs) == \A h \in hs : task[w][h[1]][h[2]] = "none"

(* Seeded fault: _claim_allowed reads the instance row without a lock.     *)
Unlocked_always(w) == TRUE

(* FOR UPDATE on the instance row waits for the claim's FOR SHARE.         *)
Unlocked(w) == claim[w].step # "locked"

effective_concurrency(w) == IF slots[w] < MaxSlots THEN slots[w] ELSE MaxSlots

Init ==
    /\ row = [j \in Jobs |-> Queued(FALSE)]
    /\ pool \in Desired
    /\ inst = [w \in Workers |-> [status |-> "absent", drain |-> FALSE]]
    /\ phase = [w \in Workers |-> "boot"]
    /\ stop = [w \in Workers |-> FALSE]
    /\ slots = [w \in Workers |-> pool]
    /\ barrier = [w \in Workers |-> FALSE]
    /\ fenced = [w \in Workers |-> FALSE]
    /\ overdue = [w \in Workers |-> FALSE]
    /\ active = [w \in Workers |-> [j \in Jobs |-> 0]]
    /\ task = [w \in Workers |-> [j \in Jobs |-> [h \in 1..Handles |-> "none"]]]
    /\ claim = [w \in Workers |-> NoClaim]
    /\ beat = [w \in Workers |-> NoBeat]
    /\ pending = [w \in Workers |-> {}]

-----------------------------------------------------------------------------
(* The worker_instances row *)

(* set_instance_status as a transaction: a repeat is a no-op, a transition *)
(* that is not allowed raises.                                             *)
StatusRow(r, s) ==
    [status |-> s,
     drain |-> CASE s = "draining" -> TRUE
                 [] s = "ready"    -> FALSE
                 [] OTHER          -> r.drain]

Allowed(w, s) ==
    /\ Unlocked(w)
    /\ inst[w].status # "absent"
    /\ s \in INSTANCE_TRANSITIONS[inst[w].status] \cup {inst[w].status}

set_instance_status(w, s) ==
    /\ Allowed(w, s)
    /\ inst' = [inst EXCEPT ![w] = IF @.status = s THEN @ ELSE StatusRow(@, s)]

(* The controller: mark_draining, mark_ready, mark_stopped.                *)
mark(w, s) ==
    /\ inst[w].status # s
    /\ set_instance_status(w, s)
    /\ UNCHANGED <<row, pool, phase, stop, local, active, task, claim, beat, pending>>

mark_stale_instances(w) ==
    /\ Unlocked(w)
    /\ inst[w].status \in {"starting", "ready", "draining"}
    /\ inst' = [inst EXCEPT ![w].status = "stale"]
    /\ UNCHANGED <<row, pool, phase, stop, local, active, task, claim, beat, pending>>

upsert_pool(n) ==
    /\ n # pool
    /\ pool' = n
    /\ UNCHANGED <<row, inst, phase, stop, local, active, task, claim, beat, pending>>

(* _set_status: the write succeeds, is refused, or its answer is lost.     *)
_set_status(w, s, ok) ==
    \/ ok /\ set_instance_status(w, s)
    \/ ~ok /\ (set_instance_status(w, s) \/ UNCHANGED inst)

-----------------------------------------------------------------------------
(* Boot *)

register(w) ==
    /\ phase[w] = "boot"
    /\ phase' = [phase EXCEPT ![w] = "starting"]
    /\ inst' = [inst EXCEPT ![w].status = "starting"]
    /\ slots' = [slots EXCEPT ![w] = pool]
    /\ UNCHANGED <<row, pool, stop, barrier, fenced, overdue, active, task,
                   claim, beat, pending>>

(* An attempt of _become_ready whose answer is lost; it is repeated.       *)
ready_retry(w) ==
    /\ phase[w] = "starting"
    /\ set_instance_status(w, "ready")
    /\ UNCHANGED <<row, pool, phase, stop, local, active, task, claim, beat, pending>>

(* Its last attempt: run() goes on, or raises and the process is gone.     *)
_become_ready(w) ==
    /\ phase[w] = "starting"
    /\ \/ /\ _set_status(w, "ready", TRUE)
          /\ phase' = [phase EXCEPT ![w] = "loop"]
       \/ /\ _set_status(w, "ready", FALSE)
          /\ phase' = [phase EXCEPT ![w] = "dead"]
    /\ UNCHANGED <<row, pool, stop, local, active, task, claim, beat, pending>>

request_stop(w) ==
    /\ phase[w] \notin Gone
    /\ ~stop[w]
    /\ stop' = [stop EXCEPT ![w] = TRUE]
    /\ UNCHANGED <<row, pool, inst, phase, local, active, task, claim, beat, pending>>

-----------------------------------------------------------------------------
(* The claim loop *)

claiming(w) ==
    /\ phase[w] = "loop"
    /\ ~stop[w] /\ ~barrier[w] /\ ~fenced[w]

(* Seeded fault: running tasks are not subtracted.                         *)
FreeSlots_forgetsActive(w) == effective_concurrency(w)

FreeSlots(w) == effective_concurrency(w) - Cardinality(Tracked(w))

(* The start of _claim up to the answer of _claim_allowed.                 *)
_claim_allowed(w) ==
    /\ claiming(w)
    /\ claim[w] = NoClaim
    /\ FreeSlots(w) > 0
    /\ \/ /\ inst[w].drain
          /\ barrier' = [barrier EXCEPT ![w] = TRUE]
          /\ UNCHANGED claim
       \/ /\ ~inst[w].drain
          /\ inst[w].status = "ready"
          /\ claim' = [claim EXCEPT ![w] =
                [step |-> "locked", jobs |-> {},
                 limit |-> IF FreeSlots(w) < ClaimBatch THEN FreeSlots(w)
                                                        ELSE ClaimBatch]]
          /\ UNCHANGED barrier
    /\ UNCHANGED <<row, pool, inst, phase, stop, slots, fenced, overdue,
                   active, task, beat, pending>>

(* SKIP LOCKED may hide any row, so any subset may come back.  A job is    *)
(* left alone while the process has no handle for it (the bound Handles).  *)
claim_commit(w) ==
    /\ claim[w].step = "locked"
    /\ \E S \in SUBSET {j \in Jobs : /\ row[j] = Queued(FALSE)
                                     /\ \E h \in 1..Handles : task[w][j][h] = "none"} :
          /\ Cardinality(S) <= claim[w].limit
          /\ row' = [j \in Jobs |-> IF j \in S THEN Leased(w) ELSE row[j]]
          /\ claim' = [claim EXCEPT ![w] = [@ EXCEPT !.step = "taken", !.jobs = S]]
    /\ UNCHANGED <<pool, inst, phase, stop, local, active, task, beat, pending>>

(* The transaction failed, or its commit was never acknowledged.           *)
claim_failed(w) ==
    /\ claim[w].step # "none"
    /\ claim' = [claim EXCEPT ![w] = NoClaim]
    /\ UNCHANGED <<row, pool, inst, phase, stop, local, active, task, beat, pending>>

FreeHandle(w, j) == CHOOSE h \in 1..Handles : task[w][j][h] = "none"

(* The rest of _claim: leases taken while fenced are left to expire, else  *)
(* _start creates a task for each and files it under its job.              *)
claim_resume(w) ==
    /\ claim[w].step = "taken"
    /\ claim' = [claim EXCEPT ![w] = NoClaim]
    /\ LET S == IF fenced[w] THEN {} ELSE claim[w].jobs IN
          /\ active' = [active EXCEPT ![w] =
                [j \in Jobs |-> IF j \in S THEN FreeHandle(w, j) ELSE @[j]]]
          /\ task' = [task EXCEPT ![w] =
                [j \in Jobs |-> IF j \in S
                    THEN [@[j] EXCEPT ![FreeHandle(w, j)] = "handling"] ELSE @[j]]]
    /\ UNCHANGED <<row, pool, inst, phase, stop, local, beat, pending>>

-----------------------------------------------------------------------------
(* A task *)

(* What the backend's calls leave of a leased row: complete and quarantine *)
(* finish the job, retry and defer put it back, for later or (a defer to a *)
(* moment that is past, _clamp_not_before) for now.                        *)
CrawlJobsBackend == {Done, Queued(TRUE), Queued(FALSE)}

(* _report commits one of complete, quarantine, retry and defer, or fails; *)
(* without the lease (LeaseNotOwnedError) the row stays as it is.          *)
_report(w, j, h) ==
    /\ task[w][j][h] = "handling"
    /\ task' = [task EXCEPT ![w][j][h] = "reported"]
    /\ \/ UNCHANGED row
       \/ Owned(w, j) /\ \E r \in CrawlJobsBackend : row' = [row EXCEPT ![j] = r]
    /\ UNCHANGED <<pool, inst, phase, stop, local, active, claim, beat, pending>>

(* The end of _execute.  A cancelled task does not touch _active; any      *)
(* other pops the entry of its job, whichever coroutine it belongs to.     *)
_execute_end(w, j, h) ==
    /\ task[w][j][h] \in {"reported", "cancelled"}
    /\ task' = [task EXCEPT ![w][j][h] = "none"]
    /\ active' = [active EXCEPT ![w][j] = IF task[w][j][h] = "reported" THEN 0 ELSE @]
    /\ UNCHANGED <<row, pool, inst, phase, stop, local, claim, beat, pending>>

Cancel(w, hs) ==
    task' = [task EXCEPT ![w] =
        [j \in Jobs |-> [h \in 1..Handles |->
            IF <<j, h>> \in hs /\ @[j][h] # "none" THEN "cancelled" ELSE @[j][h]]]]

(* Seeded fault: the tasks are cancelled, their entries stay.              *)
_abandon_keepsEntry(w, S) ==
    /\ Cancel(w, {<<j, active[w][j]>> : j \in S \cap Tracked(w)})
    /\ UNCHANGED active

(* Drop the entries of the jobs in S and cancel their tasks.               *)
_abandon(w, S) ==
    /\ active' = [active EXCEPT ![w] = [j \in Jobs |-> IF j \in S THEN 0 ELSE @[j]]]
    /\ Cancel(w, {<<j, active[w][j]>> : j \in S \cap Tracked(w)})

-----------------------------------------------------------------------------
(* Heartbeat and self-fencing *)

tick_begin(w) ==
    /\ phase[w] \in Background
    /\ beat[w] = NoBeat
    /\ beat' = [beat EXCEPT ![w] = [NoBeat EXCEPT !.step = "sent", !.jobs = Tracked(w)]]
    /\ UNCHANGED <<row, pool, inst, phase, stop, local, active, task, claim, pending>>

(* Seeded fault: a stale instance always comes back as ready.              *)
heartbeat_instance_ignoresDrain(r) ==
    [r EXCEPT !.status = IF @ = "stale" THEN "ready" ELSE @]

(* A stale instance comes back as what it was asked to be.                 *)
heartbeat_instance(r) ==
    [r EXCEPT !.status =
        IF @ # "stale" THEN @ ELSE IF r.drain THEN "draining" ELSE "ready"]

(* get_pool, heartbeat_instance and the lease extensions, in one           *)
(* transaction; what is left of beat.jobs are the leases found lost.       *)
tick_commit(w) ==
    /\ beat[w].step = "sent"
    /\ Unlocked(w)
    /\ inst[w].status # "stopped"
    /\ inst' = [inst EXCEPT ![w] = heartbeat_instance(@)]
    /\ beat' = [beat EXCEPT ![w] =
          [step |-> "answered", jobs |-> {j \in beat[w].jobs : ~Owned(w, j)},
           drain |-> inst[w].drain, desired |-> pool]]
    /\ UNCHANGED <<row, pool, phase, stop, local, active, task, claim, pending>>

(* heartbeat_instance raises for a stopped instance.                       *)
tick_rejected(w) ==
    /\ beat[w].step = "sent"
    /\ inst[w].status = "stopped"
    /\ stop' = [stop EXCEPT ![w] = TRUE]
    /\ beat' = [beat EXCEPT ![w] = NoBeat]
    /\ UNCHANGED <<row, pool, inst, phase, local, active, task, claim, pending>>

_fence_if_lease_unconfirmed(w) ==
    /\ ~fenced[w]
    /\ fenced' = [fenced EXCEPT ![w] = TRUE]
    /\ _abandon(w, Tracked(w))

(* The tick failed or ran out of its budget, with or without effect; then  *)
(* the window of unconfirmed leases is checked at once.                    *)
tick_failed(w) ==
    /\ beat[w].step # "none"
    /\ beat' = [beat EXCEPT ![w] = NoBeat]
    /\ overdue' = [overdue EXCEPT ![w] = TRUE]
    /\ \/ _fence_if_lease_unconfirmed(w)
       \/ UNCHANGED <<fenced, active, task>>
    /\ UNCHANGED <<row, pool, inst, phase, stop, slots, barrier, claim, pending>>

(* Seeded fault: lost leases are noticed, their tasks left running.        *)
tick_apply_keepsLost(w) ==
    /\ beat[w].step = "answered"
    /\ overdue' = [overdue EXCEPT ![w] = FALSE]
    /\ fenced' = [fenced EXCEPT ![w] = FALSE]
    /\ slots' = [slots EXCEPT ![w] = beat[w].desired]
    /\ barrier' = [barrier EXCEPT ![w] = beat[w].drain]
    /\ beat' = [beat EXCEPT ![w] = NoBeat]
    /\ UNCHANGED <<row, pool, inst, phase, stop, active, task, claim, pending>>

tick_apply(w) ==
    /\ beat[w].step = "answered"
    /\ overdue' = [overdue EXCEPT ![w] = FALSE]
    /\ fenced' = [fenced EXCEPT ![w] = FALSE]
    /\ slots' = [slots EXCEPT ![w] = beat[w].desired]
    /\ barrier' = [barrier EXCEPT ![w] = beat[w].drain]
    /\ _abandon(w, beat[w].jobs)
    /\ beat' = [beat EXCEPT ![w] = NoBeat]
    /\ UNCHANGED <<row, pool, inst, phase, stop, claim, pending>>

(* Time passes without a confirmed tick.                                   *)
lag(w) ==
    /\ phase[w] \in Background
    /\ ~overdue[w]
    /\ overdue' = [overdue EXCEPT ![w] = TRUE]
    /\ UNCHANGED <<row, pool, inst, phase, stop, slots, barrier, fenced,
                   active, task, claim, beat, pending>>

watchdog(w) ==
    /\ phase[w] \in Background
    /\ overdue[w]
    /\ _fence_if_lease_unconfirmed(w)
    /\ UNCHANGED <<row, pool, inst, phase, stop, slots, barrier, overdue, claim,
                   beat, pending>>

-----------------------------------------------------------------------------
(* Drain *)

drain_begin(w) ==
    /\ phase[w] = "loop"
    /\ stop[w]
    /\ claim[w] = NoClaim
    /\ phase' = [phase EXCEPT ![w] = "drain"]
    /\ UNCHANGED <<row, pool, inst, stop, local, active, task, claim, beat, pending>>

drain_status(w) ==
    /\ phase[w] = "drain"
    /\ \E ok \in BOOLEAN : _set_status(w, "draining", ok)
    /\ phase' = [phase EXCEPT ![w] = IF Tracked(w) = {} THEN "await" ELSE "wait"]
    /\ pending' = [pending EXCEPT ![w] = ActiveHandles(w)]
    /\ UNCHANGED <<row, pool, stop, local, active, task, claim, beat>>

drain_finished(w) ==
    /\ phase[w] = "wait"
    /\ Finished(w, pending[w])
    /\ phase' = [phase EXCEPT ![w] = "await"]
    /\ pending' = [pending EXCEPT ![w] = {}]
    /\ UNCHANGED <<row, pool, inst, stop, local, active, task, claim, beat>>

(* Seeded fault: the drain timeout cancels nothing.                        *)
drain_timeout_noCancel(w) ==
    /\ phase[w] = "wait"
    /\ ~Finished(w, pending[w])
    /\ phase' = [phase EXCEPT ![w] = "gather"]
    /\ pending' = [pending EXCEPT ![w] = {h \in @ : ~Finished(w, {h})}]
    /\ UNCHANGED <<row, pool, inst, stop, local, active, task, claim, beat>>

(* stop_grace_seconds are over: cancel what still runs.                    *)
drain_timeout(w) ==
    /\ phase[w] = "wait"
    /\ ~Finished(w, pending[w])
    /\ phase' = [phase EXCEPT ![w] = "gather"]
    /\ pending' = [pending EXCEPT ![w] = {h \in @ : ~Finished(w, {h})}]
    /\ Cancel(w, pending[w])
    /\ UNCHANGED <<row, pool, inst, stop, local, active, claim, beat>>

(* gather returns; _release_leases lists the entries that are left.        *)
drain_gathered(w) ==
    /\ phase[w] = "gather"
    /\ Finished(w, pending[w])
    /\ phase' = [phase EXCEPT ![w] = "release"]
    /\ pending' = [pending EXCEPT ![w] = ActiveHandles(w)]
    /\ UNCHANGED <<row, pool, inst, stop, local, active, task, claim, beat>>

(* release hands the lease back, or fails and leaves it to expire.         *)
_release_leases(w) ==
    /\ phase[w] = "release"
    /\ \/ /\ pending[w] = {}
          /\ phase' = [phase EXCEPT ![w] = "await"]
          /\ UNCHANGED <<row, active, pending>>
       \/ \E h \in pending[w] :
             /\ \/ Owned(w, h[1]) /\ row' = [row EXCEPT ![h[1]] = Queued(FALSE)]
                \/ UNCHANGED row
             /\ active' = [active EXCEPT ![w][h[1]] = 0]
             /\ pending' = [pending EXCEPT ![w] = @ \ {h}]
             /\ UNCHANGED phase
    /\ UNCHANGED <<pool, inst, stop, local, task, claim, beat>>

(* Seeded fault: cancelled tasks are not awaited.                          *)
_await_cancelled_tasks_skipped(w) ==
    /\ phase[w] = "await"
    /\ phase' = [phase EXCEPT ![w] = "stopping"]
    /\ UNCHANGED <<row, pool, inst, stop, local, active, task, claim, beat, pending>>

(* Every task in _cancelled is done.                                       *)
_await_cancelled_tasks(w) ==
    /\ phase[w] = "await"
    /\ \A j \in Jobs, h \in 1..Handles : task[w][j][h] # "cancelled"
    /\ phase' = [phase EXCEPT ![w] = "stopping"]
    /\ UNCHANGED <<row, pool, inst, stop, local, active, task, claim, beat, pending>>

(* The last write, then the finally of run() stops heartbeat and watchdog. *)
drain_stopped(w) ==
    /\ phase[w] = "stopping"
    /\ \E ok \in BOOLEAN : _set_status(w, "stopped", ok)
    /\ phase' = [phase EXCEPT ![w] = "exited"]
    /\ beat' = [beat EXCEPT ![w] = NoBeat]
    /\ UNCHANGED <<row, pool, stop, local, active, task, claim, pending>>

(* SIGKILL: only the database remembers.                                   *)
kill(w) ==
    /\ phase[w] \notin Gone
    /\ phase' = [phase EXCEPT ![w] = "dead"]
    /\ active' = [active EXCEPT ![w] = [j \in Jobs |-> 0]]
    /\ task' = [task EXCEPT ![w] = [j \in Jobs |-> [h \in 1..Handles |-> "none"]]]
    /\ claim' = [claim EXCEPT ![w] = NoClaim]
    /\ beat' = [beat EXCEPT ![w] = NoBeat]
    /\ pending' = [pending EXCEPT ![w] = {}]
    /\ barrier' = [barrier EXCEPT ![w] = FALSE]
    /\ fenced' = [fenced EXCEPT ![w] = FALSE]
    /\ overdue' = [overdue EXCEPT ![w] = FALSE]
    /\ UNCHANGED <<row, pool, inst, stop, slots>>

-----------------------------------------------------------------------------
(* The queue's other users *)

(* A lease whose expiry has passed goes back to the queue.                 *)
recover_expired_leases(j) ==
    /\ row[j].status = "leased"
    /\ row' = [row EXCEPT ![j] = Queued(FALSE)]
    /\ UNCHANGED <<pool, inst, phase, stop, local, active, task, claim, beat, pending>>

quarantine_operator(j) ==
    /\ row[j].status # "done"
    /\ row' = [row EXCEPT ![j] = Done]
    /\ UNCHANGED <<pool, inst, phase, stop, local, active, task, claim, beat, pending>>

(* not_before passes.                                                      *)
ripen(j) ==
    /\ row[j] = Queued(TRUE)
    /\ row' = [row EXCEPT ![j] = Queued(FALSE)]
    /\ UNCHANGED <<pool, inst, phase, stop, local, active, task, claim, beat, pending>>

-----------------------------------------------------------------------------
ControllerStep ==
    \/ \E w \in Workers : \/ \E s \in {"draining", "ready", "stopped"} : mark(w, s)
                           \/ mark_stale_instances(w)
    \/ \E n \in Desired : upsert_pool(n)

QueueStep == \E j \in Jobs :
    recover_expired_leases(j) \/ quarantine_operator(j) \/ ripen(j)

ClaimStep(w) ==
    _claim_allowed(w) \/ claim_commit(w) \/ claim_failed(w) \/ claim_resume(w)

TickStep(w) ==
    tick_begin(w) \/ tick_commit(w) \/ tick_rejected(w) \/ tick_failed(w) \/ tick_apply(w)

DrainStep(w) ==
    \/ drain_begin(w) \/ drain_status(w) \/ drain_finished(w) \/ drain_timeout(w)
    \/ drain_gathered(w) \/ _release_leases(w) \/ _await_cancelled_tasks(w)
    \/ drain_stopped(w)

TaskStep(w) == \E j \in Jobs, h \in 1..Handles : _report(w, j, h) \/ _execute_end(w, j, h)

WorkerStep(w) ==
    \/ register(w) \/ ready_retry(w) \/ _become_ready(w)
    \/ request_stop(w) \/ kill(w)
    \/ ClaimStep(w) \/ TaskStep(w) \/ TickStep(w) \/ DrainStep(w)
    \/ lag(w) \/ watchdog(w)

Next == ControllerStep \/ QueueStep \/ \E w \in Workers : WorkerStep(w)

Spec == Init /\ [][Next]_vars

(* The event loop runs every coroutine that can go on; database calls end  *)
(* (statement_timeout, the tick's budget) but may fail every time; handlers*)
(* obey cancellation but need not return by themselves.  Nobody has to     *)
(* send a signal; the controller and the scheduler have to do nothing.     *)
Fairness ==
    \A w \in Workers :
          /\ WF_vars(register(w)) /\ WF_vars(_become_ready(w))
          /\ WF_vars(claim_commit(w) \/ claim_resume(w) \/ claim_failed(w))
          /\ WF_vars(tick_begin(w))
          /\ WF_vars(tick_commit(w) \/ tick_rejected(w) \/ tick_apply(w) \/ tick_failed(w))
          /\ WF_vars(watchdog(w))
          /\ WF_vars(DrainStep(w))
          /\ \A j \in Jobs, h \in 1..Handles : WF_vars(_execute_end(w, j, h))

FairSpec == Spec /\ Fairness

-----------------------------------------------------------------------------
(* Shape of the state, and lease_consistent: leased rows have an owner.    *)
TypeOK ==
    /\ row \in [Jobs -> Row]
    /\ \A j \in Jobs : row[j].owner = Nobody <=> row[j].status # "leased"
    /\ pool \in Desired
    /\ inst \in [Workers -> Instance]
    /\ phase \in [Workers -> Phases]
    /\ stop \in [Workers -> BOOLEAN]
    /\ slots \in [Workers -> Desired]
    /\ barrier \in [Workers -> BOOLEAN]
    /\ fenced \in [Workers -> BOOLEAN]
    /\ overdue \in [Workers -> BOOLEAN]
    /\ active \in [Workers -> [Jobs -> 0..Handles]]
    /\ task \in [Workers -> [Jobs -> Coroutines]]
    /\ claim \in [Workers -> Claim]
    /\ beat \in [Workers -> Beat]
    /\ pending \in [Workers -> SUBSET (Jobs \X (1..Handles))]

(* The drain barrier holds in the database: no lease is given to an        *)
(* instance whose row says draining, stale or stopped at that moment, even *)
(* when the claim was already on its way (_claim_allowed's FOR SHARE).     *)
DrainBarrier ==
    [][\A w \in Workers, j \in Jobs :
          ~Owned(w, j) /\ Owned(w, j)' => inst[w] = [status |-> "ready", drain |-> FALSE]]_vars

(* A drain once asked for survives a missed heartbeat: an instance is      *)
(* counted ready only if no drain is pending, and draining only if one is  *)
(* (heartbeat_instance, set_instance_status).                              *)
DrainIntent ==
    \A w \in Workers : /\ inst[w].status = "ready" => ~inst[w].drain
                       /\ inst[w].status = "draining" => inst[w].drain

(* Every entry of _active belongs to a coroutine that has not ended, so no *)
(* slot is kept and no lease extended for a task that is gone, whoever     *)
(* popped or cancelled what.  Only a drain past its timeout keeps entries  *)
(* of ended tasks, until _release_leases has handed their leases back.     *)
EntriesAreLive ==
    \A w \in Workers : phase[w] \notin {"gather", "release"} =>
        \A j \in Tracked(w) : task[w][j][active[w][j]] \in {"handling", "reported"}

(* However desired_concurrency changes under a claim in flight, an         *)
(* instance never tracks more tasks than the slots it was started with.    *)
(* A coroutine whose entry another one of its job has popped is not        *)
(* counted, neither here nor by the claim loop.                            *)
SlotCeiling ==
    \A w \in Workers : Cardinality(Tracked(w)) <= MaxSlots

(* A graceful exit leaves no entry in _active, whose lease nobody would    *)
(* hand back, and no cancelled task still closing its resources            *)
(* (_release_leases, _await_cancelled_tasks).                              *)
CleanExit ==
    \A w \in Workers : phase[w] = "exited" =>
        /\ Tracked(w) = {}
        /\ \A j \in Jobs, h \in 1..Handles : task[w][j][h] # "cancelled"

(* SIGTERM ends the process: drain never waits for a handler for ever.     *)
StopTerminates ==
    \A w \in Workers : stop[w] ~> phase[w] \in Gone

(* Tracked work whose lease is lost ends, even if its handler would never  *)
(* return: the next tick finds out, or the fence stops it if no tick       *)
(* succeeds.  Unless its lease comes back, or its entry is popped by       *)
(* another coroutine of its job.                                           *)
LostWorkStops ==
    \A w \in Workers, j \in Jobs, h \in 1..Handles :
        (task[w][j][h] = "handling" /\ active[w][j] = h /\ ~Owned(w, j))
            ~> (task[w][j][h] # "handling" \/ active[w][j] # h \/ Owned(w, j))
=============================================================================
