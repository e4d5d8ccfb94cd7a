---------------------------- MODULE LeaseFencing ----------------------------
(***************************************************************************)
(* Leases against time: the claim, heartbeat and report steps of           *)
(* WorkerRuntime (workers/runtime.py) that race lease expiry, the watchdog *)
(* that fences an instance whose leases the database no longer confirms,   *)
(* and the scheduler tick that recovers expired leases.                    *)
(*                                                                         *)
(* A database call is several steps: the coroutine starts, the statement   *)
(* takes effect, the coroutine resumes.  Any of the instance's other       *)
(* coroutines may run in between; a call may also fail before or after it  *)
(* took effect.  Steps without an await in between are one action.         *)
(*                                                                         *)
(* Time is one integer clock that advances between any two steps: nothing  *)
(* bounds how long a statement takes, or how long the event loop keeps the *)
(* watchdog waiting.  The one bound the code enforces is wait_for around a *)
(* heartbeat tick: a tick older than D does not confirm.  (Handlers do not *)
(* block the event loop, docs/workers.md: a callback that did so in the    *)
(* very turn in which the tick resumes would hold back wait_for, too.)     *)
(***************************************************************************)
EXTENDS Integers

CONSTANTS
    Jobs, Workers,
    Tasks,    \* bound: coroutines an instance may have for one job
    L,        \* lease_seconds
    F,        \* fence_after
    D,        \* heartbeat_tick_budget
    Requeue,  \* delays until a retried or deferred job may be claimed again
    MaxTime   \* bound on the clock

Nobody == "Nobody"
NoTask == "NoTask"

\* A defer to a moment in the past is a delay of zero (_clamp_not_before).
ASSUME TimeAssumption ==
    /\ Nobody \notin Workers /\ NoTask \notin Tasks
    /\ L \in Nat /\ F \in Nat \ {0} /\ D \in Nat
    /\ Requeue \subseteq Nat
    /\ MaxTime \in Nat

VARIABLES
    now,
    lease,     \* the queue row: free (claimable from nb on), leased, done
    active,    \* active[w][j]: the coroutine filed under j in w's _active
    task,      \* task[w][j][h]: where the coroutine h of job j is
    lastOk,    \* _last_heartbeat_ok
    fenced,    \* _fenced
    watched,   \* when the watchdog last ran
    hb,        \* the heartbeat tick in progress
    cl,        \* the claim in progress
    alive,
    sure       \* history, of a job in _active: the later of the start of its
               \* coroutine and of the last tick that extended its lease

vars == <<now, lease, active, task, lastOk, fenced, watched, hb, cl, alive,
          sure>>

Row == [st : {"free", "leased", "done"}, owner : Workers \cup {Nobody},
        exp : Nat, nb : Nat]
Stage == {"none", "handling", "reported", "cancelled"}
NoBeat == [st |-> "idle", t0 |-> 0, jobs |-> {}, lost |-> {}]
NoClaim == [st |-> "idle", t0 |-> 0, jobs |-> {}]

Init ==
    /\ now = 0
    /\ lease = [j \in Jobs |-> [st |-> "free", owner |-> Nobody,
                                exp |-> 0, nb |-> 0]]
    /\ active = [w \in Workers |-> [j \in Jobs |-> NoTask]]
    /\ task = [w \in Workers |-> [j \in Jobs |-> [h \in Tasks |-> "none"]]]
    /\ lastOk = [w \in Workers |-> 0]
    /\ fenced = [w \in Workers |-> FALSE]
    /\ watched = [w \in Workers |-> 0]
    /\ hb = [w \in Workers |-> NoBeat]
    /\ cl = [w \in Workers |-> NoClaim]
    /\ alive = [w \in Workers |-> TRUE]
    /\ sure = [w \in Workers |-> [j \in Jobs |-> 0]]

Owned(j, w) == lease[j].st = "leased" /\ lease[j].owner = w
Tracked(w) == {j \in Jobs : active[w][j] # NoTask}
Later(a, b) == IF a < b THEN b ELSE a

-----------------------------------------------------------------------------
(* Claim                                                                   *)

\* _claim_loop sees a claiming, that is, unfenced instance.
claim_begin(w) ==
    /\ alive[w] /\ ~fenced[w] /\ cl[w].st = "idle"
    /\ cl' = [cl EXCEPT ![w] = [st |-> "sent", t0 |-> now, jobs |-> {}]]
    /\ UNCHANGED <<now, lease, active, task, lastOk, fenced, watched, hb, alive,
                   sure>>

\* The claim commits.  Its clock was read at t0, after _claim_allowed; it
\* takes free jobs whose not_before had come by then.
claim_commit(w, t0, js) ==
    /\ alive[w] /\ cl[w].st = "sent"
    /\ cl[w].t0 <= t0 /\ t0 <= now
    /\ \A j \in js : lease[j].st = "free" /\ lease[j].nb <= t0
    /\ lease' = [j \in Jobs |->
          IF j \in js THEN [st |-> "leased", owner |-> w, exp |-> t0 + L,
                            nb |-> lease[j].nb]
                      ELSE lease[j]]
    /\ cl' = [cl EXCEPT ![w] = [st |-> "done", t0 |-> 0, jobs |-> js]]
    /\ UNCHANGED <<now, active, task, lastOk, fenced, watched, hb, alive, sure>>

\* _start of every job of js: a new coroutine, filed under the job's id
\* whatever was filed there before.
_start(w, js) ==
    \E new \in [js -> Tasks] :
       /\ \A j \in js : task[w][j][new[j]] = "none"
       /\ active' = [active EXCEPT ![w] = [j \in Jobs |->
             IF j \in js THEN new[j] ELSE active[w][j]]]
       /\ task' = [task EXCEPT ![w] = [j \in Jobs |->
             IF j \in js THEN [task[w][j] EXCEPT ![new[j]] = "handling"]
                         ELSE task[w][j]]]
       /\ sure' = [sure EXCEPT ![w] = [j \in Jobs |->
             IF j \in js THEN now ELSE sure[w][j]]]

\* Seeded fault: the fence is not looked at again after the claim.
claim_resume_ignoresFence(w) ==
    /\ alive[w] /\ cl[w].st = "done"
    /\ _start(w, cl[w].jobs)
    /\ cl' = [cl EXCEPT ![w] = NoClaim]
    /\ UNCHANGED <<now, lease, lastOk, fenced, watched, hb, alive>>

\* _claim resumes and starts the tasks; an instance that was fenced in the
\* meantime leaves the leases to expire.
claim_resume(w) ==
    /\ alive[w] /\ cl[w].st = "done"
    /\ \/ fenced[w] /\ UNCHANGED <<active, task, sure>>
       \/ ~fenced[w] /\ _start(w, cl[w].jobs)
    /\ cl' = [cl EXCEPT ![w] = NoClaim]
    /\ UNCHANGED <<now, lease, lastOk, fenced, watched, hb, alive>>

\* The claim fails, before its commit or after it; leases it took expire.
claim_failed(w) ==
    /\ alive[w] /\ cl[w].st # "idle"
    /\ cl' = [cl EXCEPT ![w] = NoClaim]
    /\ UNCHANGED <<now, lease, active, task, lastOk, fenced, watched, hb, alive,
                   sure>>

-----------------------------------------------------------------------------
(* Handlers and reports                                                    *)

\* What the transaction of _report does to the row: the job is done, or is
\* claimable again after a delay; or, the lease not being ours any more or
\* the transaction failing, nothing.
Reported(w, j) ==
    \/ /\ Owned(j, w)
       /\ \/ lease' = [lease EXCEPT ![j] = [st |-> "done", owner |-> Nobody,
                                            exp |-> 0, nb |-> 0]]
          \/ \E z \in Requeue :
                lease' = [lease EXCEPT ![j] = [st |-> "free", owner |-> Nobody,
                                               exp |-> 0, nb |-> now + z]]
    \/ lease' = lease

\* The handler returned and its report was written, or could not be.
_report(w, j, h) ==
    /\ alive[w] /\ task[w][j][h] = "handling"
    /\ Reported(w, j)
    /\ task' = [task EXCEPT ![w][j][h] = "reported"]
    /\ UNCHANGED <<now, active, lastOk, fenced, watched, hb, cl, alive, sure>>

\* The finally block of _execute: the entry under the job's id goes,
\* whichever coroutine of the job it belongs to.
execute_end(w, j, h) ==
    /\ alive[w] /\ task[w][j][h] = "reported"
    /\ task' = [task EXCEPT ![w][j][h] = "none"]
    /\ active' = [active EXCEPT ![w][j] = NoTask]
    /\ sure' = [sure EXCEPT ![w][j] = 0]
    /\ UNCHANGED <<now, lease, lastOk, fenced, watched, hb, cl, alive>>

\* A cancelled coroutine ends; if it was cancelled in its report, that may
\* have taken effect all the same.
cancelled_end(w, j, h) ==
    /\ alive[w] /\ task[w][j][h] = "cancelled"
    /\ Reported(w, j)
    /\ task' = [task EXCEPT ![w][j][h] = "none"]
    /\ UNCHANGED <<now, active, lastOk, fenced, watched, hb, cl, alive, sure>>

-----------------------------------------------------------------------------
(* Heartbeat and fence                                                     *)

\* _abandon of every job of js: pop the entry and cancel its coroutine.  A
\* coroutine without an entry goes on.
_abandon(w, js) ==
    LET hit == js \cap Tracked(w)
    IN  /\ active' = [active EXCEPT ![w] = [j \in Jobs |->
              IF j \in hit THEN NoTask ELSE active[w][j]]]
        /\ task' = [task EXCEPT ![w] = [j \in Jobs |->
              IF j \in hit
              THEN [task[w][j] EXCEPT ![active[w][j]] = "cancelled"]
              ELSE task[w][j]]]
        /\ sure' = [sure EXCEPT ![w] = [j \in Jobs |->
              IF j \in hit THEN 0 ELSE sure[w][j]]]

_fence_if_lease_unconfirmed(w) ==
    \/ /\ fenced[w] \/ now - lastOk[w] < F
       /\ UNCHANGED <<fenced, active, task, sure>>
    \/ /\ ~fenced[w] /\ now - lastOk[w] >= F
       /\ fenced' = [fenced EXCEPT ![w] = TRUE]
       /\ _abandon(w, Jobs)

\* One turn of _watchdog_loop.
watchdog(w) ==
    /\ alive[w] /\ watched[w] # now
    /\ watched' = [watched EXCEPT ![w] = now]
    /\ _fence_if_lease_unconfirmed(w)
    /\ UNCHANGED <<now, lease, lastOk, hb, cl, alive>>

\* A tick starts: it reads the clock and copies the keys of _active.
heartbeat_begin(w) ==
    /\ alive[w] /\ hb[w].st = "idle"
    /\ hb' = [hb EXCEPT ![w] = [st |-> "sent", t0 |-> now, jobs |-> Tracked(w),
                                lost |-> {}]]
    /\ UNCHANGED <<now, lease, active, task, lastOk, fenced, watched, cl, alive,
                   sure>>

\* The tick's transaction commits: the leases that are still ours run until
\* t0 + L, the others are reported lost.
heartbeat_commit(w) ==
    LET mine == {j \in hb[w].jobs : Owned(j, w)}
    IN  /\ alive[w] /\ hb[w].st = "sent"
        /\ lease' = [j \in Jobs |->
              IF j \in mine THEN [lease[j] EXCEPT !.exp = hb[w].t0 + L]
                            ELSE lease[j]]
        /\ sure' = [sure EXCEPT ![w] = [j \in Jobs |->
              IF j \in mine \cap Tracked(w) THEN Later(sure[w][j], hb[w].t0)
                                         ELSE sure[w][j]]]
        /\ hb' = [hb EXCEPT ![w] = [st |-> "done", t0 |-> hb[w].t0,
                                    jobs |-> {}, lost |-> hb[w].jobs \ mine]]
        /\ UNCHANGED <<now, active, task, lastOk, fenced, watched, cl, alive>>

\* The tick resumes within its budget: leases confirmed now, fence down, the
\* entries of lost jobs abandoned.
heartbeat_confirm(w) ==
    /\ alive[w] /\ hb[w].st = "done" /\ now <= hb[w].t0 + D
    /\ lastOk' = [lastOk EXCEPT ![w] = now]
    /\ fenced' = [fenced EXCEPT ![w] = FALSE]
    /\ _abandon(w, hb[w].lost)
    /\ hb' = [hb EXCEPT ![w] = NoBeat]
    /\ UNCHANGED <<now, lease, watched, cl, alive>>

\* Seeded fault: a failed tick counts as a confirmation.
heartbeat_failed_counts(w) ==
    /\ alive[w] /\ hb[w].st # "idle"
    /\ lastOk' = [lastOk EXCEPT ![w] = now]
    /\ fenced' = [fenced EXCEPT ![w] = FALSE]
    /\ hb' = [hb EXCEPT ![w] = NoBeat]
    /\ UNCHANGED <<now, lease, active, task, watched, cl, alive, sure>>

\* The tick failed or ran out of its budget, before or after its commit.
heartbeat_failed(w) ==
    /\ alive[w] /\ hb[w].st # "idle"
    /\ _fence_if_lease_unconfirmed(w)
    /\ hb' = [hb EXCEPT ![w] = NoBeat]
    /\ UNCHANGED <<now, lease, lastOk, watched, cl, alive>>

-----------------------------------------------------------------------------
(* The scheduler, the operator, crashes, time                              *)

\* Any lease whose expiry has passed, whoever holds it.
recover_expired_leases(j) ==
    /\ lease[j].st = "leased" /\ lease[j].exp <= now
    /\ lease' = [lease EXCEPT ![j] = [st |-> "free", owner |-> Nobody,
                                      exp |-> 0, nb |-> lease[j].nb]]
    /\ UNCHANGED <<now, active, task, lastOk, fenced, watched, hb, cl, alive,
                   sure>>

\* quarantine(owner=None)
quarantine_operator(j) ==
    /\ lease[j].st # "done"
    /\ lease' = [lease EXCEPT ![j] = [st |-> "done", owner |-> Nobody,
                                      exp |-> 0, nb |-> 0]]
    /\ UNCHANGED <<now, active, task, lastOk, fenced, watched, hb, cl, alive,
                   sure>>

\* SIGKILL: a restarted container is a new instance with a new id.
kill(w) ==
    /\ alive[w]
    /\ alive' = [alive EXCEPT ![w] = FALSE]
    /\ active' = [active EXCEPT ![w] = [j \in Jobs |-> NoTask]]
    /\ task' = [task EXCEPT ![w] = [j \in Jobs |-> [h \in Tasks |-> "none"]]]
    /\ hb' = [hb EXCEPT ![w] = NoBeat]
    /\ cl' = [cl EXCEPT ![w] = NoClaim]
    /\ lastOk' = [lastOk EXCEPT ![w] = 0]
    /\ fenced' = [fenced EXCEPT ![w] = FALSE]
    /\ watched' = [watched EXCEPT ![w] = 0]
    /\ sure' = [sure EXCEPT ![w] = [j \in Jobs |-> 0]]
    /\ UNCHANGED <<now, lease>>

\* The clock advances, whatever is under way.
Tick ==
    /\ now < MaxTime
    /\ now' = now + 1
    /\ UNCHANGED <<lease, active, task, lastOk, fenced, watched, hb, cl, alive,
                   sure>>

WorkerStep(w) ==
    \/ claim_begin(w)
    \/ \E t0 \in 0..now, js \in SUBSET Jobs : claim_commit(w, t0, js)
    \/ claim_resume(w)
    \/ claim_failed(w)
    \/ \E j \in Jobs, h \in Tasks :
          _report(w, j, h) \/ execute_end(w, j, h) \/ cancelled_end(w, j, h)
    \/ watchdog(w)
    \/ heartbeat_begin(w)
    \/ heartbeat_commit(w)
    \/ heartbeat_confirm(w)
    \/ heartbeat_failed(w)
    \/ kill(w)

Next ==
    \/ Tick
    \/ \E w \in Workers : WorkerStep(w)
    \/ \E j \in Jobs : recover_expired_leases(j) \/ quarantine_operator(j)

Spec == Init /\ [][Next]_vars
-----------------------------------------------------------------------------
(* Properties                                                              *)

\* Shape of the state, and lease_consistent: the leased rows have an owner.
TypeOK ==
    /\ now \in Nat
    /\ \A j \in Jobs : lease[j].st = "leased" <=> lease[j].owner # Nobody
    /\ lease \in [Jobs -> Row]
    /\ active \in [Workers -> [Jobs -> Tasks \cup {NoTask}]]
    /\ task \in [Workers -> [Jobs -> [Tasks -> Stage]]]
    /\ lastOk \in [Workers -> Nat]
    /\ fenced \in [Workers -> BOOLEAN]
    /\ watched \in [Workers -> Nat]
    /\ hb \in [Workers -> [st : {"idle", "sent", "done"}, t0 : Nat,
                           jobs : SUBSET Jobs, lost : SUBSET Jobs]]
    /\ cl \in [Workers -> [st : {"idle", "sent", "done"}, t0 : Nat,
                           jobs : SUBSET Jobs]]
    /\ alive \in [Workers -> BOOLEAN]
    /\ sure \in [Workers -> [Jobs -> Nat]]

\* No task is in _active when the watchdog finds the last confirmation F or
\* more old, and none gets in while the fence is up: not the tasks of a
\* claim that was in the database when the fence rose, not after a tick
\* that failed or came too late.  (_fence_if_lease_unconfirmed does nothing
\* on a fenced instance, so a task that slipped in would run on.)
FenceWindow ==
    \A w \in Workers : Tracked(w) # {} => watched[w] < lastOk[w] + F

\* How far a task can outlive its lease.  The watchdog never leaves in
\* _active a task that it sees D + F or more after its start and after the
\* clock reading t0 of the last tick that moved its lease to t0 + L.  Ticks
\* that confirmed other jobs, a tick that committed but was slow to return,
\* a job claimed while a tick that does not know it is under way do not add
\* to that.  In the code D = L = 2F: a task may work past the lease that its
\* last tick gave it, but the watchdog ends that within the window F.
OverrunBounded ==
    \A w \in Workers : \A j \in Tracked(w) :
       watched[w] < sure[w][j] + D + F
=============================================================================
