------------------------- MODULE WorkerRuntimeProofs ------------------------
(***************************************************************************)
(* The safety properties of WorkerRuntime, for any numbers of workers,     *)
(* jobs, slots and handles.                                                *)
(*                                                                         *)
(* ControlInv is about what the database and the process agree on: the     *)
(* instance row, the claim that holds its share lock, the tick.            *)
(* RuntimeInv adds what _active is.  It does not need the queue: leases    *)
(* may expire under running tasks and a job may be claimed again while an  *)
(* earlier coroutine of it is still ending, which then pops the newer      *)
(* one's entry.  An entry is nevertheless always that of a coroutine that  *)
(* has not ended, because whoever ends or cancels one pops the entry of    *)
(* its job as well; the slots a claim has reserved bound the entries; and  *)
(* from the moment the drain has listed the entries none is added.         *)
(***************************************************************************)
EXTENDS WorkerRuntime, FiniteSetTheorems, TLAPS

(* What the instance row, the claim and the tick are between two steps.    *)
IntentOK(w) == /\ inst[w].status = "ready" => ~inst[w].drain
               /\ inst[w].status = "draining" => inst[w].drain

(* A claim is made in the loop, under the lock on a ready instance, and    *)
(* there is a handle for every job it has taken.                           *)
LockOK(w) ==
    /\ claim[w].step = "none" => claim[w] = NoClaim
    /\ claim[w].step # "none" => phase[w] = "loop"
    /\ claim[w].step = "locked" =>
          inst[w] = [status |-> "ready", drain |-> FALSE] /\ claim[w].jobs = {}
    /\ \A j \in claim[w].jobs : \E h \in 1..Handles : task[w][j][h] = "none"

TickOK(w) ==
    /\ beat[w].step = "none" => beat[w] = NoBeat
    /\ beat[w].step = "answered" => beat[w].desired \in Desired

Control(w) == IntentOK(w) /\ LockOK(w) /\ TickOK(w)
ControlInv == TypeOK /\ \A w \in Workers : Control(w)

(* What the entries of _active are, and how many.                          *)
Live(w, j, h) == task[w][j][h] \in {"handling", "reported"}

ActiveOK(w) ==
    phase[w] \notin {"gather", "release"} =>
        \A j \in Jobs : active[w][j] # 0 => Live(w, j, active[w][j])

(* The slots of the entries and of the claim in flight.                    *)
SlotOK(w) ==
    /\ Cardinality(Tracked(w)) + claim[w].limit <= MaxSlots
    /\ Cardinality(claim[w].jobs) <= claim[w].limit

(* Phases in which _active is empty.                                       *)
Idle == {"boot", "starting", "await", "stopping", "exited", "dead"}

(* What the drain waits for, or releases, are all the entries there are.   *)
DrainOK(w) ==
    /\ \A j \in Jobs : phase[w] \in {"wait", "release"} /\ active[w][j] # 0 =>
          <<j, active[w][j]>> \in pending[w]
    /\ \A j \in Jobs : phase[w] \in Idle => active[w][j] = 0
    /\ \A j \in Jobs, h \in 1..Handles :
          phase[w] \in {"stopping", "exited"} => task[w][j][h] # "cancelled"

WorkerInv(w) == ActiveOK(w) /\ SlotOK(w) /\ DrainOK(w)

RuntimeInv == ControlInv /\ \A w \in Workers : WorkerInv(w)

-----------------------------------------------------------------------------
(* Rows of the queue *)

(* The shapes a row can take are distinct.                                 *)
LEMMA RowShapes ==
    ASSUME NEW w \in Workers
    PROVE  /\ Leased(w) \in Row /\ Done \in Row /\ Queued(TRUE) \in Row /\ Queued(FALSE) \in Row
           /\ Leased(w).status = "leased" /\ Leased(w).owner = w
           /\ Done.status = "done" /\ Done.owner = Nobody
           /\ \A b \in BOOLEAN : Queued(b).status = "queued" /\ Queued(b).owner = Nobody
           /\ Queued(TRUE) # Queued(FALSE)
           /\ w # Nobody
<1>1. /\ Leased(w) \in Row /\ Done \in Row /\ Queued(TRUE) \in Row /\ Queued(FALSE) \in Row
  BY DEF Leased, Done, Queued, Row
<1>2. /\ Leased(w).status = "leased" /\ Leased(w).owner = w
      /\ Done.status = "done" /\ Done.owner = Nobody
      /\ \A b \in BOOLEAN : Queued(b).status = "queued" /\ Queued(b).owner = Nobody
  BY DEF Leased, Done, Queued
<1>3. Queued(TRUE) # Queued(FALSE)
  <2>1. Queued(TRUE).wait = TRUE /\ Queued(FALSE).wait = FALSE
    BY DEF Queued
  <2>2. QED BY <2>1
<1>4. QED BY <1>1, <1>2, <1>3, RuntimeAssumption

-----------------------------------------------------------------------------
(* Initial states *)

(* Every process boots, every job is claimable, nothing runs.              *)
LEMMA InitRuntime == Init => RuntimeInv
<1> SUFFICES ASSUME Init PROVE RuntimeInv
  OBVIOUS
<1>1. TypeOK
  <2>1. row \in [Jobs -> Row] /\ \A j \in Jobs : row[j].owner = Nobody <=> row[j].status # "leased"
    BY DEF Init, Queued, Row
  <2>2. inst \in [Workers -> Instance] /\ phase \in [Workers -> Phases]
    BY DEF Init, Instance, Statuses, Phases
  <2>3. claim \in [Workers -> Claim] /\ beat \in [Workers -> Beat]
    BY DEF Init, Claim, Beat, NoClaim, NoBeat
  <2>4. /\ active \in [Workers -> [Jobs -> 0..Handles]]
        /\ task \in [Workers -> [Jobs -> Coroutines]]
        /\ pending \in [Workers -> SUBSET (Jobs \X (1..Handles))]
    BY RuntimeAssumption DEF Init, Coroutines, TaskStates
  <2>5. /\ pool \in Desired /\ stop \in [Workers -> BOOLEAN] /\ slots \in [Workers -> Desired]
        /\ barrier \in [Workers -> BOOLEAN] /\ fenced \in [Workers -> BOOLEAN]
        /\ overdue \in [Workers -> BOOLEAN]
    BY DEF Init
  <2>6. QED BY <2>1, <2>2, <2>3, <2>4, <2>5 DEF TypeOK
<1>2. ASSUME NEW w \in Workers PROVE Control(w) /\ WorkerInv(w)
  <2>1. /\ inst[w].status = "absent" /\ phase[w] = "boot" /\ claim[w] = NoClaim /\ beat[w] = NoBeat
        /\ \A j \in Jobs : active[w][j] = 0
    BY DEF Init
  <2>2. IntentOK(w) /\ TickOK(w) /\ LockOK(w)
    BY <2>1 DEF IntentOK, TickOK, LockOK, NoClaim, NoBeat
  <2>3. ActiveOK(w) /\ DrainOK(w)
    BY <2>1 DEF ActiveOK, DrainOK
  <2>4. SlotOK(w)
    <3>1. Tracked(w) = {}
      BY <2>1 DEF Tracked
    <3>2. QED BY <2>1, <3>1, FS_EmptySet, RuntimeAssumption DEF SlotOK, NoClaim
  <2>5. QED BY <2>2, <2>3, <2>4 DEF Control, WorkerInv
<1>3. QED BY <1>1, <1>2 DEF RuntimeInv, ControlInv

-----------------------------------------------------------------------------
(* Control: one lemma per action *)

(* A step of worker w alone.                                               *)
LEMMA ControlStep ==
    ASSUME ControlInv, NEW w \in Workers, TypeOK', IntentOK(w)', LockOK(w)', TickOK(w)',
           \A v \in Workers \ {w} : /\ inst'[v] = inst[v] /\ phase'[v] = phase[v]
                                    /\ claim'[v] = claim[v] /\ beat'[v] = beat[v]
                                    /\ task'[v] = task[v]
    PROVE  ControlInv'
<1>1. ASSUME NEW v \in Workers, v # w PROVE Control(v)'
  BY <1>1 DEF ControlInv, Control, IntentOK, LockOK, TickOK
<1>2. QED BY <1>1 DEF ControlInv, Control

(* A step that writes neither the instance rows nor the claims nor the     *)
(* ticks, nor where run() is.                                              *)
LEMMA ControlSame ==
    ASSUME ControlInv, TypeOK', UNCHANGED <<inst, phase, claim, beat, task>>
    PROVE  ControlInv'
  BY DEF ControlInv, Control, IntentOK, LockOK, TickOK

(* Tasks that go on, end or are cancelled take no handle.                  *)
LEMMA ControlTasks ==
    ASSUME ControlInv, TypeOK', UNCHANGED <<inst, phase, claim, beat>>,
           \A v \in Workers, j \in Jobs, h \in 1..Handles :
              task[v][j][h] = "none" => task'[v][j][h] = "none"
    PROVE  ControlInv'
<1>1. \A v \in Workers : claim[v].jobs \subseteq Jobs
  BY DEF ControlInv, TypeOK, Claim
<1>2. \A v \in Workers : LockOK(v)'
  BY <1>1 DEF ControlInv, Control, LockOK
<1>3. QED BY <1>2 DEF ControlInv, Control, IntentOK, TickOK

(* set_instance_status writes a row that agrees with its own intent, under *)
(* a lock that no claim shares.                                            *)
LEMMA StatusWritten ==
    ASSUME ControlInv, NEW w \in Workers, NEW s \in {"ready", "draining", "stopped"},
           set_instance_status(w, s)
    PROVE  /\ inst' \in [Workers -> Instance] /\ IntentOK(w)' /\ claim[w].step # "locked"
           /\ \A v \in Workers \ {w} : inst'[v] = inst[v]
<1>1. inst \in [Workers -> Instance] /\ inst[w] \in Instance
  BY DEF ControlInv, TypeOK
<1>2. inst[w].drain \in BOOLEAN
  BY <1>1 DEF Instance
<1>3. StatusRow(inst[w], s) \in Instance
  <2>1. PICK d \in BOOLEAN : d = CASE s = "draining" -> TRUE [] s = "ready" -> FALSE
                                   [] OTHER -> inst[w].drain
    BY <1>2
  <2>2. StatusRow(inst[w], s) = [status |-> s, drain |-> d]
    BY <2>1, Zenon DEF StatusRow
  <2>3. s \in Statuses
    BY DEF Statuses, INSTANCE_TRANSITIONS
  <2>4. d \in BOOLEAN
    BY <2>1
  <2>5. QED BY <2>2, <2>3, <2>4 DEF Instance
<1>4. PICK r \in Instance : /\ inst' = [inst EXCEPT ![w] = r]
                            /\ r = inst[w] \/ r = StatusRow(inst[w], s)
  <2>1. CASE inst[w].status = s
    BY <1>1, <2>1 DEF set_instance_status
  <2>2. CASE inst[w].status # s
    BY <1>3, <2>2 DEF set_instance_status
  <2>3. QED BY <2>1, <2>2
<1>5. claim[w].step # "locked"
  BY DEF set_instance_status, Allowed, Unlocked
<1>6. IntentOK(w)'
  <2>1. inst'[w] = r
    BY <1>1, <1>4
  <2>2. CASE r = inst[w]
    BY <2>1, <2>2 DEF ControlInv, Control, IntentOK
  <2>3. CASE r = StatusRow(inst[w], s)
    <3>1. /\ r.status = s
          /\ s = "ready" => r.drain = FALSE
          /\ s = "draining" => r.drain = TRUE
      BY <2>3 DEF StatusRow
    <3>2. QED BY <2>1, <3>1 DEF IntentOK
  <2>4. QED BY <1>4, <2>2, <2>3
<1>7. QED BY <1>1, <1>4, <1>5, <1>6

(* _set_status: written, refused, or written with the answer lost.         *)
LEMMA StatusTried ==
    ASSUME ControlInv, NEW w \in Workers, NEW s \in {"ready", "draining", "stopped"},
           NEW ok \in BOOLEAN, _set_status(w, s, ok)
    PROVE  /\ inst' \in [Workers -> Instance] /\ IntentOK(w)'
           /\ claim[w].step = "locked" => inst'[w] = inst[w]
           /\ \A v \in Workers \ {w} : inst'[v] = inst[v]
<1>1. CASE set_instance_status(w, s)
  BY <1>1, StatusWritten
<1>2. CASE inst' = inst
  BY <1>2 DEF ControlInv, TypeOK, Control, IntentOK
<1>3. QED BY <1>1, <1>2 DEF _set_status

(* A write to the instance row alone.                                      *)
LEMMA InstanceOnly ==
    ASSUME ControlInv, NEW w \in Workers, inst' \in [Workers -> Instance], IntentOK(w)',
           claim[w].step # "locked", \A v \in Workers \ {w} : inst'[v] = inst[v],
           UNCHANGED <<row, pool, phase, stop, local, active, task, claim, beat, pending>>
    PROVE  ControlInv'
<1>1. TypeOK'
  BY DEF ControlInv, TypeOK, local
<1>2. LockOK(w)' /\ TickOK(w)'
  BY DEF ControlInv, Control, LockOK, TickOK
<1>3. QED BY <1>1, <1>2, ControlStep

\* The controller writes the status under the row lock.
LEMMA MarkControl ==
    ASSUME ControlInv, NEW w \in Workers, NEW s \in {"draining", "ready", "stopped"}, mark(w, s)
    PROVE  ControlInv'
  BY StatusWritten, InstanceOnly DEF mark

\* _become_ready, an attempt whose answer is lost.
LEMMA ReadyRetryControl == ASSUME ControlInv, NEW w \in Workers, ready_retry(w) PROVE ControlInv'
  BY StatusWritten, InstanceOnly DEF ready_retry

\* mark_stale_instances leaves the drain request as it is.
LEMMA MarkStaleControl ==
    ASSUME ControlInv, NEW w \in Workers, mark_stale_instances(w) PROVE ControlInv'
<1>1. inst \in [Workers -> Instance] /\ inst[w] \in Instance
  BY DEF ControlInv, TypeOK
<1>2. inst' = [inst EXCEPT ![w] = [inst[w] EXCEPT !.status = "stale"]] /\ claim[w].step # "locked"
  BY DEF mark_stale_instances, Unlocked
<1>3. [inst[w] EXCEPT !.status = "stale"] \in Instance
      /\ [inst[w] EXCEPT !.status = "stale"].status = "stale"
  BY <1>1 DEF Instance, Statuses, INSTANCE_TRANSITIONS
<1>4. inst' \in [Workers -> Instance] /\ IntentOK(w)'
  BY <1>1, <1>2, <1>3 DEF IntentOK
<1>5. \A v \in Workers \ {w} : inst'[v] = inst[v]
  BY <1>1, <1>2
<1>6. QED BY <1>2, <1>4, <1>5, InstanceOnly DEF mark_stale_instances

\* upsert_pool touches no process.
LEMMA UpsertControl == ASSUME ControlInv, NEW n \in Desired, upsert_pool(n) PROVE ControlInv'
<1>1. TypeOK'
  BY DEF ControlInv, TypeOK, upsert_pool, local
<1>2. QED BY <1>1, ControlSame DEF upsert_pool

\* register: a booting process holds no claim.
LEMMA RegisterControl == ASSUME ControlInv, NEW w \in Workers, register(w) PROVE ControlInv'
<1>1. /\ inst \in [Workers -> Instance] /\ inst[w] \in Instance /\ phase \in [Workers -> Phases]
      /\ phase[w] = "boot"
  BY DEF ControlInv, TypeOK, register
<1>2. claim[w] = NoClaim
  BY <1>1 DEF ControlInv, Control, LockOK, TypeOK
<1>3. inst' = [inst EXCEPT ![w] = [inst[w] EXCEPT !.status = "starting"]]
      /\ phase' = [phase EXCEPT ![w] = "starting"]
  BY DEF register
<1>4. [inst[w] EXCEPT !.status = "starting"] \in Instance
      /\ [inst[w] EXCEPT !.status = "starting"].status = "starting"
  BY <1>1 DEF Instance, Statuses, INSTANCE_TRANSITIONS
<1>5. inst' \in [Workers -> Instance] /\ IntentOK(w)'
  BY <1>1, <1>3, <1>4 DEF IntentOK
<1>6. TypeOK'
  BY <1>5 DEF ControlInv, TypeOK, register, Phases
<1>7. \A v \in Workers \ {w} : inst'[v] = inst[v] /\ phase'[v] = phase[v]
  BY <1>1, <1>3
<1>8. LockOK(w)' /\ TickOK(w)'
  BY <1>2 DEF ControlInv, Control, LockOK, TickOK, register, NoClaim
<1>9. QED BY <1>5, <1>6, <1>7, <1>8, ControlStep DEF register

\* The last attempt of _become_ready.
LEMMA BecomeReadyControl ==
    ASSUME ControlInv, NEW w \in Workers, _become_ready(w) PROVE ControlInv'
<1>1. PICK ok \in BOOLEAN : _set_status(w, "ready", ok)
  BY DEF _become_ready
<1>2. PICK p \in {"loop", "dead"} : phase' = [phase EXCEPT ![w] = p]
  BY DEF _become_ready
<1>3. /\ inst' \in [Workers -> Instance] /\ IntentOK(w)'
      /\ \A v \in Workers \ {w} : inst'[v] = inst[v]
  BY <1>1, StatusTried
<1>4. phase \in [Workers -> Phases] /\ claim[w] = NoClaim
  BY DEF ControlInv, TypeOK, Control, LockOK, _become_ready
<1>5. phase' \in [Workers -> Phases] /\ \A v \in Workers \ {w} : phase'[v] = phase[v]
  BY <1>2, <1>4 DEF Phases, Background, Gone
<1>6. TypeOK'
  BY <1>3, <1>5 DEF ControlInv, TypeOK, _become_ready, local
<1>7. LockOK(w)' /\ TickOK(w)'
  BY <1>4 DEF ControlInv, Control, LockOK, TickOK, _become_ready, NoClaim
<1>8. QED BY <1>3, <1>5, <1>6, <1>7, ControlStep DEF _become_ready

\* The signal handler sets _stop.
LEMMA RequestStopControl == ASSUME ControlInv, NEW w \in Workers, request_stop(w) PROVE ControlInv'
<1>1. TypeOK'
  BY DEF ControlInv, TypeOK, request_stop, local
<1>2. QED BY <1>1, ControlSame DEF request_stop

\* Time passes without a confirmed tick.
LEMMA LagControl == ASSUME ControlInv, NEW w \in Workers, lag(w) PROVE ControlInv'
<1>1. TypeOK'
  BY DEF ControlInv, TypeOK, lag
<1>2. QED BY <1>1, ControlSame DEF lag

(* The claim.                                                              *)
LEMMA ClaimAllowedControl ==
    ASSUME ControlInv, NEW w \in Workers, _claim_allowed(w) PROVE ControlInv'
<1> DEFINE n == IF FreeSlots(w) < ClaimBatch THEN FreeSlots(w) ELSE ClaimBatch
           c == [step |-> "locked", jobs |-> {}, limit |-> n]
<1>1. CASE inst[w].drain /\ barrier' = [barrier EXCEPT ![w] = TRUE] /\ claim' = claim
  <2>1. TypeOK'
    BY <1>1 DEF ControlInv, TypeOK, _claim_allowed
  <2>2. QED BY <1>1, <2>1, ControlSame DEF _claim_allowed
<1>2. CASE /\ ~inst[w].drain /\ inst[w].status = "ready"
           /\ claim' = [claim EXCEPT ![w] = c] /\ barrier' = barrier
  <2>1. n \in Nat
    <3>1. slots[w] \in Nat
      BY RuntimeAssumption DEF ControlInv, TypeOK
    <3>2. IsFiniteSet(Tracked(w))
      BY RuntimeAssumption, FS_Subset DEF Tracked
    <3>3. Cardinality(Tracked(w)) \in Nat
      BY <3>2, FS_CardinalityType
    <3>4. FreeSlots(w) \in Int /\ FreeSlots(w) > 0
      BY <3>1, <3>3, RuntimeAssumption DEF FreeSlots, effective_concurrency, _claim_allowed
    <3>5. QED BY <3>4, RuntimeAssumption
  <2> HIDE DEF n
  <2>2. c \in Claim
    BY <2>1 DEF Claim
  <2>3. TypeOK'
    BY <1>2, <2>2 DEF ControlInv, TypeOK, _claim_allowed
  <2>4. claim'[w].step = "locked" /\ claim'[w].jobs = {}
        /\ \A v \in Workers \ {w} : claim'[v] = claim[v]
    BY <1>2 DEF ControlInv, TypeOK
  <2>5. inst[w] = [status |-> "ready", drain |-> FALSE]
    <3>1. inst[w] \in Instance
      BY DEF ControlInv, TypeOK
    <3>2. inst[w].drain = FALSE
      BY <1>2, <3>1 DEF Instance
    <3>3. QED BY <1>2, <3>1, <3>2 DEF Instance
  <2>6. LockOK(w)'
    BY <2>4, <2>5 DEF LockOK, _claim_allowed, claiming
  <2>7. IntentOK(w)' /\ TickOK(w)'
    BY DEF ControlInv, Control, IntentOK, TickOK, _claim_allowed
  <2>8. QED BY <2>3, <2>4, <2>6, <2>7, ControlStep DEF _claim_allowed
<1>3. QED BY <1>1, <1>2 DEF _claim_allowed

\* The claim commits: a handle is left for every job it takes.
LEMMA ClaimCommitControl ==
    ASSUME ControlInv, NEW w \in Workers, claim_commit(w) PROVE ControlInv'
<1>1. PICK S \in SUBSET Jobs :
        /\ \A j \in S : \E h \in 1..Handles : task[w][j][h] = "none"
        /\ row' = [j \in Jobs |-> IF j \in S THEN Leased(w) ELSE row[j]]
        /\ claim' = [claim EXCEPT ![w] = [claim[w] EXCEPT !.step = "taken", !.jobs = S]]
  BY DEF claim_commit
<1>2. row' \in [Jobs -> Row] /\ \A j \in Jobs : row'[j].owner = Nobody <=> row'[j].status # "leased"
  BY <1>1, RowShapes DEF ControlInv, TypeOK
<1>3. claim \in [Workers -> Claim] /\ claim[w] \in Claim /\ claim[w].step = "locked"
  BY DEF ControlInv, TypeOK, claim_commit
<1>4. [claim[w] EXCEPT !.step = "taken", !.jobs = S] \in Claim
      /\ [claim[w] EXCEPT !.step = "taken", !.jobs = S].step = "taken"
      /\ [claim[w] EXCEPT !.step = "taken", !.jobs = S].jobs = S
  BY <1>3 DEF Claim
<1>5. TypeOK'
  BY <1>1, <1>2, <1>4 DEF ControlInv, TypeOK, claim_commit, local
<1>6. claim'[w].step = "taken" /\ claim'[w].jobs = S /\ \A v \in Workers \ {w} : claim'[v] = claim[v]
  BY <1>1, <1>3, <1>4
<1>7. phase[w] = "loop"
  BY <1>3 DEF ControlInv, Control, LockOK
<1>8. LockOK(w)' /\ IntentOK(w)' /\ TickOK(w)'
  BY <1>1, <1>6, <1>7 DEF ControlInv, Control, LockOK, IntentOK, TickOK, claim_commit
<1>9. QED BY <1>5, <1>6, <1>8, ControlStep DEF claim_commit

(* A claim that is given up, or handed to _start.                          *)
LEMMA ClaimEnds ==
    ASSUME ControlInv, NEW w \in Workers, claim' = [claim EXCEPT ![w] = NoClaim], TypeOK',
           UNCHANGED <<inst, phase, beat>>, \A v \in Workers \ {w} : task'[v] = task[v]
    PROVE  ControlInv'
<1>1. claim'[w] = NoClaim /\ \A v \in Workers \ {w} : claim'[v] = claim[v]
  BY DEF ControlInv, TypeOK
<1>2. LockOK(w)' /\ IntentOK(w)' /\ TickOK(w)'
  BY <1>1 DEF ControlInv, Control, LockOK, IntentOK, TickOK, NoClaim
<1>3. QED BY <1>1, <1>2, ControlStep

\* The claim ends without an answer.
LEMMA ClaimFailedControl == ASSUME ControlInv, NEW w \in Workers, claim_failed(w) PROVE ControlInv'
<1>1. NoClaim \in Claim
  BY DEF NoClaim, Claim
<1>2. TypeOK'
  BY <1>1 DEF ControlInv, TypeOK, claim_failed, local
<1>3. QED BY <1>2, ClaimEnds DEF claim_failed

(* What _start does: a handle for every job taken, or for none.            *)
LEMMA Started ==
    ASSUME ControlInv, NEW w \in Workers, claim_resume(w)
    PROVE  \E S \in SUBSET claim[w].jobs :
              /\ \A j \in Jobs : active'[w][j] = IF j \in S THEN FreeHandle(w, j) ELSE active[w][j]
              /\ \A j \in Jobs, h \in 1..Handles :
                    task'[w][j][h] = IF j \in S /\ h = FreeHandle(w, j) THEN "handling"
                                                                        ELSE task[w][j][h]
              /\ \A j \in S : FreeHandle(w, j) \in 1..Handles /\ task[w][j][FreeHandle(w, j)] = "none"
              /\ active' \in [Workers -> [Jobs -> 0..Handles]]
              /\ task' \in [Workers -> [Jobs -> Coroutines]]
              /\ \A v \in Workers \ {w} : active'[v] = active[v] /\ task'[v] = task[v]
<1> DEFINE S == IF fenced[w] THEN {} ELSE claim[w].jobs
           f(j) == FreeHandle(w, j)
           a == [j \in Jobs |-> IF j \in S THEN f(j) ELSE active[w][j]]
           c(j) == IF j \in S THEN [task[w][j] EXCEPT ![f(j)] = "handling"] ELSE task[w][j]
           t == [j \in Jobs |-> c(j)]
<1>1. S \in SUBSET claim[w].jobs
  OBVIOUS
<1>2. \A j \in S : f(j) \in 1..Handles /\ task[w][j][f(j)] = "none"
  BY DEF FreeHandle, ControlInv, Control, LockOK
<1>3. active' = [active EXCEPT ![w] = a] /\ task' = [task EXCEPT ![w] = t]
  BY DEF claim_resume
<1> HIDE DEF S, f
<1>4. active \in [Workers -> [Jobs -> 0..Handles]] /\ task \in [Workers -> [Jobs -> Coroutines]]
  BY DEF ControlInv, TypeOK
<1>5. a \in [Jobs -> 0..Handles] /\ \A j \in Jobs : a[j] = IF j \in S THEN f(j) ELSE active[w][j]
  BY <1>2, <1>4, RuntimeAssumption
<1>6. ASSUME NEW j \in Jobs
      PROVE  /\ c(j) \in Coroutines
             /\ \A h \in 1..Handles :
                   c(j)[h] = IF j \in S /\ h = f(j) THEN "handling" ELSE task[w][j][h]
  <2>1. task[w][j] \in Coroutines
    BY <1>4
  <2>2. CASE j \in S
    <3>1. c(j) = [task[w][j] EXCEPT ![f(j)] = "handling"]
      BY <2>2
    <3>2. f(j) \in 1..Handles
      BY <1>2, <2>2
    <3>3. QED BY <2>1, <2>2, <3>1, <3>2 DEF Coroutines, TaskStates
  <2>3. CASE j \notin S
    BY <2>1, <2>3
  <2>4. QED BY <2>2, <2>3
<1> HIDE DEF a, c
<1>7. t \in [Jobs -> Coroutines] /\ \A j \in Jobs : t[j] = c(j)
  BY <1>6
<1> HIDE DEF t
<1>8. /\ active' \in [Workers -> [Jobs -> 0..Handles]]
      /\ task' \in [Workers -> [Jobs -> Coroutines]]
      /\ active'[w] = a /\ task'[w] = t
      /\ \A v \in Workers \ {w} : active'[v] = active[v] /\ task'[v] = task[v]
  BY <1>3, <1>4, <1>5, <1>7
<1>9. \A j \in Jobs, h \in 1..Handles :
         task'[w][j][h] = IF j \in S /\ h = f(j) THEN "handling" ELSE task[w][j][h]
  BY <1>6, <1>7, <1>8
<1>10. QED BY <1>1, <1>2, <1>5, <1>8, <1>9 DEF f

\* The rest of _claim.
LEMMA ClaimResumeControl == ASSUME ControlInv, NEW w \in Workers, claim_resume(w) PROVE ControlInv'
<1>1. /\ active' \in [Workers -> [Jobs -> 0..Handles]]
      /\ task' \in [Workers -> [Jobs -> Coroutines]]
      /\ \A v \in Workers \ {w} : task'[v] = task[v]
  BY Started
<1>2. NoClaim \in Claim
  BY DEF NoClaim, Claim
<1>3. TypeOK'
  BY <1>1, <1>2 DEF ControlInv, TypeOK, claim_resume, local
<1>4. QED BY <1>1, <1>3, ClaimEnds DEF claim_resume

(* A row of the queue written by a step other than a claim.                *)
LEMMA RowWritten ==
    ASSUME TypeOK, NEW j \in Jobs, NEW r \in {Done, Queued(TRUE), Queued(FALSE)},
           row' = [row EXCEPT ![j] = r]
    PROVE  /\ row' \in [Jobs -> Row]
           /\ \A k \in Jobs : row'[k].owner = Nobody <=> row'[k].status # "leased"
<1>1. r \in Row /\ r.owner = Nobody /\ r.status # "leased"
  <2>1. /\ Done \in Row /\ Queued(TRUE) \in Row /\ Queued(FALSE) \in Row
        /\ Done.owner = Nobody /\ Queued(TRUE).owner = Nobody /\ Queued(FALSE).owner = Nobody
        /\ Done.status # "leased" /\ Queued(TRUE).status # "leased"
        /\ Queued(FALSE).status # "leased"
    BY DEF Done, Queued, Row
  <2>2. QED BY <2>1
<1>2. QED BY <1>1 DEF TypeOK

(* A step that writes one row of the queue and nothing else.               *)
LEMMA RowOnly ==
    ASSUME ControlInv, NEW j \in Jobs, NEW r \in {Done, Queued(TRUE), Queued(FALSE)},
           row' = [row EXCEPT ![j] = r],
           UNCHANGED <<pool, inst, phase, stop, local, active, task, claim, beat, pending>>
    PROVE  ControlInv'
<1>1. TypeOK'
  BY RowWritten DEF ControlInv, TypeOK, local
<1>2. QED BY <1>1, ControlSame

\* The queue's other users write one row.
LEMMA QueueControl == ASSUME ControlInv, QueueStep PROVE ControlInv'
  BY RowOnly DEF QueueStep, recover_expired_leases, quarantine_operator, ripen

(* One coroutine moves on: that task changes and no other.                 *)
TaskTo(w, j, h, st) == task' = [task EXCEPT ![w][j][h] = st]
TaskMoved(w, j, h, st) ==
    /\ task' \in [Workers -> [Jobs -> Coroutines]]
    /\ \A v \in Workers, k \in Jobs, g \in 1..Handles :
          task'[v][k][g] = IF v = w /\ k = j /\ g = h THEN st ELSE task[v][k][g]
    /\ \A v \in Workers \ {w} : task'[v] = task[v]

\* One coroutine moves on, pointwise.
LEMMA OneTask ==
    ASSUME TypeOK, NEW w \in Workers, NEW j \in Jobs, NEW h \in 1..Handles, NEW st \in TaskStates,
           TaskTo(w, j, h, st)
    PROVE  TaskMoved(w, j, h, st)
<1> DEFINE c == [task[w][j] EXCEPT ![h] = st]
           t == [task[w] EXCEPT ![j] = c]
<1>1. task \in [Workers -> [Jobs -> Coroutines]] /\ task' = [task EXCEPT ![w] = t]
  BY DEF TypeOK, TaskTo
<1>2. task[w] \in [Jobs -> Coroutines] /\ task[w][j] \in Coroutines
  BY <1>1
<1>3. c \in Coroutines /\ \A g \in 1..Handles : c[g] = IF g = h THEN st ELSE task[w][j][g]
  BY <1>2 DEF Coroutines
<1> HIDE DEF c
<1>4. t \in [Jobs -> Coroutines] /\ \A k \in Jobs : t[k] = IF k = j THEN c ELSE task[w][k]
  BY <1>2, <1>3
<1>5. \A k \in Jobs, g \in 1..Handles : t[k][g] = IF k = j /\ g = h THEN st ELSE task[w][k][g]
  BY <1>3, <1>4
<1> HIDE DEF t
<1>6. /\ task' \in [Workers -> [Jobs -> Coroutines]]
      /\ \A v \in Workers : task'[v] = IF v = w THEN t ELSE task[v]
  BY <1>1, <1>4
<1>7. QED BY <1>5, <1>6 DEF TaskMoved

\* _report.
LEMMA ReportControl ==
    ASSUME ControlInv, NEW w \in Workers, NEW j \in Jobs, NEW h \in 1..Handles, _report(w, j, h)
    PROVE  ControlInv'
<1>1. "reported" \in TaskStates /\ task[w][j][h] = "handling" /\ TypeOK
  BY DEF TaskStates, _report, ControlInv
<1>2. /\ task' \in [Workers -> [Jobs -> Coroutines]]
      /\ \A v \in Workers, k \in Jobs, g \in 1..Handles :
            task[v][k][g] = "none" => task'[v][k][g] = "none"
  <2>1. TaskTo(w, j, h, "reported")
    BY DEF _report, TaskTo
  <2>2. TaskMoved(w, j, h, "reported")
    BY <1>1, <2>1, OneTask
  <2>3. QED BY <1>1, <2>2 DEF TaskMoved
<1>3. row' = row \/ \E r \in {Done, Queued(TRUE), Queued(FALSE)} : row' = [row EXCEPT ![j] = r]
  BY DEF _report, CrawlJobsBackend
<1>4. /\ row' \in [Jobs -> Row]
      /\ \A k \in Jobs : row'[k].owner = Nobody <=> row'[k].status # "leased"
  BY <1>1, <1>3, RowWritten DEF TypeOK
<1>5. TypeOK'
  BY <1>2, <1>4 DEF ControlInv, TypeOK, _report, local
<1>6. QED BY <1>2, <1>5, ControlTasks DEF _report

(* The entry that the end of _execute pops.                                *)
LEMMA OneEntry ==
    ASSUME TypeOK, NEW w \in Workers, NEW j \in Jobs, NEW n \in 0..Handles,
           active' = [active EXCEPT ![w][j] = n]
    PROVE  /\ active' \in [Workers -> [Jobs -> 0..Handles]]
           /\ \A k \in Jobs : active'[w][k] = IF k = j THEN n ELSE active[w][k]
           /\ \A v \in Workers \ {w} : active'[v] = active[v]
<1>1. /\ active \in [Workers -> [Jobs -> 0..Handles]]
      /\ active' = [active EXCEPT ![w] = [active[w] EXCEPT ![j] = n]]
  BY DEF TypeOK
<1>2. active[w] \in [Jobs -> 0..Handles]
  BY <1>1
<1>3. QED BY <1>1, <1>2

\* The entry after the end of _execute, pointwise.
LEMMA Ended ==
    ASSUME TypeOK, NEW w \in Workers, NEW j \in Jobs, NEW h \in 1..Handles, _execute_end(w, j, h)
    PROVE  /\ active' \in [Workers -> [Jobs -> 0..Handles]]
           /\ \A k \in Jobs : active'[w][k] = IF k = j /\ task[w][j][h] = "reported"
                                              THEN 0 ELSE active[w][k]
           /\ \A v \in Workers \ {w} : active'[v] = active[v]
<1>1. active \in [Workers -> [Jobs -> 0..Handles]]
  BY DEF TypeOK
<1>2. PICK n \in 0..Handles :
        n = IF task[w][j][h] = "reported" THEN 0 ELSE active[w][j]
  BY <1>1, RuntimeAssumption
<1>3. active' = [active EXCEPT ![w][j] = n]
  BY <1>1, <1>2 DEF _execute_end
<1>4. /\ active' \in [Workers -> [Jobs -> 0..Handles]]
      /\ \A k \in Jobs : active'[w][k] = IF k = j THEN n ELSE active[w][k]
      /\ \A v \in Workers \ {w} : active'[v] = active[v]
  BY <1>3, OneEntry
<1>5. QED BY <1>2, <1>4

\* The end of _execute gives a handle back.
LEMMA ExecuteEndControl ==
    ASSUME ControlInv, NEW w \in Workers, NEW j \in Jobs, NEW h \in 1..Handles,
           _execute_end(w, j, h)
    PROVE  ControlInv'
<1>1. "none" \in TaskStates /\ TypeOK
  BY DEF TaskStates, ControlInv
<1>2. /\ task' \in [Workers -> [Jobs -> Coroutines]]
      /\ \A v \in Workers, k \in Jobs, g \in 1..Handles :
            task[v][k][g] = "none" => task'[v][k][g] = "none"
  <2>1. TaskTo(w, j, h, "none")
    BY DEF _execute_end, TaskTo
  <2>2. TaskMoved(w, j, h, "none")
    BY <1>1, <2>1, OneTask
  <2>3. QED BY <1>1, <2>2 DEF TaskMoved
<1>3. active' \in [Workers -> [Jobs -> 0..Handles]]
  BY <1>1, Ended
<1>4. TypeOK'
  BY <1>2, <1>3 DEF ControlInv, TypeOK, _execute_end, local
<1>5. QED BY <1>2, <1>4, ControlTasks DEF _execute_end

(* Cancelling reaches the tasks it names and no others.                    *)
LEMMA Cancelled ==
    ASSUME TypeOK, NEW w \in Workers, NEW hs, Cancel(w, hs)
    PROVE  /\ task' \in [Workers -> [Jobs -> Coroutines]]
           /\ \A j \in Jobs, h \in 1..Handles :
                 task'[w][j][h] = IF <<j, h>> \in hs /\ task[w][j][h] # "none"
                                  THEN "cancelled" ELSE task[w][j][h]
           /\ \A v \in Workers \ {w} : task'[v] = task[v]
<1> DEFINE c(j) == [h \in 1..Handles |->
                      IF <<j, h>> \in hs /\ task[w][j][h] # "none" THEN "cancelled" ELSE task[w][j][h]]
           t == [j \in Jobs |-> c(j)]
<1>1. task' = [task EXCEPT ![w] = t]
  BY DEF Cancel
<1>2. task \in [Workers -> [Jobs -> Coroutines]]
  BY DEF TypeOK
<1>3. ASSUME NEW j \in Jobs
      PROVE  /\ c(j) \in Coroutines
             /\ \A h \in 1..Handles : c(j)[h] = IF <<j, h>> \in hs /\ task[w][j][h] # "none"
                                                THEN "cancelled" ELSE task[w][j][h]
  <2>1. task[w][j] \in Coroutines
    BY <1>2
  <2>2. QED BY <2>1 DEF Coroutines, TaskStates
<1> HIDE DEF c
<1>4. t \in [Jobs -> Coroutines] /\ \A j \in Jobs : t[j] = c(j)
  BY <1>3
<1> HIDE DEF t
<1>5. /\ task' \in [Workers -> [Jobs -> Coroutines]]
      /\ \A v \in Workers : task'[v] = IF v = w THEN t ELSE task[v]
  BY <1>1, <1>2, <1>4
<1>6. QED BY <1>3, <1>4, <1>5

(* _abandon drops the entries of S and cancels the tasks filed there.      *)
Dropped(w, S) ==
    /\ active' \in [Workers -> [Jobs -> 0..Handles]]
    /\ task' \in [Workers -> [Jobs -> Coroutines]]
    /\ \A j \in Jobs : active'[w][j] = IF j \in S THEN 0 ELSE active[w][j]
    /\ \A j \in Jobs, h \in 1..Handles :
          task'[w][j][h] = IF j \in S /\ active[w][j] = h /\ task[w][j][h] # "none"
                           THEN "cancelled" ELSE task[w][j][h]
    /\ \A v \in Workers \ {w} : active'[v] = active[v] /\ task'[v] = task[v]

\* _abandon, pointwise.
LEMMA Abandoned ==
    ASSUME TypeOK, NEW w \in Workers, NEW S, _abandon(w, S)
    PROVE  Dropped(w, S)
<1> DEFINE hs == {<<j, active[w][j]>> : j \in S \cap Tracked(w)}
           a == [j \in Jobs |-> IF j \in S THEN 0 ELSE active[w][j]]
<1>1. active \in [Workers -> [Jobs -> 0..Handles]]
  BY DEF TypeOK
<1>2. \A j \in Jobs, h \in 1..Handles : <<j, h>> \in hs <=> j \in S /\ active[w][j] = h
  BY DEF Tracked
<1>3. Cancel(w, hs) /\ active' = [active EXCEPT ![w] = a]
  BY DEF _abandon
<1> HIDE DEF hs
<1>4. /\ task' \in [Workers -> [Jobs -> Coroutines]]
      /\ \A j \in Jobs, h \in 1..Handles :
            task'[w][j][h] = IF <<j, h>> \in hs /\ task[w][j][h] # "none"
                             THEN "cancelled" ELSE task[w][j][h]
      /\ \A v \in Workers \ {w} : task'[v] = task[v]
  BY <1>3, Cancelled
<1>5. a \in [Jobs -> 0..Handles] /\ \A j \in Jobs : a[j] = IF j \in S THEN 0 ELSE active[w][j]
  BY <1>1, RuntimeAssumption
<1> HIDE DEF a
<1>6. /\ active' \in [Workers -> [Jobs -> 0..Handles]] /\ active'[w] = a
      /\ \A v \in Workers \ {w} : active'[v] = active[v]
  BY <1>1, <1>3, <1>5
<1>7. \A j \in Jobs, h \in 1..Handles :
         task'[w][j][h] = IF j \in S /\ active[w][j] = h /\ task[w][j][h] # "none"
                          THEN "cancelled" ELSE task[w][j][h]
  BY <1>2, <1>4
<1>8. QED BY <1>4, <1>5, <1>6, <1>7 DEF Dropped

(* A step of the heartbeat that writes its own state and the flags.        *)
LEMMA TickWritten ==
    ASSUME ControlInv, NEW w \in Workers, NEW b \in Beat, beat' = [beat EXCEPT ![w] = b],
           b.step = "none" => b = NoBeat, b.step = "answered" => b.desired \in Desired,
           UNCHANGED <<row, pool, inst, phase, active, task, claim, pending>>,
           stop' \in [Workers -> BOOLEAN], slots' \in [Workers -> Desired],
           barrier' \in [Workers -> BOOLEAN], fenced' \in [Workers -> BOOLEAN],
           overdue' \in [Workers -> BOOLEAN]
    PROVE  ControlInv'
<1>1. beat' \in [Workers -> Beat] /\ beat'[w] = b /\ \A v \in Workers \ {w} : beat'[v] = beat[v]
  BY DEF ControlInv, TypeOK
<1>2. TypeOK'
  BY <1>1 DEF ControlInv, TypeOK
<1>3. LockOK(w)' /\ IntentOK(w)' /\ TickOK(w)'
  BY <1>1 DEF ControlInv, Control, LockOK, IntentOK, TickOK
<1>4. QED BY <1>1, <1>2, <1>3, ControlStep

\* _heartbeat starts.
LEMMA TickBeginControl == ASSUME ControlInv, NEW w \in Workers, tick_begin(w) PROVE ControlInv'
<1> DEFINE b == [NoBeat EXCEPT !.step = "sent", !.jobs = Tracked(w)]
<1>1. b \in Beat /\ b.step = "sent"
  BY DEF Beat, NoBeat, Tracked
<1>2. beat' = [beat EXCEPT ![w] = b]
  BY DEF tick_begin
<1> HIDE DEF b
<1>3. UNCHANGED <<row, pool, inst, phase, stop, slots, barrier, fenced, overdue, active, task,
                  claim, pending>>
  BY DEF tick_begin, local
<1>4. QED BY <1>1, <1>2, <1>3, TickWritten DEF ControlInv, TypeOK

(* The row that a heartbeat writes agrees with its intent.                 *)
LEMMA BeatenRow ==
    ASSUME ControlInv, NEW w \in Workers, inst' = [inst EXCEPT ![w] = heartbeat_instance(@)]
    PROVE  /\ inst' \in [Workers -> Instance] /\ IntentOK(w)'
           /\ \A v \in Workers \ {w} : inst'[v] = inst[v]
<1>1. inst \in [Workers -> Instance] /\ inst[w] \in Instance
  BY DEF ControlInv, TypeOK
<1>2. PICK st \in Statuses :
        st = IF inst[w].status # "stale" THEN inst[w].status
             ELSE IF inst[w].drain THEN "draining" ELSE "ready"
  BY <1>1 DEF Instance, Statuses, INSTANCE_TRANSITIONS
<1>3. inst' = [inst EXCEPT ![w] = [inst[w] EXCEPT !.status = st]]
  BY <1>2 DEF heartbeat_instance
<1>4. /\ [inst[w] EXCEPT !.status = st] \in Instance
      /\ [inst[w] EXCEPT !.status = st].status = st
      /\ [inst[w] EXCEPT !.status = st].drain = inst[w].drain
  BY <1>1, <1>2 DEF Instance
<1>5. inst'[w].status = st /\ inst'[w].drain = inst[w].drain
  BY <1>1, <1>3, <1>4
<1>6. (st = "ready" => ~inst[w].drain) /\ (st = "draining" => inst[w].drain)
  BY <1>2 DEF ControlInv, Control, IntentOK
<1>7. IntentOK(w)'
  BY <1>5, <1>6 DEF IntentOK
<1>8. QED BY <1>1, <1>3, <1>4, <1>7

\* The transaction of a tick waits for the lock of a claim.
LEMMA TickCommitControl == ASSUME ControlInv, NEW w \in Workers, tick_commit(w) PROVE ControlInv'
<1> DEFINE lost == {j \in beat[w].jobs : ~Owned(w, j)}
<1>1. beat \in [Workers -> Beat] /\ beat[w] \in Beat /\ inst[w] \in Instance /\ pool \in Desired
  BY DEF ControlInv, TypeOK
<1>2. PICK d \in BOOLEAN : d = inst[w].drain
  BY <1>1 DEF Instance
<1> DEFINE b == [step |-> "answered", jobs |-> lost, drain |-> d, desired |-> pool]
<1>3. lost \in SUBSET Jobs
  BY <1>1 DEF Beat
<1>4. beat' = [beat EXCEPT ![w] = b]
  BY <1>2 DEF tick_commit
<1> HIDE DEF lost
<1>5. b \in Beat /\ b.step = "answered" /\ b.desired \in Desired
  BY <1>1, <1>2, <1>3, RuntimeAssumption DEF Beat
<1> HIDE DEF b
<1>6. beat' \in [Workers -> Beat] /\ beat'[w] = b /\ \A v \in Workers \ {w} : beat'[v] = beat[v]
  BY <1>1, <1>4, <1>5
<1>7. /\ inst' \in [Workers -> Instance] /\ IntentOK(w)'
      /\ \A v \in Workers \ {w} : inst'[v] = inst[v]
  BY BeatenRow DEF tick_commit
<1>8. TypeOK'
  BY <1>6, <1>7 DEF ControlInv, TypeOK, tick_commit, local
<1>9. LockOK(w)' /\ TickOK(w)'
  BY <1>5, <1>6 DEF ControlInv, Control, LockOK, TickOK, tick_commit, Unlocked
<1>10. QED BY <1>6, <1>7, <1>8, <1>9, ControlStep DEF tick_commit

\* The tick of a stopped instance.
LEMMA TickRejectedControl == ASSUME ControlInv, NEW w \in Workers, tick_rejected(w) PROVE ControlInv'
<1>1. NoBeat \in Beat /\ NoBeat.step = "none"
  BY DEF NoBeat, Beat
<1>2. /\ beat' = [beat EXCEPT ![w] = NoBeat] /\ stop' = [stop EXCEPT ![w] = TRUE]
      /\ UNCHANGED <<row, pool, inst, phase, slots, barrier, fenced, overdue, active, task,
                     claim, pending>>
  BY DEF tick_rejected, local
<1>3. stop' \in [Workers -> BOOLEAN]
  BY <1>2 DEF ControlInv, TypeOK
<1>4. QED BY <1>1, <1>2, <1>3, TickWritten DEF ControlInv, TypeOK

(* Cancelling tasks and dropping entries takes no handle.                  *)
LEMMA AbandonControl ==
    ASSUME ControlInv, NEW w \in Workers, NEW S, _abandon(w, S),
           beat' \in [Workers -> Beat], beat'[w] \in {beat[w], NoBeat},
           \A v \in Workers \ {w} : beat'[v] = beat[v],
           UNCHANGED <<row, pool, inst, phase, stop, claim, pending>>,
           slots' \in [Workers -> Desired], barrier' \in [Workers -> BOOLEAN],
           fenced' \in [Workers -> BOOLEAN], overdue' \in [Workers -> BOOLEAN]
    PROVE  ControlInv'
<1>1. TypeOK
  BY DEF ControlInv
<1>2. /\ active' \in [Workers -> [Jobs -> 0..Handles]]
      /\ task' \in [Workers -> [Jobs -> Coroutines]]
      /\ \A j \in Jobs, h \in 1..Handles : task[w][j][h] = "none" => task'[w][j][h] = "none"
      /\ \A v \in Workers \ {w} : task'[v] = task[v]
  <2>1. Dropped(w, S)
    BY <1>1, Abandoned
  <2>2. QED BY <2>1 DEF Dropped
<1>3. TypeOK'
  BY <1>2 DEF ControlInv, TypeOK
<1>4. claim[w].jobs \subseteq Jobs
  BY DEF ControlInv, TypeOK, Claim
<1>5. LockOK(w)' /\ IntentOK(w)'
  BY <1>2, <1>4 DEF ControlInv, Control, LockOK, IntentOK
<1>6. TickOK(w)'
  BY DEF ControlInv, Control, TickOK, NoBeat
<1>7. QED BY <1>2, <1>3, <1>5, <1>6, ControlStep

(* A step of the heartbeat that ends it.                                   *)
LEMMA BeatEnds ==
    ASSUME ControlInv, NEW w \in Workers, beat' = [beat EXCEPT ![w] = NoBeat]
    PROVE  /\ beat' \in [Workers -> Beat] /\ beat'[w] = NoBeat
           /\ \A v \in Workers \ {w} : beat'[v] = beat[v]
<1>1. NoBeat \in Beat
  BY DEF NoBeat, Beat
<1>2. QED BY <1>1 DEF ControlInv, TypeOK

\* A failed tick, with or without the fence.
LEMMA TickFailedControl == ASSUME ControlInv, NEW w \in Workers, tick_failed(w) PROVE ControlInv'
<1>1. /\ beat' = [beat EXCEPT ![w] = NoBeat] /\ overdue' = [overdue EXCEPT ![w] = TRUE]
      /\ UNCHANGED <<row, pool, inst, phase, stop, slots, barrier, claim, pending>>
  BY DEF tick_failed
<1>2. overdue' \in [Workers -> BOOLEAN]
  BY <1>1 DEF ControlInv, TypeOK
<1>3. /\ beat' \in [Workers -> Beat] /\ beat'[w] = NoBeat
      /\ \A v \in Workers \ {w} : beat'[v] = beat[v]
  BY <1>1, BeatEnds
<1>4. CASE _fence_if_lease_unconfirmed(w)
  <2>1. fenced' \in [Workers -> BOOLEAN]
    BY <1>4 DEF ControlInv, TypeOK, _fence_if_lease_unconfirmed
  <2>2. QED BY <1>1, <1>2, <1>3, <1>4, <2>1, AbandonControl
          DEF ControlInv, TypeOK, _fence_if_lease_unconfirmed
<1>5. CASE UNCHANGED <<fenced, active, task>>
  <2>1. NoBeat \in Beat /\ NoBeat.step = "none"
    BY DEF NoBeat, Beat
  <2>2. QED BY <1>1, <1>2, <1>5, <2>1, TickWritten DEF ControlInv, TypeOK
<1>6. QED BY <1>4, <1>5 DEF tick_failed

\* The answer of a tick is applied.
LEMMA TickApplyControl == ASSUME ControlInv, NEW w \in Workers, tick_apply(w) PROVE ControlInv'
<1>1. /\ beat' = [beat EXCEPT ![w] = NoBeat] /\ overdue' = [overdue EXCEPT ![w] = FALSE]
      /\ fenced' = [fenced EXCEPT ![w] = FALSE]
      /\ slots' = [slots EXCEPT ![w] = beat[w].desired]
      /\ barrier' = [barrier EXCEPT ![w] = beat[w].drain]
      /\ _abandon(w, beat[w].jobs) /\ beat[w].step = "answered"
      /\ UNCHANGED <<row, pool, inst, phase, stop, claim, pending>>
  BY DEF tick_apply
<1>2. beat[w] \in Beat /\ beat[w].desired \in Desired
  BY <1>1 DEF ControlInv, TypeOK, Control, TickOK
<1>3. PICK d \in BOOLEAN : d = beat[w].drain
  BY <1>2 DEF Beat
<1>4. /\ slots' \in [Workers -> Desired] /\ barrier' \in [Workers -> BOOLEAN]
      /\ fenced' \in [Workers -> BOOLEAN] /\ overdue' \in [Workers -> BOOLEAN]
  BY <1>1, <1>2, <1>3 DEF ControlInv, TypeOK
<1>5. /\ beat' \in [Workers -> Beat] /\ beat'[w] = NoBeat
      /\ \A v \in Workers \ {w} : beat'[v] = beat[v]
  BY <1>1, BeatEnds
<1>6. QED BY <1>1, <1>4, <1>5, AbandonControl

\* The watchdog fences.
LEMMA WatchdogControl == ASSUME ControlInv, NEW w \in Workers, watchdog(w) PROVE ControlInv'
<1>1. /\ fenced' = [fenced EXCEPT ![w] = TRUE] /\ _abandon(w, Tracked(w))
      /\ UNCHANGED <<row, pool, inst, phase, stop, slots, barrier, overdue, claim, beat, pending>>
  BY DEF watchdog, _fence_if_lease_unconfirmed
<1>2. fenced' \in [Workers -> BOOLEAN]
  BY <1>1 DEF ControlInv, TypeOK
<1>3. QED BY <1>1, <1>2, AbandonControl DEF ControlInv, TypeOK

(* The drain.                                                              *)
LEMMA DrainBeginControl == ASSUME ControlInv, NEW w \in Workers, drain_begin(w) PROVE ControlInv'
<1>1. /\ phase \in [Workers -> Phases] /\ phase' = [phase EXCEPT ![w] = "drain"]
      /\ claim[w] = NoClaim
  BY DEF ControlInv, TypeOK, drain_begin
<1>2. phase' \in [Workers -> Phases] /\ \A v \in Workers \ {w} : phase'[v] = phase[v]
  BY <1>1 DEF Phases, Background
<1>3. TypeOK'
  BY <1>2 DEF ControlInv, TypeOK, drain_begin, local
<1>4. IntentOK(w)' /\ LockOK(w)' /\ TickOK(w)'
  BY <1>1 DEF ControlInv, Control, IntentOK, LockOK, TickOK, drain_begin, NoClaim
<1>5. QED BY <1>2, <1>3, <1>4, ControlStep DEF drain_begin

(* Past the loop there is no claim, so a later phase keeps Control.        *)
LEMMA DrainMoves ==
    ASSUME ControlInv, NEW w \in Workers, phase[w] # "loop",
           NEW p \in Phases, phase' = [phase EXCEPT ![w] = p],
           inst' \in [Workers -> Instance], IntentOK(w)',
           \A v \in Workers \ {w} : inst'[v] = inst[v] /\ task'[v] = task[v] /\ beat'[v] = beat[v],
           beat' \in [Workers -> Beat], beat'[w] \in {beat[w], NoBeat},
           task' \in [Workers -> [Jobs -> Coroutines]],
           active' \in [Workers -> [Jobs -> 0..Handles]],
           pending' \in [Workers -> SUBSET (Jobs \X (1..Handles))],
           claim' = claim \/ claim' = [claim EXCEPT ![w] = NoClaim],
           UNCHANGED <<row, pool, stop, local>>
    PROVE  ControlInv'
<1>1. claim[w] = NoClaim
  BY DEF ControlInv, TypeOK, Control, LockOK
<1>2. NoClaim \in Claim
  BY DEF NoClaim, Claim
<1>3. claim' = claim
  BY <1>1 DEF ControlInv, TypeOK
<1>4. phase' \in [Workers -> Phases] /\ \A v \in Workers \ {w} : phase'[v] = phase[v]
  BY DEF ControlInv, TypeOK
<1>5. TypeOK'
  BY <1>3, <1>4 DEF ControlInv, TypeOK, local
<1>6. LockOK(w)' /\ TickOK(w)'
  BY <1>1, <1>3 DEF ControlInv, Control, LockOK, TickOK, NoClaim, NoBeat
<1>7. QED BY <1>3, <1>4, <1>5, <1>6, ControlStep

(* The handles a drain waits for are handles.                              *)
LEMMA HandleSet ==
    ASSUME TypeOK, NEW w \in Workers
    PROVE  ActiveHandles(w) \in SUBSET (Jobs \X (1..Handles))
<1>1. \A j \in Jobs : active[w][j] \in 0..Handles
  BY DEF TypeOK
<1>2. \A j \in Tracked(w) : j \in Jobs /\ active[w][j] \in 1..Handles
  BY <1>1, RuntimeAssumption DEF Tracked
<1>3. QED BY <1>2 DEF ActiveHandles

\* _drain writes draining and lists what it waits for.
LEMMA DrainStatusControl == ASSUME ControlInv, NEW w \in Workers, drain_status(w) PROVE ControlInv'
<1>1. PICK ok \in BOOLEAN : _set_status(w, "draining", ok)
  BY DEF drain_status
<1>2. /\ inst' \in [Workers -> Instance] /\ IntentOK(w)'
      /\ \A v \in Workers \ {w} : inst'[v] = inst[v]
  BY <1>1, StatusTried
<1>3. PICK p \in {"await", "wait"} : phase' = [phase EXCEPT ![w] = p]
  BY DEF drain_status
<1>4. p \in Phases
  BY DEF Phases, Background
<1>5. pending' \in [Workers -> SUBSET (Jobs \X (1..Handles))]
  BY HandleSet DEF ControlInv, TypeOK, drain_status
<1>6. QED BY <1>2, <1>3, <1>4, <1>5, DrainMoves DEF drain_status, ControlInv, TypeOK

\* Every pending task has ended.
LEMMA DrainFinishedControl ==
    ASSUME ControlInv, NEW w \in Workers, drain_finished(w) PROVE ControlInv'
<1>1. "await" \in Phases /\ IntentOK(w)'
  BY DEF Phases, Background, drain_finished, ControlInv, Control, IntentOK
<1>2. pending' \in [Workers -> SUBSET (Jobs \X (1..Handles))]
  BY DEF ControlInv, TypeOK, drain_finished
<1>3. QED BY <1>1, <1>2, DrainMoves DEF drain_finished, ControlInv, TypeOK

\* stop_grace_seconds are over.
LEMMA DrainTimeoutControl ==
    ASSUME ControlInv, NEW w \in Workers, drain_timeout(w) PROVE ControlInv'
<1>1. "gather" \in Phases /\ IntentOK(w)' /\ TypeOK
  BY DEF Phases, Background, drain_timeout, ControlInv, Control, IntentOK
<1>2. pending' \in [Workers -> SUBSET (Jobs \X (1..Handles))]
  BY DEF ControlInv, TypeOK, drain_timeout
<1>3. Cancel(w, pending[w])
  BY DEF drain_timeout
<1>4. task' \in [Workers -> [Jobs -> Coroutines]] /\ \A v \in Workers \ {w} : task'[v] = task[v]
  BY <1>1, <1>3, Cancelled
<1>5. QED BY <1>1, <1>2, <1>4, DrainMoves DEF drain_timeout, ControlInv, TypeOK

\* The cancelled tasks have been gathered.
LEMMA DrainGatheredControl ==
    ASSUME ControlInv, NEW w \in Workers, drain_gathered(w) PROVE ControlInv'
<1>1. "release" \in Phases /\ IntentOK(w)'
  BY DEF Phases, Background, drain_gathered, ControlInv, Control, IntentOK
<1>2. pending' \in [Workers -> SUBSET (Jobs \X (1..Handles))]
  BY HandleSet DEF ControlInv, TypeOK, drain_gathered
<1>3. QED BY <1>1, <1>2, DrainMoves DEF drain_gathered, ControlInv, TypeOK

\* _release_leases, one lease.
LEMMA ReleaseControl == ASSUME ControlInv, NEW w \in Workers, _release_leases(w) PROVE ControlInv'
<1>1. CASE phase' = [phase EXCEPT ![w] = "await"] /\ UNCHANGED <<row, active, pending>>
  <2>1. "await" \in Phases /\ IntentOK(w)'
    BY DEF Phases, Background, _release_leases, ControlInv, Control, IntentOK
  <2>2. QED BY <1>1, <2>1, DrainMoves DEF _release_leases, ControlInv, TypeOK
<1>2. ASSUME NEW g \in pending[w],
             \/ Owned(w, g[1]) /\ row' = [row EXCEPT ![g[1]] = Queued(FALSE)]
             \/ UNCHANGED row,
             active' = [active EXCEPT ![w][g[1]] = 0],
             pending' = [pending EXCEPT ![w] = @ \ {g}],
             UNCHANGED phase
      PROVE  ControlInv'
  <2>1. PICK j \in Jobs : j = g[1]
    BY DEF ControlInv, TypeOK
  <2>2. TypeOK
    BY DEF ControlInv
  <2>3. /\ row' \in [Jobs -> Row]
        /\ \A k \in Jobs : row'[k].owner = Nobody <=> row'[k].status # "leased"
    BY <1>2, <2>1, <2>2, RowWritten DEF TypeOK
  <2>4. 0 \in 0..Handles
    BY RuntimeAssumption
  <2>5. active' = [active EXCEPT ![w][j] = 0]
    BY <1>2, <2>1
  <2>6. active' \in [Workers -> [Jobs -> 0..Handles]]
    BY <2>2, <2>4, <2>5, OneEntry
  <2>7. pending' \in [Workers -> SUBSET (Jobs \X (1..Handles))]
    BY <1>2 DEF ControlInv, TypeOK
  <2>8. TypeOK'
    BY <1>2, <2>3, <2>6, <2>7 DEF ControlInv, TypeOK, _release_leases, local
  <2>9. QED BY <1>2, <2>8, ControlSame DEF _release_leases
<1>3. QED BY <1>1, <1>2 DEF _release_leases

\* _await_cancelled_tasks returns.
LEMMA AwaitControl ==
    ASSUME ControlInv, NEW w \in Workers, _await_cancelled_tasks(w) PROVE ControlInv'
<1>1. "stopping" \in Phases /\ IntentOK(w)'
  BY DEF Phases, Background, _await_cancelled_tasks, ControlInv, Control, IntentOK
<1>2. QED BY <1>1, DrainMoves DEF _await_cancelled_tasks, ControlInv, TypeOK

\* The last write of _drain.
LEMMA DrainStoppedControl ==
    ASSUME ControlInv, NEW w \in Workers, drain_stopped(w) PROVE ControlInv'
<1>1. PICK ok \in BOOLEAN : _set_status(w, "stopped", ok)
  BY DEF drain_stopped
<1>2. /\ inst' \in [Workers -> Instance] /\ IntentOK(w)'
      /\ \A v \in Workers \ {w} : inst'[v] = inst[v]
  BY <1>1, StatusTried
<1>3. /\ beat' \in [Workers -> Beat] /\ beat'[w] = NoBeat
      /\ \A v \in Workers \ {w} : beat'[v] = beat[v]
  BY BeatEnds DEF drain_stopped
<1>4. "exited" \in Phases
  BY DEF Phases, Gone
<1>5. QED BY <1>2, <1>3, <1>4, DrainMoves DEF drain_stopped, ControlInv, TypeOK

\* SIGKILL forgets the claim and the tick.
LEMMA KillControl == ASSUME ControlInv, NEW w \in Workers, kill(w) PROVE ControlInv'
<1>1. /\ active \in [Workers -> [Jobs -> 0..Handles]] /\ task \in [Workers -> [Jobs -> Coroutines]]
      /\ claim \in [Workers -> Claim] /\ phase \in [Workers -> Phases]
  BY DEF ControlInv, TypeOK
<1>2. /\ [j \in Jobs |-> 0] \in [Jobs -> 0..Handles]
      /\ [j \in Jobs |-> [h \in 1..Handles |-> "none"]] \in [Jobs -> Coroutines]
  BY RuntimeAssumption DEF Coroutines, TaskStates
<1>3. /\ active' \in [Workers -> [Jobs -> 0..Handles]]
      /\ task' \in [Workers -> [Jobs -> Coroutines]]
      /\ \A v \in Workers \ {w} : task'[v] = task[v]
  BY <1>1, <1>2 DEF kill
<1>4. NoClaim \in Claim /\ "dead" \in Phases
  BY DEF NoClaim, Claim, Phases, Gone
<1>5. /\ claim' \in [Workers -> Claim] /\ claim'[w] = NoClaim
      /\ \A v \in Workers \ {w} : claim'[v] = claim[v]
  BY <1>1, <1>4 DEF kill
<1>6. phase' \in [Workers -> Phases] /\ \A v \in Workers \ {w} : phase'[v] = phase[v]
  BY <1>1, <1>4 DEF kill
<1>7. /\ beat' \in [Workers -> Beat] /\ beat'[w] = NoBeat
      /\ \A v \in Workers \ {w} : beat'[v] = beat[v]
  BY BeatEnds DEF kill
<1>8. pending' \in [Workers -> SUBSET (Jobs \X (1..Handles))]
  BY DEF ControlInv, TypeOK, kill
<1>9. TypeOK'
  BY <1>3, <1>5, <1>6, <1>7, <1>8 DEF ControlInv, TypeOK, kill, local
<1>10. IntentOK(w)' /\ LockOK(w)' /\ TickOK(w)'
  BY <1>5, <1>7 DEF ControlInv, Control, IntentOK, LockOK, TickOK, kill, NoClaim, NoBeat
<1>11. QED BY <1>3, <1>5, <1>6, <1>7, <1>9, <1>10, ControlStep DEF kill

(* Every step of a worker, of the controller and of the queue.             *)
LEMMA NextControl == ASSUME ControlInv, [Next]_vars PROVE ControlInv'
<1>1. ASSUME NEW w \in Workers, WorkerStep(w) PROVE ControlInv'
  <2>1. ASSUME ClaimStep(w) PROVE ControlInv'
    BY <2>1, ClaimAllowedControl, ClaimCommitControl, ClaimFailedControl, ClaimResumeControl
       DEF ClaimStep
  <2>2. ASSUME TaskStep(w) PROVE ControlInv'
    BY <2>2, ReportControl, ExecuteEndControl DEF TaskStep
  <2>3. ASSUME TickStep(w) PROVE ControlInv'
    BY <2>3, TickBeginControl, TickCommitControl, TickRejectedControl, TickFailedControl,
       TickApplyControl DEF TickStep
  <2>4. ASSUME DrainStep(w) PROVE ControlInv'
    BY <2>4, DrainBeginControl, DrainStatusControl, DrainFinishedControl, DrainTimeoutControl,
       DrainGatheredControl, ReleaseControl, AwaitControl, DrainStoppedControl DEF DrainStep
  <2>5. QED BY <1>1, <2>1, <2>2, <2>3, <2>4, RegisterControl, ReadyRetryControl,
               BecomeReadyControl, RequestStopControl, KillControl, LagControl, WatchdogControl
            DEF WorkerStep
<1>2. CASE ControllerStep
  BY <1>2, MarkControl, MarkStaleControl, UpsertControl DEF ControllerStep
<1>3. CASE UNCHANGED vars
  <2>1. TypeOK'
    BY <1>3 DEF ControlInv, TypeOK, vars
  <2>2. QED BY <1>3, <2>1, ControlSame DEF vars
<1>4. QED BY <1>1, <1>2, <1>3, QueueControl DEF Next

(* The types of the state, the instance rows' intent, the lock that a      *)
(* claim holds and the shape of a tick are invariant, whatever handlers    *)
(* defer to.                                                               *)
THEOREM ControlInvariance == Spec => []ControlInv
<1>1. Init => ControlInv
  BY InitRuntime DEF RuntimeInv
<1>2. ControlInv /\ [Next]_vars => ControlInv'
  BY NextControl
<1>3. QED BY <1>1, <1>2, PTL DEF Spec

(* Type correctness: every variable keeps the type of the field of         *)
(* runtime.py or the column that it stands for.                            *)
THEOREM TypeCorrect == Spec => []TypeOK
<1>1. ControlInv => TypeOK
  BY DEF ControlInv
<1>2. QED BY <1>1, ControlInvariance, PTL

(* A drain survives a missed heartbeat: an instance is ready only without  *)
(* a pending drain and draining only with one, whoever wrote its row last  *)
(* (heartbeat_instance, set_instance_status, mark_stale_instances).        *)
THEOREM DrainSurvives == Spec => []DrainIntent
<1>1. ControlInv => DrainIntent
  BY DEF ControlInv, Control, IntentOK, DrainIntent
<1>2. QED BY <1>1, ControlInvariance, PTL

(* Only the commit of a claim gives a lease, and it holds the row lock     *)
(* that every write to the instance row waits for.                         *)
LEMMA LeaseGiven ==
    ASSUME ControlInv, [Next]_vars, NEW w \in Workers, NEW j \in Jobs, ~Owned(w, j), Owned(w, j)'
    PROVE  inst[w] = [status |-> "ready", drain |-> FALSE]
<1>1. TypeOK /\ row[j] # row'[j] /\ row'[j].status = "leased" /\ row'[j].owner = w
  BY DEF ControlInv, Owned
<1>2. ASSUME NEW k \in Jobs, NEW r \in {Done, Queued(TRUE), Queued(FALSE)},
             row' = [row EXCEPT ![k] = r]
      PROVE  FALSE
  <2>1. r.status # "leased"
    BY DEF Done, Queued
  <2>2. QED BY <1>1, <1>2, <2>1 DEF TypeOK
<1>3. ASSUME NEW v \in Workers, claim_commit(v)
      PROVE  inst[w] = [status |-> "ready", drain |-> FALSE]
  <2>1. row'[j] = Leased(v) \/ row'[j] = row[j]
    BY <1>3 DEF claim_commit
  <2>2. v = w
    BY <1>1, <2>1, RowShapes
  <2>3. QED BY <1>3, <2>2 DEF claim_commit, ControlInv, Control, LockOK
<1>4. ASSUME NEW v \in Workers, NEW k \in Jobs, NEW h \in 1..Handles, _report(v, k, h)
      PROVE  FALSE
  BY <1>1, <1>2, <1>4 DEF _report, CrawlJobsBackend
<1>5. ASSUME NEW v \in Workers, _release_leases(v)
      PROVE  FALSE
  <2>1. PICK g \in pending[v] : row' = [row EXCEPT ![g[1]] = Queued(FALSE)]
    BY <1>1, <1>5 DEF _release_leases
  <2>2. g[1] \in Jobs
    BY <1>1 DEF TypeOK
  <2>3. QED BY <1>2, <2>1, <2>2
<1>6. ASSUME QueueStep PROVE FALSE
  BY <1>1, <1>2, <1>6 DEF QueueStep, recover_expired_leases, quarantine_operator, ripen
<1>7. ASSUME ControllerStep PROVE FALSE
  BY <1>1, <1>7 DEF ControllerStep, mark, mark_stale_instances, upsert_pool
<1>8. ASSUME NEW v \in Workers, WorkerStep(v), ~claim_commit(v), ~_release_leases(v), ~TaskStep(v)
      PROVE  FALSE
  BY <1>1, <1>8 DEF WorkerStep, ClaimStep, TickStep, DrainStep, register, ready_retry,
     _become_ready, request_stop, kill, lag, watchdog, _claim_allowed, claim_failed,
     claim_resume, tick_begin, tick_commit, tick_rejected, tick_failed, tick_apply,
     drain_begin, drain_status, drain_finished, drain_timeout, drain_gathered,
     _await_cancelled_tasks, drain_stopped
<1>9. ASSUME NEW v \in Workers, NEW k \in Jobs, NEW h \in 1..Handles, _execute_end(v, k, h)
      PROVE  FALSE
  BY <1>1, <1>9 DEF _execute_end
<1>10. CASE UNCHANGED vars
  BY <1>1, <1>10 DEF vars
<1>11. QED BY <1>3, <1>4, <1>5, <1>6, <1>7, <1>8, <1>9, <1>10 DEF Next, TaskStep

(* The drain barrier holds in the database: no lease is given to an        *)
(* instance whose row says draining, stale or stopped, even when the claim *)
(* was under way (_claim_allowed's FOR SHARE).                             *)
THEOREM BarrierHolds == Spec => DrainBarrier
<1>1. ControlInv /\ [Next]_vars =>
        [\A w \in Workers, j \in Jobs :
            ~Owned(w, j) /\ Owned(w, j)' => inst[w] = [status |-> "ready", drain |-> FALSE]]_vars
  BY LeaseGiven
<1>2. QED BY <1>1, ControlInvariance, PTL DEF Spec, DrainBarrier

-----------------------------------------------------------------------------
(* Work: one lemma per action.  Where the control part is known to hold    *)
(* after the step, the rest of RuntimeInv does.                            *)

(* The part of RuntimeInv about one worker.                                *)
LEMMA OfWorker ==
    ASSUME RuntimeInv, NEW w \in Workers
    PROVE  WorkerInv(w) /\ TypeOK /\ Control(w)
  BY DEF RuntimeInv, ControlInv

(* A step of worker w alone, whatever it does to the queue.                *)
LEMMA OneWorker ==
    ASSUME RuntimeInv, NEW w \in Workers, ControlInv', WorkerInv(w)',
           \A v \in Workers \ {w} :
              /\ phase'[v] = phase[v] /\ active'[v] = active[v] /\ task'[v] = task[v]
              /\ claim'[v] = claim[v] /\ pending'[v] = pending[v]
    PROVE  RuntimeInv'
<1>1. ASSUME NEW v \in Workers, v # w PROVE WorkerInv(v)'
  <2>1. WorkerInv(v)
    BY OfWorker
  <2>2. ActiveOK(v)'
    BY <1>1, <2>1 DEF WorkerInv, ActiveOK, Live
  <2>3. SlotOK(v)'
    BY <1>1, <2>1 DEF WorkerInv, SlotOK, Tracked
  <2>4. DrainOK(v)'
    BY <1>1, <2>1 DEF WorkerInv, DrainOK
  <2>5. QED BY <2>2, <2>3, <2>4 DEF WorkerInv
<1>2. QED BY <1>1 DEF RuntimeInv

(* Steps that touch no process's work: the queue's, the controller's, the  *)
(* heartbeat's own.                                                        *)
LEMMA WorkSame ==
    ASSUME RuntimeInv, ControlInv', UNCHANGED <<phase, active, task, claim, pending>>
    PROVE  RuntimeInv'
<1>1. ASSUME NEW v \in Workers PROVE WorkerInv(v)'
  <2>1. WorkerInv(v)
    BY OfWorker
  <2>2. ActiveOK(v)'
    BY <2>1 DEF WorkerInv, ActiveOK, Live
  <2>3. SlotOK(v)' /\ DrainOK(v)'
    BY <2>1 DEF WorkerInv, SlotOK, Tracked, DrainOK
  <2>4. QED BY <2>2, <2>3 DEF WorkerInv
<1>2. QED BY <1>1 DEF RuntimeInv

(* Dropping entries of _active frees slots.                                *)
LEMMA SlotsFreed ==
    ASSUME NEW w \in Workers, WorkerInv(w), TypeOK, claim'[w] = claim[w],
           \A j \in Jobs : active'[w][j] = active[w][j] \/ active'[w][j] = 0
    PROVE  SlotOK(w)'
<1>1. Tracked(w)' \subseteq Tracked(w)
  BY DEF Tracked
<1>2. IsFiniteSet(Tracked(w))
  BY RuntimeAssumption, FS_Subset DEF Tracked
<1>3. IsFiniteSet(Tracked(w)') /\ Cardinality(Tracked(w)') <= Cardinality(Tracked(w))
  BY <1>1, <1>2, FS_Subset
<1>4. Cardinality(Tracked(w)') \in Nat /\ Cardinality(Tracked(w)) \in Nat
  BY <1>2, <1>3, FS_CardinalityType
<1>5. claim[w].limit \in Nat /\ MaxSlots \in Nat
  BY RuntimeAssumption DEF TypeOK, Claim
<1>6. Cardinality(Tracked(w)') + claim'[w].limit <= MaxSlots
  BY <1>3, <1>4, <1>5 DEF WorkerInv, SlotOK
<1>7. QED BY <1>6 DEF WorkerInv, SlotOK

(* Within a phase: entries may go, but one that stays keeps a live task,   *)
(* and only a task with an entry is cancelled.                             *)
LEMMA EntriesGo ==
    ASSUME NEW w \in Workers, WorkerInv(w), TypeOK,
           phase'[w] = phase[w], claim'[w] = claim[w], pending'[w] = pending[w],
           \A j \in Jobs : active'[w][j] = active[w][j] \/ active'[w][j] = 0,
           \A j \in Jobs, h \in 1..Handles :
              active'[w][j] = h /\ Live(w, j, h) => Live(w, j, h)',
           \A j \in Jobs, h \in 1..Handles :
              task'[w][j][h] = "cancelled" => task[w][j][h] = "cancelled" \/ active[w][j] = h
    PROVE  WorkerInv(w)'
<1>1. \A j \in Jobs : active[w][j] # 0 => active[w][j] \in 1..Handles
  BY DEF TypeOK
<1>2. ActiveOK(w)'
  <2>1. ASSUME phase[w] \notin {"gather", "release"}, NEW j \in Jobs, active'[w][j] # 0
        PROVE  Live(w, j, active[w][j])'
    <3>1. active'[w][j] = active[w][j] /\ active[w][j] \in 1..Handles
      BY <1>1, <2>1
    <3>2. Live(w, j, active[w][j])
      BY <2>1, <3>1 DEF WorkerInv, ActiveOK
    <3>3. PICK h \in 1..Handles : h = active[w][j]
      BY <3>1
    <3>4. Live(w, j, h)'
      BY <3>1, <3>2, <3>3
    <3>5. QED BY <3>1, <3>3, <3>4 DEF Live
  <2>2. QED BY <2>1 DEF ActiveOK
<1>3. DrainOK(w)'
  <2>1. ASSUME NEW j \in Jobs, phase[w] \in {"wait", "release"}, active'[w][j] # 0
        PROVE  <<j, active'[w][j]>> \in pending[w]
    BY <2>1 DEF WorkerInv, DrainOK
  <2>2. ASSUME NEW j \in Jobs, phase[w] \in Idle PROVE active'[w][j] = 0
    BY <2>2 DEF WorkerInv, DrainOK
  <2>3. ASSUME NEW j \in Jobs, NEW h \in 1..Handles, phase[w] \in {"stopping", "exited"}
        PROVE  task'[w][j][h] # "cancelled"
    <3>1. active[w][j] = 0 /\ task[w][j][h] # "cancelled" /\ h # 0
      BY <2>3 DEF WorkerInv, DrainOK, Idle
    <3>2. QED BY <3>1
  <2>4. QED BY <2>1, <2>2, <2>3 DEF DrainOK
<1>4. QED BY <1>2, <1>3, SlotsFreed DEF WorkerInv

(* run() moves on and nothing else of w's work changes.                    *)
LEMMA PhaseMoves ==
    ASSUME RuntimeInv, ControlInv', NEW w \in Workers, NEW p, phase' = [phase EXCEPT ![w] = p],
           UNCHANGED <<active, task, claim>>, ActiveOK(w)', DrainOK(w)',
           \A v \in Workers \ {w} : pending'[v] = pending[v]
    PROVE  RuntimeInv'
<1>1. SlotOK(w)'
  BY OfWorker DEF WorkerInv, SlotOK, Tracked
<1>2. \A v \in Workers \ {w} : phase'[v] = phase[v]
  BY DEF RuntimeInv, ControlInv, TypeOK
<1>3. WorkerInv(w)'
  BY <1>1 DEF WorkerInv
<1>4. QED BY <1>2, <1>3, OneWorker

\* register and _become_ready, before any task exists.
LEMMA BootWork ==
    ASSUME RuntimeInv, ControlInv', NEW w \in Workers, register(w) \/ _become_ready(w)
    PROVE  RuntimeInv'
<1>1. PICK p \in {"starting", "loop", "dead"} : phase' = [phase EXCEPT ![w] = p]
  BY DEF register, _become_ready
<1>2. /\ phase[w] \in {"boot", "starting"} /\ phase'[w] = p
      /\ UNCHANGED <<active, task, claim, pending>>
  BY <1>1 DEF register, _become_ready, RuntimeInv, ControlInv, TypeOK
<1>3. \A j \in Jobs : active[w][j] = 0
  BY <1>2, OfWorker DEF WorkerInv, DrainOK, Idle
<1>4. ActiveOK(w)' /\ DrainOK(w)'
  BY <1>2, <1>3 DEF ActiveOK, DrainOK, Live
<1>5. QED BY <1>1, <1>2, <1>4, PhaseMoves

(* A claim is admitted with no more slots than are free.                   *)
LEMMA ClaimAllowedWork ==
    ASSUME RuntimeInv, ControlInv', NEW w \in Workers, _claim_allowed(w) PROVE RuntimeInv'
<1> DEFINE n == IF FreeSlots(w) < ClaimBatch THEN FreeSlots(w) ELSE ClaimBatch
<1>1. CASE claim' = claim
  BY <1>1, WorkSame DEF _claim_allowed
<1>2. CASE claim' = [claim EXCEPT ![w] = [step |-> "locked", jobs |-> {}, limit |-> n]]
  <2>1. claim'[w].jobs = {} /\ claim'[w].limit = n /\ \A v \in Workers \ {w} : claim'[v] = claim[v]
    BY <1>2 DEF RuntimeInv, ControlInv, TypeOK
  <2>2. UNCHANGED <<phase, active, task, pending>>
    BY DEF _claim_allowed
  <2>3. Cardinality(Tracked(w)) + n <= MaxSlots
    <3>1. slots[w] \in Nat
      BY RuntimeAssumption DEF RuntimeInv, ControlInv, TypeOK
    <3>2. IsFiniteSet(Tracked(w))
      BY RuntimeAssumption, FS_Subset DEF Tracked
    <3>3. Cardinality(Tracked(w)) \in Nat
      BY <3>2, FS_CardinalityType
    <3>4. effective_concurrency(w) \in Nat /\ effective_concurrency(w) <= MaxSlots
      BY <3>1, RuntimeAssumption DEF effective_concurrency
    <3>5. n <= FreeSlots(w) /\ FreeSlots(w) \in Int
      BY <3>3, <3>4, RuntimeAssumption DEF FreeSlots
    <3>6. n \in Int
      BY <3>5, RuntimeAssumption
    <3> HIDE DEF n
    <3>7. QED BY <3>3, <3>4, <3>5, <3>6, RuntimeAssumption DEF FreeSlots
  <2>4. n \in Nat
    BY <2>1 DEF ControlInv, TypeOK, Claim
  <2> HIDE DEF n
  <2>5. SlotOK(w)'
    BY <2>1, <2>2, <2>3, <2>4, FS_EmptySet DEF SlotOK, Tracked
  <2>6. ActiveOK(w)' /\ DrainOK(w)'
    BY <2>2, OfWorker DEF WorkerInv, ActiveOK, DrainOK, Live
  <2>7. WorkerInv(w)'
    BY <2>5, <2>6 DEF WorkerInv
  <2>8. QED BY <2>1, <2>2, <2>7, OneWorker
<1>3. QED BY <1>1, <1>2 DEF _claim_allowed

(* The commit takes at most as many jobs as the claim has slots.           *)
LEMMA ClaimCommitWork ==
    ASSUME RuntimeInv, ControlInv', NEW w \in Workers, claim_commit(w) PROVE RuntimeInv'
<1>1. PICK S \in SUBSET Jobs :
        /\ Cardinality(S) <= claim[w].limit
        /\ claim' = [claim EXCEPT ![w] = [claim[w] EXCEPT !.step = "taken", !.jobs = S]]
  BY DEF claim_commit
<1>2. UNCHANGED <<phase, active, task, pending>>
  BY DEF claim_commit
<1>3. claim \in [Workers -> Claim] /\ claim[w] \in Claim
  BY DEF RuntimeInv, ControlInv, TypeOK
<1>4. /\ claim'[w].jobs = S /\ claim'[w].limit = claim[w].limit
      /\ \A v \in Workers \ {w} : claim'[v] = claim[v]
  BY <1>1, <1>3 DEF Claim
<1>5. SlotOK(w)'
  BY <1>1, <1>2, <1>4, OfWorker DEF WorkerInv, SlotOK, Tracked
<1>6. ActiveOK(w)' /\ DrainOK(w)'
  BY <1>2, OfWorker DEF WorkerInv, ActiveOK, DrainOK, Live
<1>7. WorkerInv(w)'
  BY <1>5, <1>6 DEF WorkerInv
<1>8. QED BY <1>2, <1>4, <1>7, OneWorker

\* A claim without an answer gives its slots back.
LEMMA ClaimFailedWork ==
    ASSUME RuntimeInv, ControlInv', NEW w \in Workers, claim_failed(w) PROVE RuntimeInv'
<1>1. claim'[w] = NoClaim /\ \A v \in Workers \ {w} : claim'[v] = claim[v]
  BY DEF claim_failed, RuntimeInv, ControlInv, TypeOK
<1>2. UNCHANGED <<phase, active, task, pending>>
  BY DEF claim_failed
<1>3. SlotOK(w)'
  <2>1. Cardinality(Tracked(w)) \in Nat /\ claim[w].limit \in Nat
    BY RuntimeAssumption, FS_Subset, FS_CardinalityType DEF Tracked, RuntimeInv, ControlInv, TypeOK, Claim
  <2>2. Cardinality(Tracked(w)) + 0 <= MaxSlots
    BY <2>1, RuntimeAssumption DEF RuntimeInv, WorkerInv, SlotOK
  <2>3. claim'[w].limit = 0 /\ claim'[w].jobs = {} /\ Tracked(w)' = Tracked(w)
    BY <1>1, <1>2 DEF NoClaim, Tracked
  <2>4. QED BY <2>2, <2>3, FS_EmptySet DEF SlotOK
<1>4. ActiveOK(w)' /\ DrainOK(w)'
  BY <1>2, OfWorker DEF WorkerInv, ActiveOK, DrainOK, Live
<1>5. WorkerInv(w)'
  BY <1>3, <1>4 DEF WorkerInv
<1>6. QED BY <1>1, <1>2, <1>5, OneWorker

(* Filing the new tasks: each new entry has a task that just began, and    *)
(* the slots were the claim's.  An entry that a new one replaces is not    *)
(* missed by the invariant, its coroutine goes on without one.             *)
LEMMA ClaimResumeWork ==
    ASSUME RuntimeInv, ControlInv', NEW w \in Workers, claim_resume(w) PROVE RuntimeInv'
<1>1. WorkerInv(w) /\ TypeOK /\ Control(w) /\ ControlInv
  BY OfWorker DEF RuntimeInv
<1>2. PICK S \in SUBSET claim[w].jobs :
        /\ \A j \in Jobs : active'[w][j] = IF j \in S THEN FreeHandle(w, j) ELSE active[w][j]
        /\ \A j \in Jobs, h \in 1..Handles :
              task'[w][j][h] = IF j \in S /\ h = FreeHandle(w, j) THEN "handling"
                                                                  ELSE task[w][j][h]
        /\ \A j \in S : FreeHandle(w, j) \in 1..Handles /\ task[w][j][FreeHandle(w, j)] = "none"
        /\ \A v \in Workers \ {w} : active'[v] = active[v] /\ task'[v] = task[v]
  BY <1>1, Started
<1>3. /\ claim'[w] = NoClaim /\ \A v \in Workers \ {w} : claim'[v] = claim[v]
      /\ UNCHANGED <<phase, pending>>
  BY <1>1 DEF claim_resume, TypeOK
<1>4. S \subseteq Jobs /\ claim[w].jobs \subseteq Jobs /\ phase[w] = "loop"
  BY <1>1, <1>2 DEF TypeOK, Claim, Control, LockOK, claim_resume
<1>5. ActiveOK(w)'
  <2>1. ASSUME NEW j \in Jobs, j \in S PROVE Live(w, j, active[w][j])'
    BY <1>2, <2>1 DEF Live
  <2>2. ASSUME NEW j \in Jobs, j \notin S, active'[w][j] # 0 PROVE Live(w, j, active[w][j])'
    <3>1. active'[w][j] = active[w][j] /\ Live(w, j, active[w][j])
      BY <1>1, <1>2, <1>4, <2>2 DEF WorkerInv, ActiveOK
    <3>2. active[w][j] \in 1..Handles
      BY <1>1, <2>2, <3>1 DEF TypeOK
    <3>3. QED BY <1>2, <2>2, <3>1, <3>2 DEF Live
  <2>3. QED BY <2>1, <2>2 DEF ActiveOK, Live
<1>6. SlotOK(w)'
  <2>1. Tracked(w)' = Tracked(w) \cup S
    BY <1>2, <1>4 DEF Tracked
  <2>2. IsFiniteSet(Tracked(w)) /\ IsFiniteSet(S) /\ IsFiniteSet(claim[w].jobs)
    <3>1. Tracked(w) \subseteq Jobs
      BY DEF Tracked
    <3>2. QED BY <1>4, <3>1, RuntimeAssumption, FS_Subset
  <2>3. /\ Cardinality(Tracked(w)) \in Nat /\ Cardinality(S) \in Nat
        /\ Cardinality(claim[w].jobs) \in Nat /\ Cardinality(Tracked(w) \cap S) \in Nat
    <3>1. IsFiniteSet(Tracked(w) \cap S)
      BY <2>2, FS_Intersection
    <3>2. QED BY <2>2, <3>1, FS_CardinalityType
  <2>4. Cardinality(S) <= Cardinality(claim[w].jobs)
    BY <2>2, <1>2, FS_Subset
  <2>5. Cardinality(Tracked(w)') = Cardinality(Tracked(w)) + Cardinality(S)
                                     - Cardinality(Tracked(w) \cap S)
    BY <2>1, <2>2, FS_Union
  <2>6. /\ claim[w].limit \in Nat /\ Cardinality(claim[w].jobs) <= claim[w].limit
        /\ Cardinality(Tracked(w)) + claim[w].limit <= MaxSlots
    BY <1>1 DEF WorkerInv, SlotOK, TypeOK, Claim
  <2>7. Cardinality(Tracked(w)') + 0 <= MaxSlots
    BY <2>3, <2>4, <2>5, <2>6, RuntimeAssumption
  <2>8. claim'[w].limit = 0 /\ claim'[w].jobs = {}
    BY <1>3 DEF NoClaim
  <2>9. QED BY <2>7, <2>8, FS_EmptySet DEF SlotOK
<1>7. DrainOK(w)'
  BY <1>3, <1>4 DEF DrainOK, Idle
<1>8. WorkerInv(w)'
  BY <1>5, <1>6, <1>7 DEF WorkerInv
<1>9. QED BY <1>2, <1>3, <1>8, OneWorker

(* A report moves its own task on.                                         *)
LEMMA ReportWork ==
    ASSUME RuntimeInv, ControlInv', NEW w \in Workers, NEW j \in Jobs, NEW h \in 1..Handles,
           _report(w, j, h)
    PROVE  RuntimeInv'
<1>1. WorkerInv(w) /\ TypeOK /\ task[w][j][h] = "handling"
  BY OfWorker DEF _report
<1>2. UNCHANGED <<phase, active, claim, pending>>
  BY DEF _report
<1>3. TaskMoved(w, j, h, "reported")
  <2>1. TaskTo(w, j, h, "reported") /\ "reported" \in TaskStates
    BY DEF _report, TaskTo, TaskStates
  <2>2. QED BY <1>1, <2>1, OneTask
<1>4. /\ \A k \in Jobs, g \in 1..Handles :
            task'[w][k][g] = IF k = j /\ g = h THEN "reported" ELSE task[w][k][g]
      /\ \A v \in Workers \ {w} : task'[v] = task[v]
  BY <1>3 DEF TaskMoved
<1>5. \A k \in Jobs, g \in 1..Handles : Live(w, k, g) => Live(w, k, g)'
  BY <1>4 DEF Live
<1>6. \A k \in Jobs, g \in 1..Handles : task'[w][k][g] = "cancelled" => task[w][k][g] = "cancelled"
  BY <1>4
<1>7. WorkerInv(w)'
  BY <1>1, <1>2, <1>5, <1>6, EntriesGo
<1>8. QED BY <1>2, <1>4, <1>7, OneWorker

(* The end of a task that was not cancelled takes its job's entry along,   *)
(* its own or another's; a cancelled one had none any more.                *)
LEMMA ExecuteEndWork ==
    ASSUME RuntimeInv, ControlInv', NEW w \in Workers, NEW j \in Jobs, NEW h \in 1..Handles,
           _execute_end(w, j, h)
    PROVE  RuntimeInv'
<1>1. /\ WorkerInv(w) /\ TypeOK /\ task[w][j][h] \in {"reported", "cancelled"}
      /\ UNCHANGED <<phase, claim, pending>>
  BY OfWorker DEF _execute_end
<1>2. TaskMoved(w, j, h, "none")
  <2>1. TaskTo(w, j, h, "none") /\ "none" \in TaskStates
    BY DEF _execute_end, TaskTo, TaskStates
  <2>2. QED BY <1>1, <2>1, OneTask
<1>3. /\ \A k \in Jobs, g \in 1..Handles :
            task'[w][k][g] = IF k = j /\ g = h THEN "none" ELSE task[w][k][g]
      /\ \A v \in Workers \ {w} : task'[v] = task[v]
  BY <1>2 DEF TaskMoved
<1>4. /\ \A k \in Jobs : active'[w][k] = IF k = j /\ task[w][j][h] = "reported"
                                         THEN 0 ELSE active[w][k]
      /\ \A v \in Workers \ {w} : active'[v] = active[v]
  BY <1>1, Ended
<1>5. ASSUME NEW k \in Jobs, NEW g \in 1..Handles, active'[w][k] = g, Live(w, k, g)
      PROVE  Live(w, k, g)'
  <2>1. g # 0
    OBVIOUS
  <2>2. ~(k = j /\ g = h)
    BY <1>1, <1>4, <1>5, <2>1 DEF Live
  <2>3. QED BY <1>3, <1>5, <2>2 DEF Live
<1>6. \A k \in Jobs, g \in 1..Handles : task'[w][k][g] = "cancelled" => task[w][k][g] = "cancelled"
  BY <1>3
<1>7. \A k \in Jobs : active'[w][k] = active[w][k] \/ active'[w][k] = 0
  BY <1>4
<1>8. WorkerInv(w)'
  BY <1>1, <1>5, <1>6, <1>7, EntriesGo
<1>9. QED BY <1>1, <1>3, <1>4, <1>8, OneWorker

(* Abandoning jobs cancels their tasks and drops their entries together.   *)
LEMMA AbandonWork ==
    ASSUME RuntimeInv, ControlInv', NEW w \in Workers, NEW S, _abandon(w, S),
           UNCHANGED <<phase, claim, pending>>
    PROVE  RuntimeInv'
<1>1. WorkerInv(w) /\ TypeOK
  BY OfWorker
<1>2. Dropped(w, S)
  BY <1>1, Abandoned
<1>3. /\ \A j \in Jobs : active'[w][j] = IF j \in S THEN 0 ELSE active[w][j]
      /\ \A j \in Jobs, h \in 1..Handles :
            task'[w][j][h] = IF j \in S /\ active[w][j] = h /\ task[w][j][h] # "none"
                             THEN "cancelled" ELSE task[w][j][h]
      /\ \A v \in Workers \ {w} : active'[v] = active[v] /\ task'[v] = task[v]
  BY <1>2 DEF Dropped
<1>4. ASSUME NEW j \in Jobs, NEW h \in 1..Handles, active'[w][j] = h, Live(w, j, h)
      PROVE  Live(w, j, h)'
  <2>1. h # 0
    OBVIOUS
  <2>2. j \notin S
    BY <1>3, <1>4, <2>1
  <2>3. QED BY <1>3, <1>4, <2>2 DEF Live
<1>5. \A j \in Jobs, h \in 1..Handles :
         task'[w][j][h] = "cancelled" => task[w][j][h] = "cancelled" \/ active[w][j] = h
  BY <1>3
<1>6. \A j \in Jobs : active'[w][j] = active[w][j] \/ active'[w][j] = 0
  BY <1>3
<1>7. WorkerInv(w)'
  BY <1>1, <1>4, <1>5, <1>6, EntriesGo
<1>8. QED BY <1>3, <1>7, OneWorker

\* The heartbeat and the watchdog abandon what they found lost, or all.
LEMMA TickWork ==
    ASSUME RuntimeInv, ControlInv', NEW w \in Workers, TickStep(w) \/ watchdog(w)
    PROVE  RuntimeInv'
<1>1. CASE tick_begin(w) \/ tick_commit(w) \/ tick_rejected(w)
  BY <1>1, WorkSame DEF tick_begin, tick_commit, tick_rejected
<1>2. CASE tick_failed(w)
  <2>1. UNCHANGED <<phase, claim, pending>>
    BY <1>2 DEF tick_failed
  <2>2. CASE _fence_if_lease_unconfirmed(w)
    BY <2>1, <2>2, AbandonWork DEF _fence_if_lease_unconfirmed
  <2>3. CASE UNCHANGED <<fenced, active, task>>
    BY <2>1, <2>3, WorkSame
  <2>4. QED BY <1>2, <2>2, <2>3 DEF tick_failed
<1>3. CASE tick_apply(w)
  BY <1>3, AbandonWork DEF tick_apply
<1>4. CASE watchdog(w)
  BY <1>4, AbandonWork DEF watchdog, _fence_if_lease_unconfirmed
<1>5. QED BY <1>1, <1>2, <1>3, <1>4 DEF TickStep

\* The drain starts.
LEMMA DrainBeginWork ==
    ASSUME RuntimeInv, ControlInv', NEW w \in Workers, drain_begin(w) PROVE RuntimeInv'
<1>1. WorkerInv(w) /\ TypeOK
  BY OfWorker
<1>2. /\ phase[w] = "loop" /\ phase' = [phase EXCEPT ![w] = "drain"]
      /\ UNCHANGED <<active, task, claim, pending>>
  BY DEF drain_begin
<1>3. phase'[w] = "drain"
  BY <1>1, <1>2 DEF TypeOK
<1>4. ActiveOK(w)'
  BY <1>1, <1>2 DEF WorkerInv, ActiveOK, Live
<1>5. DrainOK(w)'
  BY <1>3 DEF DrainOK, Idle
<1>6. QED BY <1>2, <1>4, <1>5, PhaseMoves

(* The handles _drain waits for are those of all entries.                  *)
LEMMA DrainStatusWork ==
    ASSUME RuntimeInv, ControlInv', NEW w \in Workers, drain_status(w) PROVE RuntimeInv'
<1>1. WorkerInv(w) /\ TypeOK
  BY OfWorker
<1>2. /\ phase[w] = "drain"
      /\ phase' = [phase EXCEPT ![w] = IF Tracked(w) = {} THEN "await" ELSE "wait"]
      /\ pending' = [pending EXCEPT ![w] = ActiveHandles(w)]
      /\ UNCHANGED <<active, task, claim>>
  BY DEF drain_status
<1>3. PICK p \in {"await", "wait"} :
        phase' = [phase EXCEPT ![w] = p] /\ (p = "await" => Tracked(w) = {})
  BY <1>2
<1>4. /\ phase'[w] = p /\ pending'[w] = ActiveHandles(w)
      /\ \A v \in Workers \ {w} : pending'[v] = pending[v]
  BY <1>1, <1>2, <1>3 DEF TypeOK
<1>5. \A j \in Jobs : active[w][j] # 0 => j \in Tracked(w) /\ <<j, active[w][j]>> \in ActiveHandles(w)
  BY DEF Tracked, ActiveHandles
<1>6. DrainOK(w)'
  BY <1>2, <1>3, <1>4, <1>5 DEF DrainOK, Idle
<1>7. ActiveOK(w)'
  BY <1>1, <1>2 DEF WorkerInv, ActiveOK, Live
<1>8. QED BY <1>2, <1>3, <1>4, <1>6, <1>7, PhaseMoves

(* When the pending tasks have ended, no entry is left: each was a live    *)
(* task's, and those were pending.                                         *)
LEMMA DrainFinishedWork ==
    ASSUME RuntimeInv, ControlInv', NEW w \in Workers, drain_finished(w) PROVE RuntimeInv'
<1>1. WorkerInv(w) /\ TypeOK
  BY OfWorker
<1>2. /\ phase[w] = "wait" /\ phase' = [phase EXCEPT ![w] = "await"]
      /\ pending' = [pending EXCEPT ![w] = {}] /\ Finished(w, pending[w])
      /\ UNCHANGED <<active, task, claim>>
  BY DEF drain_finished
<1>3. phase'[w] = "await" /\ \A v \in Workers \ {w} : pending'[v] = pending[v]
  BY <1>1, <1>2 DEF TypeOK
<1>4. ASSUME NEW j \in Jobs, active[w][j] # 0 PROVE FALSE
  <2>1. PICK g \in pending[w] : g = <<j, active[w][j]>>
    BY <1>1, <1>2, <1>4 DEF WorkerInv, DrainOK
  <2>2. task[w][j][active[w][j]] = "none"
    BY <1>2, <2>1 DEF Finished
  <2>3. Live(w, j, active[w][j])
    BY <1>1, <1>2, <1>4 DEF WorkerInv, ActiveOK
  <2>4. QED BY <2>2, <2>3 DEF Live
<1>5. DrainOK(w)' /\ ActiveOK(w)'
  BY <1>2, <1>3, <1>4 DEF DrainOK, ActiveOK, Idle
<1>6. QED BY <1>2, <1>3, <1>5, PhaseMoves

(* The timeout cancels what is pending and leaves the entries.             *)
LEMMA DrainTimeoutWork ==
    ASSUME RuntimeInv, ControlInv', NEW w \in Workers, drain_timeout(w) PROVE RuntimeInv'
<1>1. WorkerInv(w) /\ TypeOK
  BY OfWorker
<1>2. /\ phase' = [phase EXCEPT ![w] = "gather"]
      /\ pending' = [pending EXCEPT ![w] = {h \in @ : ~Finished(w, {h})}]
      /\ Cancel(w, pending[w]) /\ UNCHANGED <<active, claim>>
  BY DEF drain_timeout
<1>3. /\ phase'[w] = "gather"
      /\ \A v \in Workers \ {w} : phase'[v] = phase[v] /\ pending'[v] = pending[v]
  BY <1>1, <1>2 DEF TypeOK
<1>4. \A v \in Workers \ {w} : task'[v] = task[v]
  BY <1>1, <1>2, Cancelled
<1>5. ActiveOK(w)' /\ DrainOK(w)'
  BY <1>3 DEF ActiveOK, DrainOK, Idle
<1>6. SlotOK(w)'
  BY <1>1, <1>2 DEF WorkerInv, SlotOK, Tracked
<1>7. WorkerInv(w)'
  BY <1>5, <1>6 DEF WorkerInv
<1>8. QED BY <1>2, <1>3, <1>4, <1>7, OneWorker

\* _release_leases lists every entry that is left.
LEMMA DrainGatheredWork ==
    ASSUME RuntimeInv, ControlInv', NEW w \in Workers, drain_gathered(w) PROVE RuntimeInv'
<1>1. WorkerInv(w) /\ TypeOK
  BY OfWorker
<1>2. /\ phase' = [phase EXCEPT ![w] = "release"]
      /\ pending' = [pending EXCEPT ![w] = ActiveHandles(w)]
      /\ UNCHANGED <<active, task, claim>>
  BY DEF drain_gathered
<1>3. /\ phase'[w] = "release" /\ pending'[w] = ActiveHandles(w)
      /\ \A v \in Workers \ {w} : pending'[v] = pending[v]
  BY <1>1, <1>2 DEF TypeOK
<1>4. \A j \in Jobs : active[w][j] # 0 => <<j, active[w][j]>> \in ActiveHandles(w)
  BY DEF Tracked, ActiveHandles
<1>5. DrainOK(w)' /\ ActiveOK(w)'
  BY <1>2, <1>3, <1>4 DEF DrainOK, ActiveOK, Idle
<1>6. QED BY <1>2, <1>3, <1>5, PhaseMoves

(* Every listed entry goes, whether its lease could be handed back or not; *)
(* when the list is empty none is left.                                    *)
LEMMA ReleaseWork ==
    ASSUME RuntimeInv, ControlInv', NEW w \in Workers, _release_leases(w) PROVE RuntimeInv'
<1>1. WorkerInv(w) /\ TypeOK /\ phase[w] = "release"
  BY OfWorker DEF _release_leases
<1>2. UNCHANGED <<task, claim>>
  BY DEF _release_leases
<1>3. CASE pending[w] = {} /\ phase' = [phase EXCEPT ![w] = "await"] /\ UNCHANGED <<active, pending>>
  <2>1. phase'[w] = "await"
    BY <1>1, <1>3 DEF TypeOK
  <2>2. \A j \in Jobs : active[w][j] = 0
    BY <1>1, <1>3 DEF WorkerInv, DrainOK
  <2>3. DrainOK(w)' /\ ActiveOK(w)'
    BY <1>3, <2>1, <2>2 DEF DrainOK, ActiveOK, Idle
  <2>4. QED BY <1>2, <1>3, <2>3, PhaseMoves
<1>4. ASSUME NEW g \in pending[w],
             active' = [active EXCEPT ![w][g[1]] = 0],
             pending' = [pending EXCEPT ![w] = @ \ {g}],
             UNCHANGED phase
      PROVE  RuntimeInv'
  <2>1. PICK j \in Jobs : j = g[1]
    BY <1>1, <1>4 DEF TypeOK
  <2>2. 0 \in 0..Handles /\ active' = [active EXCEPT ![w][j] = 0]
    BY <1>4, <2>1, RuntimeAssumption
  <2>3. /\ \A k \in Jobs : active'[w][k] = IF k = j THEN 0 ELSE active[w][k]
        /\ \A v \in Workers \ {w} : active'[v] = active[v]
    BY <1>1, <2>2, OneEntry
  <2>4. /\ pending'[w] = pending[w] \ {g}
        /\ \A v \in Workers \ {w} : pending'[v] = pending[v]
    BY <1>1, <1>4 DEF TypeOK
  <2>5. ASSUME NEW k \in Jobs, active'[w][k] # 0
        PROVE  <<k, active'[w][k]>> \in pending'[w]
    <3>1. k # j /\ active'[w][k] = active[w][k]
      BY <2>3, <2>5
    <3>2. <<k, active[w][k]>> \in pending[w]
      BY <1>1, <2>5, <3>1 DEF WorkerInv, DrainOK
    <3>3. <<k, active[w][k]>> # g
      BY <2>1, <3>1
    <3>4. QED BY <2>4, <3>1, <3>2, <3>3
  <2>6. DrainOK(w)' /\ ActiveOK(w)'
    BY <1>1, <1>4, <2>5 DEF DrainOK, ActiveOK, Idle
  <2>7. SlotOK(w)'
    BY <1>1, <1>2, <2>3, SlotsFreed
  <2>8. WorkerInv(w)'
    BY <2>6, <2>7 DEF WorkerInv
  <2>9. QED BY <1>2, <1>4, <2>3, <2>4, <2>8, OneWorker
<1>5. QED BY <1>3, <1>4 DEF _release_leases

(* The last phases: no entry, and no task that is still being cancelled.   *)
LEMMA LastWork ==
    ASSUME RuntimeInv, ControlInv', NEW w \in Workers, _await_cancelled_tasks(w) \/ drain_stopped(w)
    PROVE  RuntimeInv'
<1>1. WorkerInv(w) /\ TypeOK
  BY OfWorker
<1>2. PICK p \in {"stopping", "exited"} : phase' = [phase EXCEPT ![w] = p]
  BY DEF _await_cancelled_tasks, drain_stopped
<1>3. /\ phase[w] \in {"await", "stopping"} /\ UNCHANGED <<active, task, claim, pending>>
      /\ \A j \in Jobs, h \in 1..Handles : task[w][j][h] # "cancelled"
  BY <1>1 DEF _await_cancelled_tasks, drain_stopped, WorkerInv, DrainOK
<1>4. phase'[w] = p
  BY <1>1, <1>2 DEF TypeOK
<1>5. \A j \in Jobs : active[w][j] = 0
  BY <1>1, <1>3 DEF WorkerInv, DrainOK, Idle
<1>6. DrainOK(w)' /\ ActiveOK(w)'
  BY <1>3, <1>4, <1>5 DEF DrainOK, ActiveOK
<1>7. QED BY <1>2, <1>3, <1>6, PhaseMoves

(* A killed process has nothing left but its leases.                       *)
LEMMA KillWork ==
    ASSUME RuntimeInv, ControlInv', NEW w \in Workers, kill(w) PROVE RuntimeInv'
<1>1. TypeOK
  BY OfWorker
<1>2. /\ phase'[w] = "dead" /\ claim'[w] = NoClaim
      /\ \A v \in Workers \ {w} : phase'[v] = phase[v] /\ claim'[v] = claim[v]
  BY <1>1 DEF kill, TypeOK
<1>3. \A v \in Workers \ {w} : pending'[v] = pending[v]
  BY <1>1 DEF kill, TypeOK
<1>4. /\ active'[w] = [j \in Jobs |-> 0]
      /\ \A v \in Workers \ {w} : active'[v] = active[v]
  BY <1>1 DEF kill, TypeOK
<1>5. \A v \in Workers \ {w} : task'[v] = task[v]
  BY <1>1 DEF kill, TypeOK
<1>6. \A j \in Jobs : active'[w][j] = 0
  BY <1>4
<1>7. ActiveOK(w)' /\ DrainOK(w)'
  BY <1>2, <1>6 DEF ActiveOK, DrainOK
<1>8. SlotOK(w)'
  <2>1. Tracked(w)' = {}
    BY <1>6 DEF Tracked
  <2>2. claim'[w].limit = 0 /\ claim'[w].jobs = {}
    BY <1>2 DEF NoClaim
  <2>3. QED BY <2>1, <2>2, FS_EmptySet, RuntimeAssumption DEF SlotOK
<1>9. WorkerInv(w)'
  BY <1>7, <1>8 DEF WorkerInv
<1>10. QED BY <1>2, <1>3, <1>4, <1>5, <1>9, OneWorker

(* Steps of the controller, the queue's other users, the signal, a missed  *)
(* deadline and a retry.                                                   *)
LEMMA OthersWork ==
    ASSUME RuntimeInv, ControlInv',
           \/ ControllerStep
           \/ QueueStep
           \/ \E w \in Workers : ready_retry(w) \/ request_stop(w) \/ lag(w)
    PROVE  RuntimeInv'
  BY WorkSame DEF ControllerStep, mark, mark_stale_instances, upsert_pool, QueueStep,
       recover_expired_leases, quarantine_operator, ripen, ready_retry, request_stop, lag

\* Every step.
LEMMA NextRuntime == ASSUME RuntimeInv, [Next]_vars PROVE RuntimeInv'
<1>1. ControlInv'
  BY NextControl DEF RuntimeInv
<1>2. ASSUME NEW w \in Workers, WorkerStep(w) PROVE RuntimeInv'
  <2>1. ASSUME ClaimStep(w) PROVE RuntimeInv'
    BY <1>1, <2>1, ClaimAllowedWork, ClaimCommitWork, ClaimFailedWork, ClaimResumeWork
       DEF ClaimStep
  <2>2. ASSUME TaskStep(w) PROVE RuntimeInv'
    BY <1>1, <2>2, ReportWork, ExecuteEndWork DEF TaskStep
  <2>3. ASSUME TickStep(w) \/ watchdog(w) PROVE RuntimeInv'
    BY <1>1, <2>3, TickWork
  <2>4. ASSUME DrainStep(w) PROVE RuntimeInv'
    BY <1>1, <2>4, DrainBeginWork, DrainStatusWork, DrainFinishedWork, DrainTimeoutWork,
       DrainGatheredWork, ReleaseWork, LastWork DEF DrainStep
  <2>5. QED BY <1>1, <1>2, <2>1, <2>2, <2>3, <2>4, BootWork, OthersWork, KillWork
            DEF WorkerStep
<1>3. CASE UNCHANGED vars
  BY <1>1, <1>3, WorkSame DEF vars
<1>4. QED BY <1>1, <1>2, <1>3, OthersWork DEF Next

(* The invariant that ties entries, coroutines, slots and the drain        *)
(* together holds of every run.                                            *)
THEOREM RuntimeInvariance == Spec => []RuntimeInv
<1>1. RuntimeInv /\ [Next]_vars => RuntimeInv'
  BY NextRuntime
<1>2. QED BY <1>1, InitRuntime, PTL DEF Spec

(* Every entry of _active belongs to a coroutine that has not ended,       *)
(* whichever coroutine of the job, tick, fence or claim removed or         *)
(* replaced entries before; only the drain keeps entries of ended tasks.   *)
THEOREM EntriesLive == Spec => []EntriesAreLive
<1>1. RuntimeInv => EntriesAreLive
  BY DEF RuntimeInv, WorkerInv, ActiveOK, Live, Tracked, EntriesAreLive
<1>2. QED BY <1>1, RuntimeInvariance, PTL

(* However desired_concurrency changes under a claim in flight, an         *)
(* instance never tracks more tasks than MaxSlots: the slots of a claim    *)
(* are reserved from before its transaction until its tasks are filed.     *)
THEOREM SlotsSuffice == Spec => []SlotCeiling
<1>1. ASSUME RuntimeInv, NEW w \in Workers PROVE Cardinality(Tracked(w)) <= MaxSlots
  <2>1. WorkerInv(w) /\ TypeOK
    BY <1>1, OfWorker
  <2>2. Cardinality(Tracked(w)) \in Nat /\ claim[w].limit \in Nat
    BY <2>1, RuntimeAssumption, FS_Subset, FS_CardinalityType DEF Tracked, TypeOK, Claim
  <2>3. QED BY <2>1, <2>2, RuntimeAssumption DEF WorkerInv, SlotOK
<1>2. RuntimeInv => SlotCeiling
  BY <1>1 DEF SlotCeiling
<1>3. QED BY <1>2, RuntimeInvariance, PTL

(* A graceful exit leaves no entry in _active and no cancelled task still  *)
(* closing its resources (_drain, _release_leases,                         *)
(* _await_cancelled_tasks).                                                *)
THEOREM ExitsClean == Spec => []CleanExit
<1>1. RuntimeInv => CleanExit
  BY DEF RuntimeInv, WorkerInv, DrainOK, Idle, Tracked, CleanExit
<1>2. QED BY <1>1, RuntimeInvariance, PTL
=============================================================================
