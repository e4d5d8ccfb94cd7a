------------------------- MODULE LeaseFencingProofs -------------------------
(***************************************************************************)
(* The fence of the watchdog and the bound on overrun hold for every       *)
(* number of instances, jobs and overlapping coroutines, every lease time, *)
(* fence window and tick budget, and however slow the database, the event  *)
(* loop and the watchdog are.                                              *)
(*                                                                         *)
(* The argument.  Nothing is in _active of a fenced instance, and an       *)
(* unfenced one was last looked at less than F after its last confirmation *)
(* (Fence).  That confirmation came from a tick that read its clock at     *)
(* most D earlier, and each task that survived it was either started after *)
(* that reading or given a lease from it: that is what a tick under way    *)
(* already guarantees for the tasks it does not know or has not found lost *)
(* (Beat), and what it leaves behind (Sure).                               *)
(***************************************************************************)
EXTENDS LeaseFencing, TLAPS

\* Readings of the clock lie in the past.
Clocks(w) ==
    /\ lastOk[w] <= now
    /\ watched[w] <= now
    /\ hb[w].st # "idle" => hb[w].t0 <= now

\* What the fence shows of _active and of the last confirmation.
Fence(w) ==
    /\ fenced[w] => \A j \in Jobs : active[w][j] = NoTask
    /\ ~fenced[w] => watched[w] < lastOk[w] + F

\* The tasks a tick under way will leave running when it confirms.
Beat(w) ==
    \A j \in Jobs :
       /\ active[w][j] # NoTask
       /\ \/ hb[w].st = "sent" /\ j \notin hb[w].jobs
          \/ hb[w].st = "done" /\ j \notin hb[w].lost
       => sure[w][j] >= hb[w].t0

\* A task is at most the tick budget older than the last confirmation.
Sure(w) ==
    \A j \in Jobs : active[w][j] # NoTask => sure[w][j] + D >= lastOk[w]

Sound(w) == Clocks(w) /\ Fence(w) /\ Beat(w) /\ Sure(w)

\* The inductive invariant.
FenceInv == TypeOK /\ \A w \in Workers : Sound(w)

-----------------------------------------------------------------------------
(* The shape of the state                                                  *)

\* A new expiry changes nothing else of a row.
LEMMA NewExpiry ==
    ASSUME NEW r \in Row, NEW e \in Nat
    PROVE  /\ [r EXCEPT !.exp = e] \in Row
           /\ [r EXCEPT !.exp = e].st = r.st
           /\ [r EXCEPT !.exp = e].owner = r.owner
BY DEF Row

\* What a report may do to the rows keeps their shape.
LEMMA ReportedType ==
    ASSUME TypeOK, NEW w \in Workers, NEW j \in Jobs, Reported(w, j)
    PROVE  /\ lease' \in [Jobs -> Row]
           /\ \A i \in Jobs : lease'[i].st = "leased" <=> lease'[i].owner # Nobody
<1> USE DEF TypeOK
<1>1. CASE lease' = lease
  BY <1>1
<1>2. CASE lease' = [lease EXCEPT ![j] = [st |-> "done", owner |-> Nobody,
                                          exp |-> 0, nb |-> 0]]
  BY <1>2 DEF Row
<1>3. ASSUME NEW z \in Requeue,
             lease' = [lease EXCEPT ![j] = [st |-> "free", owner |-> Nobody,
                                            exp |-> 0, nb |-> now + z]]
      PROVE  /\ lease' \in [Jobs -> Row]
             /\ \A i \in Jobs : lease'[i].st = "leased" <=> lease'[i].owner # Nobody
  <2>1. now + z \in Nat
    BY TimeAssumption
  <2>2. QED  BY <1>3, <2>1 DEF Row
<1>4. QED  BY <1>1, <1>2, <1>3 DEF Reported

\* New coroutines are filed in the shape of _active.
LEMMA StartType ==
    ASSUME TypeOK, NEW w \in Workers, NEW js \in SUBSET Jobs, _start(w, js)
    PROVE  /\ active' \in [Workers -> [Jobs -> Tasks \cup {NoTask}]]
           /\ task' \in [Workers -> [Jobs -> [Tasks -> Stage]]]
           /\ sure' \in [Workers -> [Jobs -> Nat]]
<1> USE DEF TypeOK
<1>1. PICK new \in [js -> Tasks] :
         /\ active' = [active EXCEPT ![w] = [j \in Jobs |->
               IF j \in js THEN new[j] ELSE active[w][j]]]
         /\ task' = [task EXCEPT ![w] = [j \in Jobs |->
               IF j \in js THEN [task[w][j] EXCEPT ![new[j]] = "handling"]
                           ELSE task[w][j]]]
         /\ sure' = [sure EXCEPT ![w] = [j \in Jobs |->
               IF j \in js THEN now ELSE sure[w][j]]]
  BY DEF _start
<1>2. [j \in Jobs |-> IF j \in js THEN new[j] ELSE active[w][j]]
         \in [Jobs -> Tasks \cup {NoTask}]
  OBVIOUS
<1>3. \A j \in Jobs : task[w][j] \in [Tasks -> Stage]
  <2>1. task[w] \in [Jobs -> [Tasks -> Stage]]
    OBVIOUS
  <2>2. QED  BY <2>1
<1>4. \A j \in js : [task[w][j] EXCEPT ![new[j]] = "handling"] \in [Tasks -> Stage]
  BY <1>3 DEF Stage
<1>5. [j \in Jobs |-> IF j \in js THEN [task[w][j] EXCEPT ![new[j]] = "handling"]
                                  ELSE task[w][j]] \in [Jobs -> [Tasks -> Stage]]
  BY <1>3, <1>4
<1>6. [j \in Jobs |-> IF j \in js THEN now ELSE sure[w][j]] \in [Jobs -> Nat]
  OBVIOUS
<1>7. active' \in [Workers -> [Jobs -> Tasks \cup {NoTask}]]
  BY <1>1, <1>2
<1>8. task' \in [Workers -> [Jobs -> [Tasks -> Stage]]]
  BY <1>1, <1>5
<1>9. QED  BY <1>1, <1>6, <1>7, <1>8

\* Abandoned entries and coroutines keep the shape.
LEMMA AbandonType ==
    ASSUME TypeOK, NEW w \in Workers, NEW js, _abandon(w, js)
    PROVE  /\ active' \in [Workers -> [Jobs -> Tasks \cup {NoTask}]]
           /\ task' \in [Workers -> [Jobs -> [Tasks -> Stage]]]
           /\ sure' \in [Workers -> [Jobs -> Nat]]
<1> USE DEF TypeOK
<1> DEFINE hit == js \cap Tracked(w)
<1>1. /\ active' = [active EXCEPT ![w] = [j \in Jobs |->
               IF j \in hit THEN NoTask ELSE active[w][j]]]
      /\ task' = [task EXCEPT ![w] = [j \in Jobs |->
               IF j \in hit THEN [task[w][j] EXCEPT ![active[w][j]] = "cancelled"]
                            ELSE task[w][j]]]
      /\ sure' = [sure EXCEPT ![w] = [j \in Jobs |->
               IF j \in hit THEN 0 ELSE sure[w][j]]]
  BY DEF _abandon
<1> HIDE DEF hit
<1>2. [j \in Jobs |-> IF j \in hit THEN NoTask ELSE active[w][j]]
         \in [Jobs -> Tasks \cup {NoTask}]
  OBVIOUS
<1>3. \A j \in Jobs : task[w][j] \in [Tasks -> Stage]
  <2>1. task[w] \in [Jobs -> [Tasks -> Stage]]
    OBVIOUS
  <2>2. QED  BY <2>1
<1>4. \A j \in Jobs : [task[w][j] EXCEPT ![active[w][j]] = "cancelled"]
                         \in [Tasks -> Stage]
  BY <1>3 DEF Stage
<1>5. [j \in Jobs |-> IF j \in hit THEN [task[w][j] EXCEPT ![active[w][j]] = "cancelled"]
                                   ELSE task[w][j]] \in [Jobs -> [Tasks -> Stage]]
  BY <1>3, <1>4
<1>6. [j \in Jobs |-> IF j \in hit THEN 0 ELSE sure[w][j]] \in [Jobs -> Nat]
  OBVIOUS
<1>7. active' \in [Workers -> [Jobs -> Tasks \cup {NoTask}]]
  BY <1>1, <1>2
<1>8. task' \in [Workers -> [Jobs -> [Tasks -> Stage]]]
  BY <1>1, <1>5
<1>9. QED  BY <1>1, <1>6, <1>7, <1>8

\* So does the fence, whether it goes up or not.
LEMMA FenceType ==
    ASSUME TypeOK, NEW w \in Workers, _fence_if_lease_unconfirmed(w)
    PROVE  /\ active' \in [Workers -> [Jobs -> Tasks \cup {NoTask}]]
           /\ task' \in [Workers -> [Jobs -> [Tasks -> Stage]]]
           /\ sure' \in [Workers -> [Jobs -> Nat]]
           /\ fenced' \in [Workers -> BOOLEAN]
<1>1. CASE UNCHANGED <<fenced, active, task, sure>>
  BY <1>1 DEF TypeOK
<1>2. CASE _abandon(w, Jobs) /\ fenced' = [fenced EXCEPT ![w] = TRUE]
  BY <1>2, AbandonType DEF TypeOK
<1>3. QED  BY <1>1, <1>2 DEF _fence_if_lease_unconfirmed

\* One step of an instance keeps the shape.
LEMMA WorkerType ==
    ASSUME TypeOK, NEW w \in Workers, WorkerStep(w)
    PROVE  TypeOK'
<1>1. CASE claim_begin(w)
  BY <1>1 DEF TypeOK, claim_begin
<1>2. ASSUME NEW t0 \in 0..now, NEW js \in SUBSET Jobs, claim_commit(w, t0, js)
      PROVE  TypeOK'
  <2> USE <1>2 DEF TypeOK, claim_commit
  <2>1. t0 + L \in Nat
    BY TimeAssumption
  <2>2. lease' \in [Jobs -> Row]
    BY <2>1 DEF Row
  <2>3. \A j \in Jobs : lease'[j].st = "leased" <=> lease'[j].owner # Nobody
    BY TimeAssumption
  <2>4. cl' \in [Workers -> [st : {"idle", "sent", "done"}, t0 : Nat,
                             jobs : SUBSET Jobs]]
    OBVIOUS
  <2>5. QED  BY <2>2, <2>3, <2>4
<1>3. CASE claim_resume(w)
  <2>1. cl' \in [Workers -> [st : {"idle", "sent", "done"}, t0 : Nat,
                             jobs : SUBSET Jobs]]
    BY <1>3 DEF TypeOK, claim_resume, NoClaim
  <2>2. CASE UNCHANGED <<active, task, sure>>
    BY <1>3, <2>1, <2>2 DEF TypeOK, claim_resume
  <2>3. CASE _start(w, cl[w].jobs)
    <3>1. cl[w].jobs \in SUBSET Jobs
      BY DEF TypeOK
    <3>2. /\ active' \in [Workers -> [Jobs -> Tasks \cup {NoTask}]]
          /\ task' \in [Workers -> [Jobs -> [Tasks -> Stage]]]
          /\ sure' \in [Workers -> [Jobs -> Nat]]
      BY <2>3, <3>1, StartType
    <3>3. QED  BY <1>3, <2>1, <3>2 DEF TypeOK, claim_resume
  <2>4. QED  BY <1>3, <2>2, <2>3 DEF claim_resume
<1>4. CASE claim_failed(w)
  BY <1>4 DEF TypeOK, claim_failed, NoClaim
<1>5. ASSUME NEW j \in Jobs, NEW h \in Tasks,
             _report(w, j, h) \/ execute_end(w, j, h) \/ cancelled_end(w, j, h)
      PROVE  TypeOK'
  <2>1. ASSUME NEW s \in Stage
        PROVE  [task EXCEPT ![w][j][h] = s] \in [Workers -> [Jobs -> [Tasks -> Stage]]]
    BY DEF TypeOK
  <2>2. "reported" \in Stage /\ "none" \in Stage
    BY DEF Stage
  <2>3. CASE _report(w, j, h)
    BY <2>1, <2>2, <2>3, ReportedType DEF TypeOK, _report
  <2>4. CASE execute_end(w, j, h)
    BY <2>1, <2>2, <2>4 DEF TypeOK, execute_end
  <2>5. CASE cancelled_end(w, j, h)
    BY <2>1, <2>2, <2>5, ReportedType DEF TypeOK, cancelled_end
  <2>6. QED  BY <1>5, <2>3, <2>4, <2>5
<1>6. CASE watchdog(w)
  BY <1>6, FenceType DEF TypeOK, watchdog
<1>7. CASE heartbeat_begin(w)
  BY <1>7 DEF TypeOK, heartbeat_begin, Tracked
<1>8. CASE heartbeat_commit(w)
  <2> DEFINE mine == {j \in hb[w].jobs : Owned(j, w)}
  <2> USE <1>8 DEF TypeOK, heartbeat_commit
  <2>1. hb[w].t0 + L \in Nat /\ hb[w].t0 \in Nat
    BY TimeAssumption
  <2>2. /\ lease' \in [Jobs -> Row]
        /\ \A j \in Jobs : lease'[j].st = "leased" <=> lease'[j].owner # Nobody
    <3>1. lease' = [j \in Jobs |->
             IF j \in mine THEN [lease[j] EXCEPT !.exp = hb[w].t0 + L] ELSE lease[j]]
      OBVIOUS
    <3>2. \A j \in Jobs : lease[j] \in Row
      OBVIOUS
    <3>3. \A j \in Jobs : /\ [lease[j] EXCEPT !.exp = hb[w].t0 + L] \in Row
                          /\ [lease[j] EXCEPT !.exp = hb[w].t0 + L].st = lease[j].st
                          /\ [lease[j] EXCEPT !.exp = hb[w].t0 + L].owner = lease[j].owner
      BY <2>1, <3>2, NewExpiry
    <3> HIDE DEF mine
    <3>4. lease' \in [Jobs -> Row]
      BY <3>1, <3>2, <3>3
    <3>5. \A j \in Jobs : lease'[j].st = lease[j].st /\ lease'[j].owner = lease[j].owner
      BY <3>1, <3>3
    <3>6. QED  BY <3>4, <3>5
  <2>3. sure' \in [Workers -> [Jobs -> Nat]]
    BY <2>1 DEF Later
  <2>4. hb' \in [Workers -> [st : {"idle", "sent", "done"}, t0 : Nat,
                             jobs : SUBSET Jobs, lost : SUBSET Jobs]]
    BY <2>1
  <2>5. QED  BY <2>2, <2>3, <2>4
<1>9. CASE heartbeat_confirm(w)
  BY <1>9, AbandonType DEF TypeOK, heartbeat_confirm, NoBeat
<1>10. CASE heartbeat_failed(w)
  BY <1>10, FenceType DEF TypeOK, heartbeat_failed, NoBeat
<1>11. CASE kill(w)
  BY <1>11 DEF TypeOK, kill, NoBeat, NoClaim, Stage
<1>12. QED
  BY <1>1, <1>2, <1>3, <1>4, <1>5, <1>6, <1>7, <1>8, <1>9, <1>10, <1>11
  DEF WorkerStep

\* Type correctness: every step keeps the shape of the state, and a row has
\* an owner exactly while it is leased.
THEOREM TypeCorrect == Spec => []TypeOK
<1>1. Init => TypeOK
  BY TimeAssumption DEF Init, TypeOK, Row, Stage, NoBeat, NoClaim, Nobody
<1>2. TypeOK /\ [Next]_vars => TypeOK'
  <2> SUFFICES ASSUME TypeOK, [Next]_vars
               PROVE  TypeOK'
    OBVIOUS
  <2>1. CASE Tick
    BY <2>1 DEF TypeOK, Tick
  <2>2. ASSUME NEW w \in Workers, WorkerStep(w)
        PROVE  TypeOK'
    BY <2>2, WorkerType
  <2>3. ASSUME NEW j \in Jobs, recover_expired_leases(j) \/ quarantine_operator(j)
        PROVE  TypeOK'
    <3>1. CASE recover_expired_leases(j)
      <4>1. lease[j].nb \in Nat
        BY DEF TypeOK, Row
      <4>2. /\ lease' \in [Jobs -> Row]
            /\ \A i \in Jobs : lease'[i].st = "leased" <=> lease'[i].owner # Nobody
        BY <3>1, <4>1 DEF TypeOK, recover_expired_leases, Row
      <4>3. QED  BY <3>1, <4>2 DEF TypeOK, recover_expired_leases
    <3>2. CASE quarantine_operator(j)
      BY <3>2 DEF TypeOK, quarantine_operator, Row
    <3>3. QED  BY <2>3, <3>1, <3>2
  <2>4. CASE UNCHANGED vars
    BY <2>4 DEF TypeOK, vars
  <2>5. QED  BY <2>1, <2>2, <2>3, <2>4 DEF Next
<1>3. QED  BY <1>1, <1>2, PTL DEF Spec

-----------------------------------------------------------------------------
(* The fence and the confirmations                                         *)

\* An instance that a step leaves alone stays sound as the clock advances.
LEMMA FrameSound ==
    ASSUME TypeOK, NEW v \in Workers, Sound(v), now' \in {now, now + 1},
           active'[v] = active[v], lastOk'[v] = lastOk[v],
           fenced'[v] = fenced[v], watched'[v] = watched[v],
           hb'[v] = hb[v], sure'[v] = sure[v]
    PROVE  Sound(v)'
<1>1. /\ now \in Nat /\ lastOk[v] \in Nat /\ watched[v] \in Nat
      /\ hb[v].t0 \in Nat
  BY DEF TypeOK
<1>2. Clocks(v)'
  BY <1>1 DEF Sound, Clocks
<1>3. Fence(v)'
  BY DEF Sound, Fence
<1>4. Beat(v)' /\ Sure(v)'
  BY DEF Sound, Beat, Sure
<1>5. QED  BY <1>2, <1>3, <1>4 DEF Sound

\* Entries only leave _active, and the others keep what is known of them.
Shrinks(w) ==
    \A j \in Jobs : \/ active'[w][j] = NoTask
                    \/ active'[w][j] = active[w][j] /\ sure'[w][j] = sure[w][j]

\* The fence going up empties _active; staying as it is, it was up already
\* or the last confirmation is recent.
LEMMA FenceStep ==
    ASSUME TypeOK, NEW w \in Workers, _fence_if_lease_unconfirmed(w)
    PROVE  /\ Shrinks(w)
           /\ fenced'[w] = fenced[w] \/ fenced'[w]
           /\ fenced'[w] => fenced[w] \/ \A j \in Jobs : active'[w][j] = NoTask
           /\ ~fenced'[w] => now - lastOk[w] < F
           /\ fenced[w] => UNCHANGED active
           /\ \A v \in Workers \ {w} : /\ active'[v] = active[v]
                                       /\ sure'[v] = sure[v]
                                       /\ fenced'[v] = fenced[v]
<1>1. CASE (fenced[w] \/ now - lastOk[w] < F) /\ UNCHANGED <<fenced, active, task, sure>>
  BY <1>1 DEF Shrinks
<1>2. CASE /\ ~fenced[w] /\ fenced' = [fenced EXCEPT ![w] = TRUE]
           /\ _abandon(w, Jobs)
  <2>1. /\ active' = [active EXCEPT ![w] = [j \in Jobs |->
               IF j \in Jobs \cap Tracked(w) THEN NoTask ELSE active[w][j]]]
        /\ sure' = [sure EXCEPT ![w] = [j \in Jobs |->
               IF j \in Jobs \cap Tracked(w) THEN 0 ELSE sure[w][j]]]
    BY <1>2 DEF _abandon
  <2>2. \A j \in Jobs : active'[w][j] = NoTask
    BY <2>1 DEF TypeOK, Tracked
  <2>3. QED  BY <1>2, <2>1, <2>2 DEF TypeOK, Shrinks
<1>3. QED  BY <1>1, <1>2 DEF _fence_if_lease_unconfirmed

\* A step of an instance keeps it, and every other one, sound.
LEMMA WorkerSound ==
    ASSUME FenceInv, NEW w \in Workers, WorkerStep(w)
    PROVE  \A v \in Workers : Sound(v)'
<1> USE DEF FenceInv
<1>0. /\ now \in Nat /\ lastOk[w] \in Nat /\ watched[w] \in Nat /\ hb[w].t0 \in Nat
      /\ fenced[w] \in BOOLEAN /\ F \in Nat \ {0} /\ D \in Nat
      /\ \A j \in Jobs : sure[w][j] \in Nat
      /\ Sound(w)
  BY TimeAssumption DEF TypeOK
<1>1. CASE UNCHANGED <<now, active, lastOk, fenced, watched, hb, sure>>
  BY <1>1, FrameSound
<1>2. CASE claim_resume(w)
  <2>1. CASE UNCHANGED <<active, sure>>
    BY <1>1, <1>2, <2>1 DEF claim_resume
  <2>2. CASE ~fenced[w] /\ _start(w, cl[w].jobs)
    <3>1. PICK new \in [cl[w].jobs -> Tasks] :
             /\ active' = [active EXCEPT ![w] = [j \in Jobs |->
                   IF j \in cl[w].jobs THEN new[j] ELSE active[w][j]]]
             /\ sure' = [sure EXCEPT ![w] = [j \in Jobs |->
                   IF j \in cl[w].jobs THEN now ELSE sure[w][j]]]
      BY <2>2 DEF _start
    <3>2. UNCHANGED <<now, lastOk, fenced, watched, hb>>
      BY <1>2 DEF claim_resume
    <3>3. ASSUME NEW v \in Workers, v # w
          PROVE  Sound(v)'
      BY <3>1, <3>2, <3>3, FrameSound DEF TypeOK
    <3>4. \A j \in Jobs : \/ sure'[w][j] = now
                          \/ /\ active'[w][j] = active[w][j]
                             /\ sure'[w][j] = sure[w][j]
      BY <3>1 DEF TypeOK
    <3>5. Clocks(w)' /\ Fence(w)'
      BY <1>0, <2>2, <3>2 DEF Sound, Clocks, Fence
    <3>6. Beat(w)'
      BY <1>0, <3>2, <3>4 DEF Sound, Beat, Clocks
    <3>7. Sure(w)'
      BY <1>0, <3>2, <3>4 DEF Sound, Sure, Clocks
    <3>8. QED  BY <3>3, <3>5, <3>6, <3>7 DEF Sound
  <2>3. QED  BY <1>2, <2>1, <2>2 DEF claim_resume
<1>3. ASSUME NEW j \in Jobs, NEW h \in Tasks, execute_end(w, j, h)
      PROVE  \A v \in Workers : Sound(v)'
  <2>1. UNCHANGED <<now, lastOk, fenced, watched, hb>>
    BY <1>3 DEF execute_end
  <2>2. /\ active' = [active EXCEPT ![w][j] = NoTask]
        /\ sure' = [sure EXCEPT ![w][j] = 0]
    BY <1>3 DEF execute_end
  <2>3. ASSUME NEW v \in Workers, v # w
        PROVE  Sound(v)'
    BY <2>1, <2>2, <2>3, FrameSound DEF TypeOK
  <2>4. Shrinks(w)
    BY <2>2 DEF TypeOK, Shrinks
  <2>5. Clocks(w)' /\ Fence(w)'
    BY <1>0, <2>1, <2>4 DEF Sound, Clocks, Fence, Shrinks
  <2>6. Beat(w)' /\ Sure(w)'
    BY <1>0, <2>1, <2>4 DEF Sound, Beat, Sure, Shrinks
  <2>7. QED  BY <2>3, <2>5, <2>6 DEF Sound
<1>4. CASE watchdog(w)
  <2>1. /\ UNCHANGED <<now, lastOk, hb>>
        /\ watched' = [watched EXCEPT ![w] = now]
        /\ _fence_if_lease_unconfirmed(w)
    BY <1>4 DEF watchdog
  <2>2. watched'[w] = now /\ \A v \in Workers \ {w} : watched'[v] = watched[v]
    BY <2>1 DEF TypeOK
  <2>3. ASSUME NEW v \in Workers, v # w
        PROVE  Sound(v)'
    BY <2>1, <2>2, <2>3, FenceStep, FrameSound
  <2>4. Clocks(w)'
    BY <1>0, <2>1, <2>2 DEF Sound, Clocks
  <2>5. Fence(w)'
    BY <1>0, <2>1, <2>2, FenceStep DEF Sound, Fence, Shrinks
  <2>6. Beat(w)' /\ Sure(w)'
    BY <1>0, <2>1, FenceStep DEF Sound, Beat, Sure, Shrinks
  <2>7. QED  BY <2>3, <2>4, <2>5, <2>6 DEF Sound
<1>5. CASE heartbeat_failed(w)
  <2>1. /\ UNCHANGED <<now, lastOk, watched>>
        /\ hb' = [hb EXCEPT ![w] = NoBeat]
        /\ _fence_if_lease_unconfirmed(w)
    BY <1>5 DEF heartbeat_failed
  <2>2. hb'[w].st = "idle" /\ \A v \in Workers \ {w} : hb'[v] = hb[v]
    BY <2>1 DEF TypeOK, NoBeat
  <2>3. ASSUME NEW v \in Workers, v # w
        PROVE  Sound(v)'
    BY <2>1, <2>2, <2>3, FenceStep, FrameSound
  <2>4. Clocks(w)'
    BY <1>0, <2>1, <2>2 DEF Sound, Clocks
  <2>5. Fence(w)'
    BY <1>0, <2>1, FenceStep DEF Sound, Fence, Shrinks
  <2>6. Beat(w)'
    BY <2>2 DEF Beat
  <2>7. Sure(w)'
    BY <1>0, <2>1, FenceStep DEF Sound, Sure, Shrinks
  <2>8. QED  BY <2>3, <2>4, <2>5, <2>6, <2>7 DEF Sound
<1>6. CASE heartbeat_begin(w)
  <2>1. UNCHANGED <<now, active, lastOk, fenced, watched, sure>>
    BY <1>6 DEF heartbeat_begin
  <2>2. /\ hb'[w] = [st |-> "sent", t0 |-> now, jobs |-> Tracked(w), lost |-> {}]
        /\ \A v \in Workers \ {w} : hb'[v] = hb[v]
    BY <1>6 DEF heartbeat_begin, TypeOK
  <2>3. ASSUME NEW v \in Workers, v # w
        PROVE  Sound(v)'
    BY <2>1, <2>2, <2>3, FrameSound
  <2>4. Clocks(w)' /\ Fence(w)' /\ Sure(w)'
    BY <1>0, <2>1, <2>2 DEF Sound, Clocks, Fence, Sure
  <2>5. Beat(w)'
    BY <2>1, <2>2 DEF Beat, Tracked
  <2>6. QED  BY <2>3, <2>4, <2>5 DEF Sound
<1>7. CASE heartbeat_commit(w)
  <2> DEFINE mine == {j \in hb[w].jobs : Owned(j, w)}
  <2>1. hb[w].st = "sent" /\ UNCHANGED <<now, active, lastOk, fenced, watched>>
    BY <1>7 DEF heartbeat_commit
  <2>2. /\ hb'[w] = [st |-> "done", t0 |-> hb[w].t0, jobs |-> {},
                     lost |-> hb[w].jobs \ mine]
        /\ \A v \in Workers \ {w} : hb'[v] = hb[v]
    BY <1>7 DEF heartbeat_commit, TypeOK
  <2>3. /\ \A j \in Jobs : sure'[w][j] =
              IF j \in mine \cap Tracked(w) THEN Later(sure[w][j], hb[w].t0)
                                            ELSE sure[w][j]
        /\ \A v \in Workers \ {w} : sure'[v] = sure[v]
    BY <1>7 DEF heartbeat_commit, TypeOK
  <2> HIDE DEF mine
  <2>4. ASSUME NEW v \in Workers, v # w
        PROVE  Sound(v)'
    BY <2>1, <2>2, <2>3, <2>4, FrameSound
  <2>5. Clocks(w)' /\ Fence(w)'
    BY <1>0, <2>1, <2>2 DEF Sound, Clocks, Fence
  <2>6. \A j \in Jobs : /\ sure'[w][j] \in Nat
                        /\ sure'[w][j] >= sure[w][j]
                        /\ j \in mine \cap Tracked(w) => sure'[w][j] >= hb[w].t0
    BY <1>0, <2>3 DEF Later
  <2>7. Beat(w)'
    BY <1>0, <2>1, <2>2, <2>6 DEF Sound, Beat, Tracked
  <2>8. Sure(w)'
    BY <1>0, <2>1, <2>6 DEF Sound, Sure
  <2>9. QED  BY <2>4, <2>5, <2>7, <2>8 DEF Sound
<1>8. CASE heartbeat_confirm(w)
  <2>1. /\ hb[w].st = "done" /\ now <= hb[w].t0 + D
        /\ UNCHANGED <<now, watched>>
        /\ lastOk' = [lastOk EXCEPT ![w] = now]
        /\ fenced' = [fenced EXCEPT ![w] = FALSE]
        /\ hb' = [hb EXCEPT ![w] = NoBeat]
        /\ _abandon(w, hb[w].lost)
    BY <1>8 DEF heartbeat_confirm
  <2>2. /\ lastOk'[w] = now /\ fenced'[w] = FALSE /\ hb'[w].st = "idle"
        /\ \A v \in Workers \ {w} : /\ lastOk'[v] = lastOk[v]
                                    /\ fenced'[v] = fenced[v]
                                    /\ hb'[v] = hb[v]
    BY <2>1 DEF TypeOK, NoBeat
  <2>3. /\ active' = [active EXCEPT ![w] = [j \in Jobs |->
               IF j \in hb[w].lost \cap Tracked(w) THEN NoTask ELSE active[w][j]]]
        /\ sure' = [sure EXCEPT ![w] = [j \in Jobs |->
               IF j \in hb[w].lost \cap Tracked(w) THEN 0 ELSE sure[w][j]]]
    BY <2>1 DEF _abandon
  <2>4. /\ \A v \in Workers \ {w} : active'[v] = active[v] /\ sure'[v] = sure[v]
        /\ \A j \in Jobs : active'[w][j] # NoTask =>
              /\ active[w][j] # NoTask /\ j \notin hb[w].lost
              /\ sure'[w][j] = sure[w][j]
    BY <2>3 DEF TypeOK, Tracked
  <2>5. ASSUME NEW v \in Workers, v # w
        PROVE  Sound(v)'
    BY <2>1, <2>2, <2>4, <2>5, FrameSound
  <2>6. Clocks(w)' /\ Fence(w)'
    BY <1>0, <2>1, <2>2 DEF Sound, Clocks, Fence
  <2>7. Beat(w)'
    BY <2>2 DEF Beat
  <2>8. Sure(w)'
    BY <1>0, <2>1, <2>2, <2>4 DEF Sound, Sure, Beat
  <2>9. QED  BY <2>5, <2>6, <2>7, <2>8 DEF Sound
<1>9. CASE kill(w)
  <2>1. /\ lastOk'[w] = 0 /\ watched'[w] = 0 /\ fenced'[w] = FALSE
        /\ hb'[w].st = "idle" /\ now' = now
        /\ \A j \in Jobs : active'[w][j] = NoTask
    BY <1>9 DEF kill, TypeOK, NoBeat
  <2>2. ASSUME NEW v \in Workers, v # w
        PROVE  Sound(v)'
    <3>1. /\ active'[v] = active[v] /\ lastOk'[v] = lastOk[v]
          /\ fenced'[v] = fenced[v] /\ watched'[v] = watched[v]
          /\ hb'[v] = hb[v] /\ sure'[v] = sure[v]
      BY <1>9, <2>2 DEF kill, TypeOK
    <3>2. QED  BY <2>1, <3>1, FrameSound
  <2>3. Sound(w)'
    BY <1>0, <2>1 DEF Sound, Clocks, Fence, Beat, Sure
  <2>4. QED  BY <2>2, <2>3
<1>10. ASSUME NEW j \in Jobs, NEW h \in Tasks, _report(w, j, h) \/ cancelled_end(w, j, h)
       PROVE  \A v \in Workers : Sound(v)'
  BY <1>1, <1>10 DEF _report, cancelled_end
<1>11. ASSUME NEW t0 \in 0..now, NEW js \in SUBSET Jobs, claim_commit(w, t0, js)
       PROVE  \A v \in Workers : Sound(v)'
  BY <1>1, <1>11 DEF claim_commit
<1>12. CASE claim_begin(w) \/ claim_failed(w)
  BY <1>1, <1>12 DEF claim_begin, claim_failed
<1>13. QED
  BY <1>2, <1>3, <1>4, <1>5, <1>6, <1>7, <1>8, <1>9, <1>10, <1>11, <1>12
  DEF WorkerStep

\* Every step keeps every instance sound.
THEOREM FenceInvariance == Spec => []FenceInv
<1>1. Init => FenceInv
  <2> SUFFICES ASSUME Init
               PROVE  FenceInv
    OBVIOUS
  <2>1. TypeOK
    BY TimeAssumption DEF Init, TypeOK, Row, Stage, NoBeat, NoClaim, Nobody
  <2>2. ASSUME NEW w \in Workers
        PROVE  Sound(w)
    BY TimeAssumption DEF Init, Sound, Clocks, Fence, Beat, Sure, NoBeat
  <2>3. QED  BY <2>1, <2>2 DEF FenceInv
<1>2. FenceInv /\ TypeOK' /\ [Next]_vars => FenceInv'
  <2> SUFFICES ASSUME FenceInv, TypeOK', [Next]_vars
               PROVE  FenceInv'
    OBVIOUS
  <2>1. CASE Tick
    BY <2>1, FrameSound DEF FenceInv, Tick
  <2>2. ASSUME NEW w \in Workers, WorkerStep(w)
        PROVE  FenceInv'
    BY <2>2, WorkerSound DEF FenceInv
  <2>3. ASSUME NEW j \in Jobs, recover_expired_leases(j) \/ quarantine_operator(j)
        PROVE  FenceInv'
    BY <2>3, FrameSound DEF FenceInv, recover_expired_leases, quarantine_operator
  <2>4. CASE UNCHANGED vars
    BY <2>4, FrameSound DEF FenceInv, vars
  <2>5. QED  BY <2>1, <2>2, <2>3, <2>4 DEF Next
<1>3. QED  BY <1>1, <1>2, TypeCorrect, PTL DEF Spec

-----------------------------------------------------------------------------
(* What follows                                                            *)

\* The watchdog leaves no task in _active once the last confirmation is the
\* fence window old, not even one of a claim that was under way when the
\* fence rose.
THEOREM FencesInTime == Spec => []FenceWindow
<1>1. FenceInv => FenceWindow
  BY DEF FenceInv, Sound, Fence, FenceWindow, Tracked
<1>2. QED  BY <1>1, FenceInvariance, PTL

\* The watchdog leaves no task in _active D + F after both its start and the
\* last reading its lease was extended from: a task of _active overruns its
\* lease by less than D + F - L.
THEOREM OverrunIsBounded == Spec => []OverrunBounded
<1>1. ASSUME FenceInv
      PROVE  OverrunBounded
  <2>1. SUFFICES ASSUME NEW w \in Workers, NEW j \in Jobs, active[w][j] # NoTask
                 PROVE  watched[w] < sure[w][j] + D + F
    BY DEF OverrunBounded, Tracked
  <2>2. watched[w] < lastOk[w] + F /\ sure[w][j] + D >= lastOk[w]
    BY <1>1, <2>1 DEF FenceInv, Sound, Fence, Sure
  <2>3. /\ watched[w] \in Nat /\ lastOk[w] \in Nat /\ sure[w][j] \in Nat
        /\ D \in Nat /\ F \in Nat
    BY <1>1, TimeAssumption DEF FenceInv, TypeOK
  <2>4. QED  BY <2>2, <2>3
<1>2. QED  BY <1>1, FenceInvariance, PTL
=============================================================================
