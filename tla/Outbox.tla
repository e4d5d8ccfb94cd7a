------------------------------- MODULE Outbox -------------------------------
(***************************************************************************)
(* The transactional outbox of domain.changed events                       *)
(* (repositories/outbox.py): publishers fetch rows under a visibility      *)
(* lease, deliver them outside any transaction, and mark them published or *)
(* failed; rows that keep failing, or keep being handed out, are parked    *)
(* for the operator, and published rows are purged after a retention time. *)
(*                                                                         *)
(* Each function is one transaction.  The publisher that calls them is     *)
(* not part of the repository; it follows the cycle the module describes,  *)
(* may be slow, and may die at any point.                                  *)
(*                                                                         *)
(* Times are kept as what is left of them: hidden is available_at - now.   *)
(***************************************************************************)
EXTENDS Integers, FiniteSets

CONSTANTS
    Events, Publishers,
    Limit,           \* rows in one fetch
    Visibility,      \* visibility_seconds
    Backoffs,        \* delays BackoffPolicy may return
    Retention,       \* purge_published(older_than)
    PublishAttempts, \* mark_failed(max_attempts)
    MaxDelivery      \* fetch_unpublished(max_delivery_attempts)

ASSUME OutboxAssumption ==
    /\ Limit \in Nat \ {0} /\ Visibility \in Nat \ {0}
    /\ Backoffs \subseteq Nat /\ Retention \in Nat
    /\ PublishAttempts \in Nat \ {0} /\ MaxDelivery \in Nat \ {0}

VARIABLES
    row,        \* outbox_events
    held,       \* what a publisher does with an event it fetched
    delivered,  \* events some consumer has received
    handed      \* times a row was handed out since it was added or unparked

outboxVars == <<row, held, delivered, handed>>

-----------------------------------------------------------------------------
(* state: none (not written yet), new, published, purged                   *)
NoRow == [state |-> "none", hidden |-> 0, attempts |-> 0, delivery |-> 0,
          parked |-> FALSE, age |-> 0]

OutboxInit ==
    /\ row = [e \in Events |-> NoRow]
    /\ held = [p \in Publishers |-> [e \in Events |-> "no"]]
    /\ delivered = {}
    /\ handed = [e \in Events |-> 0]

(* acknowledge_projection adds the row, available at once.                 *)
add(e) ==
    /\ row[e] = NoRow
    /\ row' = [row EXCEPT ![e].state = "new"]
    /\ UNCHANGED <<held, delivered, handed>>

Candidates == {e \in Events : row[e].state = "new" /\ ~row[e].parked /\ row[e].hidden = 0}

(* Seeded fault: the delivery limit is off by one.                         *)
exhausted_late(e) == row[e].delivery > MaxDelivery

exhausted(e) == row[e].delivery >= MaxDelivery

(* Seeded fault: deliveries are not counted.                               *)
fetch_unpublished_uncounted(p, S) ==
    /\ S # {} /\ S \subseteq Candidates /\ Cardinality(S) <= Limit
    /\ row' = [e \in Events |->
          IF e \in S THEN [row[e] EXCEPT !.hidden = Visibility] ELSE row[e]]
    /\ held' = [held EXCEPT ![p] = [e \in Events |-> IF e \in S THEN "taken" ELSE @[e]]]
    /\ UNCHANGED <<delivered, handed>>

(* FOR UPDATE SKIP LOCKED: a concurrent fetch may hide any of the rows.    *)
fetch_unpublished(p, S) ==
    /\ S # {} /\ S \subseteq Candidates /\ Cardinality(S) <= Limit
    /\ row' = [e \in Events |->
          IF e \notin S THEN row[e]
          ELSE IF exhausted(e) THEN [row[e] EXCEPT !.parked = TRUE]
          ELSE [row[e] EXCEPT !.hidden = Visibility, !.delivery = @ + 1]]
    /\ LET given == {e \in S : ~exhausted(e)} IN
          /\ held' = [held EXCEPT ![p] =
                [e \in Events |-> IF e \in given THEN "taken" ELSE @[e]]]
          /\ handed' = [e \in Events |-> IF e \in given THEN handed[e] + 1 ELSE handed[e]]
    /\ UNCHANGED delivered

(* Outside any transaction.                                                *)
deliver(p, e) ==
    /\ held[p][e] = "taken"
    /\ held' = [held EXCEPT ![p][e] = "sent"]
    /\ delivered' = delivered \cup {e}
    /\ UNCHANGED <<row, handed>>

LetGoEvent(p, e) == held' = [held EXCEPT ![p][e] = "no"]

(* No check of the lease, nor of parked_at.                                *)
mark_published(p, e) ==
    /\ held[p][e] = "sent"
    /\ LetGoEvent(p, e)
    /\ row' = [row EXCEPT ![e] =
          IF @.state = "new" THEN [@ EXCEPT !.state = "published", !.age = 0] ELSE @]
    /\ UNCHANGED <<delivered, handed>>

(* The delivery failed, or seems to have: a sent event may be reported     *)
(* failed as well.  A published, parked or purged row stays as it is.      *)
mark_failed(p, e) ==
    /\ held[p][e] # "no"
    /\ LetGoEvent(p, e)
    /\ \E delay \in Backoffs :
          row' = [row EXCEPT ![e] =
             IF @.state # "new" \/ @.parked THEN @
             ELSE IF @.attempts + 1 >= PublishAttempts
                  THEN [@ EXCEPT !.attempts = row[e].attempts + 1, !.parked = TRUE]
                  ELSE [@ EXCEPT !.attempts = row[e].attempts + 1, !.hidden = delay]]
    /\ UNCHANGED <<delivered, handed>>

(* A publisher dies; its leases run out by themselves.                     *)
kill(p) ==
    /\ \E e \in Events : held[p][e] # "no"
    /\ held' = [held EXCEPT ![p] = [e \in Events |-> "no"]]
    /\ UNCHANGED <<row, delivered, handed>>

unpark(e) ==
    /\ row[e].state = "new" /\ row[e].parked
    /\ row' = [row EXCEPT ![e] = [NoRow EXCEPT !.state = "new"]]
    /\ handed' = [handed EXCEPT ![e] = 0]
    /\ UNCHANGED <<held, delivered>>

(* Seeded fault: retention removes parked rows.                            *)
purge_published_events_parkedToo(e) ==
    /\ \/ row[e].state = "published" /\ row[e].age > Retention
       \/ row[e].state = "new" /\ row[e].parked
    /\ row' = [row EXCEPT ![e] = [NoRow EXCEPT !.state = "purged"]]
    /\ UNCHANGED <<held, delivered, handed>>

(* published_at < now - older_than                                         *)
purge_published_events(e) ==
    /\ row[e].state = "published" /\ row[e].age > Retention
    /\ row' = [row EXCEPT ![e] = [NoRow EXCEPT !.state = "purged"]]
    /\ UNCHANGED <<held, delivered, handed>>

Down(n) == IF n > 0 THEN n - 1 ELSE 0

Tick ==
    /\ row' = [e \in Events |->
          [row[e] EXCEPT !.hidden = Down(@),
                         !.age = IF row[e].state = "published" /\ @ <= Retention
                                 THEN @ + 1 ELSE @]]
    /\ UNCHANGED <<held, delivered, handed>>

-----------------------------------------------------------------------------
PublisherStep(p) ==
    \/ \E S \in SUBSET Events : fetch_unpublished(p, S)
    \/ \E e \in Events : deliver(p, e) \/ mark_published(p, e) \/ mark_failed(p, e)
    \/ kill(p)

OutboxNext ==
    \/ \E p \in Publishers : PublisherStep(p)
    \/ \E e \in Events : add(e) \/ unpark(e) \/ purge_published_events(e)
    \/ Tick

OutboxSpec == OutboxInit /\ [][OutboxNext]_outboxVars

(* Time passes, and some publisher keeps polling.  Nothing obliges it to   *)
(* deliver what it fetched, or to survive.                                 *)
OutboxFairness ==
    /\ WF_outboxVars(Tick)
    /\ \A e \in Events :
          WF_outboxVars(\E p \in Publishers, S \in SUBSET Events : e \in S /\ fetch_unpublished(p, S))

OutboxFairSpec == OutboxSpec /\ OutboxFairness

-----------------------------------------------------------------------------
(* Shape of the rows; neither counter passes its limit.                    *)
OutboxTypeOK ==
    /\ row \in [Events -> [state : {"none", "new", "published", "purged"},
                           hidden : Nat, attempts : 0..PublishAttempts,
                           delivery : 0..MaxDelivery, parked : BOOLEAN,
                           age : 0..(Retention + 1)]]
    /\ held \in [Publishers -> [Events -> {"no", "taken", "sent"}]]
    /\ delivered \subseteq Events
    /\ handed \in [Events -> Nat]

(* At least once: a row leaves the table only after a consumer has its     *)
(* event, although late and repeated reports of other publishers, parking  *)
(* and unparking change it on the way.                                     *)
NeverLost ==
    \A e \in Events : row[e].state \in {"published", "purged"} => e \in delivered

(* Between two decisions of the operator a row is handed out at most       *)
(* max_delivery_attempts times, even if every publisher dies with it       *)
(* before mark_failed.                                                     *)
DeliveryBound ==
    \A e \in Events : handed[e] <= MaxDelivery

(* No event is stuck: it is published or waits, parked, for the operator,  *)
(* even if publishers die on it every time.                                *)
Settles ==
    \A e \in Events :
        row[e].state = "new" ~> row[e].state # "new" \/ row[e].parked
=============================================================================
