----------------------------- MODULE SourceRoutes -----------------------------
(***************************************************************************)
(* The control plane of one source (pg/repositories/sources.py): its state *)
(* and policy versions, one route with its circuit breaker, and the audit  *)
(* trail that every decision leaves in its own transaction.                *)
(*                                                                         *)
(* Several actors change these rows: operators, from forms that show an    *)
(* older revision, and fetchers, from the revision of their preflight.     *)
(* `set_source_state` and `set_route_state` read the old state in a        *)
(* statement of its own before the conditional UPDATE, so each is two      *)
(* steps; the other operations lock or update the row first.               *)
(***************************************************************************)
EXTENDS FetchRules, Integers, Sequences

CONSTANTS
    Operators,      \* GUI sessions
    Policies,       \* policy snapshots an operator may add: [robots, browser]
    Threshold,      \* record_route_failure: failures that open the circuit
    MaxSource,      \* bound on the revision of the source
    MaxRoute,       \* bound on the revision of the route
    SourceTargets,  \* states an operator may choose for the source
    RouteTargets,   \* states an operator may choose for the route
    MaxFailures     \* bound on consecutive_failures

SourceStates == {"enabled", "paused", "disabled", "blocked_anonymous"}
RouteStates == {"healthy", "degraded", "circuit_open", "unsupported"}

ASSUME SourcesAssumption ==
    /\ Policies \subseteq [robots : RobotsPolicies, browser : BOOLEAN]
    /\ SourceTargets \subseteq SourceStates /\ RouteTargets \subseteq RouteStates
    /\ {Threshold, MaxSource, MaxRoute, MaxFailures} \subseteq Nat \ {0}

VARIABLES
    source,     \* row of sources: state, revision, current policy version (0: none)
    policies,   \* source_policy_versions, immutable, by version
    route,      \* row of source_routes; revision 0: not created yet
    trail,      \* audit_log: rows of the source and of the route, in commit order
    gui         \* operator sessions

sourceVars == <<source, policies, route, trail, gui>>

CIRCUIT_OPENABLE_ROUTE_STATES == {"healthy", "degraded"}

NoRoute == [state |-> "healthy", revision |-> 0, failures |-> 0]
Closed == [at |-> "idle", on |-> "source", revision |-> 0, before |-> "none"]

\* append_audit: who did what, the state before as the caller read it, the state after.
Entry(actor, action, before, after) ==
    [actor |-> actor, action |-> action, before |-> before, after |-> after]
append_audit(on, entry) == trail' = [trail EXCEPT ![on] = Append(@, entry)]

\* create_source left the source paused at revision 1; it was given a policy and enabled.
\* Its route is not there yet.
SourcesInit ==
    /\ source = [state |-> "enabled", revision |-> 3, policy |-> 1]
    /\ \E p \in Policies : policies = <<p>>
    /\ route = NoRoute
    /\ \E o \in Operators : trail =
          [source |-> <<Entry(o, "add_policy_version", 0, 1),
                        Entry(o, "set_state", "paused", "enabled")>>,
           route  |-> << >>]
    /\ gui = [o \in Operators |-> Closed]

RevisionOf(on) == IF on = "source" THEN source.revision ELSE route.revision
StateOf(on) == IF on = "source" THEN source.state ELSE route.state

(***************************************************************************)
(* Operators.                                                              *)
(***************************************************************************)

\* A form with its revision is submitted, and set_*_state reads the state before.  (A
\* form that is already older than the row can only end in StaleRevisionError.)
select_before(o, on) ==
    /\ gui[o].at = "idle"
    /\ RevisionOf(on) > 0
    /\ gui' = [gui EXCEPT ![o] = [at |-> "update", on |-> on, revision |-> RevisionOf(on),
                                  before |-> StateOf(on)]]
    /\ UNCHANGED <<source, policies, route, trail>>

\* set_source_state: UPDATE ... WHERE revision = expected_revision, and its audit row;
\* no row is StaleRevisionError, which leaves nothing behind.
set_source_state(o, state) ==
    /\ gui[o].at = "update" /\ gui[o].on = "source"
    /\ \/ /\ source.revision = gui[o].revision
          /\ source.revision < MaxSource
          /\ source' = [source EXCEPT !.state = state, !.revision = @ + 1]
          /\ append_audit("source", Entry(o, "set_state", gui[o].before, state))
       \/ /\ source.revision # gui[o].revision
          /\ UNCHANGED <<source, trail>>
    /\ gui' = [gui EXCEPT ![o] = Closed]
    /\ UNCHANGED <<policies, route>>

\* add_policy_version: SELECT ... FOR UPDATE with the revision, version = max + 1.
add_policy_version(o, p) ==
    /\ gui[o].at = "update" /\ gui[o].on = "source"
    /\ \/ /\ source.revision = gui[o].revision
          /\ source.revision < MaxSource
          /\ policies' = Append(policies, p)
          /\ source' = [source EXCEPT !.policy = Len(policies) + 1, !.revision = @ + 1]
          /\ append_audit("source", Entry(o, "add_policy_version", source.policy,
                                          Len(policies) + 1))
       \/ /\ source.revision # gui[o].revision
          /\ UNCHANGED <<source, policies, trail>>
    /\ gui' = [gui EXCEPT ![o] = Closed]
    /\ UNCHANGED route

\* upsert_route: ON CONFLICT DO NOTHING; only the creation is audited.
upsert_route(actor) ==
    /\ route.revision = 0
    /\ route' = [NoRoute EXCEPT !.revision = 1]
    /\ append_audit("route", Entry(actor, "create", "none", "healthy"))
    /\ UNCHANGED <<source, policies, gui>>

\* Seeded fault: the UPDATE of the route has no revision predicate.
RevisionIgnored(expected) == TRUE

\* The predicate of the conditional UPDATE.
RevisionMatches(expected) == route.revision = expected

\* The UPDATE of set_route_state and its audit row, in the transaction of `actor`.
RouteUpdated(actor, state, before, expected) ==
    /\ RevisionMatches(expected)
    /\ route.revision < MaxRoute
    /\ route' = [route EXCEPT !.state = state, !.revision = @ + 1]
    /\ append_audit("route", Entry(actor, "set_state", before, state))

set_route_state(o, state) ==
    /\ gui[o].at = "update" /\ gui[o].on = "route"
    /\ \/ RouteUpdated(o, state, gui[o].before, gui[o].revision)
       \/ ~RevisionMatches(gui[o].revision) /\ UNCHANGED <<route, trail>>
    /\ gui' = [gui EXCEPT ![o] = Closed]
    /\ UNCHANGED <<source, policies>>

(***************************************************************************)
(* The failure counter of the route.                                       *)
(***************************************************************************)

\* record_route_failure: one UPDATE counts, a second in the same transaction (the row is
\* locked) opens the circuit at the threshold.  Nothing in the repository calls it yet;
\* its callers are fetchers.
record_route_failure(actor) ==
    /\ route.revision > 0 /\ route.failures < MaxFailures
    /\ \/ /\ \/ route.failures + 1 < Threshold
             \/ route.state \notin CIRCUIT_OPENABLE_ROUTE_STATES
          /\ route' = [route EXCEPT !.failures = @ + 1]
          /\ UNCHANGED trail
       \/ /\ route.failures + 1 >= Threshold
          /\ route.state \in CIRCUIT_OPENABLE_ROUTE_STATES
          /\ route.revision < MaxRoute
          /\ route' = [state |-> "circuit_open", revision |-> route.revision + 1,
                       failures |-> route.failures + 1]
          /\ append_audit("route", Entry(actor, "circuit_open", route.state, "circuit_open"))
    /\ UNCHANGED <<source, policies, gui>>

\* reset_route_failures, part of a fetcher's transaction: the state stays as it is.
ResetFailures(r) == [r EXCEPT !.failures = 0]

OperatorStep ==
    \E o \in Operators :
        \/ \E on \in {"source", "route"} : select_before(o, on)
        \/ \E state \in SourceTargets : set_source_state(o, state)
        \/ \E p \in Policies : add_policy_version(o, p)
        \/ upsert_route(o)
        \/ \E state \in RouteTargets : set_route_state(o, state)

-------------------------------------------------------------------------------
\* Actions that the journal of the route records.
RouteActions == {"create", "set_state", "circuit_open"}

\* `value` is what the last of the rows before i that record one of `actions` has left,
\* or `first` if there is none.
Reached(rows, i, actions, first, value) ==
    \/ value = first /\ \A k \in 1..(i - 1) : rows[k].action \notin actions
    \/ \E k \in 1..(i - 1) :
          /\ rows[k].action \in actions /\ rows[k].after = value
          /\ \A l \in (k + 1)..(i - 1) : rows[l].action \notin actions

\* The rows that record one of `actions` form a chain from `first` to `last`: each starts
\* where the one before it ended.
Chain(rows, actions, first, last) ==
    /\ \A i \in 1..Len(rows) :
          rows[i].action \in actions => Reached(rows, i, actions, first, rows[i].before)
    /\ Reached(rows, Len(rows) + 1, actions, first, last)

\* The journal explains the rows: read in commit order, the audit entries of the source
\* and of the route lead from the created row to the present one without a gap, one
\* entry for each revision, although the state before was read in another statement
\* than the one that changed it, and by several actors at once.
AuditChain ==
    /\ Len(trail["source"]) = source.revision - 1
    /\ Len(trail["route"]) = route.revision
    /\ Chain(trail["source"], {"set_state"}, "paused", source.state)
    /\ Chain(trail["source"], {"add_policy_version"}, 0, source.policy)
    /\ route.revision > 0 => Chain(trail["route"], RouteActions, "none", route.state)

\* A fetcher opens circuits and decides nothing else: what it changes is a route that
\* was healthy or degraded at that moment.  An operator's `unsupported`, and a circuit that is open
\* already (for longer, or until an operator looks), are never overwritten by a 401/403
\* of a fetch that started before the decision, nor by the failure counter.
DecisionKept ==
    \A i \in 1..Len(trail["route"]) :
        LET e == trail["route"][i]
        IN  e.actor \notin Operators /\ e.action # "create" =>
                e.before \in CIRCUIT_OPENABLE_ROUTE_STATES /\ e.after = "circuit_open"
===============================================================================
