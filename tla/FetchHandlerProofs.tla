-------------------------- MODULE FetchHandlerProofs --------------------------
(***************************************************************************)
(* The properties of FetchHandler and SourceRoutes, for any numbers of     *)
(* operators, fetchers and jobs.  Two arguments meet.  The journal: a      *)
(* writer that passes the revision check has read the state before from    *)
(* the row it changes, although it read it in an earlier statement.  The   *)
(* content: whatever a handler may still report as a success shows a       *)
(* version that is stored, or is about to be stored by the same step.      *)
(***************************************************************************)
EXTENDS FetchHandler, ArtifactUpload, TLAPS

Writers == Operators \cup Workers
Policy == [robots : RobotsPolicies, browser : BOOLEAN]
SourceRow == [state : SourceStates, revision : Nat \ {0}, policy : Nat]
RouteRow == [state : RouteStates, revision : Nat, failures : Nat]
Form == [at : {"idle", "update"}, on : {"source", "route"}, revision : Nat,
         before : SourceStates \cup RouteStates \cup {"none"}]
StateEntry == [actor : Writers, action : {"set_state"}, before : SourceStates, after : SourceStates]
PolicyEntry == [actor : Writers, action : {"add_policy_version"}, before : Nat, after : Nat]
RouteEntry == [actor : Writers, action : RouteActions, before : RouteStates \cup {"none"},
               after : RouteStates]

\* The journal of the source holds states and policy versions in one sequence.
SourceRows(rows) ==
    /\ Len(rows) \in Nat /\ rows = [i \in 1..Len(rows) |-> rows[i]]
    /\ \A i \in 1..Len(rows) :
          rows[i] \in IF rows[i].action = "set_state" THEN StateEntry ELSE PolicyEntry

SourcesTypeOK ==
    /\ source \in SourceRow
    /\ policies \in Seq(Policy)
    /\ route \in RouteRow
    /\ trail = [source |-> trail.source, route |-> trail.route]
    /\ SourceRows(trail.source)
    /\ trail.route \in Seq(RouteEntry)
    /\ gui \in [Operators -> Form]

Shown == Versions \cup Rules \cup {"none"}
ErrorCodes == {"none", "media_binary_skipped"} \cup {f.error : f \in Failures}
Answers == [status : Nat, empty : BOOLEAN, error : ErrorCodes, shows : Shown]
Places == {"idle", "preflight", "snapshot", "robots_record", "robots_decide", "record",
           "incident", "report"}
Handler == [at : Places, job : Jobs, revision : Nat, policy : Nat, etag : Shown,
            had : BOOLEAN, answer : Answers, before : RouteStates \cup {"none"},
            result : Dispositions \cup {"none"}]
JobRow == [kind : Kinds, status : {"queued", "leased", "succeeded", "quarantined"},
           attempt : Int, saw : Shown]
Snapshot == [attempt : {"none", "fresh", "stale"}, own : Shown, stored : Shown]

FetchTypeOK ==
    /\ job \in [Jobs -> JobRow]
    /\ worker \in [Workers -> Handler]
    /\ validators \in Shown
    /\ robots \in Snapshot
    /\ stored \subseteq Shown
    /\ browser \subseteq Jobs

TypeOK == SourcesTypeOK /\ FetchTypeOK

-------------------------------------------------------------------------------
(***************************************************************************)
(* The inductive invariant.                                                *)
(***************************************************************************)

\* A form that waits for its UPDATE shows a revision the row has had; if the row is still
\* at that revision, the state it read is the state of the row.
FormFits(g, s, r) ==
    g.at = "update" =>
        /\ g.on = "source" => /\ g.revision <= s.revision
                              /\ g.revision = s.revision => g.before = s.state
        /\ g.on = "route" => /\ 0 < g.revision /\ g.revision <= r.revision
                             /\ g.revision = r.revision => g.before = r.state

FormsFit == \A o \in Operators : FormFits(gui[o], source, route)

\* Versions of the page that need no (more) storing.
Kept == stored \cup Media

\* Places of a handler between its preflight and its result.
Under == {"snapshot", "robots_record", "robots_decide", "record", "incident"}

\* What a handler x keeps of its preflight, against the route r and the kept versions.
Ready(x, r, kept) ==
    /\ 0 < x.revision /\ x.revision <= r.revision
    /\ x.revision = r.revision => r.state \in CIRCUIT_OPENABLE_ROUTE_STATES
    /\ x.etag \in kept \cup {"none"}

\* The handler x of a job of this kind, against the route r and the kept versions: its
\* preflight saw a revision the route has had, in a state that allows fetching, and
\* validators of a kept version; an incident has read the state of the row it may change;
\* a success in hand shows a version that is kept or brings its body; a success to be
\* reported shows a kept one.
Fits(x, r, kept, kind) ==
    /\ x.at \in Under => Ready(x, r, kept)
    /\ x.at = "incident" =>
          /\ decision(x.answer).route_incident
          /\ x.revision = r.revision => x.before = r.state
    /\ x.at \in {"record", "incident"} /\ kind # "robots" /\ decision(x.answer).outcome = Success =>
          StoresRaw(x.answer) \/ x.answer.shows \in kept
    /\ x.at = "report" =>
          /\ x.result \in Dispositions
          /\ kind # "robots" /\ x.result = "complete" => x.answer.shows \in kept

WorkersFit == \A w \in Workers : Fits(worker[w], route, Kept, KindOf(w))

\* A conditional request asks about a version that is kept.
ValidatorsFit == validators \in Kept \cup {"none"}

SourcesInv == SourcesTypeOK /\ FormsFit /\ AuditChain /\ DecisionKept
FetchInv == FetchTypeOK /\ WorkersFit /\ ValidatorsFit /\ SuccessHasContent
HandlerInv == SourcesInv /\ FetchInv

-------------------------------------------------------------------------------
(***************************************************************************)
(* Chains.                                                                 *)
(***************************************************************************)

\* What the rows before i have reached does not depend on the rows after them.
LEMMA ReachedBefore ==
    ASSUME NEW S, NEW rows \in Seq(S), NEW e, NEW actions, NEW first, NEW value,
           NEW i \in 1..(Len(rows) + 1), Reached(rows, i, actions, first, value)
    PROVE  Reached(Append(rows, e), i, actions, first, value)
<1>1. \A k \in 1..(i - 1) : k \in 1..Len(rows) /\ Append(rows, e)[k] = rows[k]
  OBVIOUS
<1>2. CASE value = first /\ \A k \in 1..(i - 1) : rows[k].action \notin actions
  BY <1>1, <1>2 DEF Reached
<1>3. CASE \E k \in 1..(i - 1) :
              /\ rows[k].action \in actions /\ rows[k].after = value
              /\ \A l \in (k + 1)..(i - 1) : rows[l].action \notin actions
  <2>1. PICK k \in 1..(i - 1) :
              /\ rows[k].action \in actions /\ rows[k].after = value
              /\ \A l \in (k + 1)..(i - 1) : rows[l].action \notin actions
    BY <1>3
  <2>2. \A l \in (k + 1)..(i - 1) : l \in 1..(i - 1)
    OBVIOUS
  <2> QED
    BY <1>1, <2>1, <2>2 DEF Reached
<1> QED
  BY <1>2, <1>3 DEF Reached

\* A journal without rows is a chain that ends where it starts.
LEMMA ChainEmpty ==
    ASSUME NEW actions, NEW first
    PROVE  Chain(<< >>, actions, first, first)
BY DEF Chain, Reached

\* A row that starts where the chain ended leads the chain on to where it ends.
LEMMA ChainStep ==
    ASSUME NEW S, NEW rows \in Seq(S), NEW e, NEW actions, NEW first,
           Chain(rows, actions, first, e.before), e.action \in actions
    PROVE  Chain(Append(rows, e), actions, first, e.after)
<1> DEFINE long == Append(rows, e)
           n == Len(rows)
<1>1. /\ n \in Nat /\ Len(long) = n + 1 /\ long[n + 1] = e
      /\ \A k \in 1..n : long[k] = rows[k]
  OBVIOUS
<1>2. ASSUME NEW i \in 1..Len(long), long[i].action \in actions
      PROVE  Reached(long, i, actions, first, long[i].before)
  <2>1. Reached(rows, i, actions, first, long[i].before)
    BY <1>1, <1>2 DEF Chain
  <2> QED
    BY <1>1, <2>1, ReachedBefore
<1>3. Reached(long, Len(long) + 1, actions, first, e.after)
  <2> HIDE DEF long, n
  <2>1. n + 1 \in 1..((Len(long) + 1) - 1) /\ \A l \in ((n + 1) + 1)..((Len(long) + 1) - 1) : FALSE
    BY <1>1
  <2> QED
    BY <1>1, <2>1 DEF Reached
<1> QED
  BY <1>2, <1>3 DEF Chain

\* A row of another kind leaves the chain as it is.
LEMMA ChainSkip ==
    ASSUME NEW S, NEW rows \in Seq(S), NEW e, NEW actions, NEW first, NEW last,
           Chain(rows, actions, first, last), e.action \notin actions
    PROVE  Chain(Append(rows, e), actions, first, last)
<1> DEFINE long == Append(rows, e)
           n == Len(rows)
<1>1. /\ n \in Nat /\ Len(long) = n + 1 /\ long[n + 1] = e
      /\ \A k \in 1..n : long[k] = rows[k]
  OBVIOUS
<1>2. ASSUME NEW i \in 1..Len(long), long[i].action \in actions
      PROVE  Reached(long, i, actions, first, long[i].before)
  <2>1. i \in 1..n
    BY <1>1, <1>2
  <2>2. Reached(rows, i, actions, first, long[i].before)
    BY <1>1, <1>2, <2>1 DEF Chain
  <2> QED
    BY <1>1, <2>1, <2>2, ReachedBefore
<1>3. Reached(long, n + 1, actions, first, last)
  BY <1>1, ReachedBefore DEF Chain
<1>4. Reached(long, Len(long) + 1, actions, first, last)
  <2> HIDE DEF long, n
  <2>1. (n + 1) - 1 = n /\ (Len(long) + 1) - 1 = n + 1
    BY <1>1
  <2>2. CASE last = first /\ \A k \in 1..n : long[k].action \notin actions
    <3>1. \A k \in 1..(n + 1) : long[k].action \notin actions
      <4>1. \A k \in 1..(n + 1) : k \in 1..n \/ k = n + 1
        BY <1>1
      <4> QED
        BY <4>1, <2>2, <1>1
    <3> QED
      BY <2>1, <2>2, <3>1 DEF Reached
  <2>3. CASE \E k \in 1..n :
                /\ long[k].action \in actions /\ long[k].after = last
                /\ \A l \in (k + 1)..n : long[l].action \notin actions
    <3>1. PICK k \in 1..n :
                /\ long[k].action \in actions /\ long[k].after = last
                /\ \A l \in (k + 1)..n : long[l].action \notin actions
      BY <2>3
    <3>2. k \in 1..(n + 1) /\ \A l \in (k + 1)..(n + 1) : l \in (k + 1)..n \/ l = n + 1
      BY <1>1
    <3> QED
      BY <1>1, <2>1, <3>1, <3>2 DEF Reached
  <2> QED
    BY <1>3, <2>1, <2>2, <2>3 DEF Reached
<1> QED
  BY <1>2, <1>4 DEF Chain

-------------------------------------------------------------------------------
(***************************************************************************)
(* The control plane: what one step of it does to the journal.             *)
(***************************************************************************)

\* A sequence is the function of its entries.
LEMMA SequenceIsFunction ==
    ASSUME NEW S, NEW rows \in Seq(S)
    PROVE  Len(rows) \in Nat /\ rows = [i \in 1..Len(rows) |-> rows[i]]
OBVIOUS

\* The journal of the source is a sequence, with and without one more row.
LEMMA SourceRowsAreSequence ==
    ASSUME NEW rows, SourceRows(rows)
    PROVE  rows \in Seq(StateEntry \cup PolicyEntry)
<1>1. Len(rows) \in Nat /\ rows = [i \in 1..Len(rows) |-> rows[i]]
  BY DEF SourceRows
<1>2. \A i \in 1..Len(rows) : rows[i] \in StateEntry \cup PolicyEntry
  BY DEF SourceRows
<1>3. rows \in [1..Len(rows) -> StateEntry \cup PolicyEntry]
  BY <1>1, <1>2
<1> QED
  BY <1>1, <1>3

\* One more row of either kind keeps the shape of the journal.
LEMMA SourceRowsAppend ==
    ASSUME NEW rows, SourceRows(rows), NEW e,
           e \in StateEntry \/ e \in PolicyEntry
    PROVE  SourceRows(Append(rows, e))
<1> DEFINE long == Append(rows, e)
           n == Len(rows)
<1>1. rows \in Seq(StateEntry \cup PolicyEntry)
  BY SourceRowsAreSequence
<1>2. long \in Seq(StateEntry \cup PolicyEntry)
  BY <1>1
<1>3. /\ n \in Nat /\ Len(long) = n + 1 /\ long[n + 1] = e
      /\ \A k \in 1..n : long[k] = rows[k]
  BY <1>1
<1>4. e \in IF e.action = "set_state" THEN StateEntry ELSE PolicyEntry
  BY DEF StateEntry, PolicyEntry
<1>5. \A i \in 1..Len(long) : i \in 1..n \/ i = n + 1
  BY <1>3
<1>6. Len(long) \in Nat /\ long = [i \in 1..Len(long) |-> long[i]]
  BY <1>2, SequenceIsFunction
<1>7. \A i \in 1..n : rows[i] \in IF rows[i].action = "set_state" THEN StateEntry ELSE PolicyEntry
  BY DEF SourceRows
<1> HIDE DEF long, n
<1>8. \A i \in 1..Len(long) :
         long[i] \in IF long[i].action = "set_state" THEN StateEntry ELSE PolicyEntry
  BY <1>3, <1>4, <1>5, <1>7
<1> QED
  BY <1>6, <1>8 DEF SourceRows, long

\* A session keeps its form or closes it.
FormsClose == \A o \in Operators : gui'[o] = gui[o] \/ gui'[o] = Closed

\* A form outlives every change of a row that takes a new revision.
LEMMA FormsLast ==
    ASSUME FormsFit, FormsClose, SourcesTypeOK, route' \in RouteRow, source' \in SourceRow,
           \/ source'.revision > source.revision
           \/ source'.revision = source.revision /\ source'.state = source.state,
           \/ route'.revision > route.revision
           \/ route'.revision = route.revision /\ route'.state = route.state
    PROVE  FormsFit'
<1> SUFFICES ASSUME NEW o \in Operators
             PROVE  FormFits(gui'[o], source', route')
  BY DEF FormsFit
<1>1. gui[o] \in Form
  BY DEF SourcesTypeOK
<1>2. FormFits(gui[o], source, route)
  BY DEF FormsFit
<1>3. CASE gui'[o] = gui[o]
  <2>1. gui[o].revision \in Nat /\ source.revision \in Nat /\ source'.revision \in Nat
        /\ route.revision \in Nat /\ route'.revision \in Nat
    BY <1>1 DEF SourcesTypeOK, Form, SourceRow, RouteRow
  <2> QED
    BY <1>2, <1>3, <2>1 DEF FormFits
<1>4. CASE gui'[o] = Closed
  BY <1>4 DEF FormFits, Closed
<1> QED
  BY <1>3, <1>4 DEF FormsClose

\* A new revision of the source is a row of sources.
LEMMA NextRevision ==
    ASSUME NEW s \in SourceRow
    PROVE  /\ \A state \in SourceStates :
                 LET r == [s EXCEPT !.state = state, !.revision = @ + 1]
                 IN  r \in SourceRow /\ r.revision = s.revision + 1
           /\ \A n \in Nat :
                 LET r == [s EXCEPT !.policy = n, !.revision = @ + 1]
                 IN  r \in SourceRow /\ r.revision = s.revision + 1
<1>1. s.revision + 1 \in Nat \ {0}
  BY DEF SourceRow
<1> QED
  BY <1>1 DEF SourceRow

\* One revision of the source with its row in the journal: a state or a policy version
\* that starts from the present one.
LEMMA SourceJournaled ==
    ASSUME SourcesInv, NEW actor \in Writers, NEW action, NEW before, NEW after,
           append_audit("source", Entry(actor, action, before, after)),
           \/ /\ action = "set_state" /\ before = source.state /\ after \in SourceStates
              /\ source' = [source EXCEPT !.state = after, !.revision = @ + 1]
           \/ /\ action = "add_policy_version" /\ before = source.policy /\ after \in Nat
              /\ source' = [source EXCEPT !.policy = after, !.revision = @ + 1],
           policies' \in Seq(Policy), route' = route,
           gui' \in [Operators -> Form], FormsClose
    PROVE  SourcesInv'
<1> DEFINE e == Entry(actor, action, before, after)
<1>1. trail' = [source |-> Append(trail.source, e), route |-> trail.route]
  BY DEF append_audit, SourcesInv, SourcesTypeOK
<1>2. trail'.source = Append(trail.source, e) /\ trail'.route = trail.route
  BY <1>1
<1>3. trail.source \in Seq(StateEntry \cup PolicyEntry)
  BY SourceRowsAreSequence DEF SourcesInv, SourcesTypeOK
<1>4. source \in SourceRow /\ source' \in SourceRow /\ source'.revision = source.revision + 1
  BY NextRevision DEF SourcesInv, SourcesTypeOK
<1>5. e \in StateEntry \/ e \in PolicyEntry
  BY <1>4 DEF Entry, StateEntry, PolicyEntry, SourceRow
<1>6. SourcesTypeOK'
  <2>1. SourceRows(trail'.source)
    BY <1>2, <1>5, SourceRowsAppend DEF SourcesInv, SourcesTypeOK
  <2> QED
    BY <1>1, <1>2, <1>4, <2>1 DEF SourcesInv, SourcesTypeOK
<1>7. FormsFit'
  <2>1. source'.revision > source.revision
    BY <1>4 DEF SourceRow
  <2> QED
    BY <1>4, <1>6, <2>1, FormsLast DEF SourcesInv, SourcesTypeOK
<1>8. Chain(trail'.source, {"set_state"}, "paused", source'.state)
  <2>1. Chain(trail.source, {"set_state"}, "paused", source.state)
    BY DEF SourcesInv, AuditChain
  <2>2. CASE action = "set_state"
    <3>1. e.action \in {"set_state"} /\ e.before = source.state /\ e.after = source'.state
      BY <1>4, <2>2 DEF Entry, SourceRow
    <3> HIDE DEF e
    <3>2. Chain(trail.source, {"set_state"}, "paused", e.before)
      BY <2>1, <3>1
    <3>3. Chain(Append(trail.source, e), {"set_state"}, "paused", e.after)
      BY <1>3, <3>1, <3>2, ChainStep
    <3> QED
      BY <1>2, <3>1, <3>3
  <2>3. CASE action = "add_policy_version"
    <3>1. e.action \notin {"set_state"} /\ source'.state = source.state
      BY <1>4, <2>3 DEF Entry, SourceRow
    <3> HIDE DEF e
    <3> QED
      BY <1>2, <1>3, <2>1, <3>1, ChainSkip
  <2> QED
    BY <2>2, <2>3
<1>9. Chain(trail'.source, {"add_policy_version"}, 0, source'.policy)
  <2>1. Chain(trail.source, {"add_policy_version"}, 0, source.policy)
    BY DEF SourcesInv, AuditChain
  <2>2. CASE action = "add_policy_version"
    <3>1. e.action \in {"add_policy_version"} /\ e.before = source.policy /\ e.after = source'.policy
      BY <1>4, <2>2 DEF Entry, SourceRow
    <3> HIDE DEF e
    <3>2. Chain(trail.source, {"add_policy_version"}, 0, e.before)
      BY <2>1, <3>1
    <3>3. Chain(Append(trail.source, e), {"add_policy_version"}, 0, e.after)
      BY <1>3, <3>1, <3>2, ChainStep
    <3> QED
      BY <1>2, <3>1, <3>3
  <2>3. CASE action = "set_state"
    <3>1. e.action \notin {"add_policy_version"} /\ source'.policy = source.policy
      BY <1>4, <2>3 DEF Entry, SourceRow
    <3> HIDE DEF e
    <3> QED
      BY <1>2, <1>3, <2>1, <3>1, ChainSkip
  <2> QED
    BY <2>2, <2>3
<1>10. AuditChain'
  <2>1. Len(trail'.source) = source'.revision - 1
    <3>1. Len(trail.source) = source.revision - 1 /\ source.revision \in Nat
      BY DEF SourcesInv, SourcesTypeOK, AuditChain, SourceRow
    <3>2. Len(trail'.source) = Len(trail.source) + 1
      BY <1>2, <1>3
    <3> QED
      BY <1>4, <3>1, <3>2
  <2> QED
    BY <1>2, <1>8, <1>9, <2>1 DEF SourcesInv, AuditChain
<1>11. DecisionKept'
  BY <1>2 DEF SourcesInv, DecisionKept
<1> QED
  BY <1>6, <1>7, <1>10, <1>11 DEF SourcesInv

\* One revision of the route with its row in the journal.  A fetcher's row opens a circuit
\* that may be opened.
LEMMA RouteJournaled ==
    ASSUME SourcesInv, NEW actor \in Writers, NEW action \in RouteActions, NEW before,
           NEW after \in RouteStates,
           append_audit("route", Entry(actor, action, before, after)),
           before = IF route.revision = 0 THEN "none" ELSE route.state,
           \/ actor \in Operators
           \/ action = "create"
           \/ before \in CIRCUIT_OPENABLE_ROUTE_STATES /\ after = "circuit_open",
           route' \in RouteRow, route'.state = after, route'.revision = route.revision + 1,
           source' = source, policies' = policies,
           gui' \in [Operators -> Form], FormsClose
    PROVE  SourcesInv'
<1> DEFINE e == Entry(actor, action, before, after)
<1>1. trail' = [source |-> trail.source, route |-> Append(trail.route, e)]
  BY DEF append_audit, SourcesInv, SourcesTypeOK
<1>2. trail'.source = trail.source /\ trail'.route = Append(trail.route, e)
  BY <1>1
<1>3. trail.route \in Seq(RouteEntry) /\ route \in RouteRow
  BY DEF SourcesInv, SourcesTypeOK
<1>4. e \in RouteEntry
  BY <1>3 DEF Entry, RouteEntry, RouteRow
<1>5. SourcesTypeOK'
  <2>1. trail'.route \in Seq(RouteEntry)
    BY <1>2, <1>3, <1>4
  <2> QED
    BY <1>1, <1>2, <2>1 DEF SourcesInv, SourcesTypeOK
<1>6. FormsFit'
  <2>1. route'.revision > route.revision
    BY <1>3 DEF RouteRow
  <2> QED
    BY <1>5, <2>1, FormsLast DEF SourcesInv, SourcesTypeOK
<1>7. Len(trail'.route) = route'.revision
  <2>1. Len(trail.route) = route.revision
    BY DEF SourcesInv, AuditChain
  <2> QED
    BY <1>2, <1>3, <2>1
<1>8. Chain(trail'.route, RouteActions, "none", route'.state)
  <2>1. Chain(trail.route, RouteActions, "none", before)
    <3>1. CASE route.revision = 0
      <4>1. Len(trail.route) = 0
        BY <3>1 DEF SourcesInv, AuditChain
      <4>2. trail.route = << >>
        BY <1>3, <4>1
      <4> QED
        BY <3>1, <4>2, ChainEmpty
    <3>2. CASE route.revision # 0
      <4>1. route.revision > 0
        BY <1>3, <3>2 DEF RouteRow
      <4> QED
        BY <3>2, <4>1 DEF SourcesInv, AuditChain
    <3> QED
      BY <3>1, <3>2
  <2>2. e.action \in RouteActions /\ e.before = before /\ e.after = route'.state
    BY DEF Entry
  <2> HIDE DEF e
  <2> QED
    BY <1>2, <1>3, <2>1, <2>2, ChainStep
<1>9. AuditChain'
  BY <1>2, <1>7, <1>8 DEF SourcesInv, AuditChain
<1>10. DecisionKept'
  <2> SUFFICES ASSUME NEW i \in 1..Len(trail'.route),
                      trail'.route[i].actor \notin Operators,
                      trail'.route[i].action # "create"
               PROVE  /\ trail'.route[i].before \in CIRCUIT_OPENABLE_ROUTE_STATES
                      /\ trail'.route[i].after = "circuit_open"
    BY DEF DecisionKept
  <2>1. CASE i \in 1..Len(trail.route)
    <3>1. trail'.route[i] = trail.route[i]
      BY <1>2, <1>3, <2>1
    <3> QED
      BY <2>1, <3>1 DEF SourcesInv, DecisionKept
  <2>2. CASE i = Len(trail.route) + 1
    <3>1. trail'.route[i] = e
      BY <1>2, <1>3, <2>2
    <3> QED
      BY <3>1 DEF Entry
  <2>3. i \in 1..Len(trail.route) \/ i = Len(trail.route) + 1
    BY <1>2, <1>3
  <2> QED
    BY <2>1, <2>2, <2>3
<1> QED
  BY <1>5, <1>6, <1>9, <1>10 DEF SourcesInv

\* A step that changes neither a state nor a revision leaves no row and needs none.
LEMMA SourcesQuiet ==
    ASSUME SourcesInv, UNCHANGED <<source, policies, trail>>, route' \in RouteRow,
           route'.state = route.state, route'.revision = route.revision,
           gui' \in [Operators -> Form], FormsClose
    PROVE  SourcesInv'
<1>1. FormsFit'
  BY FormsLast DEF SourcesInv, SourcesTypeOK
<1>2. SourcesTypeOK'
  BY DEF SourcesInv, SourcesTypeOK
<1>3. AuditChain'
  BY DEF SourcesInv, AuditChain
<1>4. DecisionKept'
  BY DEF SourcesInv, DecisionKept
<1> QED
  BY <1>1, <1>2, <1>3, <1>4 DEF SourcesInv

\* The operators' steps and the failure counter, one lemma each.  Besides the invariant
\* they show what fetchers rely on: a route that changes its state has a new revision.
RouteMoves ==
    /\ route' \in RouteRow
    /\ \/ route'.revision > route.revision
       \/ route'.revision = route.revision /\ route'.state = route.state

\* A session that is done closes its form.
LEMMA ClosedForm ==
    ASSUME SourcesInv, NEW o \in Operators, gui' = [gui EXCEPT ![o] = Closed]
    PROVE  gui' \in [Operators -> Form] /\ FormsClose
<1>1. Closed \in Form
  BY DEF Closed, Form
<1>2. gui \in [Operators -> Form]
  BY DEF SourcesInv, SourcesTypeOK
<1> QED
  BY <1>1, <1>2 DEF FormsClose

\* A form reads revision and state of its row in one statement.
LEMMA SelectBeforeKeeps ==
    ASSUME SourcesInv, NEW o \in Operators, NEW on \in {"source", "route"}, select_before(o, on)
    PROVE  SourcesInv' /\ RouteMoves
<1> DEFINE g == [at |-> "update", on |-> on, revision |-> RevisionOf(on), before |-> StateOf(on)]
<1>1. /\ source \in SourceRow /\ route \in RouteRow /\ gui \in [Operators -> Form]
      /\ RevisionOf(on) > 0 /\ gui' = [gui EXCEPT ![o] = g]
      /\ UNCHANGED <<source, policies, route, trail>>
  BY DEF SourcesInv, SourcesTypeOK, select_before
<1>2. g \in Form
  BY <1>1 DEF Form, RevisionOf, StateOf, SourceRow, RouteRow
<1>3. FormFits(g, source, route)
  BY <1>1 DEF FormFits, RevisionOf, StateOf, SourceRow, RouteRow
<1> HIDE DEF g
<1>4. gui' \in [Operators -> Form]
  BY <1>1, <1>2
<1>5. FormsFit'
  BY <1>1, <1>3 DEF FormsFit, SourcesInv
<1>6. SourcesTypeOK'
  BY <1>1, <1>4 DEF SourcesInv, SourcesTypeOK
<1>7. AuditChain' /\ DecisionKept'
  BY <1>1 DEF SourcesInv, AuditChain, DecisionKept
<1> QED
  BY <1>1, <1>5, <1>6, <1>7 DEF SourcesInv, RouteMoves

\* StaleRevisionError closes the form and leaves nothing behind.
LEMMA StaleFormKeeps ==
    ASSUME SourcesInv, NEW o \in Operators, gui' = [gui EXCEPT ![o] = Closed],
           UNCHANGED <<source, policies, route, trail>>
    PROVE  SourcesInv' /\ RouteMoves
<1>1. gui' \in [Operators -> Form] /\ FormsClose
  BY ClosedForm
<1>2. route' \in RouteRow /\ route' = route
  BY DEF SourcesInv, SourcesTypeOK
<1> QED
  BY <1>1, <1>2, SourcesQuiet DEF RouteMoves

\* set_source_state: the revision check makes the state read before the current one.
LEMMA SetSourceStateKeeps ==
    ASSUME SourcesInv, NEW o \in Operators, NEW state \in SourceTargets,
           set_source_state(o, state)
    PROVE  SourcesInv' /\ RouteMoves
<1>1. gui' = [gui EXCEPT ![o] = Closed] /\ UNCHANGED <<policies, route>>
  BY DEF set_source_state
<1>2. CASE UNCHANGED <<source, trail>>
  BY <1>1, <1>2, StaleFormKeeps
<1>3. CASE /\ source.revision = gui[o].revision
           /\ source' = [source EXCEPT !.state = state, !.revision = @ + 1]
           /\ append_audit("source", Entry(o, "set_state", gui[o].before, state))
  <2>1. gui[o].before = source.state
    BY <1>3 DEF SourcesInv, FormsFit, FormFits, set_source_state
  <2>2. o \in Writers /\ state \in SourceStates /\ policies' \in Seq(Policy)
    BY <1>1, SourcesAssumption DEF Writers, SourcesInv, SourcesTypeOK
  <2>3. gui' \in [Operators -> Form] /\ FormsClose
    BY <1>1, ClosedForm
  <2>4. SourcesInv'
    BY <1>1, <1>3, <2>1, <2>2, <2>3, SourceJournaled
  <2> QED
    BY <1>1, <2>4 DEF RouteMoves, SourcesInv, SourcesTypeOK
<1> QED
  BY <1>2, <1>3 DEF set_source_state

\* add_policy_version: the version before is read under the row lock.
LEMMA AddPolicyVersionKeeps ==
    ASSUME SourcesInv, NEW o \in Operators, NEW p \in Policies, add_policy_version(o, p)
    PROVE  SourcesInv' /\ RouteMoves
<1>1. gui' = [gui EXCEPT ![o] = Closed] /\ UNCHANGED route
  BY DEF add_policy_version
<1>2. CASE UNCHANGED <<source, policies, trail>>
  BY <1>1, <1>2, StaleFormKeeps
<1>3. CASE /\ policies' = Append(policies, p)
           /\ source' = [source EXCEPT !.policy = Len(policies) + 1, !.revision = @ + 1]
           /\ append_audit("source", Entry(o, "add_policy_version", source.policy,
                                           Len(policies) + 1))
  <2>1. policies \in Seq(Policy) /\ p \in Policy
    BY SourcesAssumption DEF Policy, SourcesInv, SourcesTypeOK
  <2>2. policies' \in Seq(Policy) /\ Len(policies) + 1 \in Nat
    BY <1>3, <2>1
  <2>3. o \in Writers
    BY DEF Writers
  <2>4. gui' \in [Operators -> Form] /\ FormsClose
    BY <1>1, ClosedForm
  <2>5. SourcesInv'
    BY <1>1, <1>3, <2>2, <2>3, <2>4, SourceJournaled
  <2> QED
    BY <1>1, <2>5 DEF RouteMoves, SourcesInv, SourcesTypeOK
<1> QED
  BY <1>2, <1>3 DEF add_policy_version

\* upsert_route: the first row of the journal of the route is its creation.
LEMMA UpsertRouteKeeps ==
    ASSUME SourcesInv, NEW o \in Operators, upsert_route(o)
    PROVE  SourcesInv' /\ RouteMoves
<1>1. /\ route \in RouteRow /\ route.revision = 0 /\ route' = [NoRoute EXCEPT !.revision = 1]
      /\ append_audit("route", Entry(o, "create", "none", "healthy"))
      /\ UNCHANGED <<source, policies, gui>> /\ gui \in [Operators -> Form]
  BY DEF upsert_route, SourcesInv, SourcesTypeOK
<1>2. /\ route' \in RouteRow /\ route'.state = "healthy" /\ route'.revision = route.revision + 1
      /\ route'.revision > route.revision
  BY <1>1 DEF NoRoute, RouteRow, RouteStates
<1>3. o \in Writers /\ "create" \in RouteActions /\ "healthy" \in RouteStates
  BY DEF Writers, RouteActions, RouteStates
<1>4. gui' \in [Operators -> Form] /\ FormsClose
  BY <1>1 DEF FormsClose
<1>5. SourcesInv'
  BY <1>1, <1>2, <1>3, <1>4, RouteJournaled
<1> QED
  BY <1>2, <1>5 DEF RouteMoves

\* A new revision of the route is a row of source_routes.
LEMMA NextRouteRevision ==
    ASSUME NEW r \in RouteRow, NEW state \in RouteStates
    PROVE  LET n == [r EXCEPT !.state = state, !.revision = @ + 1]
           IN  n \in RouteRow /\ n.state = state /\ n.revision = r.revision + 1
               /\ n.revision > r.revision
<1>1. r.revision \in Nat /\ r.revision + 1 \in Nat /\ r.revision + 1 > r.revision
  BY DEF RouteRow
<1> QED
  BY <1>1 DEF RouteRow

\* set_route_state, by an operator or by a fetcher that opens a circuit: the revision it
\* expects is the revision under which it read the state before.
LEMMA RouteUpdatedKeeps ==
    ASSUME SourcesInv, NEW actor \in Writers, NEW state \in RouteStates, NEW before, NEW expected,
           RouteUpdated(actor, state, before, expected), 0 < expected,
           expected = route.revision => before = route.state,
           \/ actor \in Operators
           \/ before \in CIRCUIT_OPENABLE_ROUTE_STATES /\ state = "circuit_open",
           UNCHANGED <<source, policies>>, gui' \in [Operators -> Form], FormsClose
    PROVE  SourcesInv' /\ RouteMoves
<1>1. /\ route \in RouteRow /\ route.revision = expected
      /\ route' = [route EXCEPT !.state = state, !.revision = @ + 1]
      /\ append_audit("route", Entry(actor, "set_state", before, state))
  BY DEF SourcesInv, SourcesTypeOK, RouteUpdated, RevisionMatches
<1>2. /\ route' \in RouteRow /\ route'.state = state /\ route'.revision = route.revision + 1
      /\ route'.revision > route.revision
  BY <1>1, NextRouteRevision
<1>3. before = IF route.revision = 0 THEN "none" ELSE route.state
  BY <1>1
<1>4. "set_state" \in RouteActions
  BY DEF RouteActions
<1>5. SourcesInv'
  BY <1>1, <1>2, <1>3, <1>4, RouteJournaled
<1> QED
  BY <1>2, <1>5 DEF RouteMoves

\* set_route_state of an operator.
LEMMA SetRouteStateKeeps ==
    ASSUME SourcesInv, NEW o \in Operators, NEW state \in RouteTargets, set_route_state(o, state)
    PROVE  SourcesInv' /\ RouteMoves
<1>1. gui' = [gui EXCEPT ![o] = Closed] /\ UNCHANGED <<source, policies>>
  BY DEF set_route_state
<1>2. CASE UNCHANGED <<route, trail>>
  BY <1>1, <1>2, StaleFormKeeps
<1>3. CASE RouteUpdated(o, state, gui[o].before, gui[o].revision)
  <2>1. 0 < gui[o].revision /\ (gui[o].revision = route.revision => gui[o].before = route.state)
    BY DEF SourcesInv, FormsFit, FormFits, set_route_state
  <2>2. o \in Writers /\ state \in RouteStates
    BY SourcesAssumption DEF Writers
  <2>3. gui' \in [Operators -> Form] /\ FormsClose
    BY <1>1, ClosedForm
  <2> QED
    BY <1>1, <1>3, <2>1, <2>2, <2>3, RouteUpdatedKeeps
<1> QED
  BY <1>2, <1>3 DEF set_route_state

\* record_route_failure counts without a revision, or opens a circuit that may be opened.
LEMMA RecordRouteFailureKeeps ==
    ASSUME SourcesInv, NEW w \in Workers, record_route_failure(w)
    PROVE  SourcesInv' /\ RouteMoves
<1>1. /\ route \in RouteRow /\ route.revision > 0
      /\ UNCHANGED <<source, policies, gui>> /\ gui \in [Operators -> Form]
  BY DEF record_route_failure, SourcesInv, SourcesTypeOK
<1>2. gui' \in [Operators -> Form] /\ FormsClose
  BY <1>1 DEF FormsClose
<1>3. CASE route' = [route EXCEPT !.failures = @ + 1] /\ UNCHANGED trail
  <2>1. route' \in RouteRow /\ route'.state = route.state /\ route'.revision = route.revision
    BY <1>1, <1>3 DEF RouteRow
  <2> QED
    BY <1>1, <1>2, <1>3, <2>1, SourcesQuiet DEF RouteMoves
<1>4. CASE /\ route.state \in CIRCUIT_OPENABLE_ROUTE_STATES
           /\ route' = [state |-> "circuit_open", revision |-> route.revision + 1,
                        failures |-> route.failures + 1]
           /\ append_audit("route", Entry(w, "circuit_open", route.state, "circuit_open"))
  <2>1. /\ route' \in RouteRow /\ route'.state = "circuit_open"
        /\ route'.revision = route.revision + 1 /\ route'.revision > route.revision
    BY <1>1, <1>4 DEF RouteRow, RouteStates
  <2>2. w \in Writers /\ "circuit_open" \in RouteActions /\ "circuit_open" \in RouteStates
    BY DEF Writers, RouteActions, RouteStates
  <2>3. route.state = IF route.revision = 0 THEN "none" ELSE route.state
    BY <1>1 DEF RouteRow
  <2>4. SourcesInv'
    BY <1>1, <1>2, <1>4, <2>1, <2>2, <2>3, RouteJournaled
  <2> QED
    BY <2>1, <2>4 DEF RouteMoves
<1> QED
  BY <1>3, <1>4 DEF record_route_failure

\* A fetcher's reset of the failures is not a decision: no revision, no row.
LEMMA ResetKeeps ==
    ASSUME SourcesInv, route' = route \/ route' = ResetFailures(route),
           UNCHANGED <<source, policies, trail, gui>>
    PROVE  SourcesInv' /\ RouteMoves
<1>1. route \in RouteRow /\ gui' \in [Operators -> Form] /\ FormsClose
  BY DEF SourcesInv, SourcesTypeOK, FormsClose
<1>2. route' \in RouteRow /\ route'.state = route.state /\ route'.revision = route.revision
  BY <1>1 DEF ResetFailures, RouteRow
<1> QED
  BY <1>1, <1>2, SourcesQuiet DEF RouteMoves

-------------------------------------------------------------------------------
(***************************************************************************)
(* Answers and results.                                                    *)
(***************************************************************************)

\* What an answer means is one of three outcomes, and an incident is not a success.
LEMMA DecisionShape ==
    ASSUME NEW a \in Answers
    PROVE  /\ decision(a).outcome \in {Success, Retryable, Permanent}
           /\ decision(a).route_incident => decision(a).outcome = Permanent
<1> DEFINE D == {Decision(Success, FALSE), Decision(Retryable, FALSE),
                 Decision(Permanent, TRUE), Decision(Permanent, FALSE)}
<1>1. \A s \in Nat, e \in BOOLEAN : classify_status(s, e) \in D
  BY DEF classify_status
<1>2. \A c \in ErrorCodes : classify_error(c) \in D
  BY DEF classify_error
<1>3. decision(a) \in D
  BY <1>1, <1>2 DEF decision, Answers
<1>4. \A d \in D : /\ d.outcome \in {Success, Retryable, Permanent}
                   /\ d.route_incident => d.outcome = Permanent
  BY DEF Decision
<1> QED
  BY <1>3, <1>4

\* A decision becomes "complete" exactly when it is a success.
LEMMA TaskResultShape ==
    ASSUME NEW a \in Answers
    PROVE  /\ task_result(decision(a)) \in Dispositions
           /\ task_result(decision(a)) = "complete" <=> decision(a).outcome = Success
BY DecisionShape DEF task_result, Dispositions, Success, Retryable, Permanent

\* An answer made of its parts.
LEMMA AnswerShape ==
    ASSUME NEW status \in Nat, NEW empty \in BOOLEAN, NEW error \in ErrorCodes, NEW shows \in Shown
    PROVE  LET a == Answer(status, empty, error, shows)
           IN  /\ a \in Answers
               /\ a.status = status /\ a.empty = empty /\ a.error = error /\ a.shows = shows
BY DEF Answer, Answers

\* A reply that is not empty is an answer.
LEMMA ReplyShape ==
    ASSUME NEW status \in Nat, NEW error \in ErrorCodes, NEW shows \in Shown
    PROVE  LET a == Reply(status, error, shows)
           IN  a \in Answers /\ a.status = status /\ a.error = error /\ a.shows = shows
<1>1. PICK empty \in BOOLEAN : empty = FALSE
  BY Zenon
<1>2. LET a == Answer(status, empty, error, shows)
      IN  a \in Answers /\ a.status = status /\ a.error = error /\ a.shows = shows
  BY AnswerShape
<1>3. Reply(status, error, shows) = Answer(status, empty, error, shows)
  BY <1>1, Zenon DEF Reply
<1> QED
  BY <1>2, <1>3, Zenon

\* The answers of the origin are answers.
LEMMA RefusalsShape ==
    ASSUME NEW v \in Shown, NEW a \in Refusals(v)
    PROVE  a \in Answers /\ decision(a).outcome # Success
<1>1. CASE a = Answer(200, TRUE, "none", v)
  <2>1. a \in Answers /\ a.error = "none" /\ a.status = 200 /\ a.empty = TRUE
    <3>1. 200 \in Nat /\ "none" \in ErrorCodes
      BY DEF ErrorCodes
    <3>2. PICK empty \in BOOLEAN : empty = TRUE
      BY Zenon
    <3>3. a = Answer(200, empty, "none", v)
      BY <1>1, <3>2, Zenon
    <3>4. a \in Answers /\ a.error = "none" /\ a.status = 200 /\ a.empty = empty
      BY <3>1, <3>3, AnswerShape
    <3> QED
      BY <3>2, <3>4, Zenon
  <2>2. classify_status(200, TRUE) = Decision(Retryable, FALSE)
    BY DEF classify_status, RETRYABLE_STATUSES
  <2>3. decision(a) = classify_status(200, TRUE)
    BY <2>1, Zenon DEF decision
  <2>4. Decision(Retryable, FALSE).outcome # Success
    BY DEF Decision, Success, Retryable
  <2> QED
    BY <2>1, <2>2, <2>3, <2>4
<1>2. CASE \E f \in Failures : a = Reply(f.status, f.error, "none")
  <2>1. PICK f \in Failures : a = Reply(f.status, f.error, "none")
    BY <1>2
  <2>2. f.status \in Nat /\ f.error \in ErrorCodes /\ decision(a).outcome # Success
    BY <2>1, FetchAssumption DEF ErrorCodes
  <2>3. "none" \in Shown
    BY DEF Shown
  <2> QED
    BY <2>1, <2>2, <2>3, ReplyShape
<1> QED
  BY <1>1, <1>2 DEF Refusals

\* An answer for the page that is a success brings the version it shows, or shows one that
\* is kept: a binary, or the version of the validators.
LEMMA PageAnswersFit ==
    ASSUME NEW kept, Media \subseteq kept, NEW etag, etag \in kept \cup {"none"},
           NEW a \in PageAnswers(etag)
    PROVE  /\ a \in Answers
           /\ decision(a).outcome = Success => StoresRaw(a) \/ a.shows \in kept
<1>1. PICK v \in Versions :
          a \in Refusals(v) \cup
                {IF etag = v THEN Reply(304, "none", v)
                 ELSE Reply(200, IF v \in Media THEN "media_binary_skipped" ELSE "none", v)}
  BY DEF PageAnswers
<1>2. v \in Shown /\ v # "none"
  BY FetchAssumption DEF Shown
<1>3. CASE a \in Refusals(v)
  BY <1>2, <1>3, RefusalsShape
<1>4. CASE etag = v /\ a = Reply(304, "none", v)
  BY <1>2, <1>4, ReplyShape DEF ErrorCodes
<1>5. CASE v \in Media /\ a = Reply(200, "media_binary_skipped", v)
  BY <1>2, <1>5, ReplyShape DEF ErrorCodes
<1>6. CASE a = Reply(200, "none", v)
  <2>1. a \in Answers /\ a.error = "none" /\ a.status = 200
    BY <1>2, <1>6, ReplyShape DEF ErrorCodes
  <2>2. 200 \in 200..299
    OBVIOUS
  <2>3. HasBody(a)
    BY <2>1, <2>2, Zenon DEF HasBody
  <2> QED
    BY <2>1, <2>3 DEF StoresRaw
<1> QED
  BY <1>1, <1>3, <1>4, <1>5, <1>6

\* What the origin sends for its robots file is an answer.
LEMMA RobotsAnswersShape ==
    ASSUME NEW a \in RobotsAnswers \cup Unchanged304
    PROVE  a \in Answers
<1> "none" \in Shown /\ Rules \subseteq Shown
  BY DEF Shown
<1>1. CASE a \in Refusals("none")
  BY <1>1, RefusalsShape
<1>2. CASE a = Reply(404, "none", "none") \/ a = Reply(304, "none", "none")
  <2>1. "none" \in ErrorCodes /\ 404 \in Nat /\ 304 \in Nat
    BY DEF ErrorCodes
  <2>2. QED  BY <1>2, <2>1, ReplyShape
<1>3. CASE \E s \in RobotsStatuses, r \in Rules : a = Reply(s, "none", r)
  BY <1>3, ReplyShape, FetchAssumption DEF ErrorCodes
<1>4. CASE a \in Unchanged304
  BY <1>2, <1>4 DEF Unchanged304
<1>5. CASE a \in RobotsAnswers
  BY <1>1, <1>2, <1>3, <1>5 DEF RobotsAnswers
<1> QED
  BY <1>4, <1>5

-------------------------------------------------------------------------------
(***************************************************************************)
(* Handlers: what a step of one leaves true of all.                        *)
(***************************************************************************)
KindsStay == \A j \in Jobs : job'[j].kind = job[j].kind

\* A fit handler stays fit while the route moves and versions are stored.
LEMMA FitsLasts ==
    ASSUME NEW x \in Handler, NEW r \in RouteRow, NEW s \in RouteRow, NEW k, NEW m, NEW kind,
           k \subseteq m, Fits(x, r, k, kind),
           s.revision > r.revision \/ (s.revision = r.revision /\ s.state = r.state)
    PROVE  Fits(x, s, m, kind)
<1>1. x.revision \in Nat /\ r.revision \in Nat /\ s.revision \in Nat
  BY DEF Handler, RouteRow
<1>2. x.at \in Under => Ready(x, s, m)
  BY <1>1 DEF Fits, Ready
<1>3. x.at = "incident" => /\ decision(x.answer).route_incident
                           /\ x.revision = s.revision => x.before = s.state
  BY <1>1 DEF Fits, Ready, Under
<1> QED
  BY <1>2, <1>3 DEF Fits

\* One handler takes a step, the others stay where they are.
LEMMA HandlerTurn ==
    ASSUME HandlerInv, NEW w \in Workers, NEW x \in Handler, worker' = [worker EXCEPT ![w] = x],
           RouteMoves, KindsStay, stored \subseteq stored',
           Fits(x, route', Kept', job[x.job].kind)
    PROVE  worker' \in [Workers -> Handler] /\ WorkersFit'
<1>1. worker \in [Workers -> Handler] /\ route \in RouteRow /\ WorkersFit
  BY DEF HandlerInv, FetchInv, FetchTypeOK, SourcesInv, SourcesTypeOK
<1>2. worker' \in [Workers -> Handler]
  BY <1>1
<1>3. Kept \subseteq Kept'
  BY DEF Kept
<1>4. ASSUME NEW v \in Workers
      PROVE  Fits(worker'[v], route', Kept', job'[worker'[v].job].kind)
  <2>1. worker'[v].job \in Jobs
    BY <1>2 DEF Handler
  <2>2. job'[worker'[v].job].kind = job[worker'[v].job].kind
    BY <2>1 DEF KindsStay
  <2>3. CASE v = w
    BY <1>1, <2>2, <2>3
  <2>4. CASE v # w
    <3>1. worker'[v] = worker[v] /\ worker[v] \in Handler
      BY <1>1, <2>4
    <3>2. Fits(worker[v], route, Kept, job[worker[v].job].kind)
      BY <1>1 DEF WorkersFit, KindOf
    <3>3. Fits(worker[v], route', Kept', job[worker[v].job].kind)
      BY <1>1, <1>3, <3>1, <3>2, FitsLasts DEF RouteMoves
    <3> QED
      BY <2>2, <3>1, <3>3
  <2> QED
    BY <2>3, <2>4
<1>5. WorkersFit'
  BY <1>4 DEF WorkersFit, KindOf
<1> QED
  BY <1>2, <1>5

\* A worker without a task is a handler.
LEMMA IdleShape == Idle \in Handler /\ Idle.at = "idle"
<1>1. (CHOOSE j \in Jobs : TRUE) \in Jobs
  BY FetchAssumption
<1>2. NoAnswer \in Answers
  BY ReplyShape DEF NoAnswer, Shown, ErrorCodes
<1>3. PICK had \in BOOLEAN : had = FALSE
  BY Zenon
<1>4. Idle = [at |-> "idle", job |-> CHOOSE j \in Jobs : TRUE, revision |-> 0, policy |-> 0,
              etag |-> "none", had |-> had, answer |-> NoAnswer, before |-> "none", result |-> "none"]
  BY <1>3, Zenon DEF Idle
<1> QED
  BY <1>1, <1>2, <1>4 DEF Handler, Places, Shown, Dispositions

\* A handler that returns a result is fit if a success shows a kept version.
LEMMA ResultKeeps ==
    ASSUME HandlerInv, NEW w \in Workers, NEW r \in Dispositions, Result(w, r),
           RouteMoves, KindsStay, stored \subseteq stored',
           r = "complete" /\ KindOf(w) # "robots" => worker[w].answer.shows \in Kept'
    PROVE  worker' \in [Workers -> Handler] /\ WorkersFit'
<1> DEFINE s == IF r = "complete" /\ KindOf(w) # "robots" THEN worker[w].answer.shows ELSE "none"
           x == [Idle EXCEPT !.at = "report", !.job = worker[w].job, !.result = r,
                             !.answer.shows = s]
<1>1. worker' = [worker EXCEPT ![w] = x]
  BY DEF Result
<1>2. worker[w] \in Handler
  BY DEF HandlerInv, FetchInv, FetchTypeOK
<1>3. s \in Shown
  BY <1>2 DEF Handler, Answers, Shown
<1>4. worker[w].job \in Jobs
  BY <1>2 DEF Handler
<1>5. /\ x \in Handler /\ x.at = "report" /\ x.job = worker[w].job /\ x.result = r
      /\ x.answer.shows = s
  <2> HIDE DEF s
  <2>1. Idle.answer \in Answers
    BY IdleShape DEF Handler
  <2>2. [Idle.answer EXCEPT !.shows = s] \in Answers
    BY <2>1, <1>3 DEF Answers
  <2>3. [Idle.answer EXCEPT !.shows = s].shows = s
    BY <2>1 DEF Answers
  <2> QED
    BY <1>4, <2>1, <2>2, <2>3, IdleShape DEF Handler, Places
<1>6. Fits(x, route', Kept', job[x.job].kind)
  <2> HIDE DEF x
  <2> QED
    BY <1>5 DEF Fits, Under, KindOf
<1> HIDE DEF x
<1> QED
  BY <1>1, <1>5, <1>6, HandlerTurn

-------------------------------------------------------------------------------
(***************************************************************************)
(* The steps of a worker, one lemma each.                                  *)
(***************************************************************************)

\* What the invariant says of one worker.
LEMMA OfWorker ==
    ASSUME HandlerInv, NEW w \in Workers
    PROVE  /\ worker[w] \in Handler /\ worker[w].job \in Jobs /\ worker[w].answer \in Answers
           /\ Fits(worker[w], route, Kept, KindOf(w))
           /\ route \in RouteRow
BY DEF HandlerInv, FetchInv, FetchTypeOK, WorkersFit, SourcesInv, SourcesTypeOK, Handler

\* A step that writes nothing outside the handlers.
Reads == UNCHANGED <<sourceVars, job, validators, robots, stored, browser>>

\* Such a step keeps the control plane, the kinds and the kept versions.
LEMMA ReadsMoveNothing ==
    ASSUME HandlerInv, Reads
    PROVE  /\ SourcesInv' /\ RouteMoves /\ KindsStay /\ stored \subseteq stored'
           /\ route' = route /\ Kept' = Kept
<1>1. /\ UNCHANGED <<source, policies, route, trail, gui>>
      /\ job' = job /\ stored' = stored
  BY DEF Reads, sourceVars
<1>2. SourcesInv' /\ RouteMoves
  BY <1>1, ResetKeeps DEF HandlerInv
<1> QED
  BY <1>1, <1>2 DEF KindsStay, Kept

\* Such a step keeps the invariant if the handlers are fit after it.
LEMMA ReadsKeeps ==
    ASSUME HandlerInv, Reads, worker' \in [Workers -> Handler], WorkersFit'
    PROVE  HandlerInv'
<1>1. SourcesInv' /\ Kept' = Kept
  BY ReadsMoveNothing
<1>2. FetchTypeOK'
  BY DEF HandlerInv, FetchInv, FetchTypeOK, Reads
<1>3. ValidatorsFit'
  BY <1>1 DEF HandlerInv, FetchInv, ValidatorsFit, Reads
<1>4. SuccessHasContent'
  BY DEF HandlerInv, FetchInv, SuccessHasContent, Reads
<1> QED
  BY <1>1, <1>2, <1>3, <1>4 DEF HandlerInv, FetchInv

\* A handler that returns what is no success.
LEMMA GivesUpKeeps ==
    ASSUME HandlerInv, Reads, NEW w \in Workers, NEW r \in Dispositions, Result(w, r),
           r # "complete" \/ KindOf(w) = "robots"
    PROVE  HandlerInv'
<1>1. worker' \in [Workers -> Handler] /\ WorkersFit'
  BY ReadsMoveNothing, ResultKeeps
<1> QED
  BY <1>1, ReadsKeeps

\* A handler goes on to another place.
LEMMA GoesOnKeeps ==
    ASSUME HandlerInv, Reads, NEW w \in Workers, NEW x \in Handler,
           worker' = [worker EXCEPT ![w] = x], Fits(x, route, Kept, job[x.job].kind)
    PROVE  HandlerInv'
<1>1. worker' \in [Workers -> Handler] /\ WorkersFit'
  BY ReadsMoveNothing, HandlerTurn
<1> QED
  BY <1>1, ReadsKeeps

\* The request for the job's own URL.
LEMMA FetchedKeeps ==
    ASSUME HandlerInv, Reads, NEW w \in Workers, NEW read \in Handler,
           read.job = worker[w].job, Ready(read, route, Kept), Fetched(w, read)
    PROVE  HandlerInv'
<1>1. CASE Result(w, "defer")
  BY <1>1, GivesUpKeeps DEF Dispositions
<1>2. CASE \E a \in IF KindOf(w) = "robots" THEN RobotsAnswers \cup Unchanged304
                                            ELSE PageAnswers(read.etag) :
              worker' = [worker EXCEPT ![w] = [read EXCEPT !.at = "record", !.answer = a]]
  <2>1. PICK a \in IF KindOf(w) = "robots" THEN RobotsAnswers \cup Unchanged304
                                           ELSE PageAnswers(read.etag) :
              worker' = [worker EXCEPT ![w] = [read EXCEPT !.at = "record", !.answer = a]]
    BY <1>2
  <2>2. /\ a \in Answers
        /\ KindOf(w) # "robots" /\ decision(a).outcome = Success =>
              StoresRaw(a) \/ a.shows \in Kept
    <3>1. CASE KindOf(w) = "robots"
      BY <2>1, <3>1, RobotsAnswersShape
    <3>2. CASE KindOf(w) # "robots"
      <4>1. Media \subseteq Kept /\ read.etag \in Kept \cup {"none"} /\ a \in PageAnswers(read.etag)
        BY <2>1, <3>2 DEF Kept, Ready
      <4> QED
        BY <4>1, PageAnswersFit
    <3> QED
      BY <3>1, <3>2
  <2> DEFINE x == [read EXCEPT !.at = "record", !.answer = a]
  <2>3. /\ x \in Handler /\ x.at = "record" /\ x.answer = a /\ x.job = worker[w].job
        /\ x.revision = read.revision /\ x.etag = read.etag
    BY <2>2 DEF Handler, Places
  <2>4. worker' = [worker EXCEPT ![w] = x]
    BY <2>1
  <2> HIDE DEF x
  <2>5. Fits(x, route, Kept, job[x.job].kind)
    BY <2>2, <2>3 DEF Fits, Ready, KindOf
  <2> QED
    BY <2>3, <2>4, <2>5, GoesOnKeeps
<1> QED
  BY <1>1, <1>2 DEF Fetched

\* The request for the robots file of a page.
LEMMA RobotsFetchedKeeps ==
    ASSUME HandlerInv, Reads, NEW w \in Workers, NEW read \in Handler,
           read.job = worker[w].job, Ready(read, route, Kept), RobotsFetched(w, read)
    PROVE  HandlerInv'
<1>1. CASE Result(w, "defer")
  BY <1>1, GivesUpKeeps DEF Dispositions
<1>2. CASE \E a \in RobotsAnswers :
              worker' = [worker EXCEPT ![w] = [read EXCEPT !.at = "robots_record", !.answer = a,
                                                           !.had = robots.attempt # "none"]]
  <2>1. PICK had \in BOOLEAN : had = (robots.attempt # "none")
    BY Zenon
  <2>2. \E a \in RobotsAnswers :
              worker' = [worker EXCEPT ![w] = [read EXCEPT !.at = "robots_record", !.answer = a,
                                                           !.had = had]]
    BY <1>2, <2>1, Zenon
  <2>3. PICK a \in RobotsAnswers :
              worker' = [worker EXCEPT ![w] = [read EXCEPT !.at = "robots_record", !.answer = a,
                                                           !.had = had]]
    BY <2>2
  <2>4. a \in Answers
    BY <2>3, RobotsAnswersShape
  <2> DEFINE x == [read EXCEPT !.at = "robots_record", !.answer = a, !.had = had]
  <2>5. /\ x \in Handler /\ x.at = "robots_record"
        /\ x.revision = read.revision /\ x.etag = read.etag
    BY <2>1, <2>4 DEF Handler, Places
  <2>6. worker' = [worker EXCEPT ![w] = x]
    BY <2>3
  <2> HIDE DEF x
  <2>7. Fits(x, route, Kept, job[x.job].kind)
    BY <2>5 DEF Fits, Ready
  <2> QED
    BY <2>5, <2>6, <2>7, GoesOnKeeps
<1> QED
  BY <1>1, <1>2 DEF RobotsFetched

\* handle() up to its first request: whoever passes has seen a route that may be fetched.
LEMMA PreflightKeeps ==
    ASSUME HandlerInv, NEW w \in Workers, preflight(w)
    PROVE  HandlerInv'
<1> DEFINE read == get_fetch_preflight(w)
<1>1. Reads
  BY DEF preflight, Reads
<1>2. worker[w] \in Handler /\ route \in RouteRow
  BY OfWorker
<1>3. /\ read \in Handler /\ read.job = worker[w].job /\ read.revision = route.revision
      /\ read.etag = validators /\ read.at = worker[w].at
  BY <1>2 DEF get_fetch_preflight, HandlerInv, FetchInv, FetchTypeOK, SourcesInv, SourcesTypeOK,
              Handler, RouteRow, SourceRow
<1>4. ASSUME refusal(w) = "none"
      PROVE  Ready(read, route, Kept)
  <2>1. route.revision # 0 /\ ~RouteRefuses
    BY <1>4 DEF refusal
  <2>2. route.state \in CIRCUIT_OPENABLE_ROUTE_STATES
    BY <1>2, <2>1 DEF RouteRefuses, RouteRow, RouteStates, CIRCUIT_OPENABLE_ROUTE_STATES
  <2>3. 0 < route.revision /\ route.revision <= route.revision
    BY <1>2, <2>1 DEF RouteRow
  <2>4. validators \in Kept \cup {"none"}
    BY DEF HandlerInv, FetchInv, ValidatorsFit
  <2> HIDE DEF read
  <2> QED
    BY <1>3, <2>2, <2>3, <2>4 DEF Ready
<1>5. CASE refusal(w) # "none" /\ Result(w, refusal(w))
  <2>1. refusal(w) \in {"quarantine", "defer"}
    BY <1>5 DEF refusal
  <2> QED
    BY <1>1, <1>5, <2>1, GivesUpKeeps DEF Dispositions
<1>6. CASE /\ refusal(w) = "none"
           /\ worker' = [worker EXCEPT ![w] = [read EXCEPT !.at = "snapshot"]]
  <2> DEFINE x == [read EXCEPT !.at = "snapshot"]
  <2> HIDE DEF read
  <2>1. /\ x \in Handler /\ x.at = "snapshot" /\ x.revision = read.revision
        /\ x.etag = read.etag
    BY <1>3 DEF Handler, Places
  <2>2. worker' = [worker EXCEPT ![w] = x]
    BY <1>6
  <2> HIDE DEF x
  <2>3. Fits(x, route, Kept, job[x.job].kind)
    BY <1>4, <1>6, <2>1 DEF Fits, Ready
  <2> QED
    BY <1>1, <2>1, <2>2, <2>3, GoesOnKeeps
<1>7. CASE refusal(w) = "none" /\ Fetched(w, read)
  <2> HIDE DEF read
  <2> QED
    BY <1>1, <1>3, <1>4, <1>7, FetchedKeeps
<1> QED
  BY <1>5, <1>6, <1>7 DEF preflight

\* The decision on the robots rules goes on to the page or refuses it.
LEMMA DecidedKeeps ==
    ASSUME HandlerInv, Reads, NEW w \in Workers, worker[w].at \in Under, Decided(w)
    PROVE  HandlerInv'
<1>1. worker[w] \in Handler /\ Ready(worker[w], route, Kept)
  BY OfWorker DEF Fits
<1>2. CASE Result(w, "quarantine")
  BY <1>2, GivesUpKeeps DEF Dispositions
<1>3. CASE Fetched(w, [worker[w] EXCEPT !.had = FALSE])
  <2>1. PICK had \in BOOLEAN : had = FALSE
    BY Zenon
  <2> DEFINE x == [worker[w] EXCEPT !.had = had]
  <2>2. Fetched(w, x)
    BY <1>3, <2>1, Zenon
  <2>3. /\ x \in Handler /\ x.job = worker[w].job /\ x.revision = worker[w].revision
        /\ x.etag = worker[w].etag
    BY <1>1, <2>1 DEF Handler
  <2> HIDE DEF x
  <2>4. Ready(x, route, Kept)
    BY <1>1, <2>3 DEF Ready
  <2> QED
    BY <2>2, <2>3, <2>4, FetchedKeeps
<1> QED
  BY <1>2, <1>3 DEF Decided

\* latest_robots_snapshot and what follows from it.
LEMMA SnapshotKeeps ==
    ASSUME HandlerInv, NEW w \in Workers, snapshot(w)
    PROVE  HandlerInv'
<1>1. Reads
  BY DEF snapshot, Reads
<1>2. worker[w].at \in Under
  BY DEF snapshot, Under
<1>3. worker[w] \in Handler /\ Ready(worker[w], route, Kept)
  BY <1>2, OfWorker DEF Fits
<1>4. CASE KindOf(w) = "robots" /\ Result(w, "complete")
  BY <1>1, <1>4, GivesUpKeeps DEF Dispositions
<1>5. CASE Fetched(w, worker[w])
  BY <1>1, <1>3, <1>5, FetchedKeeps
<1>6. CASE Decided(w)
  BY <1>1, <1>2, <1>6, DecidedKeeps
<1>7. CASE RobotsFetched(w, worker[w])
  BY <1>1, <1>3, <1>7, RobotsFetchedKeeps
<1> QED
  BY <1>4, <1>5, <1>6, <1>7 DEF snapshot

\* The decision after the robots file was refreshed.
LEMMA DecideRobotsKeeps ==
    ASSUME HandlerInv, NEW w \in Workers, decide_robots(w)
    PROVE  HandlerInv'
<1>1. Reads /\ worker[w].at \in Under /\ Decided(w)
  BY DEF decide_robots, Reads, Under
<1> QED
  BY <1>1, DecidedKeeps

\* An exception ends a handler with a retry.
LEMMA RaisesKeeps ==
    ASSUME HandlerInv, NEW w \in Workers, raises(w)
    PROVE  HandlerInv'
<1>1. Reads /\ Result(w, "retry")
  BY DEF raises, Reads, result_for_exception
<1> QED
  BY <1>1, GivesUpKeeps DEF Dispositions

\* An incident reads the state of the route it may change.
LEMMA IncidentBeforeKeeps ==
    ASSUME HandlerInv, NEW w \in Workers, incident_before(w)
    PROVE  HandlerInv'
<1> DEFINE x == [worker[w] EXCEPT !.at = "incident", !.before = route.state]
<1>1. /\ worker[w] \in Handler /\ route \in RouteRow /\ worker[w].answer \in Answers
      /\ Fits(worker[w], route, Kept, KindOf(w))
  BY OfWorker
<1>2. /\ Reads /\ worker[w].at = "record" /\ decision(worker[w].answer).route_incident
      /\ worker' = [worker EXCEPT ![w] = x]
  <2>1. worker \in [Workers -> Handler]
    BY DEF HandlerInv, FetchInv, FetchTypeOK
  <2> QED
    BY <1>1, <2>1 DEF incident_before, Reads, Handler
<1>3. /\ x \in Handler /\ x.at = "incident" /\ x.before = route.state /\ x.job = worker[w].job
      /\ x.revision = worker[w].revision /\ x.etag = worker[w].etag
      /\ x.answer = worker[w].answer
  BY <1>1 DEF Handler, Places, RouteRow
<1> HIDE DEF x
<1>4. Ready(x, route, Kept)
  BY <1>1, <1>2, <1>3 DEF Fits, Ready, Under
<1>5. decision(x.answer).outcome # Success
  BY <1>1, <1>2, <1>3, DecisionShape DEF Success, Permanent
<1>6. Fits(x, route, Kept, job[x.job].kind)
  BY <1>2, <1>3, <1>4, <1>5 DEF Fits
<1> QED
  BY <1>2, <1>3, <1>6, GoesOnKeeps

\* Steps of the queue: the handlers' data stay, and a job changes its row, but not its
\* kind.
QueueStep == UNCHANGED <<sourceVars, validators, robots, stored, browser>>

\* A job that becomes succeeded by such a step shows a kept version.
LEMMA QueueStepKeeps ==
    ASSUME HandlerInv, QueueStep, NEW w \in Workers, NEW x \in Handler, NEW j \in Jobs,
           NEW row \in JobRow, row.kind = job[j].kind,
           row.status = "succeeded" /\ row.kind # "robots" => row.saw \in Kept,
           job' = [job EXCEPT ![j] = row], worker' = [worker EXCEPT ![w] = x],
           x.at \in {"idle", "preflight"}
    PROVE  HandlerInv'
<1>1. UNCHANGED <<source, policies, route, trail, gui>> /\ stored' = stored
  BY DEF QueueStep, sourceVars
<1>2. SourcesInv' /\ RouteMoves
  BY <1>1, ResetKeeps DEF HandlerInv
<1>3. job \in [Jobs -> JobRow] /\ job' \in [Jobs -> JobRow]
  BY DEF HandlerInv, FetchInv, FetchTypeOK
<1>4. KindsStay
  BY <1>3 DEF KindsStay
<1>5. Fits(x, route', Kept', job[x.job].kind)
  BY DEF Fits, Under
<1>6. worker' \in [Workers -> Handler] /\ WorkersFit'
  BY <1>1, <1>2, <1>4, <1>5, HandlerTurn
<1>7. FetchTypeOK'
  BY <1>3, <1>6 DEF HandlerInv, FetchInv, FetchTypeOK, QueueStep
<1>8. ValidatorsFit'
  BY <1>1 DEF HandlerInv, FetchInv, ValidatorsFit, Kept, QueueStep
<1>9. SuccessHasContent'
  <2> SUFFICES ASSUME NEW i \in Jobs, job'[i].status = "succeeded", job'[i].kind # "robots"
               PROVE  job'[i].saw \in stored \cup Media
    BY <1>1 DEF SuccessHasContent
  <2>1. CASE i = j
    BY <1>3, <2>1 DEF Kept
  <2>2. CASE i # j
    <3>1. job'[i] = job[i]
      BY <1>3, <2>2
    <3> QED
      BY <3>1 DEF HandlerInv, FetchInv, SuccessHasContent
  <2> QED
    BY <2>1, <2>2
<1> QED
  BY <1>2, <1>6, <1>7, <1>8, <1>9 DEF HandlerInv, FetchInv

\* claim_job starts a handler that has read nothing yet.
LEMMA ClaimKeeps ==
    ASSUME HandlerInv, NEW w \in Workers, NEW j \in Jobs, claim_job(w, j)
    PROVE  HandlerInv'
<1> DEFINE x == [Idle EXCEPT !.at = "preflight", !.job = j]
           row == [job[j] EXCEPT !.status = "leased", !.attempt = @ + 1]
<1>1. job \in [Jobs -> JobRow] /\ job[j] \in JobRow
  BY DEF HandlerInv, FetchInv, FetchTypeOK
<1>2. /\ QueueStep /\ worker' = [worker EXCEPT ![w] = x] /\ job' = [job EXCEPT ![j] = row]
  BY <1>1 DEF claim_job, QueueStep
<1>3. x \in Handler /\ x.at = "preflight"
  BY IdleShape DEF Handler, Places
<1>4. row \in JobRow /\ row.kind = job[j].kind /\ row.status = "leased"
  <2>1. job[j].attempt + 1 \in Int
    BY <1>1 DEF JobRow
  <2> QED
    BY <1>1, <2>1 DEF JobRow
<1> HIDE DEF x, row
<1> QED
  BY <1>2, <1>3, <1>4, QueueStepKeeps

\* The report of a success carries the version the handler ended with.
LEMMA ReportKeeps ==
    ASSUME HandlerInv, NEW w \in Workers, report(w)
    PROVE  HandlerInv'
<1> DEFINE j == worker[w].job
           r == worker[w].result
           row == Reported(job[j], worker[w])
<1>1. /\ job \in [Jobs -> JobRow] /\ j \in Jobs /\ job[j] \in JobRow
      /\ worker[w] \in Handler /\ worker[w].answer \in Answers
      /\ Fits(worker[w], route, Kept, KindOf(w))
  BY OfWorker DEF HandlerInv, FetchInv, FetchTypeOK
<1>2. QueueStep /\ worker' = [worker EXCEPT ![w] = Idle] /\ worker[w].at = "report"
  BY DEF report, QueueStep
<1>3. r \in Dispositions
  BY <1>1, <1>2 DEF Fits
<1>4. job' = [job EXCEPT ![j] = row]
  BY DEF report
<1>5. /\ row \in JobRow /\ row.kind = job[j].kind
      /\ row.status = "succeeded" => r = "complete" /\ row.saw = worker[w].answer.shows
  <2>1. job[j].attempt - 1 \in Int /\ worker[w].answer.shows \in Shown
    BY <1>1 DEF JobRow, Answers
  <2>2. CASE r = "complete"
    <3>1. row = [job[j] EXCEPT !.status = "succeeded", !.saw = worker[w].answer.shows]
      BY <1>1, <2>2 DEF Reported
    <3> QED
      BY <1>1, <2>1, <2>2, <3>1 DEF JobRow
  <2>3. CASE r = "quarantine"
    <3>1. row = [job[j] EXCEPT !.status = "quarantined"]
      BY <1>1, <2>3 DEF Reported
    <3> QED
      BY <1>1, <3>1 DEF JobRow
  <2>4. CASE r = "defer"
    <3>1. row = [job[j] EXCEPT !.status = "queued", !.attempt = @ - 1]
      BY <1>1, <2>4 DEF Reported
    <3> QED
      BY <1>1, <2>1, <3>1 DEF JobRow
  <2>5. CASE r = "retry"
    <3>1. PICK s \in {"queued", "quarantined"} : row = [job[j] EXCEPT !.status = s]
      BY <1>1, <2>5 DEF Reported
    <3> QED
      BY <1>1, <3>1 DEF JobRow
  <2> QED
    BY <1>3, <2>2, <2>3, <2>4, <2>5 DEF Dispositions
<1>6. row.status = "succeeded" /\ row.kind # "robots" => row.saw \in Kept
  BY <1>1, <1>2, <1>5 DEF Fits, KindOf
<1> HIDE DEF row
<1> QED
  BY <1>1, <1>2, <1>4, <1>5, <1>6, IdleShape, QueueStepKeeps

\* A dead worker leaves a queued job and nothing else.
LEMMA DieKeeps ==
    ASSUME HandlerInv, NEW w \in Workers, die(w)
    PROVE  HandlerInv'
<1> DEFINE j == worker[w].job
           row == [job[j] EXCEPT !.status = "queued"]
<1>1. job \in [Jobs -> JobRow] /\ j \in Jobs /\ job[j] \in JobRow
  BY OfWorker DEF HandlerInv, FetchInv, FetchTypeOK
<1>2. /\ QueueStep /\ worker' = [worker EXCEPT ![w] = Idle] /\ job' = [job EXCEPT ![j] = row]
  BY <1>1 DEF die, QueueStep
<1>3. row \in JobRow /\ row.kind = job[j].kind /\ row.status = "queued"
  BY <1>1 DEF JobRow
<1> HIDE DEF row
<1> QED
  BY <1>1, <1>2, <1>3, IdleShape, QueueStepKeeps

-------------------------------------------------------------------------------
(***************************************************************************)
(* The records of an answer.                                               *)
(***************************************************************************)

\* What a transaction that stores versions and keeps the jobs leaves true.
LEMMA StoresKeeps ==
    ASSUME HandlerInv, SourcesInv', job' = job, worker' \in [Workers -> Handler], WorkersFit',
           stored \subseteq stored', stored' \subseteq Shown, browser' \subseteq Jobs,
           robots' \in Snapshot, validators' \in Shown, validators' \in Kept' \cup {"none"}
    PROVE  HandlerInv'
<1>1. FetchTypeOK'
  BY DEF HandlerInv, FetchInv, FetchTypeOK
<1>2. SuccessHasContent'
  BY DEF HandlerInv, FetchInv, SuccessHasContent
<1> QED
  BY <1>1, <1>2 DEF HandlerInv, FetchInv, ValidatorsFit

\* A recorded robots answer leaves a snapshot.
LEMMA RobotsRecordedShape ==
    ASSUME HandlerInv, NEW a \in Answers, RobotsRecorded(a)
    PROVE  robots' \in Snapshot
<1>1. robots \in Snapshot /\ a.shows \in Shown /\ "none" \in Shown
  BY DEF HandlerInv, FetchInv, FetchTypeOK, Answers, Shown
<1>2. PICK rules \in Shown : rules = IF StoresRaw(a) THEN a.shows ELSE "none"
  BY <1>1
<1>3. robots' = [attempt |-> IF RobotsAttempt(a) THEN "fresh" ELSE robots.attempt,
                 own     |-> IF RobotsAttempt(a) THEN rules ELSE robots.own,
                 stored  |-> IF StoresRaw(a) THEN a.shows ELSE robots.stored]
  BY <1>2 DEF RobotsRecorded
<1> QED
  BY <1>1, <1>2, <1>3 DEF Snapshot

\* record_fetch for the job's own URL leaves validators of a kept version: they come with
\* a success that stores its body in the same transaction, or shows a kept version.
LEMMA RecordedKeeps ==
    ASSUME HandlerInv, NEW w \in Workers, NEW a \in Answers, Recorded(w, a), stored \subseteq stored',
           KindOf(w) # "robots" /\ decision(a).outcome = Success => a.shows \in Kept'
    PROVE  /\ robots' \in Snapshot
           /\ validators' \in Shown /\ validators' \in Kept' \cup {"none"}
<1>1. /\ robots \in Snapshot /\ validators \in Shown /\ validators \in Kept' \cup {"none"}
      /\ a.shows \in Shown
  BY DEF HandlerInv, FetchInv, FetchTypeOK, ValidatorsFit, Kept, Answers
<1>2. CASE KindOf(w) = "robots"
  BY <1>1, <1>2, RobotsRecordedShape DEF Recorded
<1>3. CASE KindOf(w) # "robots"
  <2>1. robots' = robots
        /\ validators' = IF validators_predicate(a) THEN a.shows ELSE validators
    BY <1>3 DEF Recorded
  <2> QED
    BY <1>1, <1>3, <2>1 DEF validators_predicate
<1> QED
  BY <1>2, <1>3

\* A robots answer is recorded without effect on the state of the route.
LEMMA RecordRobotsKeeps ==
    ASSUME HandlerInv, NEW w \in Workers, record_robots(w)
    PROVE  HandlerInv'
<1> DEFINE a == worker[w].answer
<1>1. /\ worker[w] \in Handler /\ a \in Answers /\ Fits(worker[w], route, Kept, KindOf(w))
      /\ worker \in [Workers -> Handler] /\ worker[w].at = "robots_record"
      /\ UNCHANGED <<source, policies, trail, gui, job, validators, stored, browser>>
  BY OfWorker DEF record_robots, HandlerInv, FetchInv, FetchTypeOK
<1>2. CASE Result(w, "defer") /\ UNCHANGED <<robots, route>>
  BY <1>1, <1>2, GivesUpKeeps DEF Reads, sourceVars, Dispositions
<1>3. CASE /\ RobotsRecorded(a) /\ ResetOnSuccess(a)
           /\ \/ worker' = [worker EXCEPT ![w].at = "robots_decide", ![w].had = FALSE,
                                          ![w].answer = NoAnswer]
              \/ Result(w, task_result(decision(a))) /\ decision(a).outcome # Success
  <2>1. SourcesInv' /\ RouteMoves
    BY <1>1, <1>3, ResetKeeps DEF ResetOnSuccess, HandlerInv
  <2>2. robots' \in Snapshot
    BY <1>1, <1>3, RobotsRecordedShape
  <2>3. KindsStay /\ stored \subseteq stored' /\ Kept \subseteq Kept'
    BY <1>1 DEF KindsStay, Kept
  <2>4. worker' \in [Workers -> Handler] /\ WorkersFit'
    <3>1. CASE Result(w, task_result(decision(a))) /\ decision(a).outcome # Success
      <4>1. task_result(decision(a)) \in Dispositions /\ task_result(decision(a)) # "complete"
        BY <1>1, <3>1, TaskResultShape
      <4> QED
        BY <2>1, <2>3, <3>1, <4>1, ResultKeeps
    <3>2. CASE worker' = [worker EXCEPT ![w].at = "robots_decide", ![w].had = FALSE,
                                        ![w].answer = NoAnswer]
      <4>1. PICK had \in BOOLEAN : had = FALSE
        BY Zenon
      <4> DEFINE x == [worker[w] EXCEPT !.at = "robots_decide", !.had = had, !.answer = NoAnswer]
      <4>2. worker' = [worker EXCEPT ![w] = x]
        <5>1. worker' = [worker EXCEPT ![w].at = "robots_decide", ![w].had = had,
                                       ![w].answer = NoAnswer]
          BY <3>2, <4>1, Zenon
        <5> QED
          BY <1>1, <5>1 DEF Handler
      <4>3. NoAnswer \in Answers
        BY IdleShape DEF Idle, Handler
      <4>4. /\ x \in Handler /\ x.at = "robots_decide" /\ x.revision = worker[w].revision
            /\ x.etag = worker[w].etag
        BY <1>1, <4>1, <4>3 DEF Handler, Places
      <4> HIDE DEF x
      <4>5. Ready(x, route, Kept)
        BY <1>1, <4>4 DEF Fits, Ready, Under
      <4>6. Fits(x, route, Kept, job[x.job].kind)
        BY <4>4, <4>5 DEF Fits
      <4>7. Fits(x, route', Kept', job[x.job].kind)
        BY <2>1, <2>3, <4>4, <4>6, OfWorker, FitsLasts DEF RouteMoves
      <4> QED
        BY <2>1, <2>3, <4>2, <4>4, <4>7, HandlerTurn
    <3> QED
      BY <1>3, <3>1, <3>2
  <2>5. /\ stored' \subseteq Shown /\ browser' \subseteq Jobs /\ validators' \in Shown
        /\ validators' \in Kept' \cup {"none"} /\ job' = job
    BY <1>1, <2>3 DEF HandlerInv, FetchInv, FetchTypeOK, ValidatorsFit
  <2> QED
    BY <2>1, <2>2, <2>3, <2>4, <2>5, StoresKeeps
<1> QED
  BY <1>2, <1>3 DEF record_robots

\* What a handler makes of an answer that is recorded, if its commit is confirmed or not.
LEMMA AnsweredKeeps ==
    ASSUME HandlerInv, NEW w \in Workers, SourcesInv', RouteMoves, job' = job,
           stored \subseteq stored', stored' \subseteq Shown, browser' \subseteq Jobs,
           Recorded(w, worker[w].answer),
           KindOf(w) # "robots" /\ decision(worker[w].answer).outcome = Success
              => worker[w].answer.shows \in Kept',
           \/ Result(w, task_result(decision(worker[w].answer)))
           \/ Result(w, result_for_exception)
    PROVE  HandlerInv'
<1> DEFINE a == worker[w].answer
<1>1. a \in Answers
  BY OfWorker
<1>2. KindsStay
  BY DEF KindsStay
<1>3. CASE Result(w, result_for_exception)
  <2>1. result_for_exception \in Dispositions /\ result_for_exception # "complete"
    BY DEF result_for_exception, Dispositions
  <2>2. worker' \in [Workers -> Handler] /\ WorkersFit'
    BY <1>2, <1>3, <2>1, ResultKeeps
  <2> QED
    BY <1>1, <2>2, RecordedKeeps, StoresKeeps
<1>4. CASE Result(w, task_result(decision(a)))
  <2>1. /\ task_result(decision(a)) \in Dispositions
        /\ task_result(decision(a)) = "complete" => decision(a).outcome = Success
    BY <1>1, TaskResultShape
  <2>2. worker' \in [Workers -> Handler] /\ WorkersFit'
    BY <1>2, <1>4, <2>1, ResultKeeps
  <2> QED
    BY <1>1, <2>2, RecordedKeeps, StoresKeeps
<1> QED
  BY <1>3, <1>4

\* _store_raw stores the version it shows in the transaction that records the fetch.
LEMMA StoreRawKeeps ==
    ASSUME HandlerInv, NEW w \in Workers, store_raw(w)
    PROVE  HandlerInv'
<1> DEFINE a == worker[w].answer
<1>1. UNCHANGED <<source, policies, trail, gui, job, browser>> /\ a \in Answers
  BY OfWorker DEF store_raw
<1>2. CASE Result(w, "defer") /\ UNCHANGED <<validators, robots, stored, route>>
  BY <1>1, <1>2, GivesUpKeeps DEF Reads, sourceVars, Dispositions
<1>3. CASE /\ Recorded(w, a) /\ route' = ResetFailures(route)
           /\ IF KindOf(w) = "robots" THEN UNCHANGED stored ELSE record_raw_object(a.shows)
           /\ \/ Result(w, task_result(decision(a)))
              \/ Result(w, result_for_exception)
  <2>1. SourcesInv' /\ RouteMoves
    BY <1>1, <1>3, ResetKeeps DEF HandlerInv
  <2>2. /\ stored \subseteq stored' /\ stored' \subseteq Shown /\ browser' \subseteq Jobs
        /\ KindOf(w) # "robots" => a.shows \in Kept'
    BY <1>1, <1>3 DEF record_raw_object, HandlerInv, FetchInv, FetchTypeOK, Answers, Kept
  <2> QED
    BY <1>1, <1>3, <2>1, <2>2, AnsweredKeeps
<1> QED
  BY <1>2, <1>3 DEF store_raw

\* _record_without_raw: a success without a body shows a kept version.
LEMMA RecordWithoutRawKeeps ==
    ASSUME HandlerInv, NEW w \in Workers, record_without_raw(w)
    PROVE  HandlerInv'
<1> DEFINE a == worker[w].answer
<1>1. /\ UNCHANGED <<source, policies, trail, gui, job, stored, browser>>
      /\ worker[w].at = "record" /\ ~StoresRaw(a) /\ Recorded(w, a) /\ ResetOnSuccess(a)
      /\ \/ Result(w, task_result(decision(a)))
         \/ Result(w, result_for_exception)
  BY DEF record_without_raw
<1>2. SourcesInv' /\ RouteMoves
  BY <1>1, ResetKeeps DEF ResetOnSuccess, HandlerInv
<1>3. /\ stored \subseteq stored' /\ stored' \subseteq Shown /\ browser' \subseteq Jobs
      /\ Kept' = Kept
  BY <1>1 DEF HandlerInv, FetchInv, FetchTypeOK, Kept
<1>4. KindOf(w) # "robots" /\ decision(a).outcome = Success => a.shows \in Kept'
  BY <1>1, <1>3, OfWorker DEF Fits
<1> QED
  BY <1>1, <1>2, <1>3, <1>4, AnsweredKeeps

\* An incident that passes the revision check opens a circuit that may be opened.
LEMMA RecordIncidentKeeps ==
    ASSUME HandlerInv, NEW w \in Workers, record_incident(w)
    PROVE  HandlerInv'
<1> DEFINE a == worker[w].answer
<1>1. /\ UNCHANGED <<source, policies, gui, job, stored>> /\ worker[w].at = "incident"
  BY DEF record_incident
<1>2. /\ worker[w] \in Handler /\ worker[w].job \in Jobs /\ a \in Answers
      /\ Fits(worker[w], route, Kept, KindOf(w))
  BY OfWorker
<1>3. CASE /\ Result(w, result_for_exception)
           /\ UNCHANGED <<route, trail, validators, robots, browser>>
  BY <1>1, <1>3, GivesUpKeeps DEF Reads, sourceVars, Dispositions, result_for_exception
<1>4. CASE /\ RouteUpdated(w, "circuit_open", worker[w].before, worker[w].revision)
           /\ Recorded(w, a)
           /\ browser' = browser \/ browser' = browser \cup {worker[w].job}
           /\ \/ Result(w, task_result(decision(a)))
              \/ Result(w, result_for_exception)
  <2>1. /\ 0 < worker[w].revision
        /\ worker[w].revision = route.revision =>
              worker[w].before = route.state /\ route.state \in CIRCUIT_OPENABLE_ROUTE_STATES
        /\ decision(a).route_incident
    BY <1>1, <1>2 DEF Fits, Ready, Under
  <2>2. worker[w].before \in CIRCUIT_OPENABLE_ROUTE_STATES
    BY <1>4, <2>1 DEF RouteUpdated, RevisionMatches
  <2>3. /\ gui' \in [Operators -> Form] /\ FormsClose
        /\ w \in Writers /\ "circuit_open" \in RouteStates
    BY <1>1 DEF HandlerInv, SourcesInv, SourcesTypeOK, FormsClose, Writers, RouteStates
  <2>4. SourcesInv' /\ RouteMoves
    BY <1>1, <1>4, <2>1, <2>2, <2>3, RouteUpdatedKeeps DEF HandlerInv
  <2>5. /\ stored \subseteq stored' /\ stored' \subseteq Shown /\ browser' \subseteq Jobs
    BY <1>1, <1>2, <1>4 DEF HandlerInv, FetchInv, FetchTypeOK
  <2>6. decision(a).outcome # Success
    BY <1>2, <2>1, DecisionShape DEF Success, Permanent
  <2> QED
    BY <1>1, <1>4, <2>4, <2>5, <2>6, AnsweredKeeps
<1> QED
  BY <1>3, <1>4 DEF record_incident

-------------------------------------------------------------------------------
(***************************************************************************)
(* The theorems.                                                           *)
(***************************************************************************)

\* A step of an operator or of the failure counter, beside the handlers.
LEMMA ControlKeeps ==
    ASSUME HandlerInv, SourcesInv', RouteMoves, UNCHANGED fetchVars
    PROVE  HandlerInv'
<1>1. UNCHANGED <<job, worker, validators, robots, stored, browser>>
  BY DEF fetchVars
<1>2. worker \in [Workers -> Handler] /\ route \in RouteRow /\ WorkersFit /\ Kept' = Kept
  BY <1>1 DEF HandlerInv, FetchInv, FetchTypeOK, SourcesInv, SourcesTypeOK, Kept
<1>3. WorkersFit'
  <2> SUFFICES ASSUME NEW w \in Workers
               PROVE  Fits(worker[w], route', Kept, job[worker[w].job].kind)
    BY <1>1, <1>2 DEF WorkersFit, KindOf
  <2>1. Fits(worker[w], route, Kept, job[worker[w].job].kind)
    BY <1>2 DEF WorkersFit, KindOf
  <2> QED
    BY <1>2, <2>1, FitsLasts DEF RouteMoves
<1>4. FetchTypeOK' /\ ValidatorsFit' /\ SuccessHasContent'
  BY <1>1, <1>2 DEF HandlerInv, FetchInv, FetchTypeOK, ValidatorsFit, SuccessHasContent
<1> QED
  BY <1>3, <1>4 DEF HandlerInv, FetchInv

\* The operators' steps together.
LEMMA OperatorStepKeeps ==
    ASSUME SourcesInv, OperatorStep
    PROVE  SourcesInv' /\ RouteMoves
<1>1. PICK o \in Operators :
        \/ \E on \in {"source", "route"} : select_before(o, on)
        \/ \E state \in SourceTargets : set_source_state(o, state)
        \/ \E p \in Policies : add_policy_version(o, p)
        \/ upsert_route(o)
        \/ \E state \in RouteTargets : set_route_state(o, state)
  BY DEF OperatorStep
<1>2. CASE \E on \in {"source", "route"} : select_before(o, on)
  BY <1>2, SelectBeforeKeeps
<1>3. CASE \E state \in SourceTargets : set_source_state(o, state)
  BY <1>3, SetSourceStateKeeps
<1>4. CASE \E p \in Policies : add_policy_version(o, p)
  BY <1>4, AddPolicyVersionKeeps
<1>5. CASE upsert_route(o)
  BY <1>5, UpsertRouteKeeps
<1>6. CASE \E state \in RouteTargets : set_route_state(o, state)
  BY <1>6, SetRouteStateKeeps
<1> QED
  BY <1>1, <1>2, <1>3, <1>4, <1>5, <1>6

\* The snapshot becomes stale.
LEMMA RobotsAgesKeeps ==
    ASSUME HandlerInv, robots_ages
    PROVE  HandlerInv'
<1>1. UNCHANGED <<source, policies, route, trail, gui, job, worker, validators, stored, browser>>
  BY DEF robots_ages, sourceVars
<1>2. SourcesInv'
  BY <1>1, ResetKeeps DEF HandlerInv
<1>3. robots' \in Snapshot
  BY DEF robots_ages, HandlerInv, FetchInv, FetchTypeOK, Snapshot
<1>4. worker' \in [Workers -> Handler] /\ WorkersFit' /\ Kept' = Kept
  BY <1>1 DEF HandlerInv, FetchInv, FetchTypeOK, WorkersFit, KindOf, Kept
<1>5. /\ stored' \subseteq Shown /\ browser' \subseteq Jobs /\ validators' \in Shown
      /\ validators' \in Kept' \cup {"none"}
  BY <1>1, <1>4 DEF HandlerInv, FetchInv, FetchTypeOK, ValidatorsFit
<1> QED
  BY <1>1, <1>2, <1>3, <1>4, <1>5, StoresKeeps

\* The steps of a worker together.
LEMMA WorkerStepKeeps ==
    ASSUME HandlerInv, NEW w \in Workers, WorkerStep(w)
    PROVE  HandlerInv'
<1>1. CASE \E j \in Jobs : claim_job(w, j)
  BY <1>1, ClaimKeeps
<1>2. CASE report(w)
  BY <1>2, ReportKeeps
<1>3. CASE die(w)
  BY <1>3, DieKeeps
<1>4. CASE raises(w)
  BY <1>4, RaisesKeeps
<1>5. CASE preflight(w)
  BY <1>5, PreflightKeeps
<1>6. CASE snapshot(w)
  BY <1>6, SnapshotKeeps
<1>7. CASE record_robots(w)
  BY <1>7, RecordRobotsKeeps
<1>8. CASE decide_robots(w)
  BY <1>8, DecideRobotsKeeps
<1>9. CASE store_raw(w)
  BY <1>9, StoreRawKeeps
<1>10. CASE record_without_raw(w)
  BY <1>10, RecordWithoutRawKeeps
<1>11. CASE incident_before(w)
  BY <1>11, IncidentBeforeKeeps
<1>12. CASE record_incident(w)
  BY <1>12, RecordIncidentKeeps
<1> QED
  BY <1>1, <1>2, <1>3, <1>4, <1>5, <1>6, <1>7, <1>8, <1>9, <1>10, <1>11, <1>12 DEF WorkerStep

\* A source with its first policy, enabled, and no route.
LEMMA SourcesInitially ==
    ASSUME SourcesInit
    PROVE  SourcesInv
<1>1. PICK o \in Operators :
          trail = [source |-> <<Entry(o, "add_policy_version", 0, 1),
                                Entry(o, "set_state", "paused", "enabled")>>,
                   route  |-> << >>]
  BY DEF SourcesInit
<1> DEFINE e == Entry(o, "add_policy_version", 0, 1)
           f == Entry(o, "set_state", "paused", "enabled")
<1>2. trail = [source |-> trail.source, route |-> trail.route]
      /\ trail.source = <<e, f>> /\ trail.route = << >>
  BY <1>1
<1>3. o \in Writers /\ e \in PolicyEntry /\ f \in StateEntry
  BY DEF Writers, Entry, PolicyEntry, StateEntry, SourceStates
<1>4. source = [state |-> "enabled", revision |-> 3, policy |-> 1] /\ route = NoRoute
      /\ gui = [p \in Operators |-> Closed]
  BY DEF SourcesInit
<1>5. SourcesTypeOK
  <2>1. SourceRows(<< >>)
    BY DEF SourceRows
  <2>2. SourceRows(Append(<< >>, e)) /\ SourceRows(Append(Append(<< >>, e), f))
    BY <1>3, <2>1, SourceRowsAppend
  <2>3. <<e, f>> = Append(Append(<< >>, e), f)
    OBVIOUS
  <2>4. source \in SourceRow /\ route \in RouteRow
    BY <1>4 DEF SourceRow, SourceStates, NoRoute, RouteRow, RouteStates
  <2>5. policies \in Seq(Policy)
    <3>1. PICK p \in Policies : policies = <<p>>
      BY DEF SourcesInit
    <3> QED
      BY <3>1, SourcesAssumption DEF Policy
  <2>6. gui \in [Operators -> Form]
    BY <1>4 DEF Closed, Form
  <2> HIDE DEF e, f
  <2>7. SourceRows(trail.source)
    BY <1>2, <2>2, <2>3
  <2>8. trail.route \in Seq(RouteEntry)
    BY <1>2
  <2> QED
    BY <1>2, <2>4, <2>5, <2>6, <2>7, <2>8 DEF SourcesTypeOK
<1>6. FormsFit
  BY <1>4 DEF FormsFit, FormFits, Closed
<1>7. AuditChain
  <2>1. << >> \in Seq({e, f}) /\ Append(<< >>, e) \in Seq({e, f})
        /\ <<e, f>> = Append(Append(<< >>, e), f)
    OBVIOUS
  <2>2. /\ e.action = "add_policy_version" /\ e.before = 0 /\ e.after = 1
        /\ f.action = "set_state" /\ f.before = "paused" /\ f.after = "enabled"
    BY DEF Entry
  <2> HIDE DEF e, f
  <2>3. Chain(<<e, f>>, {"set_state"}, "paused", f.after)
    <3>1. Chain(Append(<< >>, e), {"set_state"}, "paused", f.before)
      BY <2>1, <2>2, ChainEmpty, ChainSkip
    <3> QED
      BY <2>1, <2>2, <3>1, ChainStep
  <2>4. Chain(<<e, f>>, {"add_policy_version"}, 0, e.after)
    <3>1. Chain(Append(<< >>, e), {"add_policy_version"}, 0, e.after)
      BY <2>1, <2>2, ChainEmpty, ChainStep
    <3> QED
      BY <2>1, <2>2, <3>1, ChainSkip
  <2>5. Len(trail.source) = 2 /\ Len(trail.route) = 0
    BY <1>2
  <2>6. source.revision = 3 /\ source.state = "enabled" /\ source.policy = 1 /\ route.revision = 0
    BY <1>4 DEF NoRoute
  <2> QED
    BY <1>2, <2>2, <2>3, <2>4, <2>5, <2>6 DEF AuditChain
<1>8. DecisionKept
  BY <1>2 DEF DecisionKept
<1> QED
  BY <1>5, <1>6, <1>7, <1>8 DEF SourcesInv

\* The invariant holds in every state the handlers, the operators, the failure counter and
\* the queue can reach together.
THEOREM FetchInvariance == Spec => []HandlerInv
<1>1. Init => HandlerInv
  <2> SUFFICES ASSUME Init PROVE HandlerInv
    OBVIOUS
  <2>1. SourcesInv
    BY SourcesInitially DEF Init
  <2>2. FetchTypeOK
    <3>1. PICK kind \in [Jobs -> Kinds] :
            job = [j \in Jobs |-> [kind |-> kind[j], status |-> "queued", attempt |-> 0, saw |-> "none"]]
      BY DEF Init
    <3>2. job \in [Jobs -> JobRow]
      BY <3>1 DEF JobRow, Shown
    <3>3. worker \in [Workers -> Handler]
      BY IdleShape DEF Init
    <3>4. robots \in Snapshot
      BY DEF Init, NoSnapshot, Snapshot, Shown
    <3> QED
      BY <3>2, <3>3, <3>4 DEF Init, FetchTypeOK, Shown
  <2>3. WorkersFit
    <3>1. \A w \in Workers : worker[w].at = "idle"
      BY IdleShape DEF Init
    <3> QED
      BY <3>1 DEF WorkersFit, Fits, Under
  <2>4. ValidatorsFit
    BY DEF Init, ValidatorsFit
  <2>5. SuccessHasContent
    <3>1. \A j \in Jobs : job[j].status = "queued"
      BY DEF Init
    <3> QED
      BY <3>1 DEF SuccessHasContent
  <2> QED
    BY <2>1, <2>2, <2>3, <2>4, <2>5 DEF HandlerInv, FetchInv
<1>2. HandlerInv /\ [Next]_vars => HandlerInv'
  <2> SUFFICES ASSUME HandlerInv, [Next]_vars PROVE HandlerInv'
    OBVIOUS
  <2>1. CASE OperatorStep /\ UNCHANGED fetchVars
    BY <2>1, OperatorStepKeeps, ControlKeeps DEF HandlerInv
  <2>2. CASE \E w \in Workers : record_route_failure(w) /\ UNCHANGED fetchVars
    BY <2>2, RecordRouteFailureKeeps, ControlKeeps DEF HandlerInv
  <2>3. CASE \E w \in Workers : WorkerStep(w)
    BY <2>3, WorkerStepKeeps
  <2>4. CASE robots_ages
    BY <2>4, RobotsAgesKeeps
  <2>5. CASE UNCHANGED vars
    <3>1. UNCHANGED fetchVars /\ UNCHANGED <<source, policies, trail, gui, route>>
      BY <2>5 DEF vars, sourceVars
    <3>2. SourcesInv' /\ RouteMoves
      BY <3>1, ResetKeeps DEF HandlerInv
    <3> QED
      BY <3>1, <3>2, ControlKeeps
  <2> QED
    BY <2>1, <2>2, <2>3, <2>4, <2>5 DEF Next
<1> QED
  BY <1>1, <1>2, PTL DEF Spec

\* Rows, sessions, handlers and answers have their types.
THEOREM TypeCorrect == Spec => []TypeOK
<1>1. HandlerInv => TypeOK
  BY DEF HandlerInv, SourcesInv, FetchInv, TypeOK
<1> QED
  BY <1>1, FetchInvariance, PTL

\* The journal leads from the created rows to the present ones without a gap, one entry
\* for each revision, for any number of operators and fetchers.
THEOREM JournalExplains == Spec => []AuditChain
<1>1. HandlerInv => AuditChain
  BY DEF HandlerInv, SourcesInv
<1> QED
  BY <1>1, FetchInvariance, PTL

\* A fetcher only ever opens the circuit of a route that was healthy or degraded.
THEOREM FetchersDecideNothing == Spec => []DecisionKept
<1>1. HandlerInv => DecisionKept
  BY DEF HandlerInv, SourcesInv
<1> QED
  BY <1>1, FetchInvariance, PTL

\* A fetch job that succeeded has its content stored, or it was a media binary.
THEOREM SuccessIsStored == Spec => []SuccessHasContent
<1>1. HandlerInv => SuccessHasContent
  BY DEF HandlerInv, FetchInv
<1> QED
  BY <1>1, FetchInvariance, PTL

-----------------------------------------------------------------------------
(***************************************************************************)
(* The uploads behind stored bodies (module ArtifactUpload).               *)
(* For any number of uploads, processes and sweepers, and however late a   *)
(* PUT or a DELETE arrives: a reference has its object unless a DELETE was *)
(* overtaken, provided that sweepers have owners of their own              *)
(* (SweeperOwner).                                                         *)
(*                                                                         *)
(* The argument: an upload that may still commit has the claim and its     *)
(* newest generation, and verified the object after it got that            *)
(* generation.  A DELETE sent under the same generation would be of the    *)
(* same owner (Tokens, LateTokens), but a sweeper is not a producer; one   *)
(* sent under another generation has been overtaken.                       *)
(***************************************************************************)
\* A generation is not newer than the claim's, and the newest belongs to the
\* claim's owner.
TokenOf(a, g) ==
    /\ g <= claim.generation
    /\ g = claim.generation /\ g # 0 => claim.owner = Owner[a]

\* The generations that actors work with.
Tokens == \A a \in Actors : TokenOf(a, Generation(a))

\* The generations of the DELETEs that may still arrive.
LateTokens == \A s \in Sweepers : \A g \in late[s] : TokenOf(s, g)

\* Only an upload commits.
Committer ==
    claim.status = "committed" => \E p \in Producers : claim.owner = Owner[p]

\* An upload that would commit has an object to commit.
Verified ==
    \A p \in Producers :
        up[p].st = "commit" /\ Holds(p, up[p].generation) /\ claim.status = "leased"
           => object \/ overtaken

\* A row that exists has a generation.
Leased == claim.status # "none" => claim.generation # 0

\* Deduplication starts from a committed claim.
Deduplicated ==
    \A p \in Producers : up[p].st \in {"verify", "again"} => claim.status = "committed"

UploadInv ==
    /\ UploadTypeOK /\ ReferenceHasObject /\ Tokens /\ LateTokens /\ TokenUnique
    /\ Verified /\ Leased /\ Deduplicated /\ Committer

-----------------------------------------------------------------------------
(* What steps have in common                                               *)

\* No host's clock is ahead by more than Skew.
LEMMA ClockReading ==
    ASSUME UploadTypeOK, NEW a \in Actors
    PROVE  Clock(a) \in Nat /\ Clock(a) >= now /\ Clock(a) <= now + Skew
<1>1. now \in Nat
    BY DEF UploadTypeOK
<1>2. Offset[a] \in 0..Skew /\ Skew \in Nat
    BY UploadAssumption
<1> QED BY <1>1, <1>2 DEF Clock

\* An actor whose token is kept or dropped, while the claim's owner and
\* generation stay, leaves the tokens in order.
LEMMA TokensKept ==
    ASSUME UploadInv, claim'.generation = claim.generation, claim'.owner = claim.owner,
           \A a \in Actors : Generation(a)' \in {Generation(a), 0}
    PROVE  Tokens' /\ TokenUnique'
<1>1. claim.generation \in Nat
    BY DEF UploadInv, UploadTypeOK, Claim
<1>2. Tokens'
    BY <1>1 DEF UploadInv, Tokens, TokenOf
<1>3. TokenUnique'
    BY DEF UploadInv, TokenUnique
<1> QED BY <1>2, <1>3

\* A DELETE on its way, of a sweep or of nobody any more, keeps its token;
\* the sweep may leave one behind.
LEMMA LateKept ==
    ASSUME UploadInv, claim'.generation = claim.generation, claim'.owner = claim.owner,
           \A s \in Sweepers : late'[s] \subseteq late[s] \cup {sweep[s].generation}
    PROVE  LateTokens'
<1>1. \A s \in Sweepers : TokenOf(s, sweep[s].generation)
    BY UploadAssumption DEF UploadInv, Tokens, Generation, Actors
<1>2. \A s \in Sweepers : \A g \in late'[s] : TokenOf(s, g)
    BY <1>1 DEF UploadInv, LateTokens
<1> QED BY <1>2 DEF LateTokens, TokenOf

\* A DELETE that arrives takes the object from nobody who may still commit
\* it, or has, or else it was overtaken.
LEMMA Arrival ==
    ASSUME UploadInv, NEW s \in Sweepers, NEW g, TokenOf(s, g), Arrives(g),
           UNCHANGED <<claim, referenced, up>>
    PROVE  ReferenceHasObject' /\ Verified'
<1> USE DEF UploadInv
<1>1. CASE claim.generation # g
    <2>1. overtaken'
        BY <1>1 DEF Arrives
    <2> QED BY <2>1 DEF ReferenceHasObject, Verified
<1>2. CASE claim.generation = g /\ g # 0
    <2>1. claim.owner = Owner[s]
        BY <1>2 DEF TokenOf
    <2>2. \A p \in Producers : Owner[p] # Owner[s]
        BY SweeperOwner, UploadAssumption DEF Actors
    <2>3. claim.status # "committed"
        BY <2>1, <2>2 DEF Committer
    <2>4. ~referenced
        BY <2>3 DEF UploadTypeOK
    <2> QED BY <2>1, <2>2, <2>4 DEF ReferenceHasObject, Verified, Holds
<1>3. CASE claim.generation = g /\ g = 0
    <2>1. claim.status = "none"
        BY <1>3 DEF Leased
    <2>2. ~referenced
        BY <2>1 DEF UploadTypeOK
    <2> QED BY <2>1, <2>2 DEF ReferenceHasObject, Verified
<1> QED BY <1>1, <1>2, <1>3

\* One upload becomes r while the claim stays as it is.
LEMMA UploadBecomes ==
    ASSUME UploadInv, UNCHANGED <<now, claim, referenced, late, sweep>>,
           object' \in BOOLEAN, overtaken' \in BOOLEAN, stray' \in BOOLEAN,
           object \/ overtaken => object' \/ overtaken',
           NEW p \in Producers, NEW r \in Upload, up' = [up EXCEPT ![p] = r],
           r.generation \in {up[p].generation, 0},
           r.st = "commit" => object',
           r.st \in {"verify", "again"} => claim.status = "committed"
    PROVE  UploadInv'
<1> USE DEF UploadInv
<1>1. /\ up' \in [Producers -> Upload] /\ up'[p] = r
      /\ \A q \in Producers \ {p} : up'[q] = up[q]
    BY DEF UploadTypeOK
<1>2. UploadTypeOK'
    BY <1>1 DEF UploadTypeOK
<1>3. ReferenceHasObject'
    BY DEF ReferenceHasObject
<1>4. LateTokens'
    BY LateKept
<1>5. Tokens' /\ TokenUnique'
    <2>1. \A a \in Actors : Generation(a)' \in {Generation(a), 0}
        BY <1>1 DEF Generation, Actors
    <2> QED BY <2>1, TokensKept
<1>6. Verified'
    BY <1>1 DEF Verified, Holds
<1>7. Deduplicated'
    BY <1>1 DEF Deduplicated
<1> QED BY <1>2, <1>3, <1>4, <1>5, <1>6, <1>7 DEF Leased, Committer

\* One sweep becomes r while the claim stays as it is; a DELETE may arrive,
\* or be left behind.
LEMMA SweepBecomes ==
    ASSUME UploadInv, UNCHANGED <<now, claim, referenced, stray, up>>,
           object' \in BOOLEAN, overtaken' \in BOOLEAN, late' \in [Sweepers -> SUBSET Nat],
           \A q \in Sweepers : late'[q] \subseteq late[q] \cup {sweep[q].generation},
           NEW s \in Sweepers, NEW r \in Sweep, sweep' = [sweep EXCEPT ![s] = r],
           r.generation \in {sweep[s].generation, 0},
           \/ UNCHANGED <<object, overtaken>>
           \/ Arrives(sweep[s].generation)
    PROVE  UploadInv'
<1> USE DEF UploadInv
<1>1. /\ sweep' \in [Sweepers -> Sweep] /\ sweep'[s] = r
      /\ \A q \in Sweepers \ {s} : sweep'[q] = sweep[q]
    BY DEF UploadTypeOK
<1>2. UploadTypeOK'
    BY <1>1 DEF UploadTypeOK
<1>3. ReferenceHasObject' /\ Verified'
    <2>1. CASE UNCHANGED <<object, overtaken>>
        BY <2>1 DEF ReferenceHasObject, Verified, Holds
    <2>2. CASE Arrives(sweep[s].generation)
        <3>1. TokenOf(s, sweep[s].generation)
            BY UploadAssumption DEF Tokens, Generation, Actors
        <3> QED BY <2>2, <3>1, Arrival
    <2> QED BY <2>1, <2>2
<1>4. LateTokens'
    BY LateKept
<1>5. Tokens' /\ TokenUnique'
    <2>1. \A a \in Actors : Generation(a)' \in {Generation(a), 0}
        BY <1>1, UploadAssumption DEF Generation, Actors
    <2> QED BY <2>1, TokensKept
<1>6. Deduplicated'
    BY DEF Deduplicated
<1> QED BY <1>2, <1>3, <1>4, <1>5, <1>6 DEF Leased, Committer

\* NoUpload and NoSweep have no token.
LEMMA IdleUpload ==
    /\ NoUpload \in Upload /\ NoUpload.st = "idle" /\ NoUpload.generation = 0
    /\ NoSweep \in Sweep /\ NoSweep.st = "idle" /\ NoSweep.generation = 0
BY DEF NoUpload, Upload, NoSweep, Sweep

-----------------------------------------------------------------------------
(* Steps of an upload that leave the claim alone                           *)

\* begin
LEMMA BeginStep ==
    ASSUME UploadInv, NEW p \in Producers, begin(p)
    PROVE  UploadInv'
<1> DEFINE r == [st |-> "acquire", generation |-> 0, attempt |-> 1]
<1>1. r \in Upload
    BY DEF Upload
<1>2. object \in BOOLEAN /\ stray \in BOOLEAN /\ overtaken \in BOOLEAN
    BY DEF UploadInv, UploadTypeOK
<1> QED BY <1>1, <1>2, UploadBecomes DEF begin

\* _committed_claim
LEMMA CommittedClaimStep ==
    ASSUME UploadInv, NEW p \in Producers, committed_claim(p)
    PROVE  UploadInv'
<1> DEFINE r == [up[p] EXCEPT !.st = "verify"]
<1>1. object \in BOOLEAN /\ stray \in BOOLEAN /\ overtaken \in BOOLEAN /\ up[p] \in Upload
    BY DEF UploadInv, UploadTypeOK
<1>2. r \in Upload /\ r.st = "verify" /\ r.generation = up[p].generation
    BY <1>1 DEF Upload
<1>3. CASE claim.status = "committed"
    <2>1. up' = [up EXCEPT ![p] = r] /\ UNCHANGED <<now, claim, object, referenced, stray, late, overtaken, sweep>>
        BY <1>3 DEF committed_claim
    <2> HIDE DEF r
    <2> QED BY <1>1, <1>2, <1>3, <2>1, UploadBecomes
<1>4. CASE claim.status # "committed"
    <2>1. /\ up' = [up EXCEPT ![p] = NoUpload]
          /\ UNCHANGED <<now, claim, object, referenced, stray, late, overtaken, sweep>>
        BY <1>4 DEF committed_claim
    <2> QED BY <1>1, <2>1, IdleUpload, UploadBecomes
<1> QED BY <1>3, <1>4

\* PUT
LEMMA PutStep ==
    ASSUME UploadInv, NEW p \in Producers, put(p)
    PROVE  UploadInv'
<1> DEFINE r == [up[p] EXCEPT !.st = "head"]
<1>1. stray \in BOOLEAN /\ overtaken \in BOOLEAN /\ up[p] \in Upload
    BY DEF UploadInv, UploadTypeOK
<1>2. r \in Upload /\ r.st = "head" /\ r.generation = up[p].generation
    BY <1>1 DEF Upload
<1>3. /\ up' = [up EXCEPT ![p] = r] /\ object' = TRUE
      /\ overtaken' = FALSE /\ UNCHANGED <<now, claim, referenced, stray, late, sweep>>
    BY DEF put, UploadInv, UploadTypeOK
<1> HIDE DEF r
<1> QED BY <1>1, <1>2, <1>3, UploadBecomes

\* HEAD: what is found now is what is committed later.
LEMMA HeadStep ==
    ASSUME UploadInv, NEW p \in Producers, head(p)
    PROVE  UploadInv'
<1> DEFINE r == [up[p] EXCEPT !.st = IF up[p].st = "head" THEN "commit" ELSE "again"]
<1>1. object \in BOOLEAN /\ stray \in BOOLEAN /\ overtaken \in BOOLEAN /\ up[p] \in Upload
    BY DEF UploadInv, UploadTypeOK
<1>2. UNCHANGED <<now, claim, object, referenced, stray, late, overtaken, sweep>>
    BY DEF head
<1>3. CASE object
    <2>1. r \in Upload /\ r.generation = up[p].generation
        BY <1>1 DEF Upload
    <2>2. r.st = IF up[p].st = "head" THEN "commit" ELSE "again"
        BY <1>1 DEF Upload
    <2>3. up' = [up EXCEPT ![p] = r]
        <3>1. up' = [up EXCEPT ![p] = IF object THEN r ELSE NoUpload]
            BY DEF head
        <3> HIDE DEF r
        <3> QED BY <1>3, <3>1
    <2>4. r.st \in {"verify", "again"} => claim.status = "committed"
        BY <2>2 DEF head, UploadInv, Deduplicated
    <2> HIDE DEF r
    <2> QED BY <1>1, <1>2, <1>3, <2>1, <2>3, <2>4, UploadBecomes
<1>4. CASE ~object
    <2>1. up' = [up EXCEPT ![p] = NoUpload]
        BY <1>4 DEF head
    <2> QED BY <1>1, <1>2, <2>1, IdleUpload, UploadBecomes
<1> QED BY <1>3, <1>4

\* commit_stale
LEMMA CommitStaleStep ==
    ASSUME UploadInv, NEW p \in Producers, commit_stale(p)
    PROVE  UploadInv'
<1> DEFINE r == [st |-> "acquire", generation |-> 0, attempt |-> up[p].attempt + 1]
<1>1. object \in BOOLEAN /\ stray \in BOOLEAN /\ overtaken \in BOOLEAN /\ up[p] \in Upload
    BY DEF UploadInv, UploadTypeOK
<1>2. r \in Upload
    BY <1>1 DEF Upload
<1>3. UNCHANGED <<now, claim, object, referenced, stray, late, overtaken, sweep>>
    BY DEF commit_stale
<1>4. up' = [up EXCEPT ![p] = r] \/ up' = [up EXCEPT ![p] = NoUpload]
    BY DEF commit_stale
<1>5. CASE up' = [up EXCEPT ![p] = r]
    BY <1>1, <1>2, <1>3, <1>5, UploadBecomes
<1>6. CASE up' = [up EXCEPT ![p] = NoUpload]
    BY <1>1, <1>3, <1>6, IdleUpload, UploadBecomes
<1> QED BY <1>4, <1>5, <1>6

\* reference_again: the key is referenced already.
LEMMA ReferenceAgainStep ==
    ASSUME UploadInv, NEW p \in Producers, reference_again(p)
    PROVE  UploadInv'
<1>1. object \in BOOLEAN /\ stray \in BOOLEAN /\ overtaken \in BOOLEAN /\ referenced \in BOOLEAN
    BY DEF UploadInv, UploadTypeOK
<1>2. referenced
    BY DEF reference_again, UploadInv, Deduplicated, UploadTypeOK
<1>3. /\ up' = [up EXCEPT ![p] = NoUpload]
      /\ UNCHANGED <<now, claim, object, referenced, stray, late, overtaken, sweep>>
    BY <1>1, <1>2 DEF reference_again
<1> QED BY <1>1, <1>3, IdleUpload, UploadBecomes

\* fail
LEMMA FailStep ==
    ASSUME UploadInv, NEW p \in Producers, fail(p)
    PROVE  UploadInv'
<1>1. object \in BOOLEAN /\ stray' \in BOOLEAN /\ overtaken \in BOOLEAN
    BY DEF UploadInv, UploadTypeOK, fail
<1>2. /\ up' = [up EXCEPT ![p] = NoUpload]
      /\ UNCHANGED <<now, claim, object, referenced, late, overtaken, sweep>>
    BY DEF fail
<1> QED BY <1>1, <1>2, IdleUpload, UploadBecomes

\* put_lands: one more object harms nobody.
LEMMA PutLandsStep ==
    ASSUME UploadInv, put_lands
    PROVE  UploadInv'
<1> USE DEF UploadInv, put_lands
<1>1. UploadTypeOK'
    BY DEF UploadTypeOK
<1>2. ReferenceHasObject' /\ Verified'
    BY DEF ReferenceHasObject, Verified
<1>3. LateTokens' /\ Deduplicated'
    BY LateKept DEF Deduplicated
<1>4. Tokens' /\ TokenUnique'
    <2>1. \A a \in Actors : Generation(a)' \in {Generation(a), 0}
        BY DEF Generation
    <2> QED BY <2>1, TokensKept
<1> QED BY <1>1, <1>2, <1>3, <1>4 DEF Leased, Committer

\* Tick
LEMMA TickStep ==
    ASSUME UploadInv, Tick
    PROVE  UploadInv'
<1> USE DEF UploadInv, Tick
<1>1. UploadTypeOK'
    BY DEF UploadTypeOK
<1>2. ReferenceHasObject' /\ Verified' /\ Deduplicated'
    BY DEF ReferenceHasObject, Verified, Deduplicated, Holds
<1>3. LateTokens'
    BY LateKept
<1>4. Tokens' /\ TokenUnique'
    <2>1. \A a \in Actors : Generation(a)' \in {Generation(a), 0}
        BY DEF Generation
    <2> QED BY <2>1, TokensKept
<1> QED BY <1>1, <1>2, <1>3, <1>4 DEF Leased, Committer

-----------------------------------------------------------------------------
(* Steps that change the claim                                             *)

\* The claim that acquire_upload_claim leaves.
LEMMA Granted ==
    ASSUME UploadInv, NEW a \in Actors, NEW lease \in Nat, ~Refused(a),
           claim' = Acquired(a, lease)
    PROVE  /\ claim' \in Claim /\ claim'.status = "leased" /\ claim'.owner = Owner[a]
           /\ claim'.generation \in Nat \ {0} /\ claim'.expires = Clock(a) + lease
           /\ claim.status # "committed"
           /\ \/ claim'.generation = claim.generation + 1
              \/ /\ claim'.generation = claim.generation
                 /\ claim.status = "leased" /\ claim.owner = Owner[a]
<1>1. /\ Clock(a) \in Nat /\ claim \in Claim
      /\ claim.generation \in Nat /\ claim.expires \in Nat
    BY ClockReading DEF UploadInv, UploadTypeOK, Claim
<1>2. claim.status # "committed" /\ (Alive(Clock(a)) => claim.owner = Owner[a])
    BY DEF Refused
<1>3. Alive(Clock(a)) => claim.status = "leased" /\ claim.generation # 0
    <2>1. ASSUME claim.status = "leased" PROVE claim.generation # 0
        BY <2>1 DEF UploadInv, Leased
    <2> QED BY <2>1 DEF Alive
<1>4. /\ claim'.status = "leased" /\ claim'.owner = Owner[a]
      /\ claim'.generation = IF Alive(Clock(a)) THEN claim.generation
                                               ELSE claim.generation + 1
      /\ claim'.expires = Clock(a) + lease
    BY DEF Acquired
<1>5. claim'.generation \in Nat \ {0} /\ claim'.expires \in Nat
    BY <1>1, <1>3, <1>4
<1>6. claim' \in Claim
    BY <1>1, <1>4, <1>5 DEF Acquired, Claim
<1> QED BY <1>2, <1>3, <1>4, <1>5, <1>6

\* After a grant to a, with a's token new, dropped or what it was, tokens are
\* in order: an older one is older than the claim's, unless its owner is a's.
LEMMA GrantTokens ==
    ASSUME UploadInv, NEW a \in Actors, claim'.generation \in Nat \ {0},
           claim'.owner = Owner[a],
           \/ claim'.generation = claim.generation + 1
           \/ claim'.generation = claim.generation /\ claim.owner = Owner[a],
           \A b \in Actors : \/ Generation(b)' \in {Generation(b), 0}
                             \/ b = a /\ Generation(b)' = claim'.generation,
           UNCHANGED late
    PROVE  Tokens' /\ TokenUnique' /\ LateTokens'
<1>1. claim.generation \in Nat /\ \A b \in Actors : Generation(b) \in Nat
    BY DEF UploadInv, UploadTypeOK, Claim, Generation, Actors, Upload, Sweep
<1>2. \A b \in Actors : /\ Generation(b) <= claim.generation
                        /\ Generation(b) = claim.generation /\ Generation(b) # 0
                              => claim.owner = Owner[b]
    BY DEF UploadInv, Tokens, TokenOf
<1>3. Tokens'
    <2>1. ASSUME NEW b \in Actors
          PROVE  /\ Generation(b)' <= claim'.generation
                 /\ Generation(b)' = claim'.generation /\ Generation(b)' # 0
                       => claim'.owner = Owner[b]
        <3>1. CASE Generation(b)' = Generation(b)
            BY <1>1, <1>2, <3>1
        <3>2. CASE Generation(b)' = 0
            BY <3>2
        <3>3. CASE b = a /\ Generation(b)' = claim'.generation
            BY <3>3
        <3> QED BY <3>1, <3>2, <3>3
    <2> QED BY <2>1 DEF Tokens, TokenOf
<1>4. TokenUnique'
    <2>1. ASSUME NEW b \in Actors, NEW c \in Actors,
                 Generation(b)' = Generation(c)', Generation(b)' # 0
          PROVE  Owner[b] = Owner[c]
        <3>1. CASE Generation(b)' = claim'.generation
            BY <1>3, <2>1, <3>1 DEF Tokens, TokenOf
        <3>2. CASE Generation(b)' # claim'.generation
            <4>1. Generation(b)' = Generation(b) /\ Generation(c)' = Generation(c)
                BY <2>1, <3>2
            <4> QED BY <2>1, <4>1 DEF UploadInv, TokenUnique
        <3> QED BY <3>1, <3>2
    <2> QED BY <2>1 DEF TokenUnique
<1>5. LateTokens'
    <2>1. \A s \in Sweepers : \A g \in late[s] : g \in Nat /\ TokenOf(s, g)
        BY DEF UploadInv, UploadTypeOK, LateTokens
    <2> QED BY <1>1, <2>1 DEF LateTokens, TokenOf
<1> QED BY <1>3, <1>4, <1>5

\* A grant takes the claim from every upload that had it, except those of
\* the same owner, whose object is still there.
LEMMA GrantVerified ==
    ASSUME UploadInv, NEW a \in Actors,
           \/ claim'.generation = claim.generation + 1
           \/ /\ claim'.generation = claim.generation
              /\ claim.status = "leased" /\ claim.owner = Owner[a],
           claim'.owner = Owner[a], claim.status # "committed",
           UNCHANGED <<object, overtaken>>,
           \A p \in Producers : \/ up'[p] = up[p]
                                \/ up'[p].st \notin {"commit", "verify", "again"}
    PROVE  Verified' /\ Deduplicated'
<1>1. Verified'
    <2>1. ASSUME NEW p \in Producers, up'[p].st = "commit",
                 claim'.generation = up'[p].generation, claim'.owner = Owner[p]
          PROVE  object \/ overtaken
        <3>1. up'[p] = up[p]
            BY <2>1
        <3>2. /\ up[p].generation <= claim.generation
              /\ up[p].generation \in Nat /\ claim.generation \in Nat
            BY UploadAssumption
            DEF UploadInv, Tokens, TokenOf, UploadTypeOK, Upload, Claim, Generation, Actors
        <3>3. claim'.generation = claim.generation
            BY <2>1, <3>1, <3>2
        <3> QED BY <2>1, <3>1, <3>2, <3>3 DEF UploadInv, Verified, Holds
    <2> QED BY <2>1 DEF Verified, Holds
<1>2. Deduplicated'
    BY DEF UploadInv, Deduplicated
<1> QED BY <1>1, <1>2

\* _acquire
LEMMA AcquireStep ==
    ASSUME UploadInv, NEW p \in Producers, NEW answered \in BOOLEAN, acquire(p, answered)
    PROVE  UploadInv'
<1>1. /\ object \in BOOLEAN /\ stray \in BOOLEAN /\ overtaken \in BOOLEAN /\ up[p] \in Upload
      /\ up \in [Producers -> Upload] /\ p \in Actors
    BY DEF UploadInv, UploadTypeOK, Actors
<1>2. UNCHANGED <<now, object, referenced, stray, late, overtaken, sweep>>
    BY DEF acquire
<1>3. CASE Refused(p) /\ UNCHANGED claim /\ up' = [up EXCEPT ![p].st = "stale"]
    <2> DEFINE r == [up[p] EXCEPT !.st = "stale"]
    <2>1. r \in Upload /\ r.st = "stale" /\ r.generation = up[p].generation
        BY <1>1 DEF Upload
    <2>2. up' = [up EXCEPT ![p] = r]
        BY <1>1, <1>3
    <2> HIDE DEF r
    <2> QED BY <1>1, <1>2, <1>3, <2>1, <2>2, UploadBecomes
<1>4. CASE ~Refused(p) /\ claim' = Acquired(p, Lease)
    <2> DEFINE g == claim'.generation
               r == [up[p] EXCEPT !.st = "put", !.generation = g]
    <2>1. /\ claim' \in Claim /\ claim'.status = "leased" /\ claim'.owner = Owner[p]
          /\ g \in Nat \ {0} /\ claim.status # "committed"
          /\ \/ g = claim.generation + 1
             \/ /\ g = claim.generation
                /\ claim.status = "leased" /\ claim.owner = Owner[p]
        BY <1>1, <1>4, UploadAssumption, Granted
    <2>2. /\ r \in Upload /\ r.st = "put" /\ r.generation = g
        BY <1>1, <2>1 DEF Upload
    <2>3. PICK q \in {r, NoUpload} : up' = [up EXCEPT ![p] = q]
        BY <1>1, <1>4 DEF acquire
    <2> HIDE DEF r
    <2>4. /\ q \in Upload /\ q.st \in {"put", "idle"} /\ q.generation \in {g, 0}
        BY <2>2, IdleUpload
    <2>5. /\ up' \in [Producers -> Upload] /\ up'[p] = q
          /\ \A x \in Producers \ {p} : up'[x] = up[x]
        BY <1>1, <2>3, <2>4
    <2>6. UploadTypeOK'
        BY <1>2, <2>1, <2>5 DEF UploadInv, UploadTypeOK
    <2>7. ReferenceHasObject'
        BY <1>2 DEF UploadInv, ReferenceHasObject
    <2>9. Tokens' /\ TokenUnique' /\ LateTokens'
        <3>1. \A b \in Actors : \/ Generation(b)' \in {Generation(b), 0}
                                \/ b = p /\ Generation(b)' = claim'.generation
            BY <1>2, <2>4, <2>5 DEF Generation, Actors
        <3> QED BY <1>1, <1>2, <2>1, <3>1, GrantTokens
    <2>10. Verified' /\ Deduplicated'
        <3>1. \A x \in Producers : \/ up'[x] = up[x]
                                   \/ up'[x].st \notin {"commit", "verify", "again"}
            BY <2>4, <2>5
        <3> QED BY <1>1, <1>2, <2>1, <3>1, GrantVerified
    <2>11. Leased' /\ Committer'
        BY <2>1 DEF Leased, Committer
    <2> QED BY <2>6, <2>7, <2>9, <2>10, <2>11 DEF UploadInv
<1> QED BY <1>3, <1>4 DEF acquire

\* commit_reference: an upload that holds the claim has verified the object.
LEMMA CommitReferenceStep ==
    ASSUME UploadInv, NEW p \in Producers, commit_reference(p)
    PROVE  UploadInv'
<1> USE DEF UploadInv
<1>1. /\ up \in [Producers -> Upload] /\ claim \in Claim /\ p \in Actors
      /\ object \in BOOLEAN
    BY DEF UploadTypeOK, Actors
<1>2. /\ claim'.status = "committed" /\ claim'.owner = claim.owner
      /\ claim'.generation = claim.generation /\ claim' \in Claim
    BY <1>1 DEF commit_reference, Claim
<1>3. /\ up' \in [Producers -> Upload] /\ up'[p] = NoUpload
      /\ \A q \in Producers \ {p} : up'[q] = up[q]
    BY <1>1, IdleUpload DEF commit_reference
<1>4. /\ UNCHANGED <<now, object, stray, late, overtaken, sweep>> /\ referenced' = TRUE
      /\ up[p].st = "commit" /\ Holds(p, up[p].generation)
      /\ claim.status \in {"leased", "committed"}
    BY DEF commit_reference, Committable
<1>5. UploadTypeOK'
    BY <1>2, <1>3, <1>4 DEF UploadTypeOK
<1>6. ReferenceHasObject'
    <2>1. CASE claim.status = "leased"
        BY <1>4, <2>1 DEF Verified, ReferenceHasObject
    <2>2. CASE claim.status = "committed"
        BY <1>4, <2>2 DEF UploadTypeOK, ReferenceHasObject
    <2> QED BY <1>4, <2>1, <2>2
<1>7. LateTokens'
    BY <1>2, <1>4, LateKept
<1>8. Tokens' /\ TokenUnique'
    <2>1. \A a \in Actors : Generation(a)' \in {Generation(a), 0}
        BY <1>3, <1>4, IdleUpload DEF Generation, Actors
    <2> QED BY <1>2, <2>1, TokensKept
<1>9. Verified' /\ Deduplicated'
    BY <1>2 DEF Verified, Deduplicated
<1>10. Leased' /\ Committer'
    BY <1>2, <1>4 DEF Leased, Committer, Holds
<1> QED BY <1>5, <1>6, <1>7, <1>8, <1>9, <1>10

\* expire_claims
LEMMA ExpireStep ==
    ASSUME UploadInv, NEW t \in 0..(now + Skew), expire_claims(t)
    PROVE  UploadInv'
<1> USE DEF UploadInv
<1>1. claim \in Claim /\ now \in Nat /\ claim.expires \in Nat
    BY DEF UploadTypeOK, Claim
<1>2. /\ claim'.status = "expired" /\ claim'.owner = claim.owner
      /\ claim'.generation = claim.generation /\ claim' \in Claim
    BY <1>1 DEF expire_claims, Claim
<1>3. /\ UNCHANGED <<now, object, referenced, stray, late, overtaken, up, sweep>>
      /\ claim.status = "leased" /\ claim.expires <= t
    BY DEF expire_claims, Stale
<1>4. UploadTypeOK' /\ ReferenceHasObject'
    BY <1>2, <1>3 DEF UploadTypeOK, ReferenceHasObject
<1>5. LateTokens'
    BY <1>2, <1>3, LateKept
<1>6. Tokens' /\ TokenUnique'
    <2>1. \A a \in Actors : Generation(a)' \in {Generation(a), 0}
        BY <1>3 DEF Generation
    <2> QED BY <1>2, <2>1, TokensKept
<1>7. Verified' /\ Deduplicated'
    BY <1>2, <1>3 DEF Verified, Deduplicated
<1>8. Leased' /\ Committer'
    BY <1>2, <1>3 DEF Leased, Committer
<1> QED BY <1>4, <1>5, <1>6, <1>7, <1>8

-----------------------------------------------------------------------------
(* Steps of a sweeper                                                      *)

\* list_orphan_candidates
LEMMA ListStep ==
    ASSUME UploadInv, NEW s \in Sweepers, list(s)
    PROVE  UploadInv'
<1> DEFINE r == [sweep[s] EXCEPT !.st = "listed"]
<1>1. /\ sweep \in [Sweepers -> Sweep] /\ sweep[s] \in Sweep /\ object \in BOOLEAN
      /\ overtaken \in BOOLEAN /\ late \in [Sweepers -> SUBSET Nat]
    BY DEF UploadInv, UploadTypeOK
<1>2. r \in Sweep /\ r.st = "listed" /\ r.generation = sweep[s].generation
    BY <1>1 DEF Sweep
<1>3. /\ sweep' = [sweep EXCEPT ![s] = r]
      /\ UNCHANGED <<now, claim, object, referenced, stray, late, overtaken, up>>
    BY <1>1 DEF list
<1> HIDE DEF r
<1> QED BY <1>1, <1>2, <1>3, SweepBecomes

\* What a sweep leaves behind is a set of generations it had.
LEMMA LeftBehind ==
    ASSUME UploadInv, NEW s \in Sweepers,
           late' \in {late, [late EXCEPT ![s] = @ \cup {sweep[s].generation}]}
    PROVE  /\ late' \in [Sweepers -> SUBSET Nat]
           /\ \A q \in Sweepers : late'[q] \subseteq late[q] \cup {sweep[q].generation}
<1>1. late \in [Sweepers -> SUBSET Nat] /\ sweep[s].generation \in Nat
    BY DEF UploadInv, UploadTypeOK, Sweep
<1> QED BY <1>1

\* sweep_kill: a DELETE on its way remains one.
LEMMA SweepKillStep ==
    ASSUME UploadInv, NEW s \in Sweepers, sweep_kill(s)
    PROVE  UploadInv'
<1>1. object \in BOOLEAN /\ overtaken \in BOOLEAN
    BY DEF UploadInv, UploadTypeOK
<1>2. /\ UNCHANGED <<now, claim, object, referenced, stray, overtaken, up>>
      /\ sweep' = [sweep EXCEPT ![s] = NoSweep]
      /\ late' \in {late, [late EXCEPT ![s] = @ \cup {sweep[s].generation}]}
    BY DEF sweep_kill
<1> QED BY <1>1, <1>2, IdleUpload, LeftBehind, SweepBecomes

\* The sweeper claims its candidate.
LEMMA SweepAcquireStep ==
    ASSUME UploadInv, NEW s \in Sweepers, NEW answered \in BOOLEAN,
           sweep_acquire(s, answered)
    PROVE  UploadInv'
<1>1. /\ sweep \in [Sweepers -> Sweep] /\ s \in Actors /\ now \in Nat
      /\ s \notin Producers /\ object \in BOOLEAN /\ overtaken \in BOOLEAN
      /\ late \in [Sweepers -> SUBSET Nat]
    BY UploadAssumption DEF UploadInv, UploadTypeOK, Actors
<1>2. UNCHANGED <<now, object, referenced, stray, late, overtaken, up>>
    BY DEF sweep_acquire
<1>3. CASE Refused(s) /\ UNCHANGED claim /\ sweep' = [sweep EXCEPT ![s] = NoSweep]
    BY <1>1, <1>2, <1>3, IdleUpload, SweepBecomes
<1>4. CASE ~Refused(s) /\ claim' = Acquired(s, SweepLease)
    <2> DEFINE g == claim'.generation
               r == [st |-> "deleting", generation |-> g]
    <2>1. /\ claim' \in Claim /\ claim'.status = "leased" /\ claim'.owner = Owner[s]
          /\ g \in Nat \ {0} /\ claim.status # "committed"
          /\ \/ g = claim.generation + 1
             \/ /\ g = claim.generation
                /\ claim.status = "leased" /\ claim.owner = Owner[s]
        BY <1>1, <1>4, UploadAssumption, Granted
    <2>2. r \in Sweep /\ r.generation = g
        BY <1>1, <2>1 DEF Sweep
    <2>3. PICK q \in {r, NoSweep} : sweep' = [sweep EXCEPT ![s] = q]
        BY <1>1, <1>4 DEF sweep_acquire
    <2> HIDE DEF r
    <2>4. q \in Sweep /\ q.generation \in {g, 0}
        BY <2>2, IdleUpload
    <2>5. /\ sweep' \in [Sweepers -> Sweep] /\ sweep'[s] = q
          /\ \A x \in Sweepers \ {s} : sweep'[x] = sweep[x]
        BY <1>1, <2>3, <2>4
    <2>6. UploadTypeOK'
        BY <1>2, <2>1, <2>5 DEF UploadInv, UploadTypeOK
    <2>7. ReferenceHasObject'
        BY <1>2 DEF UploadInv, ReferenceHasObject
    <2>9. Tokens' /\ TokenUnique' /\ LateTokens'
        <3>1. \A b \in Actors : \/ Generation(b)' \in {Generation(b), 0}
                                \/ b = s /\ Generation(b)' = claim'.generation
            BY <1>1, <1>2, <2>4, <2>5 DEF Generation, Actors
        <3> QED BY <1>1, <1>2, <2>1, <3>1, GrantTokens
    <2>10. Verified' /\ Deduplicated'
        BY <1>1, <1>2, <2>1, GrantVerified
    <2>11. Leased' /\ Committer'
        BY <2>1 DEF Leased, Committer
    <2> QED BY <2>6, <2>7, <2>9, <2>10, <2>11 DEF UploadInv
<1> QED BY <1>3, <1>4 DEF sweep_acquire

\* DELETE: done, on its way or both.
LEMMA DeleteStep ==
    ASSUME UploadInv, NEW s \in Sweepers, NEW done \in BOOLEAN, NEW later \in BOOLEAN,
           delete(s, done, later)
    PROVE  UploadInv'
<1> DEFINE r == [sweep[s] EXCEPT !.st = "release"]
<1>1. /\ sweep \in [Sweepers -> Sweep] /\ sweep[s] \in Sweep
      /\ object \in BOOLEAN /\ overtaken \in BOOLEAN /\ late \in [Sweepers -> SUBSET Nat]
    BY DEF UploadInv, UploadTypeOK
<1>2. UNCHANGED <<now, claim, referenced, stray, up>>
    BY DEF delete
<1>3. r \in Sweep /\ r.generation = sweep[s].generation
    BY <1>1 DEF Sweep
<1>4. sweep' = [sweep EXCEPT ![s] = r]
    BY <1>1 DEF delete
<1>5. \/ UNCHANGED <<object, overtaken>>
      \/ Arrives(sweep[s].generation)
    BY DEF delete
<1>6. object' \in BOOLEAN /\ overtaken' \in BOOLEAN
    BY <1>1, <1>5 DEF Arrives
<1>7. late' \in {late, [late EXCEPT ![s] = @ \cup {sweep[s].generation}]}
    BY <1>1 DEF delete
<1> HIDE DEF r
<1> QED BY <1>2, <1>3, <1>4, <1>5, <1>6, <1>7, LeftBehind, SweepBecomes

\* A DELETE that nobody waits for.
LEMMA DeleteLandsStep ==
    ASSUME UploadInv, NEW s \in Sweepers, NEW g \in late[s], delete_lands(s, g)
    PROVE  UploadInv'
<1> USE DEF UploadInv
<1>1. /\ UNCHANGED <<now, claim, referenced, stray, up, sweep>> /\ Arrives(g)
      /\ late' \in {late, [late EXCEPT ![s] = @ \ {g}]}
    BY DEF delete_lands
<1>2. late' \in [Sweepers -> SUBSET Nat] /\ \A q \in Sweepers : late'[q] \subseteq late[q]
    BY <1>1 DEF UploadTypeOK
<1>3. UploadTypeOK'
    BY <1>1, <1>2 DEF UploadTypeOK, Arrives
<1>4. ReferenceHasObject' /\ Verified'
    <2>1. TokenOf(s, g)
        BY DEF LateTokens
    <2> QED BY <1>1, <2>1, Arrival
<1>5. LateTokens'
    BY <1>1, <1>2, LateKept
<1>6. Tokens' /\ TokenUnique'
    <2>1. \A a \in Actors : Generation(a)' \in {Generation(a), 0}
        BY <1>1 DEF Generation
    <2> QED BY <1>1, <2>1, TokensKept
<1>7. Deduplicated' /\ Leased' /\ Committer'
    BY <1>1 DEF Deduplicated, Leased, Committer
<1> QED BY <1>3, <1>4, <1>5, <1>6, <1>7

\* release_claim: the sweep gives its claim back, if it still has it.
LEMMA ReleaseClaimStep ==
    ASSUME UploadInv, NEW s \in Sweepers, NEW committed \in BOOLEAN,
           release_claim(s, committed)
    PROVE  UploadInv'
<1> USE DEF UploadInv
<1>1. /\ sweep \in [Sweepers -> Sweep] /\ claim \in Claim /\ s \in Actors
      /\ s \notin Producers /\ object \in BOOLEAN /\ overtaken \in BOOLEAN
      /\ late \in [Sweepers -> SUBSET Nat]
    BY UploadAssumption DEF UploadTypeOK, Actors
<1>2. /\ sweep' = [sweep EXCEPT ![s] = NoSweep]
      /\ UNCHANGED <<now, object, referenced, stray, late, overtaken, up>>
    BY DEF release_claim
<1>3. CASE UNCHANGED claim
    BY <1>1, <1>2, <1>3, IdleUpload, SweepBecomes
<1>4. CASE Releasable(s) /\ claim' = [claim EXCEPT !.status = "released"]
    <2>1. /\ claim'.status = "released" /\ claim'.owner = claim.owner
          /\ claim'.generation = claim.generation /\ claim' \in Claim
          /\ claim.status = "leased" /\ claim.owner = Owner[s]
        BY <1>1, <1>4 DEF Claim, Releasable, Holds
    <2>2. /\ sweep' \in [Sweepers -> Sweep] /\ sweep'[s] = NoSweep
          /\ \A x \in Sweepers \ {s} : sweep'[x] = sweep[x]
        BY <1>1, <1>2, IdleUpload
    <2>3. UploadTypeOK' /\ ReferenceHasObject'
        BY <1>2, <2>1, <2>2 DEF UploadTypeOK, ReferenceHasObject
    <2>4. LateTokens'
        BY <1>2, <2>1, LateKept
    <2>5. Tokens' /\ TokenUnique'
        <3>1. \A a \in Actors : Generation(a)' \in {Generation(a), 0}
            BY <1>1, <1>2, <2>2, IdleUpload DEF Generation, Actors
        <3> QED BY <2>1, <3>1, TokensKept
    <2>6. Verified' /\ Deduplicated' /\ Leased' /\ Committer'
        BY <1>2, <2>1 DEF Verified, Deduplicated, Leased, Committer
    <2> QED BY <2>3, <2>4, <2>5, <2>6
<1> QED BY <1>3, <1>4 DEF release_claim

-----------------------------------------------------------------------------
(* Theorems                                                                *)

LEMMA InitInv == UploadInit => UploadInv
<1> SUFFICES ASSUME UploadInit PROVE UploadInv
    OBVIOUS
<1>1. NoClaim \in Claim /\ NoClaim.status = "none" /\ NoClaim.generation = 0
    BY DEF NoClaim, Claim
<1>2. /\ now = 0 /\ claim = NoClaim /\ object = FALSE /\ referenced = FALSE
      /\ stray = FALSE /\ late = [s \in Sweepers |-> {}] /\ overtaken = FALSE
      /\ up = [p \in Producers |-> NoUpload]
      /\ sweep = [s \in Sweepers |-> NoSweep]
    BY DEF UploadInit
<1>3. UploadTypeOK /\ ReferenceHasObject
    BY <1>1, <1>2, IdleUpload DEF UploadTypeOK, ReferenceHasObject
<1>4. LateTokens
    BY <1>2 DEF LateTokens
<1>5. \A a \in Actors : Generation(a) = 0
    BY <1>2, IdleUpload DEF Generation, Actors
<1>6. Tokens /\ TokenUnique
    BY <1>1, <1>2, <1>5 DEF Tokens, TokenOf, TokenUnique
<1>7. Verified /\ Deduplicated /\ Leased /\ Committer
    BY <1>1, <1>2, IdleUpload DEF Verified, Deduplicated, Leased, Committer
<1> QED BY <1>3, <1>4, <1>6, <1>7 DEF UploadInv

LEMMA StepInv == UploadInv /\ [UploadNext]_uploadVars => UploadInv'
<1> SUFFICES ASSUME UploadInv, [UploadNext]_uploadVars PROVE UploadInv'
    OBVIOUS
<1>1. ASSUME NEW p \in Producers, ProducerStep(p) PROVE UploadInv'
    BY <1>1, BeginStep, CommittedClaimStep, PutStep, HeadStep, CommitReferenceStep,
       CommitStaleStep, ReferenceAgainStep, FailStep, AcquireStep DEF ProducerStep
<1>2. ASSUME NEW s \in Sweepers, SweeperStep(s) PROVE UploadInv'
    BY <1>2, ListStep, SweepKillStep, SweepAcquireStep, DeleteStep,
       DeleteLandsStep, ReleaseClaimStep
    DEF SweeperStep
<1>3. CASE UNCHANGED uploadVars
    BY <1>3 DEF uploadVars, UploadInv, UploadTypeOK, ReferenceHasObject, Holds, Tokens,
       LateTokens, TokenOf, TokenUnique, Generation, Verified, Leased, Deduplicated, Committer
<1> QED BY <1>1, <1>2, <1>3, TickStep, PutLandsStep, ExpireStep DEF UploadNext

\* The inductive invariant holds in every reachable state of the claims, the
\* uploads and the sweeps.
THEOREM UploadInvariance == UploadSpec => []UploadInv
BY InitInv, StepInv, PTL DEF UploadSpec

\* The state keeps its shape, and a key is referenced exactly when its claim
\* is committed (commit_reference, release_claim, acquire_upload_claim).
THEOREM UploadTypeCorrect == UploadSpec => []UploadTypeOK
<1>1. UploadInv => UploadTypeOK
    BY DEF UploadInv
<1> QED BY <1>1, UploadInvariance, PTL

\* A reference points at an object unless a DELETE of sweep_orphans arrived
\* after its claim had been taken over: however many uploads and sweeps race,
\* and however late their requests arrive.
THEOREM ReferencesHaveObjects == UploadSpec => []ReferenceHasObject
<1>1. UploadInv => ReferenceHasObject
    BY DEF UploadInv
<1> QED BY <1>1, UploadInvariance, PTL

\* acquire_upload_claim never gives two owners the same generation.
THEOREM TokensUnique == UploadSpec => []TokenUnique
<1>1. UploadInv => TokenUnique
    BY DEF UploadInv
<1> QED BY <1>1, UploadInvariance, PTL
===============================================================================
