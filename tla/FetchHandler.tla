----------------------------- MODULE FetchHandler -----------------------------
(***************************************************************************)
(* The `fetch.http` handler (fetch/handler.py) over the control plane of   *)
(* its source.  Workers execute jobs of one URL and one route; each step   *)
(* between two awaits on the database or the network is an action, so that *)
(* what a worker read in its preflight can be old when it records the      *)
(* answer.  A worker may die, a commit may be lost or its answer may be    *)
(* lost; the runtime then executes the job again.                          *)
(*                                                                         *)
(* The fetch history is kept by what its queries return: the validators of *)
(* the newest fetch that has any, and the robots snapshot.                 *)
(***************************************************************************)
EXTENDS SourceRoutes

CONSTANTS
    Workers,        \* coroutines that execute jobs
    Jobs,           \* fetch jobs of the URL
    Kinds,          \* request_kinds the jobs ask for
    BrowserRoute,   \* route_kind is in BROWSER_ROUTE_KINDS
    MaxAttempts,    \* max_attempts of a job
    Versions,       \* versions the page may be at
    Media,          \* versions that are media binaries, which the client skips
    Failures,       \* answers without content: [status, error]
    RobotsStatuses, \* statuses that come with a robots file
    Rules           \* what a robots file may say

REQUEST_KINDS == {"page", "sitemap", "robots", "api"}

ASSUME FetchAssumption ==
    /\ MaxAttempts \in Nat \ {0} /\ Jobs # {}
    /\ Media \subseteq Versions /\ "none" \notin Versions
    /\ BrowserRoute \in BOOLEAN
    /\ RobotsStatuses \subseteq Nat
    /\ Failures \subseteq [status : Nat, error : STRING]
    /\ \A f \in Failures : decision(Reply(f.status, f.error, "none")).outcome # Success

VARIABLES
    job,        \* per job: kind, status, attempt, and the version its last answer showed
    worker,     \* per worker: where its handler is and what it has read
    validators, \* latest_validators of the page
    robots,     \* latest_robots_snapshot: attempt, its rules, the newest rules stored
    stored,     \* versions of the page with a raw_objects row and a parse.raw job
    browser     \* jobs with a browser.render job

fetchVars == <<job, worker, validators, robots, stored, browser>>
vars == <<sourceVars, fetchVars>>

NoAnswer == Reply(0, "none", "none")
Idle == [at |-> "idle", job |-> CHOOSE j \in Jobs : TRUE, revision |-> 0, policy |-> 0,
         etag |-> "none", had |-> FALSE, answer |-> NoAnswer, before |-> "none", result |-> "none"]
NoSnapshot == [attempt |-> "none", own |-> "none", stored |-> "none"]

Init ==
    /\ SourcesInit
    /\ \E kind \in [Jobs -> Kinds] :
          job = [j \in Jobs |-> [kind |-> kind[j], status |-> "queued", attempt |-> 0, saw |-> "none"]]
    /\ worker = [w \in Workers |-> Idle]
    /\ validators = "none"
    /\ robots = NoSnapshot
    /\ stored = {} /\ browser = {}

\* latest_robots_snapshot: without an attempt nothing; else the rules that attempt
\* brought, and if it brought none (304, 404) the newest rules stored.
SnapshotRules ==
    IF robots.attempt = "none" THEN "none"
    ELSE IF robots.own # "none" THEN robots.own ELSE robots.stored

KindOf(w) == job[worker[w].job].kind

\* handle() returns r; of what it has read only the answer behind a success matters now.
Result(w, r) ==
    worker' = [worker EXCEPT ![w] =
        [Idle EXCEPT !.at = "report", !.job = worker[w].job, !.result = r,
                     !.answer.shows = IF r = "complete" /\ KindOf(w) # "robots"
                                      THEN worker[w].answer.shows ELSE "none"]]

(***************************************************************************)
(* The origin.                                                             *)
(***************************************************************************)
\* robots_ttl passes.
robots_ages ==
    /\ robots.attempt = "fresh"
    /\ robots' = [robots EXCEPT !.attempt = "stale"]
    /\ UNCHANGED <<sourceVars, job, worker, validators, stored, browser>>

\* Answers without content: failures, and a body that came out empty.
Refusals(shown) == {Reply(f.status, f.error, "none") : f \in Failures}
                       \cup {Answer(200, TRUE, "none", shown)}

\* Answers for the page to a request that carries `etag`: the origin is at any version,
\* and answers 304 exactly to the validators of that version.
PageAnswers(etag) ==
    UNION {Refusals(v) \cup
           {IF etag = v THEN Reply(304, "none", v)
            ELSE Reply(200, IF v \in Media THEN "media_binary_skipped" ELSE "none", v)}
           : v \in Versions}
RobotsAnswers ==
    Refusals("none") \cup {Reply(404, "none", "none")}
                     \cup {Reply(s, "none", r) : s \in RobotsStatuses, r \in Rules}

(***************************************************************************)
(* The queue and the runtime, as far as a handler meets them.              *)
(***************************************************************************)
claim_job(w, j) ==
    /\ worker[w].at = "idle"
    /\ job[j].status = "queued" /\ job[j].attempt < MaxAttempts
    /\ job' = [job EXCEPT ![j].status = "leased", ![j].attempt = @ + 1]
    /\ worker' = [worker EXCEPT ![w] = [Idle EXCEPT !.at = "preflight", !.job = j]]
    /\ UNCHANGED <<sourceVars, validators, robots, stored, browser>>

\* The runtime's report: complete, quarantine, release (defer) or retry.
Reported(row, x) ==
    CASE x.result = "complete"   -> [row EXCEPT !.status = "succeeded", !.saw = x.answer.shows]
      [] x.result = "quarantine" -> [row EXCEPT !.status = "quarantined"]
      [] x.result = "defer"      -> [row EXCEPT !.status = "queued", !.attempt = @ - 1]
      [] x.result = "retry"      -> [row EXCEPT !.status = IF row.attempt < MaxAttempts
                                                          THEN "queued" ELSE "quarantined"]

report(w) ==
    LET j == worker[w].job
    IN  /\ worker[w].at = "report"
        /\ job' = [job EXCEPT ![j] = Reported(job[j], worker[w])]
        /\ worker' = [worker EXCEPT ![w] = Idle]
        /\ UNCHANGED <<sourceVars, validators, robots, stored, browser>>

\* The process dies; recover_expired_leases gives the job back.
die(w) ==
    /\ worker[w].at # "idle"
    /\ job' = [job EXCEPT ![worker[w].job].status = "queued"]
    /\ worker' = [worker EXCEPT ![w] = Idle]
    /\ UNCHANGED <<sourceVars, validators, robots, stored, browser>>

\* An exception in the handler (a lost connection, an upload that failed).
raises(w) ==
    /\ worker[w].at \notin {"idle", "report"}
    /\ Result(w, result_for_exception)
    /\ UNCHANGED <<sourceVars, job, validators, robots, stored, browser>>

(***************************************************************************)
(* handle().  A request has no effect on the database, so the step that    *)
(* decides to send it also takes its answer: Fetched for the job's own     *)
(* URL, RobotsFetched for the robots file of a page.  `read` is what the   *)
(* handler keeps of what it has read.                                      *)
(***************************************************************************)
Unchanged304 == IF robots.stored = "none" THEN {} ELSE {Reply(304, "none", "none")}

Fetched(w, read) ==
    \/ \E a \in IF KindOf(w) = "robots" THEN RobotsAnswers \cup Unchanged304
                                            ELSE PageAnswers(read.etag) :
          worker' = [worker EXCEPT ![w] = [read EXCEPT !.at = "record", !.answer = a]]
    \/ Result(w, "defer")                           \* the permit was denied

RobotsFetched(w, read) ==
    \/ \E a \in RobotsAnswers :
          worker' = [worker EXCEPT ![w] = [read EXCEPT !.at = "robots_record", !.answer = a,
                                                       !.had = robots.attempt # "none"]]
    \/ Result(w, "defer")

\* Seeded fault: only an open circuit keeps the fetcher away.
RouteRefuses_unsupported_dropped == route.state = "circuit_open"

RouteRefuses == route.state \in {"circuit_open", "unsupported"}

\* get_fetch_preflight (one SELECT) and latest_validators.
get_fetch_preflight(w) ==
    [worker[w] EXCEPT !.revision = route.revision, !.policy = source.policy, !.etag = validators]

\* The early returns of handle(), up to the route's state: what the task ends with, or
\* "none" if it goes on.
refusal(w) ==
    IF KindOf(w) \notin REQUEST_KINDS \/ route.revision = 0 THEN "quarantine"
    ELSE IF source.state # "enabled" THEN "defer"
    ELSE IF source.policy = 0 \/ policies[source.policy].robots \notin RobotsPolicies
         THEN "quarantine"
    ELSE IF RouteRefuses THEN "defer" ELSE "none"

NeedsSnapshot(w) ==
    \/ KindOf(w) = "robots"
    \/ KindOf(w) = "page" /\ policies[source.policy].robots = "respect"

\* The check of the job's arguments, the preflight, and what handle() decides from it.
preflight(w) ==
    LET read == get_fetch_preflight(w)
    IN  /\ worker[w].at = "preflight"
        /\ \/ refusal(w) # "none" /\ Result(w, refusal(w))
           \/ /\ refusal(w) = "none" /\ NeedsSnapshot(w)
              /\ worker' = [worker EXCEPT ![w] = [read EXCEPT !.at = "snapshot"]]
           \/ refusal(w) = "none" /\ ~NeedsSnapshot(w) /\ Fetched(w, read)
        /\ UNCHANGED <<sourceVars, job, validators, robots, stored, browser>>

\* The rules allow the page: fetch it.  They do not: the refusal is recorded as
\* policy_blocked, which is permanent.
Decided(w) ==
    IF robots_allows(policies[worker[w].policy].robots, SnapshotRules)
    THEN Fetched(w, [worker[w] EXCEPT !.had = FALSE])
    ELSE Result(w, "quarantine")

\* latest_robots_snapshot: a robots job has nothing to do while the snapshot is fresh;
\* _enforce_robots decides on a fresh snapshot and refreshes any other.
snapshot(w) ==
    /\ worker[w].at = "snapshot"
    /\ CASE KindOf(w) = "robots" /\ robots.attempt = "fresh" -> Result(w, "complete")
         [] KindOf(w) = "robots" /\ robots.attempt # "fresh" -> Fetched(w, worker[w])
         [] KindOf(w) # "robots" /\ robots.attempt = "fresh" -> Decided(w)
         [] OTHER -> RobotsFetched(w, worker[w])
    /\ UNCHANGED <<sourceVars, job, validators, robots, stored, browser>>

\* record_fetch for a robots answer, as the snapshot query sees it later.
RobotsRecorded(a) ==
    LET rules == IF StoresRaw(a) THEN a.shows ELSE "none"
    IN  robots' = [attempt |-> IF RobotsAttempt(a) THEN "fresh" ELSE robots.attempt,
                   own     |-> IF RobotsAttempt(a) THEN rules ELSE robots.own,
                   stored  |-> IF StoresRaw(a) THEN a.shows ELSE robots.stored]
ResetOnSuccess(a) ==
    route' = IF decision(a).outcome = Success THEN ResetFailures(route) ELSE route

\* _enforce_robots: the answer is stored or recorded, without effect on the route's
\* state; one that settles nothing ends the task unless an older snapshot can stand in.
record_robots(w) ==
    LET a == worker[w].answer
        settles == a.status = 404 \/ decision(a).outcome = Success \/ worker[w].had
    IN  /\ worker[w].at = "robots_record"
        /\ \/ /\ RobotsRecorded(a)
              /\ ResetOnSuccess(a)
              /\ IF settles
                 THEN worker' = [worker EXCEPT ![w].at = "robots_decide", ![w].had = FALSE,
                                               ![w].answer = NoAnswer]
                 ELSE Result(w, task_result(decision(a)))
           \/ /\ StoresRaw(a)                      \* UploadBusyError
              /\ Result(w, "defer")
              /\ UNCHANGED <<robots, route>>
        /\ UNCHANGED <<source, policies, trail, gui, job, validators, stored, browser>>

decide_robots(w) ==
    /\ worker[w].at = "robots_decide"
    /\ Decided(w)
    /\ UNCHANGED <<sourceVars, job, validators, robots, stored, browser>>

\* record_fetch for an answer to the job's own URL.
Recorded(w, a) ==
    IF KindOf(w) = "robots"
    THEN RobotsRecorded(a) /\ UNCHANGED validators
    ELSE /\ validators' = IF validators_predicate(a) THEN a.shows ELSE validators
         /\ UNCHANGED robots

\* record_raw_object: equal bytes have one row, the first one (ON CONFLICT DO NOTHING).
record_raw_object(version) == stored' = stored \cup {version}

\* _store_raw: the uploader's commit transaction holds the fetch row, the raw object,
\* the parse job and the reset of the route's failures.  Its answer may be lost.
store_raw(w) ==
    LET a == worker[w].answer
    IN  /\ worker[w].at = "record" /\ StoresRaw(a)
        /\ \/ /\ Recorded(w, a)
              /\ IF KindOf(w) = "robots" THEN UNCHANGED stored ELSE record_raw_object(a.shows)
              /\ route' = ResetFailures(route)
              /\ \/ Result(w, task_result(decision(a)))
                 \/ Result(w, result_for_exception)
           \/ /\ Result(w, "defer")                \* UploadBusyError
              /\ UNCHANGED <<validators, robots, stored, route>>
        /\ UNCHANGED <<source, policies, trail, gui, job, browser>>

\* _record_without_raw for an answer that is no incident.
record_without_raw(w) ==
    LET a == worker[w].answer
    IN  /\ worker[w].at = "record" /\ ~StoresRaw(a) /\ ~decision(a).route_incident
        /\ Recorded(w, a)
        /\ ResetOnSuccess(a)
        /\ \/ Result(w, task_result(decision(a)))
           \/ Result(w, result_for_exception)
        /\ UNCHANGED <<source, policies, trail, gui, job, stored, browser>>

\* _record_without_raw for 401/403: set_route_state reads the state before ...
incident_before(w) ==
    /\ worker[w].at = "record" /\ decision(worker[w].answer).route_incident
    /\ worker' = [worker EXCEPT ![w].at = "incident", ![w].before = route.state]
    /\ UNCHANGED <<sourceVars, job, validators, robots, stored, browser>>

\* ... and opens the circuit with the revision of the preflight; the fetch row and the
\* browser job are in the same transaction.  StaleRevisionError rolls all of it back.
record_incident(w) ==
    LET j == worker[w].job
    IN  /\ worker[w].at = "incident"
        /\ \/ /\ RouteUpdated(w, "circuit_open", worker[w].before, worker[w].revision)
              /\ Recorded(w, worker[w].answer)
              /\ browser' = IF policies[worker[w].policy].browser /\ BrowserRoute THEN browser \cup {j} ELSE browser
              /\ \/ Result(w, task_result(decision(worker[w].answer)))
                 \/ Result(w, result_for_exception)
           \/ /\ ~RevisionMatches(worker[w].revision)
              /\ Result(w, result_for_exception)
              /\ UNCHANGED <<route, trail, validators, robots, browser>>
        /\ UNCHANGED <<source, policies, gui, job, stored>>

WorkerStep(w) ==
    \/ \E j \in Jobs : claim_job(w, j)
    \/ report(w)
    \/ die(w)
    \/ raises(w)
    \/ preflight(w)
    \/ snapshot(w)
    \/ record_robots(w)
    \/ decide_robots(w)
    \/ store_raw(w)
    \/ record_without_raw(w)
    \/ incident_before(w)
    \/ record_incident(w)

Next ==
    \/ OperatorStep /\ UNCHANGED fetchVars
    \/ \E w \in Workers : record_route_failure(w) /\ UNCHANGED fetchVars
    \/ \E w \in Workers : WorkerStep(w)
    \/ robots_ages

Spec == Init /\ [][Next]_vars

-------------------------------------------------------------------------------
\* A fetch job that succeeded has its content: the version of the page its last answer
\* stood for, by its body or by 304, is stored with a parse job (media binaries are
\* skipped on purpose).  A 304 is believed only because the validators it answers came
\* with a body that was committed, whatever was retried, lost or stored in between.
SuccessHasContent ==
    \A j \in Jobs :
        job[j].status = "succeeded" /\ job[j].kind # "robots" =>
            job[j].saw \in stored \cup Media
===============================================================================
