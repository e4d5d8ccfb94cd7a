------------------------------ MODULE FetchRules ------------------------------
(***************************************************************************)
(* The pure part of the fetch pipeline: what an answer of the origin means *)
(* (fetch/classify.py), which answers carry validators                     *)
(* (pg/repositories/artifacts.py), which count as robots evidence          *)
(* (fetch/robots.py), and what a decision tells the queue                  *)
(* (workers/handlers.py, fetch/handler.py).                                *)
(***************************************************************************)
EXTENDS Naturals

\* FetchOutcome and the queue's dispositions.
Success == "success"
Retryable == "retryable"
Permanent == "permanent_failure"
Dispositions == {"complete", "retry", "quarantine", "defer"}

RETRYABLE_STATUSES == {408, 425, 500, 502, 503, 504}
RETRYABLE_ERRORS == {"timeout", "network_error", "dns_error", "permit_lease_too_short"}
RobotsPolicies == {"diagnostic", "ignore", "respect"}

\* FetchDecision, reduced to the fields that decide anything after the fetch.
Decision(outcome, incident) == [outcome |-> outcome, route_incident |-> incident]

\* classify_status: an HTTP status (after redirects).
classify_status(status, body_empty) ==
    CASE status = 304                       -> Decision(Success, FALSE)
      [] status \in 200..299 /\ body_empty  -> Decision(Retryable, FALSE)
      [] status \in 200..299 /\ ~body_empty -> Decision(Success, FALSE)
      [] status = 429                       -> Decision(Retryable, FALSE)
      [] status \in RETRYABLE_STATUSES      -> Decision(Retryable, FALSE)
      [] status \in {401, 403}              -> Decision(Permanent, TRUE)
      [] OTHER                              -> Decision(Permanent, FALSE)

\* classify_error: a failure without a status that counts.
classify_error(code) ==
    CASE code \in RETRYABLE_ERRORS       -> Decision(Retryable, FALSE)
      [] code = "media_binary_skipped"   -> Decision(Success, FALSE)
      [] OTHER                           -> Decision(Permanent, FALSE)

(***************************************************************************)
(* An answer: its status (0: none), whether its body is empty, the error   *)
(* that ended it (or "none") and what it shows: a version of the page,     *)
(* or the rules of a robots file.  `_complete` reads a body only from a    *)
(* 2xx answer that is not skipped.                                         *)
(***************************************************************************)
Answer(status, empty, error, shows) ==
    [status |-> status, empty |-> empty, error |-> error, shows |-> shows]
Reply(status, error, shows) == Answer(status, FALSE, error, shows)
decision(a) ==
    IF a.error = "none" THEN classify_status(a.status, a.empty) ELSE classify_error(a.error)
HasBody(a) == a.error = "none" /\ a.status \in 200..299
StoresRaw(a) == HasBody(a) /\ decision(a).outcome = Success

\* Seeded fault: an answer that had to be repeated leaves its validators too.
validators_any_outcome(a) == a.status \in {200, 206}

\* validators_predicate of `latest_validators`.
validators_predicate(a) ==
    /\ decision(a).outcome = Success
    /\ a.status \in {200, 206}

\* The fetch rows that `latest_robots_snapshot` takes for an attempt.
RobotsAttempt(a) == a.status \in {200, 304, 404}

\* robots_allows: body is the rules that were found, or NoRules.
robots_allows(policy, rules) == policy # "respect" \/ rules # "disallow"

\* _task_result: success, retry (the runtime adds the delay) or quarantine.
task_result(d) ==
    CASE d.outcome = Success   -> "complete"
      [] d.outcome = Retryable -> "retry"
      [] d.outcome = Permanent -> "quarantine"

\* result_for_exception for anything but PermanentTaskError.
result_for_exception == "retry"
===============================================================================
