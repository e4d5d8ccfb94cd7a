SPECIFICATION Spec
CONSTANTS
    Operators = {o1}
    Policies <- MCPolicies
    Threshold = 1
    MaxSource = 4
    MaxRoute = 3
    SourceTargets = {"paused"}
    RouteTargets = {"healthy", "unsupported"}
    MaxFailures = 1
    Workers = {w1, w2}
    Jobs = {j1, j2}
    Kinds = {"page", "robots", "other"}
    BrowserRoute = TRUE
    MaxAttempts = 1
    Versions = {"v1", "v2"}
    Media = {"v2"}
    Failures <- MCFailures
    RobotsStatuses = {200}
    Rules = {"disallow"}
SYMMETRY JobsAndWorkers
INVARIANTS AuditChain DecisionKept SuccessHasContent
CHECK_DEADLOCK FALSE
