SPECIFICATION Spec
CONSTANTS
    Keys <- MCKeys
    Owners <- MCOwners
    Serves <- MCServes
    Priority <- MCPriority
    MaxAttempts <- MCMaxAttempts
    Delays <- MCDelays
    ClaimLimit = 2
    RecoverLimit = 1
    LeaseSeconds = 1
    MaxTime = 4
INVARIANTS
    NoDoubleClaim
    AttemptAccounting
PROPERTIES
    ImplementsJobService
CHECK_DEADLOCK FALSE
