SPECIFICATION Spec
CONSTANTS
    Instances = {i1, i2}
    Clients = {c1, c2}
    k1 = k1
    k2 = k2
    Keys <- MCKeys
    Want <- MCWant
    Default <- MCDefault
    States <- MCStates
    MaxSlots = 2
    InstanceTargets = {"ready", "stopped"}
    CommandTargets = {"draining", "applying", "applied"}
    MaxRevision = 3
    MaxCalls = 1
SYMMETRY InstancesAndClients
INVARIANTS RevisionLedger StaleIsTrue
PROPERTY AppliedConfirmed
CHECK_DEADLOCK FALSE
