SPECIFICATION FairSpec
CONSTANTS
    Jobs = {j1}
    Workers = {w1}
    Desired = {2}
    MaxSlots = 2
    ClaimBatch = 1
    Handles = 2
INVARIANTS EntriesAreLive CleanExit
PROPERTIES StopTerminates LostWorkStops
CHECK_DEADLOCK FALSE
