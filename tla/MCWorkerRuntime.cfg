SPECIFICATION Spec
CONSTANTS
    Jobs = {j1, j2}
    Workers = {w1}
    Desired = {1, 2}
    MaxSlots = 1
    ClaimBatch = 2
    Handles = 1
SYMMETRY JobSymmetry
INVARIANTS DrainIntent SlotCeiling
PROPERTY DrainBarrier
CHECK_DEADLOCK FALSE
