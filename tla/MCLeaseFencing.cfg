SPECIFICATION Spec
CONSTANTS
    Jobs <- MCJobs
    w1 = w1
    h1 = h1
    h2 = h2
    Workers <- MCWorkers
    Tasks <- MCTasks
    Requeue <- MCRequeue
    L = 2
    F = 1
    D = 2
    MaxTime = 5
SYMMETRY TaskSymmetry
INVARIANTS
    FenceWindow
    OverrunBounded
CHECK_DEADLOCK FALSE
