SPECIFICATION UploadSpec
CONSTANTS
    p1 = p1
    p2 = p2
    p3 = p3
    s1 = s1
    worker1 = worker1
    worker2 = worker2
    sweeper = sweeper
    Producers <- MCProducers
    Sweepers <- MCSweepers
    Owner <- MCOwner
    Offset <- MCOffset
    Skew = 1
    Lease = 1
    SweepLease = 1
    Grace = 1
    max_attempts = 2
    MaxGen = 4
    MaxTime = 4
SYMMETRY Symmetry
INVARIANTS ReferenceHasObject TokenUnique
CHECK_DEADLOCK FALSE
