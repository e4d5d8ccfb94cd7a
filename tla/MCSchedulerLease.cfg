SPECIFICATION SchedulerSpec
CONSTANTS
    Schedulers = {s1, s2}
    DomainTicks = 1
    MaxFaults = 3
INVARIANT OneQuery
PROPERTIES StartsUnderLease StopFrees SomeoneActive
CHECK_DEADLOCK FALSE
