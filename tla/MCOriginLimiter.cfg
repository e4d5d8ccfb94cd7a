SPECIFICATION Spec
CONSTANTS
    Origins = {o1}
    f1 = f1
    f2 = f2
    Fetchers <- MCFetchers
    Permits = {p1, p2, p3}
    Policies <- MCPolicies
    Offset <- MCOffset
    One = 1
    S = 1
    Lease = 3
    Totals = {1, 3}
    Margin = 2
    E = 0
    RetryAfters = {2}
    MaxRedirects = 1
    MaxTime = 4
SYMMETRY PermitSymmetry
INVARIANT InFlightBound
PROPERTY BlockRespected
CHECK_DEADLOCK FALSE
