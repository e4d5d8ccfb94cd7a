SPECIFICATION Spec
CONSTANTS
    p1 = p1
    p2 = p2
    e1 = e1
    Parses = {p1, p2}
    Entities = {e1}
    EntityOf <- MCEntityOf
    States = {A, B}
    Parsers = {k1, k2}
    Workers = {w1, w2}
    MaxAttempts = 2
    MaxClaims = 3
SYMMETRY ModelSymmetry
INVARIANTS ConfirmedIsApplied EventOncePerChange CompleteIsShown CommandKept
