SPECIFICATION Spec
CONSTANTS
    Client = {c1, c2}
    n1 = n1
    n2 = n2
    f1 = f1
    f2 = f2
    k1 = k1
    s1 = s1
    s2 = s2
    v1 = 1
    v2 = 2
    r1 = 3
    r2 = 7
    o1 = 4
    d1 = 5
    q1 = 6
    Namespace = {n1, n2}
    Protected = n1
    FlagKey = {f1, f2}
    VariantKey = {k1}
    SegmentKey = {s1, s2}
    Id = {1, 2, 3, 4, 5, 6, 7, 8}
    Rank = {1}
    InitialDb <- Tables
    MaxRequests = 3
INVARIANT RulesUseOwnSegments
CHECK_DEADLOCK FALSE
