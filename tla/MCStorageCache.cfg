SPECIFICATION Spec
CONSTANTS
    c1 = c1
    c2 = c2
    c3 = c3
    h1 = h1
    h2 = h2
    Flag = {f1}
    Rules = {e1}
    Client = {c1, c2, c3}
    Cache = {h1, h2}
    Home <- TwoInstances
    Miss = Miss
    Absent = Absent
    MaxWrites = 2
    MaxFaults = 1
INVARIANTS
    TypeOK
    StaleOnlyAfterOverlap
PROPERTY CachesConverge
