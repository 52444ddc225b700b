SPECIFICATION CacheSpec
CONSTANTS
    Ref = {r1, r2, r3, r4}
    Key = {k1, k2, k3}
    Caller = {c1, c2}
    NoRef = NoRef
    NoKey = NoKey
    NoSnap = NoSnap
    Capacity = 2
SYMMETRY Symmetry
INVARIANTS
    CacheTypeOK
    NoDanglingReference
    NoLeakedSnapshot
PROPERTY EvictsLeastRecent
