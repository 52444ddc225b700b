SPECIFICATION Spec
CONSTANTS
    Instance = {i1, i2}
    Cache = {k1}
    CacheOf <- SharedCache
    Client = {c1, c2}
    Configured = Configured
    Namespace = {n1}
    DefaultNamespace = n0
    Target <- Targets
    Profile <- SomeProfiles
    BootScope <- BootScopes
    Expiry = {1}
    Empty = Empty
    NoScope = NoScope
    Blank = Blank
    Nothing = Nothing
    Never = Never
    MaxIds = 2
    MaxTime = 2
    MaxChanges = 2
    MaxFaults = 1
INVARIANT TypeOK
PROPERTIES
    AdmittedWithinGrant
    JudgedByLatestExpiry
    CopiesConverge
    BootstrapsOnlyWhenNone
CHECK_DEADLOCK FALSE
CONSTRAINTS
    StartedFirst
    PairsUnscoped
