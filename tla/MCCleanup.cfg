SPECIFICATION Spec
CONSTANTS
    Instance = {i1, i2}
    Duration = 2
    NoEntry = NoEntry
    MaxTime = 4
    MaxFaults = 1
    Auth = {a1}
    Absent = Absent
    Never = Never
    Expiry = {1}
    GracePeriod = 1
    MinCleanupInterval = 1
    MaxDrift = 1
INVARIANTS
    TypeOK
    OneCleanupPerAcquisition
    AcquisitionRate
PROPERTIES
    ImplementsLock
    NoLiveAuthenticationDeleted
    ExpiredIsDeleted
    ShutdownReturns
CHECK_DEADLOCK FALSE
