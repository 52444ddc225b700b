SPECIFICATION Spec
CONSTANTS
    Ref = {main, dev, fix}
    Key = {k1, k2, k3}
    Caller = {poller, v1}
    NoRef = NoRef
    NoKey = NoKey
    NoSnap = NoSnap
    Capacity = 1
    BaseRef = main
    Poller = poller
    BadKey = {k3}
    FirstKey = k1
    MaxPushes = 2
    MaxFaults = 1
INVARIANTS
    TypeOK
    ServesOwnHistory
PROPERTIES
    ViewReturns
    CloseReturns
    FollowsUnlessFetchedByView
