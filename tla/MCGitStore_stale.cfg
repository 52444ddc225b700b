SPECIFICATION Spec
CONSTANTS
    Ref = {main, dev}
    Key = {k1, k2}
    Caller = {poller, v1}
    NoRef = NoRef
    NoKey = NoKey
    NoSnap = NoSnap
    Capacity = 1
    BaseRef = main
    Poller = poller
    BadKey = {}
    FirstKey = k1
    MaxPushes = 1
    MaxFaults = 0
PROPERTIES
    BaseFollowsUpstream
