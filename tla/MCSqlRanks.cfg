SPECIFICATION Spec
CONSTANTS
    Client = {c1, c2}
    i1 = i1
    i2 = i2
    i3 = i3
    Item = {i1, i2, i3}
    Initial <- TwoItems
    MaxRank = 3
    MaxList = 3
    MaxRequests = 3
    Limit = 1
INVARIANTS
    RanksDistinct
    ListingComplete
PROPERTIES
    DeletionKeepsOrder
    RequestEnds
CHECK_DEADLOCK FALSE
CONSTRAINT LongListsOnce
