CONSTANTS
    Addrs <- MCAddrs
    MaxTracked = 3
    MaxRows = 3
    Heights <- MCHeights
    MaxRequests = 3
    MaxTime = 2
SPECIFICATION LiveSpec
INVARIANT TypeOK
INVARIANT SelectionOnScreen
PROPERTY SelectionFollowsAddr
PROPERTY ScrollsLeast
PROPERTY VisitorListed
