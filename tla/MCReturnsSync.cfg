\* Four returns, two on a bare order; one on the newest page, two open rows per run.
SPECIFICATION FairReturnsSpec
CONSTANTS
    Returns = {1, 2, 3, 4}
    Terminal = 2
    Orders = {"bare", "o1", "o2"}
    OrderOf <- SomeOrders
    Bare = {"bare"}
    NewestLimit = 1
    OpenLimit = 2
    MaxFaults = 2
INVARIANTS
    MissingTagHasCause
PROPERTY MirrorCatchesUp
