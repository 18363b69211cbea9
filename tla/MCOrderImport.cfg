\* Three orders on two pages: a legacy row, one that is refused and may leave.
SPECIFICATION FairSpec
CONSTANTS
    Jobs <- Queue
    Workers = {w1}
    NoWorker = NoWorker
    MaxAttempts = 2
    MaxStalls = 1
    Orders = {1, 2, 3}
    Legacy = {1}
    Rekeyed = {1}
    Refused = {2}
    Leavers = {2}
    PageSize = 2
    MaxClicks = 1
    MaxFaults = 2
INVARIANTS
    CopiesNeedDoubt
    CopyIsMapped
PROPERTIES
    ImportedInTheEnd
