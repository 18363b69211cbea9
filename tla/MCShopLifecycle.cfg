\* Two requests at a time, three installations, a request that fails half way.
SPECIFICATION FairSpec
CONSTANTS
    Handlers = {h1, h2}
    Intervals = {15, 30}
    None = None
    MaxInstalls = 3
    MaxChanges = 2
    MaxFaults = 1
\* the shop may rest
CHECK_DEADLOCK FALSE
INVARIANTS
    GoneHasNoSchedule
PROPERTIES
    LiveShopKept
    ScheduleSettles
