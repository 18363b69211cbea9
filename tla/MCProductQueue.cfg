\* Edits that may be taken back and a manual sync, while runs throw or die.
SPECIFICATION Spec
SYMMETRY Same
CONSTANTS
    Jobs <- BothJobs
    Workers = {w1, w2}
    NoWorker = NoWorker
    MaxAttempts = 2
    MaxStalls = 1
    Producers = {p1, p2}
    Versions <- Contents
    NoVersion = NoVersion
    MaxEdits = 3
    MaxClicks = 1
    MaxFaults = 1
CHECK_DEADLOCK FALSE
INVARIANTS
    EveryRowRuns
    FollowUpArrives
    ManualSends
PROPERTIES
    SkippedIsCurrent
