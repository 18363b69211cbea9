\* One refund, requeued once, and two processors: a run can outlive its lock.
SPECIFICATION FairSpec
CONSTANTS
    Jobs <- SoloJobs
    Workers = {w1,w2}
    NoWorker = NoWorker
    MaxAttempts = 1
    MaxStalls = 1
    Keys <- SoloKeys
    CancelKeys = {}
    Unmappable = {}
    Want <- SoloWant
    KeyOf <- SoloKeyOf
    Handlers = {h1}
    First <- SoloFirst
    Total = 2
    Outsider = Outsider
    LateApply = FALSE
    MaxRefundIds = 1
\* every job ends, and then nothing need happen
CHECK_DEADLOCK FALSE
INVARIANTS
    AtMostOnce
    RefundInv
PROPERTIES
    KeepsClaimContract
    EveryJobEnds
