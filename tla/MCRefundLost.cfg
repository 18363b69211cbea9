\* A claimed refund whose run ended early is never sent.
SPECIFICATION Spec
CONSTANTS
    Jobs <- SoloJobs
    Workers = {w1}
    NoWorker = NoWorker
    MaxAttempts = 2
    MaxStalls = 1
    Keys <- SoloKeys
    CancelKeys = {}
    Unmappable = {}
    Want <- SoloWant
    KeyOf <- SoloKeyOf
    Handlers = {h1, h2}
    First <- SoloFirst
    Total = 2
    Outsider = Outsider
    LateApply = FALSE
    MaxRefundIds = 0
\* every job ends, and then nothing need happen
CHECK_DEADLOCK FALSE
INVARIANTS
    AlreadySentIsTrue
