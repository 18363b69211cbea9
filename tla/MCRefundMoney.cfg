\* Two refunds and the cancellation of one order, one processor; Decathlon
\* may apply a request after the client has given up on it.
SPECIFICATION Spec
CONSTANTS
    Jobs <- OrderJobs
    Workers = {w1}
    NoWorker = NoWorker
    MaxAttempts = 2
    MaxStalls = 0
    Keys <- OrderKeys
    CancelKeys = {"cancel"}
    Unmappable = {"bad"}
    Want <- OrderWant
    KeyOf <- OrderKeyOf
    Handlers = {h1}
    First <- OrderFirst
    Total = 1
    Outsider = Outsider
    LateApply = TRUE
    MaxRefundIds = 1
\* every job ends, and then nothing need happen
CHECK_DEADLOCK FALSE
INVARIANTS
    SuccessExplained
    OverdrawIsUnaccounted
