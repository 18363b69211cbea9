\* A webhook sync, the offer-sync and their polls on two processors; one failure.
SPECIFICATION Spec
SYMMETRY SameWorkers
CONSTANTS
    Jobs <- SomeJobs
    Workers = {w1, w2}
    NoWorker = NoWorker
    MaxAttempts = 1
    MaxStalls = 1
    ProductJobs <- OneProductJob
    Requeues <- NoRequeue
    OfferJob <- Offer
    OriginalOf <- FromFirst
    WebhookJobs <- OneProductJob
    Variants = {v1}
    MaxImports = 2
    MaxPolls = 2
    StockMoves = TRUE
    Faults = {"throw", "crash", "lock"}
    MaxFaults = 1
\* every job ends, and then nothing need happen
CHECK_DEADLOCK FALSE
INVARIANTS
    StrandedHasCause
    ProductRowsTellTheirOwn
PROPERTY RewriteHasCause
