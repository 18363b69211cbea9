\* Nothing fails; Decathlon refuses rows in either stage, or never finishes.
SPECIFICATION FairSpec
CONSTANTS
    Jobs <- SomeJobs
    Workers = {w1}
    NoWorker = NoWorker
    MaxAttempts = 1
    MaxStalls = 0
    ProductJobs <- OneProductJob
    Requeues <- OneRequeue
    OfferJob <- Offer
    OriginalOf <- FromFirst
    WebhookJobs <- OneProductJob
    Variants = {v1, v2}
    MaxImports = 2
    MaxPolls = 2
    StockMoves = FALSE
    Faults = {}
    MaxFaults = 0
\* every job ends, and then nothing need happen
CHECK_DEADLOCK FALSE
INVARIANTS
    SyncedHasCause
    SuccessIsPublished
PROPERTY RowsResolve
