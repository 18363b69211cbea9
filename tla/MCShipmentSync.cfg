\* The deliveries of one fulfillment on two processors that may lose their lock.
SPECIFICATION Spec
CONSTANTS
    Jobs <- FlowJobs
    Workers = {w1, w2}
    NoWorker = NoWorker
    MaxAttempts = 1
    MaxStalls = 0
    Keys = {"f1"}
    KeyOf <- FlowKeyOf
    Deliveries = {"pending", "create", "update"}
    PayloadOf <- FlowPayload
    Shippable = {"create", "update"}
    Numbers = {"n1", "n2"}
    NoNumber = NoNumber
    NumberOf <- FlowNumberOf
    Unresolvable = {"update"}
    Carriers = {"code"}
SYMMETRY SameWorkers
\* every job ends, and then nothing need happen
CHECK_DEADLOCK FALSE
INVARIANTS
    DivergenceHasCause
    ShippedTwiceNeedsDoubt
    SuccessIsShipped
