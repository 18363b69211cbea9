\* The bounds on requests end every behaviour.
SPECIFICATION AppSpec
CONSTANTS
    Types = {"t"}
    Products = {"p"}
    Vendors = {"b1", "b2"}
    SizeValues = {"s"}
    OtherValues = {"o"}
    Categories = {"c"}
    Charts = {"z"}
    Codes = {"x", "y"}
    Exact <- MCExact
    VendorOf <- MCVendorOf
    Operations = {"category", "details", "clearCategory", "save", "clear", "confirmAll", "setType"}
    Requests = {1, 2}
    MaxChanges = 2
    MaxFaults = 1
    Readers = {1, 2}
    MaxEditions = 3
    MaxInputs = 3
    ApiKeys = {"good", "bad"}
    Accepted = {"good"}
    NoKey = "none"
    MaxSlots = 2
    MaxPosts = 3
    MaxMishaps = 1
CHECK_DEADLOCK FALSE
INVARIANTS
    StaleHasCause
    ServedIsNoOlder
    ListIsOfItsQuery
    ConnectedIsTrue
PROPERTIES
    ConfirmKeepsChoices
    Rechecked
    SetupEndsReady
    InternalStateKept
