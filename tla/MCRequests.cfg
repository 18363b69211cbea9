\* A refund or a shipment, of which only a 429 is retried; it ends.
SPECIFICATION RequestsSpec
CONSTANTS
    MaxRetries = 5
    SafeOnly = TRUE
    LineCount = 2
    WebhookLength = 2
    OrderLines = {1, 2}
    DecathlonLines <- MCDecathlonLines
    NoLine = NoLine
    WebhookLines <- MCWebhookLines
    Shippings <- MCShippings
    MoneyBacks <- MCMoneyBacks
    Untold = Untold
    Absent = Absent
    Attributes <- MCAttributes
    SizeCodes <- MCSizeCodes
    Parent <- MCParent
    Exactly <- MCExactly
    Loosely <- MCLoosely
    InChart <- MCInChart
    ProductInputs <- MCProducts
    SettingsInputs <- MCSettings
CHECK_DEADLOCK FALSE
INVARIANTS
    AppliedAtMostOnce
    NeverBeyondRemaining
    RefundIsAccounted
    ImportRowIsSound
PROPERTIES
    OneShotSpec
