\* Two traces and two upsets, an answer of the API all or one of them; or one
\* transaction of up to three acts, or of one task.
SPECIFICATION TonSpec
CONSTANTS
    t1 = t1
    t2 = t2
    gateway = "gateway"
    gas_service = "gas_service"
    Traces = {t1, t2}
    Accounts = {"gateway", "gas_service"}
    TouchedBy <- MCTouchedBy
    StartLt <- MCStartLt
    EndLt <- MCEndLt
    Revisable = {t1}
    Limit = 1
    Retries = 2
    MaxUpsets = 2
    BytesPerCell = 2
    Gateway = "gateway"
    GasService = "gas_service"
    Wallets = {"wallet"}
    Price <- MCPrice
    Acts <- MCActs
    MaxActs = 3
    Messages <- MCMessages
    Gas = {0, 4, 5, 8, 20}
    Estimate <- MCEstimate
    Buffers <- MCBuffers
CHECK_DEADLOCK FALSE
INVARIANTS
    TracesInv
    PublishedOnce
    PaymentsCredited
    CostsCharged
    TasksAnswered
    MessagesReadBack
PROPERTY
    CompleteIsPublished
