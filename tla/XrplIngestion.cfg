CONSTANTS
    Chain <- MCChain
    PageSize = 1
    MaxUpsets = 1
    Workers = {w1, w2}
    Copies <- MCCopies
    Shapes <- MCShapes
    Scale = 10
    Unit <- MCUnit
    StoredPrice <- MCStoredPrice
    DemoRate <- MCDemoRate
    MAX_TASK_RETRIES = 1
    MaxDisturbances = 1
SPECIFICATION Spec
CHECK_DEADLOCK FALSE
INVARIANTS
    IngestionInv
    NoneSkipped
    BatchComplete
    AmountsAccounted
PROPERTIES
    StatusAdvances
    EveryPaymentRouted
