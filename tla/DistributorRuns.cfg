\* Four tasks, one of which does not parse; two stops.
SPECIFICATION FairSpec
CONSTANTS
    NumTasks = 4
    PageSize = 2
    KindOf <- MCKindOf
    Unparsable = {3}
    IncluderKinds = {"Refund", "GatewayTx"}
    IngestorKinds = {"Verify", "ConstructProof"}
    RefundsEnabled = FALSE
    RecoveryKinds = {"Verify", "GatewayTx"}
    From = 1
    To = 4
    MaxStops = 2
CHECK_DEADLOCK FALSE
INVARIANTS
    NoTaskSkipped
    RecoveryCovers
PROPERTY
    TasksKeepFlowing
