SPECIFICATION Spec
CONSTANTS
    MaxRetries = 3
    WaitTime = 6
    PollInterval = 2
    MaxFaults = 1
    w1 = w1
    w2 = w2
    e1 = e1
    e2 = e2
    t1 = t1
    t2 = t2
    Workers = {w1, w2}
    Batches <- MCBatches
    Tasks = {t1, t2}
    Malformed = {t2}
    MaxCalls = 2
    MaxDbFaults = 1
CHECK_DEADLOCK FALSE
INVARIANTS
    AuditInv
    AnswerIsOutcome
    DuplicateOnlyAfterLoss
PROPERTIES
    CallsComplete
