SPECIFICATION Spec
CONSTANTS
    Proofs <- MCProofs
    Tickets = {t1, t2}
    Queueable = {t1, t2}
    Workers = 2
    FailureLimit = 1
    MaxChecks = 1
    MaxFaults = 1
CHECK_DEADLOCK FALSE
INVARIANTS
    LoopInv
    NotForgotten
    RetriesBounded
PROPERTIES
    Settles
    QueuedSettles
