\* An item whose processing always fails.
SPECIFICATION FairSpec
CONSTANTS
    a = a
    b = b
    dist = dist
    incl = incl
    Items = {a}
    Producers = {dist}
    Consumers = {incl}
    Misrouted = {}
    Poison = {a}
    NumWorkers = 1
    BufferSize = 2
    MaxRetries = 1
    MaxFaults = 0
PROPERTY
    FailingIsDeadLettered
