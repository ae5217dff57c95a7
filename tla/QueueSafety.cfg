\* One producer, one consumer with two workers, an ordinary and a misrouted
\* item, one fault.
SPECIFICATION Spec
CONSTANTS
    a = a
    b = b
    dist = dist
    incl = incl
    Items = {a, b}
    Producers = {dist}
    Consumers = {incl}
    Misrouted = {b}
    Poison = {}
    NumWorkers = 2
    BufferSize = 2
    MaxRetries = 0
    MaxFaults = 1
INVARIANTS
    NoSilentLoss
    AtLeastOnce
    NoDuplicatesWithoutFaults
PROPERTY
    ImplementsPromise
