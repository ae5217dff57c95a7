\* One item, two faults: publications, deliveries, retries and dead-lettering
\* go on through crashes and lost connections.
SPECIFICATION FairSpec
CONSTANTS
    a = a
    b = b
    dist = dist
    incl = incl
    Items = {a}
    Producers = {dist}
    Consumers = {incl}
    Misrouted = {}
    Poison = {}
    NumWorkers = 1
    BufferSize = 1
    MaxRetries = 0
    MaxFaults = 2
PROPERTIES
    BufferedIsPublished
    StoredIsSettled
