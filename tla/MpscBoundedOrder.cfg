SPECIFICATION Spec
CONSTANTS
    Producers = {p1, p2}
    Capacity = 2
    WordMod = 8
    SuspendModes = {TRUE}
    FirstTicket = 0
    MaxPush = 3
INVARIANTS
    PerProducerFifo
