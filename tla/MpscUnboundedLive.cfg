SPECIFICATION FairSpec
CONSTANTS
    Producers = {p1, p2}
    BlockSize = 2
    WordMod = 16
    SuspendModes = {TRUE}
    MaxBulk = 1
    FirstTicket = 13
    MaxTicket = 3
    MaxBlocks = 4
PROPERTIES
    ClosesAndSettles
    ImplementsAsyncQueue
