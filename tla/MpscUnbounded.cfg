SPECIFICATION Spec
CONSTANTS
    Producers = {p1, p2}
    BlockSize = 2
    WordMod = 32
    SuspendModes = {TRUE, FALSE}
    MaxBulk = 2
    FirstTicket = 29
    MaxTicket = 5
    MaxBlocks = 6
SYMMETRY Symmetry
INVARIANTS
    StorageIsSound
    ReclaimedIsUnreached
    WritesAreSafe
    DeliversRight
    NoConsumerForgotten
