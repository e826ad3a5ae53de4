SPECIFICATION Spec
CONSTANTS
    ta = ta
    tb = tb
    tc = tc
    Tokens = {ta, tb}
    Setups <- ReclaimSetups
    Maker = ta
    Nobody = nobody
    BlockSize = 2
    WordMod = 128
    MaxBulk = 3
    FirstTicket = 126
    MaxTicket = 4
    MaxPull = 4
    MaxAcquire = 2
    MaxBlocks = 5
INVARIANTS
    StorageIsSound
    ReclaimedIsUnprotected
    AcquiredIsLive
    WritesAreSafe
CHECK_DEADLOCK FALSE
