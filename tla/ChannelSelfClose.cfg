SPECIFICATION Spec
CONSTANTS
    ta = ta
    tb = tb
    tc = tc
    Tokens = {ta, tb}
    Setups <- SelfCloseSetups
    Maker = ta
    Nobody = nobody
    BlockSize = 2
    WordMod = 64
    MaxBulk = 0
    FirstTicket = 0
    MaxTicket = 1
    MaxPull = 1
    MaxAcquire = 2
    MaxBlocks = 5
INVARIANTS
    NoSelfDeadlock
