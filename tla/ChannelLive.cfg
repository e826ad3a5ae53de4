SPECIFICATION FairSpec
CONSTANTS
    ta = ta
    tb = tb
    tc = tc
    Tokens = {ta, tb}
    Setups <- LiveSetups
    Maker = ta
    Nobody = nobody
    BlockSize = 2
    WordMod = 128
    MaxBulk = 0
    FirstTicket = 126
    MaxTicket = 2
    MaxPull = 3
    MaxAcquire = 2
    MaxBlocks = 5
PROPERTIES
    ClosesAndSettles
CHECK_DEADLOCK FALSE
