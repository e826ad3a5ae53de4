SPECIFICATION Spec
CONSTANTS
    ta = ta
    tb = tb
    tc = tc
    Tokens = {ta, tb, tc}
    Setups <- CloseSetups
    Maker = ta
    Nobody = nobody
    BlockSize = 2
    WordMod = 64
    MaxBulk = 0
    FirstTicket = 0
    MaxTicket = 2
    MaxPull = 3
    MaxAcquire = 3
    MaxBlocks = 5
INVARIANTS
    DeliveredOnce
    ClosedMeansDrained
    NoConsumerForgotten
    DestructorLeavesNothing
