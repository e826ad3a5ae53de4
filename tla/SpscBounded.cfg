SPECIFICATION FairSpec
CONSTANTS
    Capacity = 2
    WordMod = 8
    ConsumerCanSuspend = TRUE
    MaxBulk = 2
    MaxPush = 10
INVARIANTS
    TypeOK
    PushOverwritesNothing
    FifoDelivery
    DestructorLeavesNothing
    NoLostWakeup
    StatusIsRight
PROPERTIES
    DrainsAndCloses
    ImplementsAsyncQueue
