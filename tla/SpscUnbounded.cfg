SPECIFICATION FairSpec
CONSTANTS
    BlockSize = 2
    WordMod = 16
    SuspendModes = {TRUE, FALSE}
    MaxBulk = 4
    FirstOffset = 12
    MaxPost = 7
    MaxWaiting = 4
    MaxBlocks = 5
INVARIANTS
    StorageIsSound
    ReclaimedIsUnreached
    PostOverwritesNothing
    DeliversRight
    NoLostWakeup
PROPERTIES
    DrainsAndCloses
    ImplementsAsyncQueue
