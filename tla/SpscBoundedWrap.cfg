SPECIFICATION Spec
CONSTANTS
    Capacity = 3
    WordMod = 8
    ConsumerCanSuspend = TRUE
    MaxBulk = 3
    MaxPush = 10
INVARIANTS
    PushOverwritesNothing
