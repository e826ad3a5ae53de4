SPECIFICATION Spec
CONSTANTS
    Producers = {p1, p2, p3}
    Capacity = 1
    WordMod = 16
    SuspendModes = {TRUE, FALSE}
    FirstTicket = 14
    MaxPush = 4
SYMMETRY Symmetry
INVARIANTS
    SlotIsExclusive
    NoProducerForgotten
PROPERTIES
    HandoffIsFifo
    ImplementsAsyncQueue
