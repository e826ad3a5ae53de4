SPECIFICATION FairSpec
CONSTANTS
    Producers = {p1, p2}
    Capacity = 2
    WordMod = 16
    SuspendModes = {TRUE, FALSE}
    FirstTicket = 14
    MaxPush = 3
INVARIANTS
    TypeOK
    DeliveredOnce
    ClosedMeansDrained
    NoConsumerForgotten
PROPERTIES
    ClosesAndSettles
