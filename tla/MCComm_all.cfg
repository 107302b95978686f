SPECIFICATION FairSpec
CONSTANTS
    AcqNum = 2
    Links <- AnyLinks
    TermID <- SameTermID
    MaxStan = 9
    LastBegin = 2
    Power = TRUE
    NoHost = NoHost
    Dead = Dead
    NoStan = NoStan
INVARIANTS
    TypeOK
PROPERTIES
    ClosesWithItsHost
    ReversalIsDone
    StanIsFresh
    SaleReachesItsHost
    TcpReachesItsHost
    EventEnds
