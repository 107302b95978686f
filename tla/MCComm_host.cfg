SPECIFICATION Spec
CONSTANTS
    AcqNum = 2
    Links <- GprsOnly
    TermID <- SameTermID
    MaxStan = 9
    LastBegin = 2
    Power = FALSE
    NoHost = NoHost
    Dead = Dead
    NoStan = NoStan
PROPERTIES
    ReachesItsHost
