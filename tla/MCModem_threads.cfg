SPECIFICATION FairSpec
CONSTANTS
    Thread = {t1, t2}
    Main = Main
    NoTid = NoTid
    First = t1
INVARIANTS
    TypeOK
    OneInitialiser
    ReadyIsUp
PROPERTIES
    NoSocketLost
    LateDialEnds
    DialEnds
