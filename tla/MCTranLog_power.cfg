SPECIFICATION FairPowerSpec
CONSTANTS
    Acq = {a1, a2}
    MaxTranLog = 2
    Body = {sent, nosend}
    Unsent = {nosend}
    Pack = {p1}
    MaxBatch = 2
    NoAcq = NoAcq
    NoRec = NoRec
    NoSlot = NoSlot
    NoPack = NoPack
    NoWrite = NoWrite
    PowerFails = TRUE
    LowBattery = FALSE
INVARIANTS
    TypeOK
    IndexMatchesLog
    LastIsLive
    ReloadLosesNothing
    HandlersSeeNoJournal
    ClosedIsErased
    SteadyBatchIsFresh
PROPERTIES
    AtomicSpec
    RecoveryIsInvisible
    RecoveryEnds
