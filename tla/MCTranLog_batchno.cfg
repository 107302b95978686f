SPECIFICATION FairPowerSpec
CONSTANTS
    Acq = {a1}
    MaxTranLog = 2
    Body = {sent, nosend}
    Unsent = {nosend}
    Pack = {p1}
    MaxBatch = 3
    NoAcq = NoAcq
    NoRec = NoRec
    NoSlot = NoSlot
    NoPack = NoPack
    NoWrite = NoWrite
    PowerFails = TRUE
    LowBattery = FALSE
INVARIANTS
    BatchIsFresh
