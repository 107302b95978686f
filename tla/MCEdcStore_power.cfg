SPECIFICATION StoreSpec
CONSTANTS
    Txn = {t1, t2, t3}
    MaxTranLog = 2
    NoRec = NoRec
    NoTxn = NoTxn
    NoReq = NoReq
    Feature = {"chip", "offline", "void", "adjust", "auto", "logon", "mismatch", "power"}
SYMMETRY Symmetry
CONSTRAINT AtMostOneLost
INVARIANTS
    TypeOK
    ReversalGoesFirst
    NothingUnlogged
    LoggedIsLive
    TotalsAgree
PROPERTIES
    OnAtomicLog
    BatchClosesPaid
    ClosedBatchGrowsNot
