SPECIFICATION SteadySpec
CONSTANTS
    Txn = {t1, t2}
    MaxTranLog = 2
    NoRec = NoRec
    NoTxn = NoTxn
    NoReq = NoReq
    Feature = {"chip", "offline", "void", "adjust", "auto", "logon", "manager", "mismatch", "chip mismatch"}
INVARIANTS
    VoidedIsNotLive
PROPERTIES
    OperationsEnd
