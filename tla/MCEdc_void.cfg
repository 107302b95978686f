SPECIFICATION Spec
CONSTANTS
    Txn = {t1}
    MaxTranLog = 2
    NoRec = NoRec
    NoTxn = NoTxn
    NoReq = NoReq
    Feature = {"void", "power"}
SYMMETRY Symmetry
INVARIANTS
    VoidedIsNotLive
