SPECIFICATION Spec
CONSTANTS
    Txn = {t1}
    MaxTranLog = 1
    NoRec = NoRec
    NoTxn = NoTxn
    NoReq = NoReq
    Feature = {"chip", "chip mismatch"}
SYMMETRY Symmetry
INVARIANTS
    NothingUnlogged
