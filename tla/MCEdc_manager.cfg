SPECIFICATION Spec
CONSTANTS
    Txn = {t1, t2}
    MaxTranLog = 2
    NoRec = NoRec
    NoTxn = NoTxn
    NoReq = NoReq
    Feature = {"manager"}
SYMMETRY Symmetry
PROPERTIES
    ClosedBatchGrowsNot
