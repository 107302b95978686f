SPECIFICATION Spec
CONSTANTS
    AcqNum = 2
    Txn = {1, 2, 3}
    AcqOf <- TwoAndOne
    Base <- Amounts
    MaxTip = 1
    MaxTranLog = 2
    MaxSettleAmt = 4
    MaxLong = 9
    NoRec = NoRec
    NoTxn = NoTxn
CONSTRAINTS
    AtMostOneDoubtful
    InOrder
CHECK_DEADLOCK FALSE
INVARIANTS
    TypeOK
    VoidNamesHeldAmount
    AdviceNamesHeldAmount
    TotalsAreHeld
    UploadAddsUp
    CertificatesAreThere
    LimitHolds
