SPECIFICATION Spec
CONSTANTS
    Branches <- MCBranches
    Products <- MCProducts
    Serials <- MCSerials
    Req <- MCReq
    InitStock <- ScarceStock
    Ops = {"damage", "pullout", "issue", "damageTwice", "scrap"}
    Handlers = {h1, h2, h3, h4}
    Lapses = {"OVERLAP", "RESEND", "MISUSE"}
    NoOp = NoOp
    NoSerial = NoSerial
    Nobody = Nobody
CHECK_DEADLOCK FALSE
SYMMETRY HandlerSymmetry
INVARIANTS
    VerifiedLinesApply
    PullOutCreditedOnce
    QuarantineAttributed
    OrderedWritersNeverDeadlock
