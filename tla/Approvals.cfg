SPECIFICATION ApprovalsSpec
CONSTANTS
    Assets = {"mast", "van"}
    Units = {"olt", "onu"}
    Handlers = {h1, h2}
    UnitOf <- MCUnitOf
    FromStock = {"mast"}
    InitStock = 1
    Requests = {"DEPLOY", "UNASSIGN", "REASSIGN", "ASSIGN", "REPOST", "COLLECT", "EXCHANGE", "SUBMIT", "DECIDE", "WITHDRAW"}
    Mishaps = {}
    Applications = {"leave", "recount"}
    DeviceOf <- MCDeviceOf
    Counted = 0
    Lapses = {}
    NoTarget = "nothing"
    Nobody = "nobody"
CHECK_DEADLOCK FALSE
SYMMETRY HandlerSymmetry
INVARIANTS
    CountMatchesDevices
    FieldAssetsAreOut
    NoNegativeStock
    ExecutedOnce
    StockExplained
