SPECIFICATION Spec
CONSTANTS
    Branches <- MCBranches
    Route <- MCRoute
    Shipments = {"out", "back"}
    Handlers = {h1, h2, h3, h4}
    Objects = {0, 1, 2, 3, 4, 5}
    Receipts <- MayBeShort
    InitStock <- MCStock
    Mishaps = {"OVERLAP", "REPEAT", "STALE"}
    NoShipment = NoShipment
    Nobody = Nobody
CHECK_DEADLOCK FALSE
SYMMETRY HandlerSymmetry
INVARIANTS
    NoOverdraft
    UndoneOnlyIfReceived
    QuietMirrorIsFresh
