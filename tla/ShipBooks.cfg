SPECIFICATION FairSpec
CONSTANTS
    Branches <- MCBranches
    Route <- MCRoute
    Shipments = {"out", "back"}
    Handlers = {h1, h2, h3}
    Objects = {0, 1, 2, 3, 4}
    Receipts <- MayBeShort
    InitStock <- AmpleStock
    Mishaps = {"STALE"}
    NoShipment = NoShipment
    Nobody = Nobody
CHECK_DEADLOCK FALSE
INVARIANTS
    StockMatchesShipments
PROPERTIES
    ImplementsBook
    EveryRequestAnswered
