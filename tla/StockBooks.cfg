SPECIFICATION FairSpec
CONSTANTS
    Branches <- MCBranches
    Products <- MCProducts
    Serials <- MCSerials
    Req <- MCReq
    InitStock <- AmpleStock
    Ops = {"damage", "pullout", "saleWh", "issue", "scrap"}
    Handlers = {h1, h2, h3}
    Lapses = {}
    NoOp = NoOp
    NoSerial = NoSerial
    Nobody = Nobody
CHECK_DEADLOCK FALSE
INVARIANTS
    StockMatchesOperations
    RegisterReflectsStock
PROPERTIES
    ImplementsBook
    EveryRequestAnswered
