\* Two handlers and the changes made aside; every kind of request, none of the mishaps.
CONSTANTS
    Branches = {"a", "b"}
    Products <- MCProducts
    Serials = {"m"}
    Orders = {"po"}
    Bills = {"first", "loose"}
    Returns = {"modem", "part"}
    Handlers = {h1, h2}
    Order <- MCOrder
    Bill <- MCBill
    Credit <- MCCredit
    InitStock <- MCStock
    MaxIncoming = 0
    Requests = {"ORDER", "DROP", "BILL", "DELETE", "RETURN", "APPROVE", "UNRETURN"}
    Mishaps = {}
    NoOrder = "no order"
    NoBill = "no bill"
    NoDocument = "nothing"
SPECIFICATION Spec
SYMMETRY HandlerSymmetry
CHECK_DEADLOCK FALSE
INVARIANTS
    NoOverReturn
    BillKeepsOrder
    
    StockMatchesBills
    RegisterMatchesReturns
