\* Three handlers; every kind of request, two of them open on one invoice.
SPECIFICATION Spec
CONSTANTS
    Branches = {"a", "b"}
    Products <- MCProducts
    Serials = {"m"}
    Invoices = {"first", "again", "counter"}
    Returns = {"modem", "broken"}
    Payments = {"deposit", "rest"}
    Handlers = {h1, h2, h3}
    Sale <- MCSale
    Credit <- MCCredit
    Receipt <- MCReceipt
    HomeBranch <- MCHome
    InitStock <- StockOfTwo
    Requests = {"SELL", "VOID", "RETURN", "APPROVE", "UNRETURN", "PAY", "REVERSE"}
    Mishaps = {"OVERLAP"}
    NoInvoice = NoInvoice
    NoDocument = NoDocument
CHECK_DEADLOCK FALSE
SYMMETRY HandlerSymmetry
INVARIANTS
    PaidMatchesPayments
    StockMatchesDocuments
    RegisterMatchesInvoices
    CancelledStaysSettled
PROPERTY
    VoidsUnencumbered
