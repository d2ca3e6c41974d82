SPECIFICATION YearsSpec
CONSTANTS
    Years = {"last", "next", "wide"}
    Period <- MCPeriod
    Founded = {"last", "next"}
    FirstCurrent = "next"
    Ended = {"last"}
    Docs = {"bill", "payment", "sale"}
    Doc <- MCDoc
    OnHand = 5
    Corrected = 4
    Limit = 5
    Handlers = {h1, h2}
    Requests = {"CREATE", "CURRENT", "DELETE", "CLOSE", "REOPEN", "ADJUST", "ROLL", "POST"}
    Lapses = {}
    NoYear = NoYear
    NoDoc = NoDoc
    NoRow = NoRow
CHECK_DEADLOCK FALSE
SYMMETRY HandlerSymmetry
PROPERTIES
    OpeningsCarried
