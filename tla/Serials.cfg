SPECIFICATION Spec
CONSTANTS
    Units <- MCUnits
    Customers = {"u1", "u3"}
    Docs = {"bill", "shipment"}
    Lists <- MCLists
    Labels <- MCLabels
    FirstLabel <- MCFirst
    Edits = {"swap", "claim", "mixed", "other", "fresh"}
    Edit <- MCEdit
    Park <- MCPark
    Spare <- MCSpare
    Handlers = {h1, h2, h3}
    Mishaps = {}
    NoEdit = NoEdit
    NoLabel = NoLabel
CHECK_DEADLOCK FALSE
SYMMETRY HandlerSymmetry
INVARIANTS
    RecordsAgree
    SerialsUnique
    SwapsEndWhole
