\* Three clients, one bill, three payments from two sequences of numbers.
CONSTANTS
    Sequences = {"cash today", "cash tomorrow"}
    MaxNumber = 2
    Bills = {"pi"}
    Payments = {"deposit", "rest", "late"}
    Handlers = {h1, h2, h3}
    Total <- MCTotal
    Payment <- MCPayment
    Mishaps = {}
    NoBill = "no bill"
    NoDocument = "nothing"
    NoNumber = 0
SPECIFICATION Spec
SYMMETRY HandlerSymmetry
CHECK_DEADLOCK FALSE
INVARIANTS
    ClaimedOnceInOrder
    BalanceExplained
