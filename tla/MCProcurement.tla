---------------------------- MODULE MCProcurement -----------------------------
(* Instances of ProcurementAudit for TLC: a modem "m" and cable are        *)
(* ordered, billed, registered, sent back in part and billed again.        *)
EXTENDS ProcurementAudit, TLC

MCProducts == {"onu", "cable"}
Lines(onu, cable) == [p \in MCProducts |-> IF p = "onu" THEN onu ELSE cable]
MCStock == [b \in Branches |-> IF b = "a" THEN Lines(0, 1) ELSE Lines(0, 0)]

(* An edit of the order changes its cable and leaves the modem, unless it  *)
(* moves the order to the other branch.                                    *)
MCOrder == [o \in Orders |->
    [branch |-> "a", units |-> Lines(1, 2), amended |-> Lines(1, 3)]]
(* "first" is the bill of the order, "loose" is one without an order.      *)
MCBill == [b \in Bills |->
    IF b = "first"
    THEN [order |-> "po", branch |-> "a", units |-> Lines(1, 2), serials |-> {"m"}]
    ELSE [order |-> NoOrder, branch |-> "a", units |-> Lines(0, 1), serials |-> {}]]
(* Above the threshold: "modem".  It and "part" are too much cable.        *)
MCCredit == [r \in Returns |->
    IF r = "modem"
    THEN [bill |-> "first", branch |-> "a", units |-> Lines(1, 1), serials |-> {"m"},
          draft |-> TRUE]
    ELSE [bill |-> "first", branch |-> "a", units |-> Lines(0, 2), serials |-> {},
          draft |-> FALSE]]

HandlerSymmetry == Permutations(Handlers)
=============================================================================
