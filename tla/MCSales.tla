------------------------------- MODULE MCSales -------------------------------
(* Instances of SalesAudit for TLC: the last modem "m" of branch "a" is    *)
(* sold, comes back and is sold again, with cable on the same invoices.    *)
EXTENDS SalesAudit, TLC

MCProducts == {"onu", "cable"}
Lines(onu, cable) == [p \in MCProducts |-> IF p = "onu" THEN onu ELSE cable]
MCStock == [b \in {"a", "b"} |-> IF b = "a" THEN Lines(1, 3) ELSE Lines(0, 0)]
(* With a second modem "n", which is never scanned.                        *)
StockOfTwo == [MCStock EXCEPT !["a"] = Lines(2, 3)]
MCHome == [s \in Serials |-> "a"]

(* "again" sells the modem of "first"; "counter" is paid when posted.      *)
Invoice(units, serials, total, paid) ==
    [branch |-> "a", units |-> units, serials |-> serials, total |-> total, paid |-> paid]
MCSale == [i \in Invoices |->
    CASE i = "first" -> Invoice(Lines(1, 2), {"m"}, 3, 0)
      [] i = "again" -> Invoice(Lines(1, 0), {"m"}, 2, 0)
      [] i = "counter" -> Invoice(Lines(0, 2), {}, 1, 1)]

(* "modem" is above the approval threshold; "broken" is brought to another *)
(* branch and goes to its damage register; together they are more cable    *)
(* than "first" sold.                                                      *)
Return(branch, units, serials, restockable, draft) ==
    [invoice |-> "first", branch |-> branch, units |-> units, serials |-> serials,
     restockable |-> restockable, draft |-> draft]
MCCredit == [r \in Returns |->
    IF r = "modem" THEN Return("a", Lines(1, 1), {"m"}, TRUE, TRUE)
                   ELSE Return("b", Lines(0, 2), {}, FALSE, FALSE)]

MCReceipt == [p \in Payments |-> [invoice |-> "first",
                                  amount |-> IF p = "deposit" THEN 1 ELSE 2]]

HandlerSymmetry == Permutations(Handlers)
=============================================================================
