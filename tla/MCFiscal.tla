------------------------------- MODULE MCFiscal -------------------------------
(* Instances of FiscalYears for TLC: last year and next, and one that      *)
(* would contain the latter, to be created once it is deleted; a bill and  *)
(* a payment of last year, and a sale in the days of the other two, whose  *)
(* table the deletion of a year does not count.                            *)
EXTENDS FiscalYears, TLC

Days(a, b) == [from |-> a, to |-> b]
MCPeriod == [y \in Years |->
    CASE y = "last" -> Days(1, 2) [] y = "next" -> Days(4, 5) [] y = "wide" -> Days(3, 6)]
Dated(day, amount) == [day |-> day, amount |-> amount, counted |-> TRUE]
MCDoc == [d \in Docs |->
    CASE d = "bill" -> Dated(2, 3)
      [] d = "payment" -> Dated(2, -1)
      [] d = "sale" -> [Dated(4, 0) EXCEPT !.counted = FALSE]]

HandlerSymmetry == Permutations(Handlers)
=============================================================================
