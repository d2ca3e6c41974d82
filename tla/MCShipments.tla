----------------------------- MODULE MCShipments -----------------------------
(* Instances of TransferAudit for TLC: branches "a" and "b", and shipments *)
(* that compete for the last units of "a" or go on from "b".               *)
EXTENDS TransferAudit, TLC

MCBranches == {"a", "b"}
Sending(f, t, q) == [from |-> f, to |-> t, qty |-> q]
MCRoute == [s \in Shipments |-> CASE s = "out" -> Sending("a", "b", 2)
                                  [] s = "more" -> Sending("a", "b", 1)
                                  [] s = "back" -> Sending("b", "a", 1)]
FullOnly == [s \in Shipments |-> {MCRoute[s].qty}]
MayBeShort == [s \in Shipments |-> {MCRoute[s].qty, MCRoute[s].qty - 1}]
(* "out" and "more" together need more than "a" has; "back" can only send  *)
(* what "out" has brought.                                                 *)
MCStock == [b \in MCBranches |-> IF b = "a" THEN 2 ELSE 0]
(* Something to cancel against at both ends.                               *)
AmpleStock == [b \in MCBranches |-> 3]

HandlerSymmetry == Permutations(Handlers)
=============================================================================
