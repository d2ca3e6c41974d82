--------------------------- MODULE ProcurementAudit ---------------------------
(***************************************************************************)
(* What the procurement tables must say together: stock, incoming          *)
(* quantities and serial register, each worked out from the documents.     *)
(***************************************************************************)
EXTENDS Procurement

LiveBills(b) == {i \in Bills : Bill[i].branch = b /\ bill[i] = "POSTED"}
LiveReturns(b) == {r \in Returns : Credit[r].branch = b /\ ret[r].status = "POSTED"}
Bought(b, p) == SumFunctionOnSet([i \in Bills |-> Bill[i].units[p]], LiveBills(b))
SentBack(b, p) == SumFunctionOnSet([r \in Returns |-> Credit[r].units[p]], LiveReturns(b))

Planned(b, p) == SumFunctionOnSet([o \in Orders |-> Share(order[o], b, p)], Orders)

(* Stock is the opening stock with what the live bills brought and less    *)
(* what posted returns took out, and the incoming quantity of a product at *)
(* a branch is what the orders in the table have of it there, unless an    *)
(* edit moved lines of it (an edit announces nothing): a posting, a        *)
(* deletion, an approval or a cancellation moves or releases goods exactly *)
(* once, whatever else is going on.  (A receipt releases nothing.)         *)
StockMatchesBills ==
    \A b \in Branches, p \in Products :
        /\ stock[b][p] = InitStock[b][p] + Bought(b, p) - SentBack(b, p)
        /\ <<b, p>> \notin skewed => incoming[b][p] = Planned(b, p)

(* The register has a unit at the vendor exactly when a posted return sent *)
(* it there: whoever cancels a return frees its serials.                   *)
RegisterMatchesReturns ==
    \A s \in Serials : serial[s] = "RETURNED_TO_VENDOR" <=>
        \E r \in Returns : s \in Credit[r].serials /\ ret[r].status = "POSTED"
=============================================================================
