----------------------------- MODULE SalesAudit ------------------------------
(***************************************************************************)
(* What the sales tables must say together: stock, movement ledger and     *)
(* serial register, each worked out from the documents.  The comment of    *)
(* post_salesInvoiceCancel has it that "stock, serial_log, the ledger and  *)
(* the invoice can never disagree".                                        *)
(***************************************************************************)
EXTENDS Sales

LiveInvoices(b) == {i \in Invoices : Sale[i].branch = b /\ invoice[i].status = "POSTED"}
LiveReturns(b) == {r \in Returns : Credit[r].branch = b /\ ret[r] = "POSTED"}
Sold(b, p) ==
    SumFunctionOnSet([i \in Invoices |-> Sale[i].units[p]], LiveInvoices(b))
CameBack(p, returns) ==
    SumFunctionOnSet([r \in Returns |-> Credit[r].units[p]], returns)

(* Stock is the opening stock less what live invoices sold and with what   *)
(* posted restockable returns brought back: no void, return, approval,     *)
(* cancellation or retry of one moves goods twice or not at all.  The      *)
(* movement ledger nets to the live documents too, as long as no return    *)
(* has been cancelled, which logs no movement.                             *)
StockMatchesDocuments ==
    \A b \in Branches, p \in Products :
        /\ stock[b][p] = InitStock[b][p] - Sold(b, p)
             + CameBack(p, {r \in LiveReturns(b) : Credit[r].restockable})
        /\ (\A r \in Returns : ret[r] # "CANCELLED") =>
              ledger[b][p] = CameBack(p, LiveReturns(b)) - Sold(b, p)

(* The invoices whose customer has the unit: sold and not brought back.    *)
Holders(s) == {i \in Invoices :
    /\ invoice[i].status = "POSTED" /\ s \in Sale[i].serials
    /\ \A r \in PostedReturns(i) : s \notin Credit[r].serials}

(* The register has a unit in stock exactly when no live invoice holds it, *)
(* and one customer has it at a time ("a serial can never be sold twice"): *)
(* every void releases, and every return frees, the serials it should.     *)
RegisterMatchesInvoices ==
    \A s \in Serials :
        /\ serial[s].status = "IN_STOCK" <=> Holders(s) = {}
        /\ Cardinality(Holders(s)) <= 1
=============================================================================
