---------------------------- MODULE TransferAudit ----------------------------
(* The books of Shipments: what the branches' stock must be, given the     *)
(* shipments table, and the atomic book the transfer handlers implement.   *)
EXTENDS Shipments

Book == INSTANCE TransferBook

(* What every branch has on hand is what it began with, less what the      *)
(* shipments in force took from it, plus what they delivered; and what is  *)
(* announced to it is what the shipments table shows on its way there and  *)
(* the open rest of short receipts.  Dispatch, receive, cancel and         *)
(* cancel-receive settle both exactly, and the GREATEST(0, ...) of the     *)
(* updates never hides a difference.                                       *)
StockMatchesShipments ==
    \A b \in Branches :
        /\ stock[b].qoh = Book!OnHand(b)
        /\ stock[b].incoming = Book!Announced(b)

(* Each request appears to move its shipment and the stock at one instant. *)
ImplementsBook == Book!Spec
=============================================================================
