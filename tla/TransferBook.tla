---------------------------- MODULE TransferBook ----------------------------
(***************************************************************************)
(* What the transfer handlers promise, with no requests, mirror, locks or  *)
(* transactions: each shipment goes through its life one whole step at a   *)
(* time, and the branches' stock is what the shipments say it is.          *)
(***************************************************************************)
EXTENDS Integers, Functions

CONSTANTS Branches, Shipments, Route, InitStock
VARIABLES row, stock

Arrived(s) == row[s].status \in {"RECEIVED", "DISCREPANCY"}
Gone(s) == Arrived(s) \/ row[s].status = "IN_TRANSIT"

(* What each shipment took from a branch, what it brought to one, and what *)
(* it has announced there and not brought yet: a short receipt leaves the  *)
(* rest open.                                                              *)
Taken(b) == [s \in Shipments |->
                IF Gone(s) /\ Route[s].from = b THEN Route[s].qty ELSE 0]
Brought(b) == [s \in Shipments |->
                IF Arrived(s) /\ Route[s].to = b THEN row[s].received ELSE 0]
Due(b) == [s \in Shipments |->
                IF Gone(s) /\ Route[s].to = b
                THEN Route[s].qty - (IF Arrived(s) THEN row[s].received ELSE 0)
                ELSE 0]
OnHand(b) == InitStock[b] - SumFunction(Taken(b)) + SumFunction(Brought(b))
Announced(b) == SumFunction(Due(b))

(* A shipment that was never sent, or is underway, or has arrived.         *)
Moves(old, new) ==
    \/ old = "NONE" /\ new = "IN_TRANSIT"
    \/ old = "IN_TRANSIT" /\ new \in {"RECEIVED", "DISCREPANCY", "CANCELLED"}
    \/ old \in {"RECEIVED", "DISCREPANCY"} /\ new = "IN_TRANSIT"

StockFollows == \A b \in Branches :
                    stock[b] = [qoh |-> OnHand(b), incoming |-> Announced(b)]

Init == /\ row = [s \in Shipments |-> [status |-> "NONE", received |-> 0]]
        /\ StockFollows

(* One shipment moves, the stock follows, and no branch is overdrawn.      *)
Next == \E s \in Shipments :
            /\ \E new \in {"IN_TRANSIT", "RECEIVED", "DISCREPANCY", "CANCELLED"},
                  r \in 0..Route[s].qty :
                  /\ Moves(row[s].status, new)
                  /\ new = "RECEIVED" => r = Route[s].qty
                  /\ new = "DISCREPANCY" => r < Route[s].qty
                  /\ row' = [row EXCEPT ![s] = [status |-> new, received |-> r]]
            /\ StockFollows'
            /\ \A b \in Branches : stock'[b].qoh >= 0

Spec == Init /\ [][Next]_<<row, stock>>
=============================================================================
