------------------------------ MODULE StockBook ------------------------------
(***************************************************************************)
(* What the stock-operations engine promises its users, with no requests,  *)
(* locks or transactions: a book of stock rows and operations in which an  *)
(* operation is posted whole or not at all, only when stock covers it, and *)
(* undone or received whole and once.                                      *)
(***************************************************************************)
EXTENDS Integers, Functions

CONSTANTS Branches, Products, Ops, Req, InitStock
VARIABLES stock, status

Rows == Branches \X Products

(* Units that each line of an operation takes from usable stock and from   *)
(* the damaged pool of a row, and that it brings to a row.                 *)
OfDamaged(o, l) == Req[o].type = "PULLOUT" /\ l.damagedStock
UsableLines(o, r) == [i \in DOMAIN Req[o].lines |->
    LET l == Req[o].lines[i]
    IN  IF <<Req[o].branch, l.product>> = r /\ ~OfDamaged(o, l) THEN l.qty ELSE 0]
DamagedLines(o, r) == [i \in DOMAIN Req[o].lines |->
    LET l == Req[o].lines[i]
    IN  IF <<Req[o].branch, l.product>> = r /\ OfDamaged(o, l) THEN l.qty ELSE 0]
ArrivingLines(o, r) == [i \in DOMAIN Req[o].lines |->
    LET l == Req[o].lines[i]
    IN  IF <<Req[o].dest, l.product>> = r THEN l.qty ELSE 0]

Usable(o, r) == SumFunction(UsableLines(o, r))
FromPool(o, r) == SumFunction(DamagedLines(o, r))
ToPool(o, r) == IF Req[o].type = "DAMAGE" THEN Usable(o, r) ELSE 0
Arriving(o, r) == SumFunction(ArrivingLines(o, r))

(* Move usable and damaged quantities of every row by the given amounts;   *)
(* no row may end below zero.                                              *)
Move(usable, damaged) ==
    /\ stock' = [r \in Rows |-> [qoh |-> stock[r].qoh + usable[r],
                                 damaged |-> stock[r].damaged + damaged[r]]]
    /\ \A r \in Rows : stock'[r].qoh >= 0 /\ stock'[r].damaged >= 0

Post(o) ==
    /\ status[o] = "NONE"
    /\ Move([r \in Rows |-> -Usable(o, r)],
            [r \in Rows |-> ToPool(o, r) - FromPool(o, r)])
    /\ status' = [status EXCEPT ![o] =
            IF Req[o].type = "PULLOUT" THEN "DISPATCHED" ELSE "LOGGED"]

Undo(o) ==
    /\ status[o] = "LOGGED"
    /\ Req[o].type \in {"DAMAGE", "CONSUMABLE_ISSUE"}
    /\ Move([r \in Rows |-> Usable(o, r)], [r \in Rows |-> -ToPool(o, r)])
    /\ status' = [status EXCEPT ![o] = "CANCELLED"]

Receive(o) ==
    /\ status[o] = "DISPATCHED"
    /\ Move([r \in Rows |-> Arriving(o, r)], [r \in Rows |-> 0])
    /\ status' = [status EXCEPT ![o] = "RECEIVED"]

Init == stock = InitStock /\ status = [o \in Ops |-> "NONE"]
Next == \E o \in Ops : Post(o) \/ Undo(o) \/ Receive(o)
Spec == Init /\ [][Next]_<<stock, status>>
=============================================================================
