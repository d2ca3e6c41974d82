----------------------------- MODULE StockAudit -----------------------------
(***************************************************************************)
(* What the tables of StockOperations must say of each other: stock        *)
(* against the operations' statuses, the movement ledger and the damage    *)
(* register; and the atomic book the engine implements.                    *)
(***************************************************************************)
EXTENDS StockOperations, Functions

Book == INSTANCE StockBook

Live(o) == status[o] \notin {"NONE", "CANCELLED"}

(* Units the operations now in force took from a row, moved into its       *)
(* damaged pool, took from that pool, and delivered to it; what the ledger *)
(* and the live part of the damage register show for it.                   *)
Taken(r) == [o \in Ops |-> IF Live(o) THEN Book!Usable(o, r) ELSE 0]
Damaged(r) == [o \in Ops |-> IF Live(o) THEN Book!ToPool(o, r) ELSE 0]
Released(r) == [o \in Ops |-> IF Live(o) THEN Book!FromPool(o, r) ELSE 0]
Delivered(r) == [o \in Ops |-> IF status[o] = "RECEIVED" THEN Book!Arriving(o, r) ELSE 0]
Logged(r) == [x \in ledger |-> IF x.row = r THEN x.qty ELSE 0]
Registered(r) == [d \in register |-> IF d.live /\ d.row = r THEN d.qty ELSE 0]

(* Usable stock is what the operations in force, by their statuses, took   *)
(* and delivered, and the damaged pool is what the damage operations in    *)
(* force put there less what pull-outs took: status and stock change       *)
(* together or not at all, and a reversal gives back its units once.  The  *)
(* movement ledger tells every change of usable stock but the receipts of  *)
(* pull-outs.                                                              *)
StockMatchesOperations ==
    \A r \in Rows :
        /\ stock[r].qoh = InitStock[r].qoh - SumFunction(Taken(r))
                                           + SumFunction(Delivered(r))
        /\ stock[r].damaged = InitStock[r].damaged + SumFunction(Damaged(r))
                                                   - SumFunction(Released(r))
        /\ stock[r].qoh = InitStock[r].qoh + SumFunction(Logged(r))
                                           + SumFunction(Delivered(r))

(* The live rows of the damage register add up to the units the damage     *)
(* operations in force wrote to inventory_stock ("so the damage register   *)
(* always faithfully reflects what was actually written"), and the serials *)
(* of these operations are quarantined under their names, so that their    *)
(* reversals find them.                                                    *)
Quarantined(o) ==
    \A i \in LineIdx(o) : Lines(o)[i].serial # NoSerial =>
        serial[Lines(o)[i].serial] = [status |-> "DAMAGED", source |-> o]
RegisterReflectsStock ==
    /\ \A r \in Rows : SumFunction(Registered(r)) = SumFunction(Damaged(r))
    /\ \A o \in Ops : Req[o].type = "DAMAGE" /\ Live(o) => Quarantined(o)

(* Each request appears to change the book at one instant, its commit.     *)
ImplementsBook == Book!Spec
=============================================================================
