----------------------------- MODULE Procurement ------------------------------
(***************************************************************************)
(* Purchase orders, purchase invoices (bills) and purchase returns         *)
(* (server/src/controllers/procurement.controller.ts,                      *)
(* models/procurement.repo.ts): what they do to stock, to the incoming     *)
(* quantities, to the movement ledger and to the devices a bill brought.   *)
(*                                                                         *)
(* A handler first reads without locks (the mirror, or the table when the  *)
(* mirror does not have the document), then runs one transaction; the body *)
(* of a transaction is one step, except that the deletion of a bill reads  *)
(* the devices without locking them before it deletes anything.            *)
(*                                                                         *)
(* The mirror may list any bill a request has put there, whether or not    *)
(* its transaction committed: a bill is put in the mirror first.  Of the   *)
(* other documents the tables are read where the code reads a mirror: it   *)
(* is taken to have been refreshed after the last answer, unless a mishap  *)
(* says otherwise.                                                         *)
(***************************************************************************)
EXTENDS Integers, FiniteSets, Functions

CONSTANTS
    Branches, Products, Serials,
    Orders, Bills, Returns,
    Handlers,       \* one per HTTP request open at a time
    Order,          \* per order [branch, units, amended]: its branch and lines
                    \* when it is posted, and the lines an edit (PUT) writes
    Bill,           \* per bill [order, branch, units, serials]
    Credit,         \* per return [bill, branch, units, serials, draft]; draft:
                    \* its total is above the approval threshold
    InitStock,
    MaxIncoming,    \* an order is posted while its branch expects at most so
                    \* many units of each product (a bound for TLC)
    Requests,       \* the kinds of request clients send
    Mishaps,        \* "REPEAT"  a document posted or dropped by two requests
                    \* "PHANTOM" a bill deleted, or an order dropped, that the
                    \*           mirror has and the table does not have so:
                    \*           its posting, or an edit of it, had failed
                    \* "CROSS"   an order dropped while a bill is posted on it
                    \* "PARALLEL" two returns of one bill open together
                    \* "ASSIGN"  a device assigned while its bill is deleted
    NoOrder, NoBill, NoDocument

Kinds == {"ORDER", "DROP", "BILL", "DELETE", "RETURN", "APPROVE", "UNRETURN"}
Documents == Orders \cup Bills \cup Returns
Quantities == [Products -> Nat]
OrderStatuses == {"APPROVED", "IN_PROGRESS", "RECEIVED"}

ASSUME ProcurementAssumption ==
    /\ Order \in [Orders -> [branch : Branches, units : Quantities,
                             amended : Quantities]]
    /\ Bill \in [Bills -> [order : Orders \cup {NoOrder}, branch : Branches,
                           units : Quantities, serials : SUBSET Serials]]
    /\ Credit \in [Returns -> [bill : Bills, branch : Branches, units : Quantities,
                               serials : SUBSET Serials, draft : BOOLEAN]]
    /\ InitStock \in [Branches -> Quantities]
    /\ MaxIncoming \in Nat
    /\ Requests \subseteq Kinds
    /\ Mishaps \subseteq {"REPEAT", "PHANTOM", "CROSS", "PARALLEL", "ASSIGN"}
    /\ Orders \cap Bills = {} /\ Orders \cap Returns = {} /\ Bills \cap Returns = {}
    /\ NoOrder \notin Orders /\ NoBill \notin Bills /\ NoDocument \notin Documents
    \* A table has finitely many rows.
    /\ IsFiniteSet(Orders) /\ IsFiniteSet(Bills) /\ IsFiniteSet(Returns)

VARIABLES
    order,      \* purchase_orders: [status, units, branch]
    bill,       \* purchase_invoices: whether the row is there
    mirrored,   \* the bills the mirror may list
    ret,        \* purchase_returns: [status, bill], bill its original_invoice_id
    stock,      \* inventory_stock.quantity_on_hand
    incoming,   \* inventory_stock.incoming_qty
    ledger,     \* transaction_logs, summed per branch and product
    serial,     \* serial_log: status
    device,     \* customer_device_records: status
    pc, kind, target,
    seen,       \* what a handler has read before its transaction, ...
    release,    \* ... and what it will take off the incoming quantities
    (* History, for the properties only. *)
    skewed,     \* the branches and products some edit moved an order's lines
                \* to or from, while their incoming quantity stayed
    unbilled    \* the devices registered when no bill of theirs was there

goods == <<stock, incoming, ledger, serial, device>>
history == <<skewed, unbilled>>
tables == <<order, bill, mirrored, ret, goods, history>>
request == <<kind, target, seen, release>>
vars == <<tables, pc, request>>

(* Definitions named ...Mutant are faulty variants of the definition that  *)
(* follows; nothing here uses them.                                        *)

Active(h) == pc[h] # "idle"
NoOrderRow(o) ==
    [status |-> "NONE", units |-> [p \in Products |-> 0], branch |-> Order[o].branch]
Nothing == [b \in Branches |-> [p \in Products |-> 0]]

Init ==
    /\ order = [o \in Orders |-> NoOrderRow(o)]
    /\ bill = [b \in Bills |-> "NONE"]
    /\ mirrored = {}
    /\ ret = [r \in Returns |-> [status |-> "NONE", bill |-> NoBill]]
    /\ stock = InitStock
    /\ incoming = Nothing
    /\ ledger = Nothing
    /\ serial = [s \in Serials |-> "IN_STOCK"]
    /\ device = [s \in Serials |-> "NONE"]
    /\ pc = [h \in Handlers |-> "idle"]
    /\ kind = [h \in Handlers |-> "NONE"]
    /\ target = [h \in Handlers |-> NoDocument]
    /\ seen = [h \in Handlers |-> "NONE"]
    /\ release = [h \in Handlers |-> Nothing]
    /\ skewed = {}
    /\ unbilled = {}

-----------------------------------------------------------------------------
(* The start of a request.  `Expected' says what clients send.             *)

OpenOn(d) == {g \in Handlers : Active(g) /\ target[g] = d}
Posting(k) == k \in {"RETURN", "APPROVE"}
ReturnsOpen(b) == {g \in Handlers :
    Active(g) /\ Posting(kind[g]) /\ Credit[target[g]].bill = b}

Fresh(k, d) ==
    /\ OpenOn(d) = {}
    /\ k = "ORDER" => order[d].status = "NONE"
    /\ k = "BILL" => d \notin mirrored
Apart(k, d) ==
    /\ k = "BILL" => OpenOn(Bill[d].order) = {}
    /\ k = "DROP" => \A b \in Bills : Bill[b].order = d => OpenOn(b) = {}
Expected(k, d) ==
    /\ k \in Requests
    /\ "REPEAT" \notin Mishaps /\ k \in {"ORDER", "DROP", "BILL", "DELETE"} => Fresh(k, d)
    /\ "PHANTOM" \notin Mishaps /\ k = "DELETE" => bill[d] = "POSTED"
    /\ "CROSS" \notin Mishaps => Apart(k, d)
    /\ "PARALLEL" \notin Mishaps /\ Posting(k) => ReturnsOpen(Credit[d].bill) = {}

Open(h, k, d, st, first) ==
    /\ pc[h] = "idle"
    /\ Expected(k, d)
    /\ pc' = [pc EXCEPT ![h] = first]
    /\ kind' = [kind EXCEPT ![h] = k]
    /\ target' = [target EXCEPT ![h] = d]
    /\ seen' = [seen EXCEPT ![h] = st]
    /\ UNCHANGED tables
Ask(h, k, d, st, first) == Open(h, k, d, st, first) /\ UNCHANGED release

Found(b) == bill[b] = "POSTED" \/ b \in mirrored
StartOrder(h, o) ==
    /\ \A p \in Products : incoming[Order[o].branch][p] <= MaxIncoming
    /\ Ask(h, "ORDER", o, "NONE", "order")
StartBill(h, b) == Ask(h, "BILL", b, "NONE", "lookup")
StartDelete(h, b) == Found(b) /\ Ask(h, "DELETE", b, "NONE", "check")
StartReturn(h, r) == Found(Credit[r].bill) /\ Ask(h, "RETURN", r, "NONE", "weigh")
(* The mirror of returns may lag behind: it may still say DRAFT.           *)
StartApprove(h, r) ==
    /\ Credit[r].draft /\ ret[r].status # "NONE" /\ Found(Credit[r].bill)
    /\ Ask(h, "APPROVE", r, "DRAFT", "weigh")
StartUnreturn(h, r) ==
    \E st \in {"POSTED"} \cup (IF Credit[r].draft THEN {"DRAFT"} ELSE {}) :
        ret[r].status # "NONE" /\ Ask(h, "UNRETURN", r, st, "unreturn")

(* delete_Id: the order and the linked bills as the mirror has them,       *)
(* before the transaction; the lines released are those of this row, at    *)
(* this row's branch.                                                      *)
Share(row, b, p) == IF row.branch = b THEN row.units[p] ELSE 0
InMirror(o) ==
    IF "PHANTOM" \in Mishaps
    THEN [status : OrderStatuses, units : {Order[o].units, Order[o].amended}, branch : Branches]
    ELSE {order[o]}
BilledMutant(o) == order[o].status = "RECEIVED"
Billed(o) == \E b \in Bills : Bill[b].order = o /\ bill[b] = "POSTED"
StartDrop(h, o) ==
    /\ ~Billed(o)
    /\ Open(h, "DROP", o, "NONE", "drop")
    /\ \E row \in InMirror(o) :
          /\ row.status = "APPROVED"
          /\ release' = [release EXCEPT ![h] =
                [b \in Branches |-> [p \in Products |-> Share(row, b, p)]]]

-----------------------------------------------------------------------------
(* The end of a request.                                                   *)

Finish(h) ==
    /\ pc' = [pc EXCEPT ![h] = "idle"]
    /\ kind' = [kind EXCEPT ![h] = "NONE"]
    /\ target' = [target EXCEPT ![h] = NoDocument]
    /\ seen' = [seen EXCEPT ![h] = "NONE"]
    /\ release' = [release EXCEPT ![h] = Nothing]
Proceed(h, p) == pc' = [pc EXCEPT ![h] = p] /\ UNCHANGED <<tables, request>>
(* An error or ROLLBACK: nothing of the transaction is in the tables.      *)
Refuse(h) == Finish(h) /\ UNCHANGED tables

Moved(f, b, units, sign) ==
    [f EXCEPT ![b] = [p \in Products |-> @[p] + sign * units[p]]]
AtLeastZero(n) == IF n < 0 THEN 0 ELSE n
Enough(b, units) == \A p \in Products : stock[b][p] >= units[p]

-----------------------------------------------------------------------------
(* Orders.                                                                 *)

(* The header is inserted or overwritten, all but its branch; its lines    *)
(* are added to the incoming quantities either way.                        *)
PostOrder(h) ==
    LET o == target[h]
    IN  /\ pc[h] = "order"
        /\ order' = [order EXCEPT ![o].status = "APPROVED", ![o].units = Order[o].units]
        /\ incoming' = Moved(incoming, Order[o].branch, Order[o].units, 1)
        /\ Finish(h)
        /\ UNCHANGED <<bill, mirrored, ret, stock, ledger, serial, device, history>>

(* PUT: one statement writes status, lines and branch; incoming stays as   *)
(* it is, at the old branch and at the new one.                            *)
EditOrder(o, st, b) ==
    LET row == [status |-> st, units |-> Order[o].amended, branch |-> b]
    IN  /\ order[o].status # "NONE"
        /\ order' = [order EXCEPT ![o] = row]
        /\ skewed' = skewed \cup {w \in Branches \X Products :
                          Share(row, w[1], w[2]) # Share(order[o], w[1], w[2])}
        /\ UNCHANGED <<bill, mirrored, ret, goods, unbilled, pc, request>>
(* PATCH: one statement, whatever the status was.                          *)
PatchOrder(o, st) ==
    /\ order[o].status # "NONE"
    /\ order' = [order EXCEPT ![o].status = st]
    /\ UNCHANGED <<bill, mirrored, ret, goods, history, pc, request>>

(* The lines released are those the handler read before its transaction;   *)
(* no quantity goes below zero, and the row count of the DELETE is not     *)
(* looked at.                                                              *)
DropOrder(h) ==
    /\ pc[h] = "drop"
    /\ incoming' = [b \in Branches |-> [p \in Products |->
          AtLeastZero(incoming[b][p] - release[h][b][p])]]
    /\ order' = [order EXCEPT ![target[h]] = NoOrderRow(target[h])]
    /\ Finish(h)
    /\ UNCHANGED <<bill, mirrored, ret, stock, ledger, serial, device, history>>

-----------------------------------------------------------------------------
(* Bills.                                                                  *)

(* A bill on an order has exactly the order's lines.                       *)
MatchesOrder(b) ==
    LET o == Bill[b].order
    IN  o # NoOrder => order[o].status # "NONE" /\ order[o].units = Bill[b].units

(* Whether the bill exists, in the mirror or in the table, decides later   *)
(* whether goods are received; the mirror gets the bill at once.           *)
LookUp(h) ==
    LET b == target[h]
    IN  /\ pc[h] = "lookup"
        /\ MatchesOrder(b)
        /\ \E known \in {"OLD", "NEW"} :
              /\ bill[b] = "POSTED" => known = "OLD"
              /\ b \notin mirrored /\ bill[b] = "NONE" => known = "NEW"
              /\ seen' = [seen EXCEPT ![h] = known]
        /\ mirrored' = mirrored \cup {b}
        /\ pc' = [pc EXCEPT ![h] = "receive"]
        /\ UNCHANGED <<order, bill, ret, goods, history, kind, target, release>>
RefuseBill(h) == pc[h] = "lookup" /\ ~MatchesOrder(target[h]) /\ Refuse(h)

SetOrder(b, st) ==
    [o \in Orders |-> IF o = Bill[b].order /\ order[o].status # "NONE"
                      THEN [order[o] EXCEPT !.status = st] ELSE order[o]]

Receive(h) ==
    LET b == target[h]
        moved(f) == IF seen[h] = "NEW"
                    THEN Moved(f, Bill[b].branch, Bill[b].units, 1) ELSE f
    IN  /\ pc[h] = "receive"
        /\ bill' = [bill EXCEPT ![b] = "POSTED"]
        /\ stock' = moved(stock)
        /\ ledger' = moved(ledger)
        /\ order' = SetOrder(b, "RECEIVED")
        /\ Finish(h)
        /\ UNCHANGED <<mirrored, ret, incoming, serial, device, history>>

(* The client registers the devices of a bill one by one after it, and the *)
(* handler asks for no bill: it may be gone again.  Later they are         *)
(* assigned to customers (both are other handlers' work).                  *)
BillsOf(s) == {b \in Bills : s \in Bill[b].serials}
Register(s) ==
    /\ device[s] = "NONE"
    /\ device' = [device EXCEPT ![s] = "IN_STOCK"]
    /\ unbilled' = IF \E b \in BillsOf(s) : bill[b] = "POSTED"
                   THEN unbilled \ {s} ELSE unbilled \cup {s}
    /\ UNCHANGED <<order, bill, mirrored, ret, stock, incoming, ledger, serial, skewed,
                   pc, request>>
Assign(s) ==
    /\ device[s] = "IN_STOCK"
    /\ "ASSIGN" \notin Mishaps => \A b \in BillsOf(s) : \A g \in OpenOn(b) : pc[g] # "delete"
    /\ device' = [device EXCEPT ![s] = "ACTIVE"]
    /\ UNCHANGED <<order, bill, mirrored, ret, stock, incoming, ledger, serial, history,
                   pc, request>>

(* Deleting a bill: none of its devices may be assigned, ...               *)
AssignedMutant(b) == FALSE
Assigned(b) == \E s \in Bill[b].serials : device[s] = "ACTIVE"
CheckDevices(h) == pc[h] = "check" /\ ~Assigned(target[h]) /\ Proceed(h, "delete")
RefuseAssigned(h) == pc[h] = "check" /\ Assigned(target[h]) /\ Refuse(h)

(* ... then the goods are taken out again, line by line under a guard, the *)
(* devices still in stock go, and the row goes, if it is there; the order  *)
(* is open again, and returns of the bill lose their reference (ON DELETE  *)
(* SET NULL).                                                              *)
CanDelete(b) == Enough(Bill[b].branch, Bill[b].units)
DeleteBill(h) ==
    LET b == target[h]
    IN  /\ pc[h] = "delete"
        /\ CanDelete(b)
        /\ stock' = Moved(stock, Bill[b].branch, Bill[b].units, -1)
        /\ device' = [s \in Serials |->
              IF s \in Bill[b].serials /\ device[s] = "IN_STOCK" THEN "NONE" ELSE device[s]]
        /\ bill' = [bill EXCEPT ![b] = "NONE"]
        /\ ret' = [r \in Returns |->
              IF ret[r].bill = b THEN [ret[r] EXCEPT !.bill = NoBill] ELSE ret[r]]
        /\ order' = SetOrder(b, "APPROVED")
        /\ Finish(h)
        /\ UNCHANGED <<mirrored, incoming, ledger, serial, history>>
RefuseDelete(h) == pc[h] = "delete" /\ ~CanDelete(target[h]) /\ Refuse(h)

-----------------------------------------------------------------------------
(* Returns.  A return and the approval of a draft compare their lines with *)
(* what posted returns took out before, outside the transaction.           *)

PostedReturns(b) == {r \in Returns : ret[r].bill = b /\ ret[r].status = "POSTED"}
Returned(b, p) == SumFunctionOnSet([r \in Returns |-> Credit[r].units[p]], PostedReturns(b))
OverReturn(r) ==
    LET b == Credit[r].bill
    IN  \E p \in Products : Credit[r].units[p] > 0 /\
            Returned(b, p) + Credit[r].units[p] > Bill[b].units[p]

AcceptableMutant(k, r) == k = "RETURN" => ret[r].status = "NONE"
Acceptable(k, r) == ~OverReturn(r) /\ (k = "RETURN" => ret[r].status = "NONE")
Weigh(h) == /\ pc[h] = "weigh"
            /\ Acceptable(kind[h], target[h])
            /\ Proceed(h, IF kind[h] = "RETURN" THEN "insert" ELSE "approve")
RefuseReturn(h) == pc[h] = "weigh" /\ ~Acceptable(kind[h], target[h]) /\ Refuse(h)

(* The serials of a return get the status whatever theirs was.             *)
SerialsTo(r, st) == [s \in Serials |-> IF s \in Credit[r].serials THEN st ELSE serial[s]]
CanApply(r) == Enough(Credit[r].branch, Credit[r].units)
ApplyReturn(r) ==
    /\ stock' = Moved(stock, Credit[r].branch, Credit[r].units, -1)
    /\ ledger' = Moved(ledger, Credit[r].branch, Credit[r].units, -1)
    /\ serial' = SerialsTo(r, "RETURNED_TO_VENDOR")

(* The INSERT needs a new id and a bill that is there (foreign key).       *)
CanInsert(r) ==
    /\ ret[r].status = "NONE" /\ bill[Credit[r].bill] = "POSTED"
    /\ ~Credit[r].draft => CanApply(r)
PostReturn(h) ==
    LET r == target[h]
        st == IF Credit[r].draft THEN "DRAFT" ELSE "POSTED"
    IN  /\ pc[h] = "insert"
        /\ CanInsert(r)
        /\ ret' = [ret EXCEPT ![r] = [status |-> st, bill |-> Credit[r].bill]]
        /\ IF st = "DRAFT" THEN UNCHANGED <<stock, ledger, serial>> ELSE ApplyReturn(r)
        /\ Finish(h)
        /\ UNCHANGED <<order, bill, mirrored, incoming, device, history>>
RefuseInsert(h) == pc[h] = "insert" /\ ~CanInsert(target[h]) /\ Refuse(h)

CanApprove(r) == ret[r].status = "DRAFT" /\ CanApply(r)
ApproveReturn(h) ==
    LET r == target[h]
    IN  /\ pc[h] = "approve"
        /\ CanApprove(r)
        /\ ret' = [ret EXCEPT ![r].status = "POSTED"]
        /\ ApplyReturn(r)
        /\ Finish(h)
        /\ UNCHANGED <<order, bill, mirrored, incoming, device, history>>
RefuseApprove(h) == pc[h] = "approve" /\ ~CanApprove(target[h]) /\ Refuse(h)

(* Cancelling: only from the status the handler has read.  The goods come  *)
(* back and their serials are in stock; nothing is logged.                 *)
StillMutant(h) == ret[target[h]].status # "CANCELLED"
Still(h) == ret[target[h]].status = seen[h]
CancelReturnMutant(h) ==
    LET r == target[h]
    IN  /\ pc[h] = "unreturn"
        /\ Still(h)
        /\ ret' = [ret EXCEPT ![r].status = "CANCELLED"]
        /\ IF seen[h] = "POSTED"
           THEN stock' = Moved(stock, Credit[r].branch, Credit[r].units, 1)
           ELSE UNCHANGED stock
        /\ Finish(h)
        /\ UNCHANGED <<order, bill, mirrored, incoming, ledger, device, serial, history>>
CancelReturn(h) ==
    LET r == target[h]
    IN  /\ pc[h] = "unreturn"
        /\ Still(h)
        /\ ret' = [ret EXCEPT ![r].status = "CANCELLED"]
        /\ IF seen[h] = "POSTED"
           THEN /\ stock' = Moved(stock, Credit[r].branch, Credit[r].units, 1)
                /\ serial' = SerialsTo(r, "IN_STOCK")
           ELSE UNCHANGED <<stock, serial>>
        /\ Finish(h)
        /\ UNCHANGED <<order, bill, mirrored, incoming, ledger, device, history>>
RefuseCancel(h) == pc[h] = "unreturn" /\ ~Still(h) /\ Refuse(h)

(* A missing BS date, a lost connection, a deadlock the database breaks.   *)
Fail(h) == Active(h) /\ Refuse(h)

-----------------------------------------------------------------------------
Start(h) ==
    \/ \E o \in Orders : StartOrder(h, o) \/ StartDrop(h, o)
    \/ \E b \in Bills : StartBill(h, b) \/ StartDelete(h, b)
    \/ \E r \in Returns : StartReturn(h, r) \/ StartApprove(h, r) \/ StartUnreturn(h, r)
Step(h) ==
    \/ PostOrder(h) \/ DropOrder(h)
    \/ LookUp(h) \/ RefuseBill(h) \/ Receive(h)
    \/ CheckDevices(h) \/ RefuseAssigned(h) \/ DeleteBill(h) \/ RefuseDelete(h)
    \/ Weigh(h) \/ RefuseReturn(h) \/ PostReturn(h) \/ RefuseInsert(h)
    \/ ApproveReturn(h) \/ RefuseApprove(h) \/ CancelReturn(h) \/ RefuseCancel(h)
Aside ==
    \/ \E o \in Orders, st \in OrderStatuses, b \in Branches : EditOrder(o, st, b)
    \/ \E o \in Orders, st \in OrderStatuses : PatchOrder(o, st)
    \/ \E s \in Serials : Register(s) \/ Assign(s)
Next == (\E h \in Handlers : Start(h) \/ Step(h) \/ Fail(h)) \/ Aside

Spec == Init /\ [][Next]_vars

-----------------------------------------------------------------------------
(* Properties.                                                             *)

PCs == {"idle", "order", "drop", "lookup", "receive", "check", "delete", "weigh",
        "insert", "approve", "unreturn"}
ReturnStatuses == {"NONE", "DRAFT", "POSTED", "CANCELLED"}

(* The types of the tables and of the handlers' states.                    *)
TypeOK ==
    /\ order \in [Orders -> [status : OrderStatuses \cup {"NONE"}, units : Quantities,
                             branch : Branches]]
    /\ bill \in [Bills -> {"NONE", "POSTED"}]
    /\ mirrored \subseteq Bills
    /\ ret \in [Returns -> [status : ReturnStatuses, bill : Bills \cup {NoBill}]]
    /\ stock \in [Branches -> [Products -> Int]]
    /\ incoming \in [Branches -> Quantities]
    /\ ledger \in [Branches -> [Products -> Int]]
    /\ serial \in [Serials -> {"IN_STOCK", "RETURNED_TO_VENDOR"}]
    /\ device \in [Serials -> {"NONE", "IN_STOCK", "ACTIVE"}]
    /\ pc \in [Handlers -> PCs]
    /\ kind \in [Handlers -> Kinds \cup {"NONE"}]
    /\ target \in [Handlers -> Documents \cup {NoDocument}]
    /\ seen \in [Handlers -> {"NONE", "OLD", "NEW", "DRAFT", "POSTED"}]
    /\ release \in [Handlers -> [Branches -> Quantities]]
    /\ skewed \subseteq Branches \X Products
    /\ unbilled \subseteq Serials

(* Whatever requests overlap, repeat or fail, a deleted bill and a return  *)
(* take no goods a branch does not have.                                   *)
NoNegativeStock == \A b \in Branches, p \in Products : stock[b][p] >= 0

(* "already-returned quantity": no more goes back to the vendor than the   *)
(* bill brought, drafts approved late included.                            *)
NoOverReturn == \A b \in Bills, p \in Products : Returned(b, p) <= Bill[b].units[p]

(* "Delete the linked Purchase Invoice before deleting this Purchase       *)
(* Order": a bill's order is there as long as the bill is.                 *)
BillKeepsOrder ==
    \A b \in Bills : bill[b] = "POSTED" /\ Bill[b].order # NoOrder
                        => order[Bill[b].order].status # "NONE"

(* A bill whose devices are with customers is not deleted: an assigned     *)
(* device that was registered while a bill of its own was there still has  *)
(* one, however often bills are deleted and posted again meanwhile.        *)
AssignedKeepsBill ==
    \A s \in Serials : device[s] = "ACTIVE" /\ s \notin unbilled
                        => \E b \in BillsOf(s) : bill[b] = "POSTED"
=============================================================================
