-------------------------------- MODULE Sales --------------------------------
(***************************************************************************)
(* Sales invoices, sales returns and customer payments                     *)
(* (server/src/controllers/sales.controller.ts, models/sales.repo.ts).     *)
(*                                                                         *)
(* A handler looks its document up, checks it, and runs one transaction.   *)
(* What happens before the transaction is read without locks.  Inside,     *)
(* every row a statement depends on is locked until the end, so the body   *)
(* of a transaction is one step here, except where it holds the lock of    *)
(* the invoice row while others wait: FOR UPDATE in a void, FOR KEY SHARE  *)
(* (the foreign key) in a new return or payment.                           *)
(*                                                                         *)
(* A document has at most one line of each product, so its lines are a     *)
(* function from products to quantities, and amounts are whole numbers.    *)
(***************************************************************************)
EXTENDS Integers, FiniteSets, Functions

CONSTANTS
    Branches, Products, Serials,
    Invoices, Returns, Payments,
    Handlers,       \* one per HTTP request open at a time
    Sale,           \* per invoice [branch, units, serials, total, paid]
    Credit,         \* per return [invoice, branch, units, serials, restockable,
                    \* draft]; draft: its total is above the approval threshold
    Receipt,        \* per payment [invoice, amount]
    HomeBranch,     \* branch of each serial in serial_log
    InitStock,
    Requests,       \* the kinds of request clients send
    Mishaps,        \* "OVERLAP" two requests open on one invoice,
                    \* "LATE"    a return or a payment reaches an invoice that
                    \*           has been voided,
                    \* "RESOLD"  a return is cancelled whose goods are not in
                    \*           stock any more, or whose invoice is then voided
    NoInvoice, NoDocument

Kinds == {"SELL", "VOID", "RETURN", "APPROVE", "UNRETURN", "PAY", "REVERSE"}
Documents == Invoices \cup Returns \cup Payments
Quantities == [Products -> Nat]

ASSUME SalesAssumption ==
    /\ Sale \in [Invoices -> [branch : Branches, units : Quantities,
                              serials : SUBSET Serials, total : Nat, paid : Nat]]
    /\ Credit \in [Returns -> [invoice : Invoices, branch : Branches,
                               units : Quantities, serials : SUBSET Serials,
                               restockable : BOOLEAN, draft : BOOLEAN]]
    /\ Receipt \in [Payments -> [invoice : Invoices, amount : Nat \ {0}]]
    /\ HomeBranch \in [Serials -> Branches]
    /\ InitStock \in [Branches -> Quantities]
    /\ Requests \subseteq Kinds /\ Mishaps \subseteq {"OVERLAP", "LATE", "RESOLD"}
    /\ Invoices \cap Returns = {} /\ Invoices \cap Payments = {}
    /\ Returns \cap Payments = {}
    /\ NoInvoice \notin Invoices /\ NoDocument \notin Documents
    \* A table has finitely many rows.
    /\ IsFiniteSet(Invoices) /\ IsFiniteSet(Returns) /\ IsFiniteSet(Payments)

VARIABLES
    invoice,    \* sales_invoices: [status, paid, payStatus]
    ret,        \* sales_returns: status
    damage,     \* damage_records made by non-restockable returns: status
    payment,    \* customer_payments: status
    stock,      \* inventory_stock
    ledger,     \* transaction_logs, summed per branch and product
    serial,     \* serial_log: [status, source], source the invoice that claimed it
    pc, kind, target,
    seen        \* the status a handler has read in the mirror

tables == <<invoice, ret, damage, payment, stock, ledger, serial>>
request == <<kind, target, seen>>
vars == <<tables, pc, request>>

(* Definitions named ...Mutant are faulty variants of the definition that  *)
(* follows; nothing here uses them.                                        *)

InvoiceOf(k, d) ==
    CASE k \in {"SELL", "VOID"} -> d
      [] k \in {"RETURN", "APPROVE", "UNRETURN"} -> Credit[d].invoice
      [] k \in {"PAY", "REVERSE"} -> Receipt[d].invoice
Active(h) == pc[h] # "idle"
On(h) == InvoiceOf(kind[h], target[h])

(* payment_status as SI_RECORD_PAYMENT_SQL and SI_UNDO_PAYMENT_SQL set it. *)
PayStatus(i, paid) == CASE paid >= Sale[i].total -> "PAID"
                        [] paid > 0 /\ paid < Sale[i].total -> "PARTIAL"
                        [] OTHER -> "UNPAID"
Unposted(i) == [status |-> "NONE", paid |-> 0, payStatus |-> "UNPAID"]

Init ==
    /\ invoice = [i \in Invoices |-> Unposted(i)]
    /\ ret = [r \in Returns |-> "NONE"]
    /\ damage = [r \in Returns |-> "NONE"]
    /\ payment = [p \in Payments |-> "NONE"]
    /\ stock = InitStock
    /\ ledger = [b \in Branches |-> [p \in Products |-> 0]]
    /\ serial = [s \in Serials |-> [status |-> "IN_STOCK", source |-> NoInvoice]]
    /\ pc = [h \in Handlers |-> "idle"]
    /\ kind = [h \in Handlers |-> "NONE"]
    /\ target = [h \in Handlers |-> NoDocument]
    /\ seen = [h \in Handlers |-> "NONE"]

-----------------------------------------------------------------------------
(* The start of a request: what clients send, and what the handler checks  *)
(* before its first await.                                                 *)

Expected(k, d) ==
    LET i == InvoiceOf(k, d)
        open == {g \in Handlers : Active(g) /\ On(g) = i}
    IN  /\ k \in Requests
        /\ "OVERLAP" \in Mishaps \/ open = {}
        /\ "LATE" \in Mishaps \/ (k \in {"RETURN", "PAY"} => invoice[i].status = "POSTED")

Open(h, k, d, st, first) ==
    /\ pc[h] = "idle"
    /\ Expected(k, d)
    /\ pc' = [pc EXCEPT ![h] = first]
    /\ kind' = [kind EXCEPT ![h] = k]
    /\ target' = [target EXCEPT ![h] = d]
    /\ seen' = [seen EXCEPT ![h] = st]
    /\ UNCHANGED tables

(* What the mirror of returns and payments may say: any status the         *)
(* document has had since it was posted.                                   *)
Past(d, st) ==
    IF st \in {"NONE", "DRAFT"} THEN {st} \ {"NONE"}
    ELSE {"POSTED", st} \cup (IF d \in Returns /\ Credit[d].draft THEN {"DRAFT"} ELSE {})

StartSale(h, i) == invoice[i].status = "NONE" /\ Open(h, "SELL", i, "NONE", "sell")
StartVoid(h, i) == invoice[i].status = "POSTED" /\ Open(h, "VOID", i, "POSTED", "lock")
StartReturn(h, r) ==
    invoice[Credit[r].invoice].status # "NONE" /\ Open(h, "RETURN", r, "NONE", "check")
StartApprove(h, r) ==
    "DRAFT" \in Past(r, ret[r]) /\ Open(h, "APPROVE", r, "DRAFT", "check")
StartUnreturn(h, r) ==
    \E st \in Past(r, ret[r]) \ {"CANCELLED"} : Open(h, "UNRETURN", r, st, "unreturn")
(* The server makes up the payment's identity: no two requests share one.  *)
StartPay(h, p) ==
    /\ payment[p] = "NONE" /\ \A g \in Handlers : target[g] # p
    /\ invoice[Receipt[p].invoice].status # "NONE"
    /\ Open(h, "PAY", p, "NONE", "insert")
StartReverse(h, p) ==
    "POSTED" \in Past(p, payment[p]) /\ Open(h, "REVERSE", p, "POSTED", "reverse")

-----------------------------------------------------------------------------
(* The end of a request, and the locks of invoice rows.                    *)

(* The answer; the same handler then takes another request.                *)
Finish(h) ==
    /\ pc' = [pc EXCEPT ![h] = "idle"]
    /\ kind' = [kind EXCEPT ![h] = "NONE"]
    /\ target' = [target EXCEPT ![h] = NoDocument]
    /\ seen' = [seen EXCEPT ![h] = "NONE"]
Proceed(h, p) == pc' = [pc EXCEPT ![h] = p] /\ UNCHANGED <<tables, request>>
(* ROLLBACK and an error: nothing uncommitted is in the tables here.       *)
Refuse(h) == Finish(h) /\ UNCHANGED tables

Voiding(i) == \E g \in Handlers : pc[g] = "void" /\ On(g) = i
Sharing(i) == \E g \in Handlers : pc[g] = "post" /\ On(g) = i
UnlockedMutant(i) == TRUE
Unlocked(i) == ~Voiding(i) /\ ~Sharing(i)

Moved(f, b, units, sign) ==
    [f EXCEPT ![b] = [p \in Products |-> @[p] + sign * units[p]]]

-----------------------------------------------------------------------------
(* Posting an invoice: INSERT, the serials locked and claimed, every line  *)
(* deducted under a guard and logged.  What was paid, and the payment      *)
(* status, are stored as the client sends them: PayStatus is how its form  *)
(* computes the one from the other.                                        *)

Claimable(i) == \A s \in Sale[i].serials :
    serial[s].status = "IN_STOCK" /\ HomeBranch[s] = Sale[i].branch
Enough(b, units) == \A p \in Products : stock[b][p] >= units[p]
CanSell(i) == /\ invoice[i].status = "NONE"
              /\ Claimable(i)
              /\ Enough(Sale[i].branch, Sale[i].units)

Sell(h) ==
    LET i == target[h]
    IN  /\ pc[h] = "sell"
        /\ CanSell(i)
        /\ invoice' = [invoice EXCEPT ![i] = [status |-> "POSTED",
                paid |-> Sale[i].paid, payStatus |-> PayStatus(i, Sale[i].paid)]]
        /\ serial' = [s \in Serials |-> IF s \in Sale[i].serials
                THEN [status |-> "CUSTOMER_ASSIGNED", source |-> i] ELSE serial[s]]
        /\ stock' = Moved(stock, Sale[i].branch, Sale[i].units, -1)
        /\ ledger' = Moved(ledger, Sale[i].branch, Sale[i].units, -1)
        /\ Finish(h)
        /\ UNCHANGED <<ret, damage, payment>>
RefuseSale(h) == pc[h] = "sell" /\ ~CanSell(target[h]) /\ Refuse(h)

-----------------------------------------------------------------------------
(* Voiding an invoice: the row locked FOR UPDATE and its status, payments  *)
(* and returns checked; then everything the sale did is undone.            *)

PostedReturns(i) == {r \in Returns : Credit[r].invoice = i /\ ret[r] = "POSTED"}
BlockedMutant(i) ==
    \/ invoice[i].status # "POSTED"
    \/ invoice[i].paid > 0
    \/ PostedReturns(i) # {}
Blocked(i) ==
    \/ invoice[i].status # "POSTED"
    \/ \E p \in Payments : Receipt[p].invoice = i /\ payment[p] = "POSTED"
    \/ invoice[i].paid > 0
    \/ \E r \in Returns : Credit[r].invoice = i /\ ret[r] \in {"DRAFT", "POSTED"}

Undone(i) == \E r \in Returns :
    /\ Credit[r].invoice = i /\ ret[r] = "CANCELLED"
    /\ \E s \in Credit[r].serials : serial[s].status = "SOLD"

LockInvoice(h) == /\ pc[h] = "lock"
                  /\ Unlocked(target[h])
                  /\ ~Blocked(target[h])
                  /\ "RESOLD" \in Mishaps \/ ~Undone(target[h])
                  /\ Proceed(h, "void")
RefuseVoid(h) == /\ pc[h] = "lock"
                 /\ Unlocked(target[h])
                 /\ Blocked(target[h])
                 /\ Refuse(h)

Claimed(i) == {s \in Serials :
    serial[s].source = i /\ serial[s].status = "CUSTOMER_ASSIGNED"}

VoidMutant(h) ==
    LET i == target[h]
    IN  /\ pc[h] = "void"
        /\ invoice' = [invoice EXCEPT ![i].status = "CANCELLED"]
        /\ stock' = Moved(stock, Sale[i].branch, Sale[i].units, 1)
        /\ ledger' = Moved(ledger, Sale[i].branch, Sale[i].units, 1)
        /\ Finish(h)
        /\ UNCHANGED <<ret, damage, payment, serial>>
Void(h) ==
    LET i == target[h]
    IN  /\ pc[h] = "void"
        /\ invoice' = [invoice EXCEPT ![i].status = "CANCELLED"]
        /\ stock' = Moved(stock, Sale[i].branch, Sale[i].units, 1)
        /\ ledger' = Moved(ledger, Sale[i].branch, Sale[i].units, 1)
        /\ serial' = [s \in Serials |-> IF s \in Claimed(i)
                THEN [serial[s] EXCEPT !.status = "IN_STOCK"] ELSE serial[s]]
        /\ Finish(h)
        /\ UNCHANGED <<ret, damage, payment>>

-----------------------------------------------------------------------------
(* Returns.  A new return and the approval of a draft first compare the    *)
(* quantities with what posted returns have already taken back, outside    *)
(* the transaction.                                                        *)

Returned(i, p) == SumFunctionOnSet([r \in Returns |-> Credit[r].units[p]], PostedReturns(i))
OverReturn(r) ==
    LET i == Credit[r].invoice
    IN  \E p \in Products : Credit[r].units[p] > 0 /\
            Returned(i, p) + Credit[r].units[p] > Sale[i].units[p]

(* A return's (id, number) must be new; an approval looks no further.      *)
Acceptable(k, r) == ~OverReturn(r) /\ (k = "RETURN" => ret[r] = "NONE")

Check(h) == /\ pc[h] = "check"
            /\ Acceptable(kind[h], target[h])
            /\ Proceed(h, IF kind[h] = "RETURN" THEN "insert" ELSE "approve")
RefuseReturn(h) ==
    pc[h] = "check" /\ ~Acceptable(kind[h], target[h]) /\ Refuse(h)

(* The INSERT of a return or a payment checks the foreign key: it waits    *)
(* for a void that holds the invoice, and then goes on, which is the       *)
(* mishap LATE.  A return inserted twice waits for the first and then      *)
(* violates the primary key.                                               *)
Insert(h) ==
    /\ pc[h] = "insert"
    /\ ~Voiding(On(h))
    /\ "LATE" \in Mishaps \/ invoice[On(h)].status = "POSTED"
    /\ ~\E g \in Handlers : pc[g] = "post" /\ target[g] = target[h]
    /\ kind[h] = "RETURN" => ret[target[h]] = "NONE"
    /\ Proceed(h, "post")
RefuseInsert(h) ==
    /\ pc[h] = "insert"
    /\ kind[h] = "RETURN" /\ ret[target[h]] # "NONE"
    /\ Refuse(h)

SerialsTo(r, st) ==
    [s \in Serials |-> IF s \in Credit[r].serials
                       THEN [serial[s] EXCEPT !.status = st] ELSE serial[s]]

(* applySalesReturnEffects: the goods go back to stock or, when not        *)
(* restockable, into the damage register; either way the movement is       *)
(* logged and the serials are in stock again.                              *)
ApplyReturn(r) ==
    /\ IF Credit[r].restockable
       THEN /\ stock' = Moved(stock, Credit[r].branch, Credit[r].units, 1)
            /\ UNCHANGED damage
       ELSE /\ damage' = [damage EXCEPT ![r] = "IDENTIFIED"]
            /\ UNCHANGED stock
    /\ ledger' = Moved(ledger, Credit[r].branch, Credit[r].units, 1)
    /\ serial' = SerialsTo(r, "IN_STOCK")

(* Above the approval threshold the return is held as a draft.             *)
PostReturn(h) ==
    LET r == target[h]
    IN  /\ pc[h] = "post" /\ kind[h] = "RETURN"
        /\ ret' = [ret EXCEPT ![r] = IF Credit[r].draft THEN "DRAFT" ELSE "POSTED"]
        /\ IF Credit[r].draft
           THEN UNCHANGED <<damage, stock, ledger, serial>>
           ELSE ApplyReturn(r)
        /\ Finish(h)
        /\ UNCHANGED <<invoice, payment>>

DraftMutant(r) == ret[r] # "CANCELLED"
Draft(r) == ret[r] = "DRAFT"
Approve(h) ==
    LET r == target[h]
    IN  /\ pc[h] = "approve"
        /\ Draft(r)
        /\ ret' = [ret EXCEPT ![r] = "POSTED"]
        /\ ApplyReturn(r)
        /\ Finish(h)
        /\ UNCHANGED <<invoice, payment>>
RefuseApprove(h) == pc[h] = "approve" /\ ~Draft(target[h]) /\ Refuse(h)

(* Cancelling a return: guarded on the status the handler has read.  The   *)
(* goods are deducted again where enough of them are left; nobody looks    *)
(* whether they were.  No movement is logged.                              *)
StillHere(r) ==
    /\ Credit[r].restockable => Enough(Credit[r].branch, Credit[r].units)
    /\ \A s \in Credit[r].serials : serial[s].status = "IN_STOCK"
Unreturn(h) ==
    LET r == target[h]
        c == Credit[r]
        posted == seen[h] = "POSTED"
    IN  /\ pc[h] = "unreturn"
        /\ ret[r] = seen[h]
        /\ "RESOLD" \in Mishaps \/ (posted => StillHere(r))
        /\ ret' = [ret EXCEPT ![r] = "CANCELLED"]
        /\ stock' = IF posted /\ c.restockable
              THEN [stock EXCEPT ![c.branch] = [p \in Products |->
                        IF @[p] >= c.units[p] THEN @[p] - c.units[p] ELSE @[p]]]
              ELSE stock
        /\ damage' = IF posted /\ damage[r] = "IDENTIFIED"
              THEN [damage EXCEPT ![r] = "CANCELLED"] ELSE damage
        /\ serial' = IF posted THEN SerialsTo(r, "SOLD") ELSE serial
        /\ Finish(h)
        /\ UNCHANGED <<invoice, payment, ledger>>
RefuseUnreturn(h) ==
    pc[h] = "unreturn" /\ ret[target[h]] # seen[h] /\ Refuse(h)

-----------------------------------------------------------------------------
(* Payments: the row and the invoice's balance in one transaction.         *)

PostPayment(h) ==
    LET p == target[h]
        i == Receipt[p].invoice
        paid == invoice[i].paid + Receipt[p].amount
    IN  /\ pc[h] = "post" /\ kind[h] = "PAY"
        /\ payment' = [payment EXCEPT ![p] = "POSTED"]
        /\ invoice' = [invoice EXCEPT ![i].paid = paid,
                                      ![i].payStatus = PayStatus(i, paid)]
        /\ Finish(h)
        /\ UNCHANGED <<ret, damage, stock, ledger, serial>>

(* A reversal: the payment locked and its status read again; GREATEST      *)
(* keeps the balance from going below zero.                                *)
StillPostedMutant(p) == payment[p] # "NONE"
StillPosted(p) == payment[p] = "POSTED"
AtLeastZero(n) == IF n < 0 THEN 0 ELSE n

Reverse(h) ==
    LET p == target[h]
        i == Receipt[p].invoice
        left == invoice[i].paid - Receipt[p].amount
    IN  /\ pc[h] = "reverse"
        /\ StillPosted(p)
        /\ ~Voiding(i)
        /\ payment' = [payment EXCEPT ![p] = "REVERSED"]
        /\ invoice' = [invoice EXCEPT ![i].paid = AtLeastZero(left),
                                      ![i].payStatus = PayStatus(i, left)]
        /\ Finish(h)
        /\ UNCHANGED <<ret, damage, stock, ledger, serial>>
RefuseReverse(h) == pc[h] = "reverse" /\ ~StillPosted(target[h]) /\ Refuse(h)

(* A missing BS date, a lost connection, a transaction the database ends   *)
(* to break a deadlock.                                                    *)
Fail(h) == Active(h) /\ Refuse(h)

-----------------------------------------------------------------------------
Start(h) ==
    \/ \E i \in Invoices : StartSale(h, i) \/ StartVoid(h, i)
    \/ \E r \in Returns : StartReturn(h, r) \/ StartApprove(h, r) \/ StartUnreturn(h, r)
    \/ \E p \in Payments : StartPay(h, p) \/ StartReverse(h, p)
Step(h) ==
    \/ Sell(h) \/ RefuseSale(h)
    \/ LockInvoice(h) \/ RefuseVoid(h) \/ Void(h)
    \/ Check(h) \/ RefuseReturn(h) \/ Insert(h) \/ RefuseInsert(h) \/ PostReturn(h)
    \/ Approve(h) \/ RefuseApprove(h) \/ Unreturn(h) \/ RefuseUnreturn(h)
    \/ PostPayment(h) \/ Reverse(h) \/ RefuseReverse(h)
Next == \E h \in Handlers : Start(h) \/ Step(h) \/ Fail(h)

Spec == Init /\ [][Next]_vars

-----------------------------------------------------------------------------
(* Properties.                                                             *)

PCs == {"idle", "sell", "lock", "void", "check", "insert", "post", "approve",
        "unreturn", "reverse"}
ReturnStatuses == {"NONE", "DRAFT", "POSTED", "CANCELLED"}

(* The types of the tables and of the handlers' states.                    *)
TypeOK ==
    /\ invoice \in [Invoices -> [status : {"NONE", "POSTED", "CANCELLED"},
                                 paid : Nat, payStatus : {"UNPAID", "PARTIAL", "PAID"}]]
    /\ ret \in [Returns -> ReturnStatuses]
    /\ damage \in [Returns -> {"NONE", "IDENTIFIED", "CANCELLED"}]
    /\ payment \in [Payments -> {"NONE", "POSTED", "REVERSED"}]
    /\ stock \in [Branches -> [Products -> Int]]
    /\ ledger \in [Branches -> [Products -> Int]]
    /\ serial \in [Serials -> [status : {"IN_STOCK", "CUSTOMER_ASSIGNED", "SOLD"},
                               source : Invoices \cup {NoInvoice}]]
    /\ pc \in [Handlers -> PCs]
    /\ kind \in [Handlers -> Kinds \cup {"NONE"}]
    /\ target \in [Handlers -> Documents \cup {NoDocument}]
    /\ seen \in [Handlers -> ReturnStatuses]

(* Nothing is sold, or taken back from stock, that a branch does not have, *)
(* whatever requests overlap ("no negative stock").                        *)
NoNegativeStock == \A b \in Branches, p \in Products : stock[b][p] >= 0

(* An invoice's amount_paid is what was paid when it was posted and its    *)
(* posted payments, and its payment_status says the same: payments and     *)
(* their reversals neither get lost nor count twice when they overlap,     *)
(* with each other or with a void.                                         *)
PaidMatchesPayments ==
    \A i \in Invoices : invoice[i].status # "NONE" =>
        /\ invoice[i].paid = Sale[i].paid +
              SumFunctionOnSet([p \in Payments |-> Receipt[p].amount],
                  {p \in Payments : Receipt[p].invoice = i /\ payment[p] = "POSTED"})
        /\ invoice[i].payStatus = PayStatus(i, invoice[i].paid)

Settled(i) ==
    /\ \A p \in Payments : Receipt[p].invoice = i => payment[p] # "POSTED"
    /\ \A r \in Returns : Credit[r].invoice = i => ret[r] \notin {"DRAFT", "POSTED"}

(* The step that cancels an invoice finds no posted payment and no live    *)
(* return of it, though it checked some time before: the lock of the       *)
(* invoice row keeps both away in between.                                 *)
VoidsUnencumbered ==
    [][\A i \in Invoices :
          invoice[i].status = "POSTED" /\ invoice'[i].status = "CANCELLED"
              => Settled(i) /\ Settled(i)']_vars

(* A cancelled invoice stays without payments and returns.  A payment or   *)
(* return that waits for the void's lock is posted when it gets the lock,  *)
(* so this is not what the code does.                                      *)
CancelledStaysSettled == \A i \in Invoices : invoice[i].status = "CANCELLED" => Settled(i)

=============================================================================
