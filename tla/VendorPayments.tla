---------------------------- MODULE VendorPayments ----------------------------
(***************************************************************************)
(* The balance of purchase invoices (bills) and the vendor payments behind *)
(* it (server/src/controllers/procurement.controller.ts).  The client pays *)
(* in two requests (handleRecordPayment in client/src/App.tsx): the first  *)
(* adds the amount to the bill's balance, the second writes the payment's  *)
(* row, under a number of DocNumbers; that it fails is only logged.  A     *)
(* reversal undoes both, and all payments of a bill can be reversed        *)
(* together.  Amounts are whole numbers.                                   *)
(***************************************************************************)
EXTENDS DocNumbers, Integers, FiniteSets, Functions

CONSTANTS
    Bills, Payments,
    Handlers,       \* a client's payment or reversal that is going on
    Total,          \* per bill: grand_total
    Payment,        \* per payment [bill, amount, sequence]
    Mishaps,        \* "WIPE"   all payments of a bill are reversed while one is
                    \*          being made
                    \* "BEHIND" they are reversed while the mirror lacks one: the
                    \*          refresh after it was made failed or goes on
                    \* "REPOST" a bill is posted a second time
    NoBill, NoDocument, NoNumber

ASSUME PaymentsAssumption ==
    /\ Total \in [Bills -> Nat \ {0}]
    /\ Payment \in [Payments -> [bill : Bills, amount : Nat \ {0}, sequence : Sequences]]
    /\ Mishaps \subseteq {"WIPE", "BEHIND", "REPOST"}
    /\ Bills \cap Payments = {} /\ NoBill \notin Bills
    /\ NoDocument \notin Bills \cup Payments /\ NoNumber \notin Numbers
    /\ IsFiniteSet(Payments)       \* a table has finitely many rows

VARIABLES
    bill,       \* purchase_invoices: [status, paid, payStatus]
    payment,    \* vendor_payments: [status, bill, number]; UNRECORDED stands for
                \* a paid amount whose row could not be written
    pc, kind, target,
    number,     \* the number a handler was issued
    listed      \* the payments a handler has found in the mirror

rows == <<bill, payment>>
request == <<kind, target, number, listed>>
vars == <<numbers, rows, pc, request>>

(* Definitions named ...Mutant are faulty variants of the definition that  *)
(* follows; nothing here uses them.                                        *)

Active(h) == pc[h] # "idle"
BillOf(k, d) == IF k = "REVERSE_ALL" THEN d ELSE Payment[d].bill
Unpaid(st) == [status |-> st, paid |-> 0, payStatus |-> "UNPAID"]

Init ==
    /\ NumbersInit
    /\ bill = [b \in Bills |-> Unpaid("NONE")]
    /\ payment = [p \in Payments |-> [status |-> "NONE", bill |-> NoBill, number |-> NoNumber]]
    /\ pc = [h \in Handlers |-> "idle"]
    /\ kind = [h \in Handlers |-> "NONE"]
    /\ target = [h \in Handlers |-> NoDocument]
    /\ number = [h \in Handlers |-> NoNumber]
    /\ listed = [h \in Handlers |-> {}]

-----------------------------------------------------------------------------
(* The client posts a bill with nothing paid, and posting it again would   *)
(* overwrite its balance; it can be deleted whatever was paid on it, and   *)
(* its payments lose their reference (ON DELETE SET NULL).                 *)
PostBill(b) ==
    /\ bill[b].status # "DELETED"
    /\ "REPOST" \notin Mishaps => bill[b].status = "NONE"
    /\ bill' = [bill EXCEPT ![b] = Unpaid("POSTED")]
    /\ UNCHANGED <<numbers, payment, pc, request>>
DeleteBill(b) ==
    /\ bill[b].status = "POSTED"
    /\ bill' = [bill EXCEPT ![b] = Unpaid("DELETED")]
    /\ payment' = [p \in Payments |->
          IF payment[p].bill = b THEN [payment[p] EXCEPT !.bill = NoBill] ELSE payment[p]]
    /\ UNCHANGED <<numbers, pc, request>>

-----------------------------------------------------------------------------
Crossing(k, other) == (k = "REVERSE_ALL" /\ other = "PAY") \/ (k = "PAY" /\ other = "REVERSE_ALL")
Expected(k, d) == "WIPE" \notin Mishaps => \A g \in Handlers :
    Active(g) /\ BillOf(kind[g], target[g]) = BillOf(k, d) => ~Crossing(k, kind[g])

Open(h, k, d, found, first) ==
    /\ pc[h] = "idle"
    /\ Expected(k, d)
    /\ pc' = [pc EXCEPT ![h] = first]
    /\ kind' = [kind EXCEPT ![h] = k]
    /\ target' = [target EXCEPT ![h] = d]
    /\ listed' = [listed EXCEPT ![h] = found]
    /\ UNCHANGED <<numbers, rows, number>>

(* The server makes up the payment's identity: no two requests share one.  *)
StartPay(h, p) ==
    /\ payment[p].status = "NONE" /\ \A g \in Handlers : target[g] # p
    /\ bill[Payment[p].bill].status = "POSTED"
    /\ Open(h, "PAY", p, {}, "pay")
(* The mirror may be behind: the payment may have been reversed since.     *)
StartReverse(h, p) ==
    payment[p].status \in {"POSTED", "REVERSED"} /\ Open(h, "REVERSE", p, {}, "reverse")
PostedOn(b) == {p \in Payments : payment[p].bill = b /\ payment[p].status = "POSTED"}
(* The bill, its balance and its payments are looked up in the mirror: the *)
(* balance may be an older one, so that it is full there says nothing of   *)
(* the table, and a payment it has as posted may have been reversed.       *)
MayList(b) == {p \in Payments :
    Payment[p].bill = b /\ payment[p].status \in {"POSTED", "REVERSED"}}
StartReverseAll(h, b) ==
    /\ bill[b].status # "NONE"
    /\ \E found \in SUBSET MayList(b) :
          /\ found # {}
          /\ "BEHIND" \notin Mishaps => PostedOn(b) \subseteq found
          /\ Open(h, "REVERSE_ALL", b, found, "reverse all")

Finish(h) ==
    /\ pc' = [pc EXCEPT ![h] = "idle"]
    /\ kind' = [kind EXCEPT ![h] = "NONE"]
    /\ target' = [target EXCEPT ![h] = NoDocument]
    /\ number' = [number EXCEPT ![h] = NoNumber]
    /\ listed' = [listed EXCEPT ![h] = {}]

-----------------------------------------------------------------------------
(* Paying.                                                                 *)

Balance(b, paid, st) == [bill EXCEPT ![b].paid = paid, ![b].payStatus = st]
PayStatus(b, paid) == CASE paid >= Total[b] -> "PAID"
                        [] paid > 0 /\ paid < Total[b] -> "PARTIAL"
                        [] OTHER -> "UNPAID"

(* post_pay: the row is locked and the amount added.                       *)
Pay(h) ==
    LET p == target[h]
        b == Payment[p].bill
        paid == bill[b].paid + Payment[p].amount
    IN  /\ pc[h] = "pay"
        /\ bill[b].status = "POSTED"
        /\ bill' = Balance(b, paid, IF paid >= Total[b] THEN "PAID" ELSE "PARTIAL")
        /\ pc' = [pc EXCEPT ![h] = "issue"]
        /\ UNCHANGED <<numbers, payment, request>>

(* post_vendorPayments: a number is issued, then the row inserted; the     *)
(* number must be new and the bill there.                                  *)
IssueNumber(h) ==
    /\ pc[h] = "issue"
    /\ \E n \in Numbers :
          /\ Issue(Payment[target[h]].sequence, n)
          /\ number' = [number EXCEPT ![h] = n]
    /\ pc' = [pc EXCEPT ![h] = "insert"]
    /\ UNCHANGED <<rows, kind, target, listed>>

Taken(p, n) == \E q \in Payments :
    payment[q].number = n /\ Payment[q].sequence = Payment[p].sequence
CanInsert(h) ==
    LET p == target[h]
    IN  bill[Payment[p].bill].status = "POSTED" /\ ~Taken(p, number[h])
Insert(h) ==
    LET p == target[h]
    IN  /\ pc[h] = "insert"
        /\ CanInsert(h)
        /\ payment' = [payment EXCEPT ![p] =
              [status |-> "POSTED", bill |-> Payment[p].bill, number |-> number[h]]]
        /\ Finish(h)
        /\ UNCHANGED <<numbers, bill>>

(* The second request fails, for a number already taken or any other       *)
(* reason; the balance stays as the first one left it.                     *)
LeaveUnrecorded(h) ==
    /\ pc[h] \in {"issue", "insert"}
    /\ payment' = [payment EXCEPT ![target[h]].status = "UNRECORDED"]
    /\ Finish(h)
    /\ UNCHANGED <<numbers, bill>>

-----------------------------------------------------------------------------
(* Reversing: the payment's row is locked and its status read again; the   *)
(* bill, if it is still there, gets the amount back.                       *)
StillPostedMutant(p) == payment[p].status # "NONE"
StillPosted(p) == payment[p].status = "POSTED"
AtLeastZero(n) == IF n < 0 THEN 0 ELSE n

Reverse(h) ==
    LET p == target[h]
        b == Payment[p].bill
        left == bill[b].paid - Payment[p].amount
    IN  /\ pc[h] = "reverse"
        /\ StillPosted(p)
        /\ payment' = [payment EXCEPT ![p].status = "REVERSED"]
        /\ bill' = IF bill[b].status = "POSTED"
                   THEN Balance(b, AtLeastZero(left), PayStatus(b, left)) ELSE bill
        /\ Finish(h)
        /\ UNCHANGED numbers

(* post_reversePayments: every payment found must still be posted, or      *)
(* nothing happens; the balance is set to zero.                            *)
ReverseAll(h) ==
    LET b == target[h]
    IN  /\ pc[h] = "reverse all"
        /\ \A p \in listed[h] : StillPosted(p)
        /\ payment' = [p \in Payments |->
              IF p \in listed[h] THEN [payment[p] EXCEPT !.status = "REVERSED"]
              ELSE payment[p]]
        /\ bill' = IF bill[b].status = "POSTED" THEN Balance(b, 0, "UNPAID") ELSE bill
        /\ Finish(h)
        /\ UNCHANGED numbers

(* A refusal or a failure before anything is committed.                    *)
Fail(h) ==
    /\ pc[h] \in {"pay", "reverse", "reverse all"}
    /\ Finish(h)
    /\ UNCHANGED <<numbers, rows>>
(* The process restarts while no request is open.                          *)
Restart ==
    /\ \A h \in Handlers : ~Active(h)
    /\ Forget
    /\ UNCHANGED <<rows, pc, request>>

-----------------------------------------------------------------------------
Start(h) ==
    \/ \E p \in Payments : StartPay(h, p) \/ StartReverse(h, p)
    \/ \E b \in Bills : StartReverseAll(h, b)
Step(h) ==
    \/ Pay(h) \/ IssueNumber(h) \/ Insert(h) \/ LeaveUnrecorded(h)
    \/ Reverse(h) \/ ReverseAll(h) \/ Fail(h)
Next ==
    \/ \E h \in Handlers : Start(h) \/ Step(h)
    \/ \E b \in Bills : PostBill(b) \/ DeleteBill(b)
    \/ Restart

Spec == Init /\ [][Next]_vars

-----------------------------------------------------------------------------
(* Properties.                                                             *)

PayStatuses == {"UNPAID", "PARTIAL", "PAID"}
(* The types of the rows and of the handlers' states.                      *)
TypeOK ==
    /\ NumbersTypeOK
    /\ bill \in [Bills -> [status : {"NONE", "POSTED", "DELETED"}, paid : Nat,
                           payStatus : PayStatuses]]
    /\ payment \in [Payments -> [status : {"NONE", "POSTED", "REVERSED", "UNRECORDED"},
                                 bill : Bills \cup {NoBill},
                                 number : Numbers \cup {NoNumber}]]
    /\ pc \in [Handlers -> {"idle", "pay", "issue", "insert", "reverse", "reverse all"}]
    /\ kind \in [Handlers -> {"NONE", "PAY", "REVERSE", "REVERSE_ALL"}]
    /\ target \in [Handlers -> Bills \cup Payments \cup {NoDocument}]
    /\ number \in [Handlers -> Numbers \cup {NoNumber}]
    /\ listed \in [Handlers -> SUBSET Payments]

Amount(ps) == SumFunctionOnSet([p \in Payments |-> Payment[p].amount], ps)
Underway(p) == \E h \in Handlers : pc[h] \in {"issue", "insert"} /\ target[h] = p
Unrecorded(b) == {p \in Payments :
    Payment[p].bill = b /\ (payment[p].status = "UNRECORDED" \/ Underway(p))}

(* A bill's balance is what its posted payments add up to, and at most     *)
(* those paid whose row is not (or not yet) written: no reversal counts    *)
(* twice, and no recorded payment is missing from the balance, however     *)
(* payments, reversals and deletions overlap.                              *)
BalanceExplained ==
    \A b \in Bills : bill[b].status = "POSTED" =>
        /\ Amount(PostedOn(b)) <= bill[b].paid
        /\ bill[b].paid <= Amount(PostedOn(b)) + Amount(Unrecorded(b))

(* The status shown for a bill is that of its balance, after every payment *)
(* and every reversal.                                                     *)
StatusMatchesBalance ==
    \A b \in Bills : bill[b].payStatus = PayStatus(b, bill[b].paid)
=============================================================================
