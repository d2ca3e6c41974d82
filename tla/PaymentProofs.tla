---------------------------- MODULE PaymentProofs -----------------------------
(***************************************************************************)
(* Theorems about DocNumbers and VendorPayments for every set of bills,    *)
(* payments, sequences and clients: the database issues every number once  *)
(* and in order, payments take their numbers that way, the status of a     *)
(* bill is always that of its balance, and the balance is what its         *)
(* payments explain.                                                       *)
(***************************************************************************)
EXTENDS VendorPayments, FiniteSetTheorems, TLAPS

-----------------------------------------------------------------------------
(* Numbers.                                                                *)

NumbersInv == NumbersTypeOK /\ ClaimedOnceInOrder

LEMMA NumbersStart == NumbersInit => NumbersInv
  BY NumbersAssumption
  DEF NumbersInit, NumbersInv, NumbersTypeOK, ClaimedOnceInOrder, None, NoneIssued, Numbers

(* The counter and the number issued go up together.                       *)
LEMMA ClaimInv ==
    ASSUME NumbersInv, NEW s \in Sequences, NEW n \in Numbers, Claim(s, n)
    PROVE  NumbersInv'
<1>1. /\ n \in Nat /\ n <= MaxNumber /\ n >= 1 /\ n = counter[s] + 1
      /\ counter' = [counter EXCEPT ![s] = n]
      /\ claimed' = [claimed EXCEPT ![s][n] = @ + 1]
      /\ UNCHANGED <<memory, made>>
  BY NumbersAssumption DEF Claim, Numbers
<1>2. /\ counter \in [Sequences -> 0..MaxNumber]
      /\ claimed \in [Sequences -> [Numbers -> Nat]]
  BY DEF NumbersInv, NumbersTypeOK
<1>3. counter' \in [Sequences -> 0..MaxNumber]
  BY <1>1, <1>2, NumbersAssumption
<1>4. claimed' \in [Sequences -> [Numbers -> Nat]]
  <2>1. [claimed[s] EXCEPT ![n] = claimed[s][n] + 1] \in [Numbers -> Nat]
    BY <1>2
  <2>. QED
    BY <1>1, <1>2, <2>1
<1>5. ASSUME NEW t \in Sequences, NEW m \in Numbers
      PROVE  claimed'[t][m] = IF m <= counter'[t] THEN 1 ELSE 0
  <2>1. claimed[t][m] = IF m <= counter[t] THEN 1 ELSE 0
    BY DEF NumbersInv, ClaimedOnceInOrder
  <2>2. m \in Nat /\ counter[s] \in Nat
    BY <1>2, NumbersAssumption DEF Numbers
  <2>3. CASE t # s
    BY <1>1, <1>2, <2>1, <2>3
  <2>4. CASE t = s /\ m = n
    BY <1>1, <1>2, <2>1, <2>2, <2>4
  <2>5. CASE t = s /\ m # n
    <3>1. claimed'[t][m] = claimed[t][m] /\ counter'[t] = counter[s] + 1
      BY <1>1, <1>2, <2>5
    <3>2. m <= counter[s] + 1 <=> m <= counter[s]
      BY <1>1, <2>2, <2>5
    <3>. QED
      BY <2>1, <2>5, <3>1, <3>2
  <2>. QED
    BY <2>3, <2>4, <2>5
<1>6. memory' \in [Sequences -> 0..MaxNumber] /\ made' \in [Sequences -> [Numbers -> Nat]]
  BY <1>1 DEF NumbersInv, NumbersTypeOK
<1>. QED
  BY <1>3, <1>4, <1>5, <1>6 DEF NumbersInv, NumbersTypeOK, ClaimedOnceInOrder

LEMMA FallBackInv ==
    ASSUME NumbersInv, NEW s \in Sequences, NEW n \in Numbers, FallBack(s, n)
    PROVE  NumbersInv'
<1>1. memory' \in [Sequences -> 0..MaxNumber]
  BY NumbersAssumption DEF FallBack, NumbersInv, NumbersTypeOK, Numbers
<1>2. made' \in [Sequences -> [Numbers -> Nat]]
  <2>1. made \in [Sequences -> [Numbers -> Nat]]
    BY DEF NumbersInv, NumbersTypeOK
  <2>2. [made[s] EXCEPT ![n] = made[s][n] + 1] \in [Numbers -> Nat]
    BY <2>1
  <2>. QED
    BY <2>1, <2>2 DEF FallBack
<1>3. UNCHANGED <<counter, claimed>>
  BY DEF FallBack
<1>. QED
  BY <1>1, <1>2, <1>3 DEF NumbersInv, NumbersTypeOK, ClaimedOnceInOrder

LEMMA NumbersStep == NumbersInv /\ [NumbersNext]_numbers => NumbersInv'
<1>. SUFFICES ASSUME NumbersInv, [NumbersNext]_numbers PROVE NumbersInv'
  OBVIOUS
<1>1. CASE Forget
  BY <1>1, NumbersAssumption
  DEF Forget, None, NumbersInv, NumbersTypeOK, ClaimedOnceInOrder
<1>2. CASE UNCHANGED numbers
  BY <1>2 DEF numbers, NumbersInv, NumbersTypeOK, ClaimedOnceInOrder
<1>3. CASE \E s \in Sequences, n \in Numbers : Issue(s, n)
  BY <1>3, ClaimInv, FallBackInv DEF Issue
<1>. QED
  BY <1>1, <1>2, <1>3 DEF NumbersNext

(* A sequence's numbers are issued by the database once each and without a *)
(* gap, through restarts and interludes of the memory's counter.           *)
THEOREM NumbersIssuedOnce == NumbersSpec => []ClaimedOnceInOrder
<1>1. NumbersInv => ClaimedOnceInOrder
  BY DEF NumbersInv
<1>. QED
  BY <1>1, NumbersStart, NumbersStep, PTL DEF NumbersSpec

-----------------------------------------------------------------------------
(* Payments: types, and a status that follows the balance.                 *)

Working(h) ==
    /\ pc[h] \in {"pay", "issue", "insert", "reverse"} => target[h] \in Payments
    /\ pc[h] = "reverse all" => target[h] \in Bills
PaymentsInv == /\ TypeOK
               /\ StatusMatchesBalance
               /\ \A h \in Handlers : Working(h)

BillRows == [status : {"NONE", "POSTED", "DELETED"}, paid : Nat, payStatus : PayStatuses]
HandlerTypes ==
    /\ pc \in [Handlers -> {"idle", "pay", "issue", "insert", "reverse", "reverse all"}]
    /\ kind \in [Handlers -> {"NONE", "PAY", "REVERSE", "REVERSE_ALL"}]
    /\ target \in [Handlers -> Bills \cup Payments \cup {NoDocument}]
    /\ number \in [Handlers -> Numbers \cup {NoNumber}]
    /\ listed \in [Handlers -> SUBSET Payments]
    /\ \A h \in Handlers : Working(h)

LEMMA FinishTypes ==
    ASSUME HandlerTypes, NEW h \in Handlers, Finish(h) PROVE HandlerTypes'
<1>1. /\ pc' \in [Handlers -> {"idle", "pay", "issue", "insert", "reverse", "reverse all"}]
      /\ kind' \in [Handlers -> {"NONE", "PAY", "REVERSE", "REVERSE_ALL"}]
      /\ target' \in [Handlers -> Bills \cup Payments \cup {NoDocument}]
      /\ number' \in [Handlers -> Numbers \cup {NoNumber}]
      /\ listed' \in [Handlers -> SUBSET Payments]
  BY DEF Finish, HandlerTypes
<1>2. ASSUME NEW g \in Handlers PROVE Working(g)'
  BY DEF Finish, HandlerTypes, Working
<1>. QED
  BY <1>1, <1>2 DEF HandlerTypes

LEMMA ProceedTypes ==
    ASSUME HandlerTypes, NEW h \in Handlers, NEW p \in {"issue", "insert"},
           target[h] \in Payments,
           pc' = [pc EXCEPT ![h] = p], UNCHANGED <<kind, target, listed>>,
           number' \in [Handlers -> Numbers \cup {NoNumber}]
    PROVE  HandlerTypes'
<1>1. pc' \in [Handlers -> {"idle", "pay", "issue", "insert", "reverse", "reverse all"}]
  BY DEF HandlerTypes
<1>2. ASSUME NEW g \in Handlers PROVE Working(g)'
  BY DEF HandlerTypes, Working
<1>. QED
  BY <1>1, <1>2 DEF HandlerTypes

LEMMA OpenTypes ==
    ASSUME HandlerTypes, NEW h \in Handlers, NEW k, NEW d, NEW found, NEW first,
           Open(h, k, d, found, first), found \subseteq Payments,
           \/ first = "pay" /\ k = "PAY" /\ d \in Payments
           \/ first = "reverse" /\ k = "REVERSE" /\ d \in Payments
           \/ first = "reverse all" /\ k = "REVERSE_ALL" /\ d \in Bills
    PROVE  HandlerTypes'
<1>1. /\ pc' \in [Handlers -> {"idle", "pay", "issue", "insert", "reverse", "reverse all"}]
      /\ kind' \in [Handlers -> {"NONE", "PAY", "REVERSE", "REVERSE_ALL"}]
      /\ target' \in [Handlers -> Bills \cup Payments \cup {NoDocument}]
      /\ listed' \in [Handlers -> SUBSET Payments]
  BY DEF Open, HandlerTypes
<1>2. ASSUME NEW g \in Handlers PROVE Working(g)'
  BY DEF Open, HandlerTypes, Working
<1>. QED
  BY <1>1, <1>2 DEF Open, HandlerTypes

-----------------------------------------------------------------------------
(* Rows of bills: each balance is written together with its status.        *)

BillsInv == /\ bill \in [Bills -> BillRows]
            /\ StatusMatchesBalance

LEMMA PayStatusTypes ==
    ASSUME NEW b \in Bills, NEW n \in Int
    PROVE  /\ PayStatus(b, n) \in PayStatuses
           /\ AtLeastZero(n) \in Nat
           /\ PayStatus(b, AtLeastZero(n)) = PayStatus(b, n)
           /\ PayStatus(b, 0) = "UNPAID"
           /\ n > 0 => PayStatus(b, n) = IF n >= Total[b] THEN "PAID" ELSE "PARTIAL"
<1>1. Total[b] \in Nat \ {0}
  BY PaymentsAssumption
<1>. QED
  BY <1>1 DEF PayStatus, PayStatuses, AtLeastZero

LEMMA BalanceInv ==
    ASSUME BillsInv, NEW b \in Bills, NEW n \in Nat, bill' = Balance(b, n, PayStatus(b, n))
    PROVE  BillsInv'
<1>1. PayStatus(b, n) \in PayStatuses
  BY PayStatusTypes
<1>2. ASSUME NEW e \in [Bills -> BillRows], NEW st \in PayStatuses
      PROVE  [e EXCEPT ![b].payStatus = st] \in [Bills -> BillRows]
  BY DEF BillRows
<1>3. [bill EXCEPT ![b].paid = n] \in [Bills -> BillRows]
  BY DEF BillsInv, BillRows
<1>4. bill' \in [Bills -> BillRows]
  BY <1>1, <1>2, <1>3 DEF Balance
<1>5. ASSUME NEW i \in Bills PROVE bill'[i].payStatus = PayStatus(i, bill'[i].paid)
  <2>1. CASE i = b
    BY <2>1 DEF Balance, BillsInv, BillRows
  <2>2. CASE i # b
    BY <2>2 DEF Balance, BillsInv, BillRows, StatusMatchesBalance
  <2>. QED
    BY <2>1, <2>2
<1>. QED
  BY <1>4, <1>5 DEF BillsInv, StatusMatchesBalance, PayStatus

(* A row that is written anew is unpaid.                                   *)
LEMMA FreshInv ==
    ASSUME BillsInv, NEW b \in Bills, NEW st \in {"POSTED", "DELETED"},
           bill' = [bill EXCEPT ![b] = Unpaid(st)]
    PROVE  BillsInv'
<1>1. Unpaid(st) \in BillRows
  BY DEF Unpaid, BillRows, PayStatuses
<1>2. bill' \in [Bills -> BillRows]
  BY <1>1 DEF BillsInv
<1>3. ASSUME NEW i \in Bills PROVE bill'[i].payStatus = PayStatus(i, bill'[i].paid)
  <2>1. CASE i = b
    BY <2>1, PayStatusTypes DEF BillsInv, Unpaid
  <2>2. CASE i # b
    BY <2>2 DEF BillsInv, StatusMatchesBalance
  <2>. QED
    BY <2>1, <2>2
<1>. QED
  BY <1>2, <1>3 DEF BillsInv, StatusMatchesBalance, PayStatus

-----------------------------------------------------------------------------
(* The actions.                                                            *)

PaymentRows == [status : {"NONE", "POSTED", "REVERSED", "UNRECORDED"},
                bill : Bills \cup {NoBill}, number : Numbers \cup {NoNumber}]

LEMMA Parts ==
    PaymentsInv <=> /\ NumbersTypeOK /\ BillsInv /\ HandlerTypes
                    /\ payment \in [Payments -> PaymentRows]
  BY DEF PaymentsInv, TypeOK, BillsInv, BillRows, HandlerTypes, PaymentRows

LEMMA PartsNext ==
    ASSUME NumbersTypeOK', BillsInv', HandlerTypes', (payment \in [Payments -> PaymentRows])'
    PROVE  PaymentsInv'
  BY DEF PaymentsInv, TypeOK, BillsInv, BillRows, HandlerTypes, PaymentRows

LEMMA PlanTypes ==
    ASSUME NEW p \in Payments
    PROVE  /\ Payment[p].bill \in Bills /\ Payment[p].amount \in Nat \ {0}
           /\ Payment[p].sequence \in Sequences
  BY PaymentsAssumption

LEMMA SameBills == BillsInv /\ UNCHANGED bill => BillsInv'
  BY DEF BillsInv, StatusMatchesBalance, PayStatus
LEMMA SameNumbers == NumbersTypeOK /\ UNCHANGED numbers => NumbersTypeOK'
  BY DEF NumbersTypeOK, numbers
LEMMA SameHandlers == HandlerTypes /\ UNCHANGED <<pc, request>> => HandlerTypes'
  BY DEF HandlerTypes, Working, request

LEMMA NumbersTyped == NumbersTypeOK /\ [NumbersNext]_numbers => NumbersTypeOK'
<1>. SUFFICES ASSUME NumbersTypeOK, [NumbersNext]_numbers PROVE NumbersTypeOK'
  OBVIOUS
<1>1. ASSUME NEW s \in Sequences, NEW n \in Numbers, Claim(s, n) PROVE NumbersTypeOK'
  <2>1. [claimed[s] EXCEPT ![n] = claimed[s][n] + 1] \in [Numbers -> Nat]
    BY <1>1 DEF NumbersTypeOK
  <2>2. counter' \in [Sequences -> 0..MaxNumber]
    BY <1>1, NumbersAssumption DEF Claim, NumbersTypeOK, Numbers
  <2>. QED
    BY <1>1, <2>1, <2>2 DEF Claim, NumbersTypeOK
<1>2. ASSUME NEW s \in Sequences, NEW n \in Numbers, FallBack(s, n) PROVE NumbersTypeOK'
  <2>1. [made[s] EXCEPT ![n] = made[s][n] + 1] \in [Numbers -> Nat]
    BY <1>2 DEF NumbersTypeOK
  <2>2. memory' \in [Sequences -> 0..MaxNumber]
    BY <1>2, NumbersAssumption DEF FallBack, NumbersTypeOK, Numbers
  <2>. QED
    BY <1>2, <2>1, <2>2 DEF FallBack, NumbersTypeOK
<1>3. CASE Forget
  BY <1>3, NumbersAssumption DEF Forget, None, NumbersTypeOK
<1>. QED
  BY <1>1, <1>2, <1>3, SameNumbers DEF NumbersNext, Issue

(* Every step of the payments takes a number of a sequence, forgets the    *)
(* memory's numbers, or leaves the numbers alone.                          *)
LEMMA NumbersMapped == PaymentsInv /\ [Next]_vars => [NumbersNext]_numbers
<1>. SUFFICES ASSUME PaymentsInv, [Next]_vars PROVE [NumbersNext]_numbers
  OBVIOUS
<1>1. ASSUME NEW h \in Handlers, IssueNumber(h) PROVE NumbersNext
  <2>1. target[h] \in Payments
    BY <1>1 DEF IssueNumber, PaymentsInv, Working
  <2>2. Payment[target[h]].sequence \in Sequences
    BY <2>1, PlanTypes
  <2>. QED
    BY <1>1, <2>2 DEF IssueNumber, NumbersNext
<1>2. ASSUME NEW h \in Handlers, Start(h) PROVE UNCHANGED numbers
  BY <1>2 DEF Start, StartPay, StartReverse, StartReverseAll, Open
<1>3. ASSUME NEW h \in Handlers, Step(h), ~IssueNumber(h) PROVE UNCHANGED numbers
  BY <1>3 DEF Step, Pay, Insert, LeaveUnrecorded, Reverse, ReverseAll, Fail
<1>4. (\E b \in Bills : PostBill(b) \/ DeleteBill(b)) => UNCHANGED numbers
  BY DEF PostBill, DeleteBill
<1>5. Restart => NumbersNext
  BY DEF Restart, NumbersNext
<1>. QED
  BY <1>1, <1>2, <1>3, <1>4, <1>5 DEF Next, vars

LEMMA StartKeeps == ASSUME PaymentsInv, NEW h \in Handlers, Start(h) PROVE PaymentsInv'
<1>1. /\ BillsInv /\ NumbersTypeOK /\ HandlerTypes /\ payment \in [Payments -> PaymentRows]
  BY Parts
<1>2. UNCHANGED <<numbers, rows>>
  BY DEF Start, StartPay, StartReverse, StartReverseAll, Open
<1>3. HandlerTypes'
  <2>1. ASSUME NEW p \in Payments, NEW found, found \subseteq Payments,
               Open(h, "PAY", p, found, "pay")
        PROVE  HandlerTypes'
    BY <1>1, <2>1, OpenTypes
  <2>2. ASSUME NEW p \in Payments, NEW found, found \subseteq Payments,
               Open(h, "REVERSE", p, found, "reverse")
        PROVE  HandlerTypes'
    BY <1>1, <2>2, OpenTypes
  <2>3. ASSUME NEW b \in Bills, StartReverseAll(h, b) PROVE HandlerTypes'
    <3>1. PICK found \in SUBSET MayList(b) : Open(h, "REVERSE_ALL", b, found, "reverse all")
      BY <2>3 DEF StartReverseAll
    <3>2. found \subseteq Payments
      BY DEF MayList
    <3>. QED
      BY <1>1, <3>1, <3>2, OpenTypes
  <2>4. PICK none : none = {}
    OBVIOUS
  <2>5. none \subseteq Payments
    BY <2>4
  <2>6. ASSUME NEW p \in Payments, StartPay(h, p) \/ StartReverse(h, p) PROVE HandlerTypes'
    <3>1. Open(h, "PAY", p, none, "pay") \/ Open(h, "REVERSE", p, none, "reverse")
      BY <2>4, <2>6 DEF StartPay, StartReverse
    <3>. QED
      BY <2>1, <2>2, <2>5, <3>1
  <2>. QED
    BY <2>3, <2>6 DEF Start
<1>. QED
  BY <1>1, <1>2, <1>3, SameBills, SameNumbers, PartsNext DEF rows

LEMMA PayKeeps == ASSUME PaymentsInv, NEW h \in Handlers, Pay(h) PROVE PaymentsInv'
<1>. DEFINE p == target[h]
            b == Payment[p].bill
            n == bill[b].paid + Payment[p].amount
<1>1. /\ BillsInv /\ NumbersTypeOK /\ HandlerTypes /\ payment \in [Payments -> PaymentRows]
  BY Parts
<1>2. p \in Payments
  BY DEF Pay, PaymentsInv, Working
<1>3. b \in Bills /\ Payment[p].amount \in Nat \ {0}
  BY <1>2, PlanTypes
<1>4. n \in Nat /\ n > 0
  BY <1>1, <1>3 DEF BillsInv, BillRows
<1>5. bill' = Balance(b, n, PayStatus(b, n))
  <2>1. PayStatus(b, n) = IF n >= Total[b] THEN "PAID" ELSE "PARTIAL"
    BY <1>3, <1>4, PayStatusTypes
  <2>. QED
    BY <2>1 DEF Pay
<1>6. BillsInv'
  BY <1>1, <1>3, <1>4, <1>5, BalanceInv
<1>7. HandlerTypes'
  BY <1>1, <1>2, ProceedTypes DEF Pay, request, HandlerTypes
<1>8. UNCHANGED <<numbers, payment>>
  BY DEF Pay
<1>. QED
  BY <1>1, <1>6, <1>7, <1>8, SameNumbers, PartsNext

LEMMA IssueKeeps == ASSUME PaymentsInv, NEW h \in Handlers, IssueNumber(h) PROVE PaymentsInv'
<1>1. /\ BillsInv /\ NumbersTypeOK /\ HandlerTypes /\ payment \in [Payments -> PaymentRows]
  BY Parts
<1>2. target[h] \in Payments
  BY DEF IssueNumber, PaymentsInv, Working
<1>3. number' \in [Handlers -> Numbers \cup {NoNumber}]
  BY <1>1 DEF IssueNumber, HandlerTypes
<1>4. HandlerTypes'
  BY <1>1, <1>2, <1>3, ProceedTypes DEF IssueNumber
<1>5. NumbersTypeOK'
  <2>1. [Next]_vars
    BY DEF Next, Step
  <2>. QED
    BY <1>1, <2>1, NumbersMapped, NumbersTyped
<1>6. UNCHANGED <<bill, payment>>
  BY DEF IssueNumber, rows
<1>. QED
  BY <1>1, <1>4, <1>5, <1>6, SameBills, PartsNext

LEMMA InsertKeeps == ASSUME PaymentsInv, NEW h \in Handlers, Insert(h) PROVE PaymentsInv'
<1>1. /\ BillsInv /\ NumbersTypeOK /\ HandlerTypes /\ payment \in [Payments -> PaymentRows]
  BY Parts
<1>2. target[h] \in Payments
  BY DEF Insert, PaymentsInv, Working
<1>3. [status |-> "POSTED", bill |-> Payment[target[h]].bill, number |-> number[h]]
          \in PaymentRows
  BY <1>1, <1>2, PlanTypes DEF PaymentRows, HandlerTypes
<1>4. payment' \in [Payments -> PaymentRows]
  BY <1>1, <1>3 DEF Insert
<1>5. HandlerTypes' /\ UNCHANGED <<numbers, bill>>
  BY <1>1, FinishTypes DEF Insert
<1>. QED
  BY <1>1, <1>4, <1>5, SameNumbers, SameBills, PartsNext

LEMMA StatusTypes ==
    ASSUME NEW f \in [Payments -> PaymentRows], NEW p,
           NEW st \in {"REVERSED", "UNRECORDED"}
    PROVE  [f EXCEPT ![p].status = st] \in [Payments -> PaymentRows]
  BY DEF PaymentRows

LEMMA LeaveKeeps == ASSUME PaymentsInv, NEW h \in Handlers, LeaveUnrecorded(h) PROVE PaymentsInv'
<1>1. /\ BillsInv /\ NumbersTypeOK /\ HandlerTypes /\ payment \in [Payments -> PaymentRows]
  BY Parts
<1>2. payment' \in [Payments -> PaymentRows]
  BY <1>1, StatusTypes DEF LeaveUnrecorded
<1>3. HandlerTypes' /\ UNCHANGED <<numbers, bill>>
  BY <1>1, FinishTypes DEF LeaveUnrecorded
<1>. QED
  BY <1>1, <1>2, <1>3, SameNumbers, SameBills, PartsNext

LEMMA ReverseKeeps == ASSUME PaymentsInv, NEW h \in Handlers, Reverse(h) PROVE PaymentsInv'
<1>. DEFINE p == target[h]
            b == Payment[p].bill
            left == bill[b].paid - Payment[p].amount
<1>1. /\ BillsInv /\ NumbersTypeOK /\ HandlerTypes /\ payment \in [Payments -> PaymentRows]
  BY Parts
<1>2. p \in Payments
  BY DEF Reverse, PaymentsInv, Working
<1>3. b \in Bills /\ Payment[p].amount \in Nat
  BY <1>2, PlanTypes
<1>4. left \in Int
  BY <1>1, <1>3 DEF BillsInv, BillRows
<1>5. BillsInv'
  <2>1. PayStatus(b, AtLeastZero(left)) = PayStatus(b, left) /\ AtLeastZero(left) \in Nat
    BY <1>3, <1>4, PayStatusTypes
  <2>2. bill' = Balance(b, AtLeastZero(left), PayStatus(b, AtLeastZero(left))) \/ bill' = bill
    BY <2>1 DEF Reverse
  <2>. QED
    BY <1>1, <1>3, <2>1, <2>2, BalanceInv, SameBills
<1>6. payment' \in [Payments -> PaymentRows]
  BY <1>1, StatusTypes DEF Reverse
<1>7. HandlerTypes' /\ UNCHANGED numbers
  BY <1>1, FinishTypes DEF Reverse
<1>. QED
  BY <1>1, <1>5, <1>6, <1>7, SameNumbers, PartsNext

LEMMA ReverseAllKeeps == ASSUME PaymentsInv, NEW h \in Handlers, ReverseAll(h) PROVE PaymentsInv'
<1>1. /\ BillsInv /\ NumbersTypeOK /\ HandlerTypes /\ payment \in [Payments -> PaymentRows]
  BY Parts
<1>2. target[h] \in Bills
  BY DEF ReverseAll, PaymentsInv, Working
<1>3. BillsInv'
  <2>1. PayStatus(target[h], 0) = "UNPAID"
    BY <1>2, PayStatusTypes
  <2>2. bill' = Balance(target[h], 0, PayStatus(target[h], 0)) \/ bill' = bill
    BY <2>1 DEF ReverseAll
  <2>. QED
    BY <1>1, <1>2, <2>2, BalanceInv, SameBills
<1>4. payment' \in [Payments -> PaymentRows]
  BY <1>1 DEF ReverseAll, PaymentRows
<1>5. HandlerTypes' /\ UNCHANGED numbers
  BY <1>1, FinishTypes DEF ReverseAll
<1>. QED
  BY <1>1, <1>3, <1>4, <1>5, SameNumbers, PartsNext

LEMMA OthersKeep ==
    ASSUME PaymentsInv,
           \/ \E h \in Handlers : Fail(h)
           \/ \E b \in Bills : PostBill(b) \/ DeleteBill(b)
           \/ Restart
    PROVE  PaymentsInv'
<1>1. /\ BillsInv /\ NumbersTypeOK /\ HandlerTypes /\ payment \in [Payments -> PaymentRows]
  BY Parts
<1>2. ASSUME NEW h \in Handlers, Fail(h) PROVE PaymentsInv'
  BY <1>1, <1>2, FinishTypes, SameNumbers, SameBills, PartsNext DEF Fail, rows
<1>3. ASSUME NEW b \in Bills, PostBill(b) PROVE PaymentsInv'
  BY <1>1, <1>3, FreshInv, SameNumbers, SameHandlers, PartsNext DEF PostBill
<1>4. ASSUME NEW b \in Bills, DeleteBill(b) PROVE PaymentsInv'
  <2>1. payment' \in [Payments -> PaymentRows]
    BY <1>1, <1>4 DEF DeleteBill, PaymentRows
  <2>. QED
    BY <1>1, <1>4, <2>1, FreshInv, SameNumbers, SameHandlers, PartsNext DEF DeleteBill
<1>5. CASE Restart
  <2>1. NumbersTypeOK'
    BY <1>1, <1>5, NumbersMapped, NumbersTyped DEF Next
  <2>. QED
    BY <1>1, <1>5, <2>1, SameBills, SameHandlers, PartsNext DEF Restart, rows
<1>. QED
  BY <1>2, <1>3, <1>4, <1>5

LEMMA PaymentsStart == Init => PaymentsInv
<1>. SUFFICES ASSUME Init PROVE PaymentsInv
  OBVIOUS
<1>1. NumbersTypeOK
  BY NumbersStart DEF Init, NumbersInv
<1>2. \A b \in Bills : PayStatus(b, 0) = "UNPAID"
  BY PayStatusTypes
<1>3. BillsInv
  BY <1>2 DEF Init, BillsInv, BillRows, Unpaid, PayStatuses, StatusMatchesBalance
<1>4. HandlerTypes /\ payment \in [Payments -> PaymentRows]
  BY DEF Init, HandlerTypes, Working, PaymentRows
<1>. QED
  BY <1>1, <1>3, <1>4, Parts

LEMMA PaymentsStep == PaymentsInv /\ [Next]_vars => PaymentsInv'
<1>1. PaymentsInv /\ UNCHANGED vars => PaymentsInv'
  BY SameNumbers, SameBills, SameHandlers, Parts, PartsNext DEF vars, rows
<1>. QED
  BY <1>1, StartKeeps, PayKeeps, IssueKeeps, InsertKeeps, LeaveKeeps, ReverseKeeps,
     ReverseAllKeeps, OthersKeep
  DEF Next, Step

-----------------------------------------------------------------------------
(* Clients that pay and reverse use the numbers as DocNumbers says: every  *)
(* step of theirs is one of its steps, or leaves the numbers alone.        *)
THEOREM PaymentsUseNumbers == Spec => NumbersSpec
  BY PaymentsStart, PaymentsStep, NumbersMapped, PTL DEF Spec, Init, NumbersSpec

(* So no number of the database is given to two payments, nor skipped.     *)
THEOREM PaymentNumbersIssuedOnce == Spec => []ClaimedOnceInOrder
  BY PaymentsUseNumbers, NumbersIssuedOnce, PTL

(* The types of TypeOK hold for every set of bills, payments and clients.  *)
THEOREM PaymentTypes == Spec => []TypeOK
<1>1. PaymentsInv => TypeOK
  BY DEF PaymentsInv
<1>. QED
  BY <1>1, PaymentsStart, PaymentsStep, PTL DEF Spec

(* The payment status of a bill is that of its balance, however payments,  *)
(* reversals, failures and deletions of the bill follow one another.       *)
THEOREM StatusFollowsBalance == Spec => []StatusMatchesBalance
<1>1. PaymentsInv => StatusMatchesBalance
  BY DEF PaymentsInv
<1>. QED
  BY <1>1, PaymentsStart, PaymentsStep, PTL DEF Spec

-----------------------------------------------------------------------------
(* Sums over finite sets.  SumFunctionOnSet is a recursive function that   *)
(* removes the element CHOOSE picks; what it is and that the order does    *)
(* not matter is shown on a smallest counterexample each time.             *)

(* A family of finite sets has a set that is minimal in it.                *)
LEMMA MinimalSet ==
    ASSUME NEW S, IsFiniteSet(S), NEW Z \in SUBSET SUBSET S, Z # {}
    PROVE  \E t \in Z : \A x \in t : t \ {x} \notin Z
<1>. DEFINE sizes == {Cardinality(t) : t \in Z}
<1>1. \A t \in SUBSET S : IsFiniteSet(t) /\ Cardinality(t) \in Nat
  BY FS_Subset, FS_CardinalityType
<1>2. sizes \in SUBSET Nat /\ sizes # {}
  BY <1>1
<1>3. PICK n \in sizes : \A m \in sizes : ~ (<<m, n>> \in OpToRel(<, Nat))
  <2>. HIDE DEF sizes
  <2>. QED
    BY <1>2, NatLessThanWellFounded, WFMin
<1>4. \A m \in sizes : ~ (m < n)
  BY <1>2, <1>3 DEF OpToRel
<1>5. PICK t \in Z : Cardinality(t) = n
  OBVIOUS
<1>6. \A x \in t : Cardinality(t \ {x}) < Cardinality(t)
  BY <1>1, FS_RemoveElement
<1>. QED
  BY <1>4, <1>5, <1>6

Picked(s) == CHOOSE x \in s : TRUE
Unrolled(f, g, s) == IF s = {} THEN 0 ELSE f[Picked(s)] + g[s \ {Picked(s)}]
(* g sums f over every subset of S.                                        *)
Sums(f, g, S) == g = [s \in SUBSET S |-> Unrolled(f, g, s)]

LEMMA SumChosen ==
    ASSUME NEW f, NEW S PROVE SumFunctionOnSet(f, S) = (CHOOSE g : Sums(f, g, S))[S]
  BY DEF SumFunctionOnSet, FoldFunctionOnSet, MapThenFoldSet, Sums, Unrolled, Picked

LEMMA SumsAgree ==
    ASSUME NEW S, IsFiniteSet(S), NEW T, NEW f, NEW g, Sums(f, g, S), NEW e, Sums(f, e, T),
           NEW U \in SUBSET S, U \subseteq T
    PROVE  g[U] = e[U]
<1>. DEFINE Z == {s \in SUBSET U : g[s] # e[s]}
<1>1. ASSUME Z # {} PROVE FALSE
  <2>1. IsFiniteSet(U)
    BY FS_Subset
  <2>2. PICK t \in Z : \A x \in t : t \ {x} \notin Z
    BY <1>1, <2>1, MinimalSet
  <2>3. g[t] = Unrolled(f, g, t) /\ e[t] = Unrolled(f, e, t)
    BY DEF Sums
  <2>4. t # {}
    BY <2>3 DEF Unrolled
  <2>5. Picked(t) \in t
    BY <2>4 DEF Picked
  <2>6. g[t \ {Picked(t)}] = e[t \ {Picked(t)}]
    BY <2>2, <2>5
  <2>. QED
    BY <2>3, <2>6 DEF Unrolled
<1>. QED
  BY <1>1

LEMMA SumsRestrict ==
    ASSUME NEW f, NEW g, NEW S, Sums(f, g, S), NEW U \in SUBSET S
    PROVE  Sums(f, [s \in SUBSET U |-> g[s]], U)
<1>. DEFINE e == [s \in SUBSET U |-> g[s]]
<1>1. ASSUME NEW s \in SUBSET U PROVE Unrolled(f, g, s) = Unrolled(f, e, s)
  BY DEF Unrolled
<1>2. ASSUME NEW s \in SUBSET U PROVE g[s] = Unrolled(f, g, s)
  BY DEF Sums
<1>. QED
  BY <1>1, <1>2 DEF Sums

(* Where a sum exists it is the value of every function that sums.         *)
LEMMA SumValue ==
    ASSUME NEW f, NEW g, NEW S, IsFiniteSet(S), Sums(f, g, S), NEW U \in SUBSET S
    PROVE  SumFunctionOnSet(f, U) = g[U]
<1>1. IsFiniteSet(U)
  BY FS_Subset
<1>2. \E e : Sums(f, e, U)
  BY SumsRestrict
<1>. DEFINE c == CHOOSE e : Sums(f, e, U)
<1>3. Sums(f, c, U)
  BY <1>2
<1>4. c[U] = g[U]
  <2>. HIDE DEF c
  <2>. QED
    BY <1>1, <1>3, SumsAgree
<1>. QED
  BY <1>4, SumChosen

LEMMA SumsExist == ASSUME NEW f, NEW S, IsFiniteSet(S) PROVE \E g : Sums(f, g, S)
<1>. DEFINE Z == {s \in SUBSET S : ~ \E g : Sums(f, g, s)}
<1>1. ASSUME Z # {} PROVE FALSE
  <2>1. PICK t \in Z : \A x \in t : t \ {x} \notin Z
    BY <1>1, MinimalSet
  <2>2. IsFiniteSet(t)
    BY FS_Subset
  <2>. DEFINE v == [s \in SUBSET t |-> SumFunctionOnSet(f, s)]
              g == [v EXCEPT ![t] = Unrolled(f, v, t)]
  <2>3. ASSUME NEW s \in SUBSET t, s # t PROVE v[s] = Unrolled(f, v, s)
    <3>1. PICK x \in t : s \subseteq t \ {x}
      BY <2>3
    <3>2. PICK e : Sums(f, e, t \ {x})
      BY <2>1
    <3>3. IsFiniteSet(t \ {x})
      BY <2>2, FS_RemoveElement
    <3>4. \A u \in SUBSET (t \ {x}) : v[u] = e[u]
      BY <3>2, <3>3, SumValue
    <3>5. e[s] = Unrolled(f, e, s)
      BY <3>1, <3>2 DEF Sums
    <3>6. Unrolled(f, e, s) = Unrolled(f, v, s)
      BY <3>1, <3>4 DEF Unrolled
    <3>. QED
      BY <3>1, <3>4, <3>5, <3>6
  <2>4. ASSUME NEW s \in SUBSET t PROVE Unrolled(f, v, s) = Unrolled(f, g, s)
    <3>1. CASE s = {}
      BY <3>1 DEF Unrolled
    <3>2. CASE s # {}
      <4>1. Picked(s) \in s
        BY <3>2 DEF Picked
      <4>2. s \ {Picked(s)} # t
        BY <4>1
      <4>. QED
        BY <4>2 DEF Unrolled
    <3>. QED
      BY <3>1, <3>2
  <2>5. Sums(f, g, t)
    BY <2>3, <2>4 DEF Sums
  <2>. QED
    BY <2>5
<1>. QED
  BY <1>1

LEMMA SumStep ==
    ASSUME NEW f, NEW S, IsFiniteSet(S)
    PROVE  /\ SumFunctionOnSet(f, {}) = 0
           /\ S # {} => /\ Picked(S) \in S
                        /\ SumFunctionOnSet(f, S) =
                             f[Picked(S)] + SumFunctionOnSet(f, S \ {Picked(S)})
<1>1. PICK g : Sums(f, g, S)
  BY SumsExist
<1>2. \A s \in SUBSET S : SumFunctionOnSet(f, s) = g[s]
  BY <1>1, SumValue
<1>3. \A s \in SUBSET S : g[s] = Unrolled(f, g, s)
  BY <1>1 DEF Sums
<1>. QED
  BY <1>2, <1>3 DEF Unrolled, Picked

LEMMA SumType ==
    ASSUME NEW S, IsFiniteSet(S), NEW f, \A x \in S : f[x] \in Nat
    PROVE  SumFunctionOnSet(f, S) \in Nat
<1>. DEFINE Z == {s \in SUBSET S : SumFunctionOnSet(f, s) \notin Nat}
<1>1. ASSUME Z # {} PROVE FALSE
  <2>1. PICK t \in Z : \A x \in t : t \ {x} \notin Z
    BY <1>1, MinimalSet
  <2>2. IsFiniteSet(t)
    BY FS_Subset
  <2>3. CASE t = {}
    <3>1. SumFunctionOnSet(f, {}) = 0
      BY SumStep
    <3>. QED
      BY <2>1, <2>3, <3>1
  <2>4. CASE t # {}
    <3>1. /\ Picked(t) \in t
          /\ SumFunctionOnSet(f, t) = f[Picked(t)] + SumFunctionOnSet(f, t \ {Picked(t)})
      BY <2>2, <2>4, SumStep
    <3>2. f[Picked(t)] \in Nat /\ SumFunctionOnSet(f, t \ {Picked(t)}) \in Nat
      BY <2>1, <3>1
    <3>. QED
      BY <2>1, <3>1, <3>2
  <2>. QED
    BY <2>3, <2>4
<1>. QED
  BY <1>1

(* Any element of a set can be the one that is summed first.               *)
LEMMA SumRemove ==
    ASSUME NEW S, IsFiniteSet(S), NEW f, \A x \in S : f[x] \in Nat, NEW x \in S
    PROVE  SumFunctionOnSet(f, S) = f[x] + SumFunctionOnSet(f, S \ {x})
<1>. DEFINE Sum(s) == SumFunctionOnSet(f, s)
            Z == {s \in SUBSET S : \E y \in s : Sum(s) # f[y] + Sum(s \ {y})}
<1>1. ASSUME Z # {} PROVE FALSE
  <2>1. PICK t \in Z : \A y \in t : t \ {y} \notin Z
    BY <1>1, MinimalSet
  <2>2. PICK y \in t : Sum(t) # f[y] + Sum(t \ {y})
    BY <2>1
  <2>3. \A s \in SUBSET t : IsFiniteSet(s) /\ Sum(s) \in Nat
    <3>1. ASSUME NEW s \in SUBSET t PROVE IsFiniteSet(s) /\ Sum(s) \in Nat
      BY FS_Subset, SumType
    <3>. QED
      BY <3>1
  <2>. DEFINE z == Picked(t)
  <2>4. z \in t /\ Sum(t) = f[z] + Sum(t \ {z})
    BY <2>3, SumStep
  <2>5. z # y
    BY <2>2, <2>4
  <2>6. y \in t \ {z} /\ z \in t \ {y} /\ (t \ {z}) \ {y} = (t \ {y}) \ {z}
    BY <2>4, <2>5
  <2>7. Sum(t \ {z}) = f[y] + Sum((t \ {z}) \ {y}) /\ Sum(t \ {y}) = f[z] + Sum((t \ {y}) \ {z})
    <3>. HIDE DEF Sum, z
    <3>. QED
      BY <2>1, <2>4, <2>6
  <2>8. f[y] \in Nat /\ f[z] \in Nat /\ Sum((t \ {z}) \ {y}) \in Nat
    BY <2>3, <2>4
  <2>. HIDE DEF Sum, z
  <2>. QED
    BY <2>2, <2>4, <2>6, <2>7, <2>8
<1>. QED
  BY <1>1

LEMMA SumAdd ==
    ASSUME NEW S, IsFiniteSet(S), NEW f, NEW x, x \notin S, \A y \in S \cup {x} : f[y] \in Nat
    PROVE  SumFunctionOnSet(f, S \cup {x}) = f[x] + SumFunctionOnSet(f, S)
<1>1. IsFiniteSet(S \cup {x}) /\ (S \cup {x}) \ {x} = S
  BY FS_AddElement
<1>2. SumFunctionOnSet(f, S \cup {x}) = f[x] + SumFunctionOnSet(f, (S \cup {x}) \ {x})
  BY <1>1, SumRemove
<1>. QED
  BY <1>1, <1>2

-----------------------------------------------------------------------------
(* The balance.  A payment that has been added to the balance and is about *)
(* to get its row counts for the lower bound too: no reversal of all       *)
(* payments of its bill runs meanwhile.                                    *)

Paying(h) == pc[h] \in {"pay", "issue", "insert"}
Added(h) == pc[h] \in {"issue", "insert"}
UnderwayOn(b) == {p \in Payments : Payment[p].bill = b /\ Underway(p)}

RowsInv ==
    /\ \A p \in Payments : payment[p].bill \in {Payment[p].bill, NoBill}
    /\ \A p \in Payments : payment[p].status = "POSTED" =>
          \/ payment[p].bill = Payment[p].bill /\ bill[Payment[p].bill].status = "POSTED"
          \/ bill[Payment[p].bill].status = "DELETED"
PayersInv ==
    /\ \A h \in Handlers : Paying(h) =>
          kind[h] = "PAY" /\ payment[target[h]].status = "NONE"
    /\ \A g \in Handlers, h \in Handlers :
          Paying(g) /\ Paying(h) /\ target[g] = target[h] => g = h
    /\ \A h \in Handlers : Added(h) => bill[Payment[target[h]].bill].status # "NONE"
WipersInv == \A h \in Handlers : pc[h] = "reverse all" =>
    /\ kind[h] = "REVERSE_ALL"
    /\ PostedOn(target[h]) \subseteq listed[h]
    /\ \A p \in listed[h] : Payment[p].bill = target[h]
    /\ \A g \in Handlers : Paying(g) => Payment[target[g]].bill # target[h]
TrailInv == RowsInv /\ PayersInv /\ WipersInv

(* What the steps do to the other requests.                                *)
LEMMA FinishFrame ==
    ASSUME PaymentsInv, NEW h \in Handlers, Finish(h)
    PROVE  /\ pc'[h] = "idle"
           /\ \A g \in Handlers : g # h =>
                  UNCHANGED <<pc[g], kind[g], target[g], number[g], listed[g]>>
  BY Parts DEF Finish, HandlerTypes

LEMMA MoveFrame ==
    ASSUME PaymentsInv, NEW h \in Handlers, NEW p, pc' = [pc EXCEPT ![h] = p]
    PROVE  /\ pc'[h] = p
           /\ \A g \in Handlers : g # h => pc'[g] = pc[g]
  BY Parts DEF HandlerTypes

LEMMA PayingTarget ==
    ASSUME PaymentsInv, NEW h \in Handlers
    PROVE  /\ Paying(h) \/ Added(h) \/ pc[h] = "reverse" => target[h] \in Payments
           /\ pc[h] = "reverse all" => target[h] \in Bills
           /\ Added(h) => Paying(h)
  BY DEF PaymentsInv, Working, Paying, Added

LEMMA BillRowsNext ==
    ASSUME PaymentsInv, NEW b \in Bills, NEW n, NEW st, bill' = Balance(b, n, st)
    PROVE  /\ bill'[b].paid = n
           /\ \A i \in Bills : bill'[i].status = bill[i].status
           /\ \A i \in Bills : i # b => bill'[i] = bill[i]
  BY Parts DEF Balance, BillsInv, BillRows

(* A request that ends, while rows only leave the posted ones.             *)
LEMMA EndKeepsTrail ==
    ASSUME PaymentsInv, TrailInv, NEW h \in Handlers, Finish(h),
           \A b \in Bills : bill'[b].status = bill[b].status,
           \A p \in Payments :
               /\ payment'[p].bill = payment[p].bill
               /\ payment'[p].status # payment[p].status =>
                      /\ payment'[p].status # "POSTED"
                      /\ payment[p].status # "NONE" \/ (target[h] = p /\ Paying(h))
    PROVE  TrailInv'
<1>1. pc'[h] = "idle" /\ \A g \in Handlers : g # h =>
           UNCHANGED <<pc[g], kind[g], target[g], number[g], listed[g]>>
  BY FinishFrame
<1>2. RowsInv'
  <2>1. ASSUME NEW p \in Payments, payment'[p].status = "POSTED"
        PROVE  \/ payment'[p].bill = Payment[p].bill /\ bill'[Payment[p].bill].status = "POSTED"
               \/ bill'[Payment[p].bill].status = "DELETED"
    <3>1. payment[p].status = "POSTED" /\ Payment[p].bill \in Bills
      BY <2>1, PlanTypes
    <3>. QED
      BY <3>1 DEF TrailInv, RowsInv
  <2>. QED
    BY <2>1 DEF TrailInv, RowsInv
<1>3. \A g \in Handlers : (Paying(g)' => g # h /\ Paying(g)) /\ (Added(g)' => g # h /\ Added(g))
  BY <1>1 DEF Paying, Added
<1>4. PayersInv'
  <2>1. ASSUME NEW g \in Handlers, Paying(g)'
        PROVE  kind'[g] = "PAY" /\ payment'[target'[g]].status = "NONE"
    <3>1. g # h /\ Paying(g) /\ kind'[g] = kind[g] /\ target'[g] = target[g]
      BY <1>1, <1>3, <2>1
    <3>2. target[g] \in Payments /\ kind[g] = "PAY" /\ payment[target[g]].status = "NONE"
      BY <3>1, PayingTarget DEF TrailInv, PayersInv
    <3>3. ~(target[h] = target[g] /\ Paying(h))
      BY <3>1 DEF TrailInv, PayersInv
    <3>. QED
      BY <3>1, <3>2, <3>3
  <2>2. ASSUME NEW g \in Handlers, Added(g)' PROVE bill'[Payment[target'[g]].bill].status # "NONE"
    <3>1. Added(g) /\ target'[g] = target[g]
      BY <1>1, <1>3, <2>2
    <3>2. Payment[target[g]].bill \in Bills
      BY <3>1, PayingTarget, PlanTypes
    <3>. QED
      BY <3>1, <3>2 DEF TrailInv, PayersInv
  <2>. QED
    BY <1>1, <1>3, <2>1, <2>2 DEF TrailInv, PayersInv
<1>5. WipersInv'
  <2>1. ASSUME NEW g \in Handlers, pc'[g] = "reverse all"
        PROVE  /\ kind'[g] = "REVERSE_ALL"
               /\ PostedOn(target[g])' \subseteq listed'[g]
               /\ \A p \in listed'[g] : Payment[p].bill = target'[g]
               /\ \A f \in Handlers : Paying(f)' => Payment[target'[f]].bill # target'[g]
    <3>1. g # h /\ pc[g] = "reverse all" /\ UNCHANGED <<kind[g], target[g], listed[g]>>
      BY <1>1, <2>1
    <3>2. PostedOn(target[g])' \subseteq PostedOn(target[g])
      BY <3>1 DEF PostedOn
    <3>3. /\ kind[g] = "REVERSE_ALL" /\ PostedOn(target[g]) \subseteq listed[g]
          /\ \A p \in listed[g] : Payment[p].bill = target[g]
          /\ \A f \in Handlers : Paying(f) => Payment[target[f]].bill # target[g]
      BY <3>1 DEF TrailInv, WipersInv
    <3>4. \A f \in Handlers : Paying(f)' => Payment[target'[f]].bill # target'[g]
      BY <1>1, <1>3, <3>1, <3>3
    <3>. QED
      BY <3>1, <3>2, <3>3, <3>4
  <2>. QED
    BY <2>1 DEF WipersInv
<1>. QED
  BY <1>2, <1>4, <1>5 DEF TrailInv

LEMMA InsertKeepsTrail ==
    ASSUME PaymentsInv, TrailInv, NEW h \in Handlers, Insert(h)
    PROVE  TrailInv'
<1>1. pc'[h] = "idle" /\ \A g \in Handlers : g # h =>
           UNCHANGED <<pc[g], kind[g], target[g], number[g], listed[g]>>
  BY FinishFrame DEF Insert
<1>2. PICK p \in Payments : p = target[h]
  BY PayingTarget DEF Insert, Added
<1>3. /\ payment'[p].status = "POSTED" /\ payment'[p].bill = Payment[p].bill
      /\ \A q \in Payments : q # p => payment'[q] = payment[q]
      /\ UNCHANGED bill /\ bill[Payment[p].bill].status = "POSTED" /\ Paying(h) /\ Added(h)
  BY <1>2, Parts DEF Insert, CanInsert, Paying, Added
<1>4. RowsInv'
  BY <1>3 DEF TrailInv, RowsInv
<1>5. \A g \in Handlers : (Paying(g)' => g # h /\ Paying(g)) /\ (Added(g)' => g # h /\ Added(g))
  BY <1>1 DEF Paying, Added
<1>6. PayersInv'
  <2>1. ASSUME NEW g \in Handlers, Paying(g)'
        PROVE  kind'[g] = "PAY" /\ payment'[target'[g]].status = "NONE"
    <3>1. g # h /\ Paying(g) /\ kind'[g] = kind[g] /\ target'[g] = target[g]
      BY <1>1, <1>5, <2>1
    <3>2. target[g] \in Payments /\ kind[g] = "PAY" /\ payment[target[g]].status = "NONE"
      BY <3>1, PayingTarget DEF TrailInv, PayersInv
    <3>3. p # target[g]
      BY <1>2, <1>3, <3>1 DEF TrailInv, PayersInv
    <3>. QED
      BY <1>3, <3>1, <3>2, <3>3
  <2>. QED
    BY <1>1, <1>3, <1>5, <2>1 DEF TrailInv, PayersInv
<1>7. WipersInv'
  <2>1. ASSUME NEW g \in Handlers, pc'[g] = "reverse all"
        PROVE  /\ kind'[g] = "REVERSE_ALL"
               /\ PostedOn(target[g])' \subseteq listed'[g]
               /\ \A q \in listed'[g] : Payment[q].bill = target'[g]
               /\ \A f \in Handlers : Paying(f)' => Payment[target'[f]].bill # target'[g]
    <3>1. g # h /\ pc[g] = "reverse all" /\ UNCHANGED <<kind[g], target[g], listed[g]>>
      BY <1>1, <2>1
    <3>2. Payment[p].bill # target[g]
      BY <1>2, <1>3, <3>1 DEF TrailInv, WipersInv
    <3>3. PostedOn(target[g])' \subseteq PostedOn(target[g])
      BY <1>3, <3>1, <3>2 DEF PostedOn
    <3>. QED
      BY <1>1, <1>5, <3>1, <3>3 DEF TrailInv, WipersInv
  <2>. QED
    BY <2>1 DEF WipersInv
<1>. QED
  BY <1>4, <1>6, <1>7 DEF TrailInv

(* Pay and IssueNumber: the request goes on with the same payment.         *)
LEMMA GoOnKeepsTrail ==
    ASSUME PaymentsInv, TrailInv, NEW h \in Handlers, Pay(h) \/ IssueNumber(h)
    PROVE  TrailInv'
<1>1. PICK p \in Payments : p = target[h]
  BY PayingTarget DEF Pay, IssueNumber, Paying
<1>2. /\ UNCHANGED <<payment, kind, target, listed>> /\ Paying(h)
      /\ \E first \in {"issue", "insert"} : pc' = [pc EXCEPT ![h] = first]
  BY DEF Pay, IssueNumber, Paying, request, rows
<1>3. /\ \A b \in Bills : bill'[b].status = bill[b].status
      /\ bill[Payment[p].bill].status # "NONE"
  <2>1. CASE Pay(h)
    <3>1. \E n, st : bill' = Balance(Payment[p].bill, n, st)
      BY <1>1, <2>1 DEF Pay
    <3>. QED
      BY <1>1, <2>1, <3>1, BillRowsNext, PlanTypes DEF Pay
  <2>2. CASE IssueNumber(h)
    BY <1>1, <2>2 DEF IssueNumber, rows, TrailInv, PayersInv, Added
  <2>. QED
    BY <2>1, <2>2
<1>4. \A g \in Handlers :
        /\ Paying(g)' <=> Paying(g)
        /\ Added(g)' => Added(g) \/ g = h
        /\ pc'[g] = "reverse all" <=> pc[g] = "reverse all"
  BY <1>2, MoveFrame DEF Paying, Added
<1>5. RowsInv'
  BY <1>2, <1>3, PlanTypes DEF TrailInv, RowsInv
<1>6. PayersInv'
  <2>1. ASSUME NEW g \in Handlers, Added(g)' PROVE bill'[Payment[target'[g]].bill].status # "NONE"
    <3>1. target[g] \in Payments /\ Payment[target[g]].bill \in Bills
      BY <1>1, <1>4, <2>1, PayingTarget, PlanTypes
    <3>2. CASE g = h
      BY <1>1, <1>2, <1>3, <3>1, <3>2
    <3>3. CASE g # h
      BY <1>2, <1>3, <1>4, <2>1, <3>1, <3>3 DEF TrailInv, PayersInv
    <3>. QED
      BY <3>2, <3>3
  <2>. QED
    BY <1>2, <1>4, <2>1 DEF TrailInv, PayersInv
<1>7. WipersInv'
  BY <1>2, <1>4 DEF TrailInv, WipersInv, PostedOn
<1>. QED
  BY <1>5, <1>6, <1>7 DEF TrailInv

LEMMA StartKeepsTrail ==
    ASSUME {"WIPE", "BEHIND"} \cap Mishaps = {}, PaymentsInv, TrailInv, NEW h \in Handlers,
           Start(h)
    PROVE  TrailInv'
<1>. DEFINE Opened(k, d, found, first) ==
        /\ Open(h, k, d, found, first)
        /\ \/ /\ k = "PAY" /\ d \in Payments /\ first = "pay"
              /\ payment[d].status = "NONE" /\ \A g \in Handlers : target[g] # d
           \/ k = "REVERSE" /\ d \in Payments /\ first = "reverse"
           \/ /\ k = "REVERSE_ALL" /\ d \in Bills /\ first = "reverse all"
              /\ PostedOn(d) \subseteq found /\ found \subseteq MayList(d)
<1>0. \E k, d, found, first : Opened(k, d, found, first)
  <2>1. CASE \E d \in Payments : StartPay(h, d)
    <3>1. PICK d \in Payments : StartPay(h, d)
      BY <2>1
    <3>2. Opened("PAY", d, {}, "pay")
      BY <3>1 DEF StartPay
    <3>. HIDE DEF Opened
    <3>. QED
      BY <3>2
  <2>2. CASE \E d \in Payments : StartReverse(h, d)
    <3>1. PICK d \in Payments : StartReverse(h, d)
      BY <2>2
    <3>2. Opened("REVERSE", d, {}, "reverse")
      BY <3>1 DEF StartReverse
    <3>. HIDE DEF Opened
    <3>. QED
      BY <3>2
  <2>3. CASE \E d \in Bills : StartReverseAll(h, d)
    <3>1. PICK b \in Bills : StartReverseAll(h, b)
      BY <2>3
    <3>2. PICK found \in SUBSET MayList(b) :
              PostedOn(b) \subseteq found /\ Open(h, "REVERSE_ALL", b, found, "reverse all")
      BY <3>1 DEF StartReverseAll
    <3>3. found \subseteq MayList(b)
      OBVIOUS
    <3>4. Opened("REVERSE_ALL", b, found, "reverse all")
      BY <3>2, <3>3
    <3>. HIDE DEF Opened
    <3>. QED
      BY <3>4
  <2>. QED
    BY <2>1, <2>2, <2>3 DEF Start
<1>1. PICK k, d, found, first : Opened(k, d, found, first)
  <2>. HIDE DEF Opened
  <2>. QED
    BY <1>0
<1>2. /\ pc[h] = "idle" /\ Expected(k, d) /\ UNCHANGED <<bill, payment>>
      /\ pc'[h] = first /\ kind'[h] = k /\ target'[h] = d /\ listed'[h] = found
      /\ \A g \in Handlers : g # h => UNCHANGED <<pc[g], kind[g], target[g], listed[g]>>
  BY <1>1, Parts DEF Open, rows, HandlerTypes
<1>3. \A g \in Handlers :
        /\ Paying(g)' => (Paying(g) /\ g # h) \/ (g = h /\ k = "PAY")
        /\ Added(g)' => Added(g) /\ g # h
  <2>1. ASSUME NEW g \in Handlers, g # h PROVE pc'[g] = pc[g]
    BY <1>2, <2>1
  <2>2. /\ pc'[h] \notin {"issue", "insert"}
        /\ pc'[h] = "pay" => k = "PAY"
    BY <1>1, <1>2
  <2>. QED
    BY <2>1, <2>2 DEF Paying, Added
<1>4. RowsInv'
  <2>1. UNCHANGED <<bill, payment>>
    BY <1>2
  <2>. QED
    BY <2>1 DEF TrailInv, RowsInv
<1>5. PayersInv'
  <2>1. ASSUME NEW g \in Handlers, Paying(g)'
        PROVE  kind'[g] = "PAY" /\ payment'[target'[g]].status = "NONE"
    BY <1>1, <1>2, <1>3, <2>1 DEF TrailInv, PayersInv
  <2>2. ASSUME NEW f \in Handlers, NEW g \in Handlers, Paying(f)', Paying(g)',
               target'[f] = target'[g], f # g
        PROVE  FALSE
    <3>1. CASE f # h /\ g # h
      BY <1>2, <1>3, <2>2, <3>1 DEF TrailInv, PayersInv
    <3>2. CASE f = h
      BY <1>1, <1>2, <1>3, <2>2, <3>2
    <3>3. CASE g = h
      BY <1>1, <1>2, <1>3, <2>2, <3>3
    <3>. QED
      BY <3>1, <3>2, <3>3
  <2>3. ASSUME NEW g \in Handlers, Added(g)' PROVE bill'[Payment[target'[g]].bill].status # "NONE"
    BY <1>2, <1>3, <2>3 DEF TrailInv, PayersInv
  <2>. QED
    BY <2>1, <2>2, <2>3 DEF PayersInv
<1>6. ASSUME NEW g \in Handlers, NEW f \in Handlers, pc'[g] = "reverse all", Paying(f)'
      PROVE  Payment[target'[f]].bill # target'[g]
  <2>1. CASE f # h /\ g # h
    BY <1>2, <1>3, <1>6, <2>1 DEF TrailInv, WipersInv
  <2>2. CASE f = h
    <3>1. g # h /\ k = "PAY" /\ pc[g] = "reverse all"
      BY <1>1, <1>2, <1>3, <1>6, <2>2
    <3>2. kind[g] = "REVERSE_ALL" /\ Active(g)
      BY <3>1 DEF TrailInv, WipersInv, Active
    <3>. QED
      BY <1>2, <2>2, <3>1, <3>2 DEF Expected, Crossing, BillOf
  <2>3. CASE g = h /\ f # h
    <3>1. k = "REVERSE_ALL" /\ Paying(f)
      BY <1>1, <1>2, <1>3, <1>6, <2>3
    <3>2. kind[f] = "PAY" /\ Active(f)
      BY <3>1 DEF TrailInv, PayersInv, Active, Paying
    <3>. QED
      BY <1>2, <2>3, <3>1, <3>2 DEF Expected, Crossing, BillOf
  <2>. QED
    BY <2>1, <2>2, <2>3
<1>7. ASSUME NEW g \in Handlers, pc'[g] = "reverse all"
      PROVE  /\ kind'[g] = "REVERSE_ALL"
             /\ PostedOn(target[g])' \subseteq listed'[g]
             /\ \A p \in listed'[g] : Payment[p].bill = target'[g]
  <2>1. PostedOn(target[g])' = {p \in Payments : payment[p].bill = target'[g]
                                                 /\ payment[p].status = "POSTED"}
    BY <1>2 DEF PostedOn
  <2>2. CASE g # h
    BY <1>2, <1>7, <2>1, <2>2 DEF TrailInv, WipersInv, PostedOn
  <2>3. CASE g = h
    <3>1. k = "REVERSE_ALL" /\ d \in Bills /\ PostedOn(d) \subseteq found
              /\ found \subseteq MayList(d)
      BY <1>1, <1>2, <1>7, <2>3
    <3>2. \A p \in found : Payment[p].bill = d
      BY <3>1 DEF MayList
    <3>. QED
      BY <1>2, <2>1, <2>3, <3>1, <3>2 DEF PostedOn
  <2>. QED
    BY <2>2, <2>3
<1>. QED
  BY <1>4, <1>5, <1>6, <1>7 DEF TrailInv, WipersInv

LEMMA BillsKeepTrail ==
    ASSUME "REPOST" \notin Mishaps, PaymentsInv, TrailInv,
           NEW b \in Bills, PostBill(b) \/ DeleteBill(b)
    PROVE  TrailInv'
<1>1. UNCHANGED <<pc, kind, target, listed>>
  BY DEF PostBill, DeleteBill, request
<1>2. /\ \A i \in Bills : i # b => bill'[i] = bill[i]
      /\ bill'[b].status # "NONE"
      /\ \/ bill[b].status = "NONE" /\ bill'[b].status = "POSTED" /\ UNCHANGED payment
         \/ bill[b].status = "POSTED" /\ bill'[b].status = "DELETED" /\ DeleteBill(b)
  BY Parts DEF PostBill, DeleteBill, BillsInv, Unpaid
<1>3. \A p \in Payments :
        /\ payment'[p].status = payment[p].status
        /\ \/ payment'[p].bill = payment[p].bill
           \/ /\ payment[p].bill = b /\ payment'[p].bill = NoBill
              /\ bill'[b].status = "DELETED"
  BY <1>2, Parts DEF DeleteBill, PaymentRows
<1>4. RowsInv'
  <2>1. ASSUME NEW p \in Payments PROVE payment'[p].bill \in {Payment[p].bill, NoBill}
    BY <1>3 DEF TrailInv, RowsInv
  <2>2. ASSUME NEW p \in Payments, payment'[p].status = "POSTED"
        PROVE  \/ payment'[p].bill = Payment[p].bill /\ bill'[Payment[p].bill].status = "POSTED"
               \/ bill'[Payment[p].bill].status = "DELETED"
    <3>1. /\ Payment[p].bill \in Bills /\ payment[p].bill \in {Payment[p].bill, NoBill}
          /\ \/ payment[p].bill = Payment[p].bill /\ bill[Payment[p].bill].status = "POSTED"
             \/ bill[Payment[p].bill].status = "DELETED"
      BY <1>3, <2>2, PlanTypes DEF TrailInv, RowsInv
    <3>2. b # NoBill
      BY PaymentsAssumption
    <3>. QED
      BY <1>2, <1>3, <3>1, <3>2
  <2>. QED
    BY <2>1, <2>2 DEF RowsInv
<1>5. PayersInv'
  <2>1. ASSUME NEW g \in Handlers, Paying(g)'
        PROVE  kind'[g] = "PAY" /\ payment'[target'[g]].status = "NONE"
    <3>1. Paying(g) /\ target[g] \in Payments
      BY <1>1, <2>1, PayingTarget DEF Paying
    <3>. QED
      BY <1>1, <1>3, <3>1 DEF TrailInv, PayersInv
  <2>2. ASSUME NEW g \in Handlers, Added(g)' PROVE bill'[Payment[target'[g]].bill].status # "NONE"
    <3>1. Added(g) /\ target[g] \in Payments
      BY <1>1, <2>2, PayingTarget DEF Added
    <3>2. Payment[target[g]].bill \in Bills /\ bill[Payment[target[g]].bill].status # "NONE"
      BY <3>1, PlanTypes DEF TrailInv, PayersInv
    <3>. QED
      BY <1>1, <1>2, <3>2
  <2>. QED
    BY <1>1, <2>1, <2>2 DEF TrailInv, PayersInv, Paying
<1>6. WipersInv'
  <2>1. ASSUME NEW g \in Handlers, pc[g] = "reverse all"
        PROVE  {p \in Payments : payment'[p].bill = target[g] /\ payment'[p].status = "POSTED"}
                   \subseteq PostedOn(target[g])
    <3>1. target[g] \in Bills
      BY <2>1, PayingTarget
    <3>2. target[g] # NoBill
      BY <3>1, PaymentsAssumption
    <3>. QED
      BY <1>3, <3>2 DEF PostedOn
  <2>. QED
    BY <1>1, <2>1 DEF TrailInv, WipersInv, PostedOn, Paying
<1>. QED
  BY <1>4, <1>5, <1>6 DEF TrailInv

LEMMA TrailStep ==
    ASSUME {"WIPE", "BEHIND", "REPOST"} \cap Mishaps = {}
    PROVE  PaymentsInv /\ TrailInv /\ [Next]_vars => TrailInv'
<1>. SUFFICES ASSUME PaymentsInv, TrailInv, [Next]_vars PROVE TrailInv'
  OBVIOUS
<1>1. ASSUME NEW h \in Handlers, LeaveUnrecorded(h) PROVE TrailInv'
  <2>1. Finish(h) /\ UNCHANGED bill /\ Paying(h)
    BY <1>1 DEF LeaveUnrecorded, Paying
  <2>2. \A p \in Payments : /\ payment'[p].bill = payment[p].bill
                            /\ payment'[p].status # payment[p].status =>
                                   p = target[h] /\ payment'[p].status = "UNRECORDED"
    BY <1>1, Parts DEF LeaveUnrecorded, PaymentRows
  <2>. QED
    BY <2>1, <2>2, EndKeepsTrail
<1>2. ASSUME NEW h \in Handlers, Reverse(h) PROVE TrailInv'
  <2>1. PICK p \in Payments : p = target[h]
    BY <1>2, PayingTarget DEF Reverse
  <2>2. /\ Finish(h) /\ payment[p].status = "POSTED"
        /\ payment'[p].bill = payment[p].bill /\ payment'[p].status = "REVERSED"
        /\ \A q \in Payments : q # p => payment'[q] = payment[q]
    BY <1>2, <2>1, Parts DEF Reverse, StillPosted, PaymentRows
  <2>3. UNCHANGED bill \/ \E n, st : bill' = Balance(Payment[p].bill, n, st)
    BY <1>2, <2>1 DEF Reverse
  <2>4. \A b \in Bills : bill'[b].status = bill[b].status
    BY <2>3, BillRowsNext, PlanTypes
  <2>. QED
    BY <2>2, <2>4, EndKeepsTrail
<1>3. ASSUME NEW h \in Handlers, ReverseAll(h) PROVE TrailInv'
  <2>1. target[h] \in Bills
    BY <1>3, PayingTarget DEF ReverseAll
  <2>2. /\ Finish(h)
        /\ \A p \in Payments :
             /\ payment'[p].bill = payment[p].bill
             /\ payment'[p].status # payment[p].status =>
                    payment'[p].status = "REVERSED" /\ payment[p].status = "POSTED"
    BY <1>3, Parts DEF ReverseAll, StillPosted, PaymentRows
  <2>3. UNCHANGED bill \/ \E n, st : bill' = Balance(target[h], n, st)
    BY <1>3 DEF ReverseAll
  <2>4. \A b \in Bills : bill'[b].status = bill[b].status
    BY <2>1, <2>3, BillRowsNext
  <2>. QED
    BY <2>2, <2>4, EndKeepsTrail
<1>4. ASSUME NEW h \in Handlers, Fail(h) PROVE TrailInv'
  <2>1. Finish(h) /\ UNCHANGED <<bill, payment>>
    BY <1>4 DEF Fail, rows
  <2>. QED
    BY <2>1, EndKeepsTrail
<1>5. ASSUME UNCHANGED <<bill, payment, pc, kind, target, listed>> PROVE TrailInv'
  BY <1>5 DEF TrailInv, RowsInv, PayersInv, WipersInv, PostedOn, Paying, Added
<1>6. Restart \/ UNCHANGED vars => UNCHANGED <<bill, payment, pc, kind, target, listed>>
  BY DEF Restart, vars, rows, request
<1>. QED
  BY <1>1, <1>2, <1>3, <1>4, <1>5, <1>6, StartKeepsTrail, GoOnKeepsTrail, InsertKeepsTrail,
     BillsKeepTrail DEF Next, Step

LEMMA TrailInit == Init => TrailInv
  BY DEF Init, TrailInv, RowsInv, PayersInv, WipersInv, Paying, Added

-----------------------------------------------------------------------------
(* Adding the amounts up.                                                  *)

Explained(b) ==
    /\ Amount(PostedOn(b)) + Amount(UnderwayOn(b)) <= bill[b].paid
    /\ bill[b].paid <= Amount(PostedOn(b)) + Amount(Unrecorded(b))
SumsInv == \A b \in Bills : bill[b].status = "POSTED" => Explained(b)

LEMMA AmountFacts ==
    ASSUME NEW S \in SUBSET Payments
    PROVE  /\ Amount(S) \in Nat
           /\ \A p \in S : Amount(S) = Payment[p].amount + Amount(S \ {p})
           /\ \A p \in Payments \ S : Amount(S \cup {p}) = Payment[p].amount + Amount(S)
<1>. DEFINE f == [p \in Payments |-> Payment[p].amount]
<1>1. IsFiniteSet(S)
  BY PaymentsAssumption, FS_Subset
<1>2. \A p \in Payments : f[p] = Payment[p].amount /\ f[p] \in Nat
  BY PlanTypes
<1>3. Amount(S) \in Nat
  BY <1>1, <1>2, SumType DEF Amount
<1>4. ASSUME NEW p \in S PROVE Amount(S) = Payment[p].amount + Amount(S \ {p})
  <2>1. SumFunctionOnSet(f, S) = f[p] + SumFunctionOnSet(f, S \ {p})
    BY <1>1, <1>2, SumRemove
  <2>. QED
    BY <1>2, <2>1 DEF Amount
<1>5. ASSUME NEW p \in Payments \ S PROVE Amount(S \cup {p}) = Payment[p].amount + Amount(S)
  <2>1. \A q \in S \cup {p} : f[q] \in Nat
    BY <1>2
  <2>2. SumFunctionOnSet(f, S \cup {p}) = f[p] + SumFunctionOnSet(f, S)
    BY <1>1, <2>1, SumAdd
  <2>. QED
    BY <1>2, <2>2 DEF Amount
<1>. QED
  BY <1>3, <1>4, <1>5

LEMMA AmountOfNone == Amount({}) = 0
<1>1. IsFiniteSet({})
  BY FS_EmptySet
<1>. QED
  BY <1>1, SumStep DEF Amount

LEMMA SetTypes ==
    ASSUME NEW b
    PROVE  /\ PostedOn(b) \in SUBSET Payments /\ UnderwayOn(b) \in SUBSET Payments
           /\ Unrecorded(b) \in SUBSET Payments /\ PostedOn(b)' \in SUBSET Payments
           /\ UnderwayOn(b)' \in SUBSET Payments /\ Unrecorded(b)' \in SUBSET Payments
  BY DEF PostedOn, UnderwayOn, Unrecorded

(* What is to be shown after a step, in terms of the sets after it.        *)
LEMMA ExplainedNext ==
    ASSUME NEW b, Amount(PostedOn(b)') + Amount(UnderwayOn(b)') <= bill'[b].paid,
           bill'[b].paid <= Amount(PostedOn(b)') + Amount(Unrecorded(b)')
    PROVE  Explained(b)'
  BY DEF Explained, Amount

LEMMA SameExplained ==
    ASSUME NEW b, Explained(b), bill'[b].paid = bill[b].paid, PostedOn(b)' = PostedOn(b),
           UnderwayOn(b)' = UnderwayOn(b), Unrecorded(b)' = Unrecorded(b)
    PROVE  Explained(b)'
<1>1. Amount(PostedOn(b)') + Amount(UnderwayOn(b)') <= bill'[b].paid
  BY DEF Explained
<1>2. bill'[b].paid <= Amount(PostedOn(b)') + Amount(Unrecorded(b)')
  BY DEF Explained
<1>. QED
  BY <1>1, <1>2, ExplainedNext

LEMMA PaidType == ASSUME PaymentsInv, NEW b \in Bills PROVE bill[b].paid \in Nat
  BY Parts DEF BillsInv, BillRows

(* A payment that is neither added nor given up for lost by the step is    *)
(* where it was.                                                           *)
LEMMA SameUnderway ==
    ASSUME \A g \in Handlers : (Added(g)' <=> Added(g)) /\ (Added(g) => target'[g] = target[g])
    PROVE  \A p \in Payments : Underway(p)' <=> Underway(p)
  BY DEF Underway, Added

LEMMA EndedUnderway ==
    ASSUME PaymentsInv, NEW h \in Handlers, Finish(h), ~Added(h)
    PROVE  \A p \in Payments : Underway(p)' <=> Underway(p)
<1>1. pc'[h] = "idle" /\ \A g \in Handlers : g # h =>
           UNCHANGED <<pc[g], kind[g], target[g], number[g], listed[g]>>
  BY FinishFrame
<1>. QED
  BY <1>1, SameUnderway DEF Added

LEMMA LeftUnderway ==
    ASSUME PaymentsInv, TrailInv, NEW h \in Handlers, Finish(h), Added(h),
           NEW p \in Payments, p = target[h]
    PROVE  /\ Underway(p) /\ ~Underway(p)'
           /\ \A q \in Payments : q # p => (Underway(q)' <=> Underway(q))
<1>1. pc'[h] = "idle" /\ \A g \in Handlers : g # h =>
           UNCHANGED <<pc[g], kind[g], target[g], number[g], listed[g]>>
  BY FinishFrame
<1>2. \A g \in Handlers : Added(g) /\ target[g] = p => g = h
  BY PayingTarget DEF TrailInv, PayersInv
<1>3. \A g \in Handlers : Added(g)' <=> g # h /\ Added(g)
  BY <1>1 DEF Added
<1>. QED
  BY <1>1, <1>2, <1>3 DEF Underway, Added

(* Paying: the amount is added, and the payment is under way.              *)
LEMMA PayKeepsSums ==
    ASSUME PaymentsInv, TrailInv, SumsInv, NEW h \in Handlers, Pay(h)
    PROVE  SumsInv'
<1>1. PICK p \in Payments : p = target[h]
  BY PayingTarget DEF Pay, Paying
<1>. DEFINE b == Payment[p].bill
            n == bill[b].paid + Payment[p].amount
<1>2. b \in Bills /\ Payment[p].amount \in Nat
  BY PlanTypes
<1>3. UNCHANGED <<payment, target>> /\ bill[b].status = "POSTED" /\ pc' = [pc EXCEPT ![h] = "issue"]
      /\ \E st : bill' = Balance(b, n, st)
  BY <1>1 DEF Pay, request
<1>4. /\ bill'[b].paid = n
      /\ \A i \in Bills : bill'[i].status = bill[i].status
      /\ \A i \in Bills : i # b => bill'[i] = bill[i]
  BY <1>2, <1>3, BillRowsNext
<1>5. ~Added(h) /\ Added(h)' /\ Paying(h)
      /\ \A g \in Handlers : g # h => (Added(g)' <=> Added(g))
  BY <1>3, MoveFrame DEF Pay, Added, Paying
<1>6. ~Underway(p) /\ Underway(p)'
  <2>1. \A g \in Handlers : Added(g) => target[g] # p
    BY <1>1, <1>5, PayingTarget DEF TrailInv, PayersInv
  <2>. QED
    BY <1>1, <1>3, <1>5, <2>1 DEF Underway, Added
<1>7. \A q \in Payments : q # p => (Underway(q)' <=> Underway(q))
  BY <1>1, <1>3, <1>5 DEF Underway, Added
<1>8. payment[p].status = "NONE"
  BY <1>1, <1>5 DEF TrailInv, PayersInv
<1>9. ASSUME NEW i \in Bills, bill'[i].status = "POSTED" PROVE Explained(i)'
  <2>1. Explained(i) /\ PostedOn(i)' = PostedOn(i)
    BY <1>3, <1>4, <1>9 DEF SumsInv, PostedOn
  <2>2. CASE i # b
    <3>1. UnderwayOn(i)' = UnderwayOn(i)
      BY <1>7, <2>2 DEF UnderwayOn
    <3>2. Unrecorded(i)' = Unrecorded(i)
      BY <1>3, <1>7, <2>2 DEF Unrecorded
    <3>. QED
      BY <1>4, <2>1, <2>2, <3>1, <3>2, SameExplained
  <2>3. CASE i = b
    <3>1. UnderwayOn(i)' = UnderwayOn(i) \cup {p} /\ p \notin UnderwayOn(i)
      BY <1>6, <1>7, <2>3 DEF UnderwayOn
    <3>2. Unrecorded(i)' = Unrecorded(i) \cup {p} /\ p \notin Unrecorded(i)
      BY <1>3, <1>6, <1>7, <1>8, <2>3 DEF Unrecorded
    <3>3. /\ Amount(UnderwayOn(i)') = Payment[p].amount + Amount(UnderwayOn(i))
          /\ Amount(Unrecorded(i)') = Payment[p].amount + Amount(Unrecorded(i))
          /\ Amount(PostedOn(i)') = Amount(PostedOn(i))
      BY <2>1, <3>1, <3>2, SetTypes, AmountFacts
    <3>4. /\ Amount(PostedOn(i)) + Amount(UnderwayOn(i)) <= bill[i].paid
          /\ bill[i].paid <= Amount(PostedOn(i)) + Amount(Unrecorded(i))
      BY <2>1 DEF Explained
    <3>5. bill[i].paid \in Nat /\ bill'[i].paid = bill[i].paid + Payment[p].amount
      BY <1>4, <2>3, PaidType
    <3>6. Amount(PostedOn(i)) \in Nat /\ Amount(UnderwayOn(i)) \in Nat /\ Amount(Unrecorded(i)) \in Nat
      BY SetTypes, AmountFacts
    <3>7. /\ Amount(PostedOn(i)') + Amount(UnderwayOn(i)') <= bill'[i].paid
          /\ bill'[i].paid <= Amount(PostedOn(i)') + Amount(Unrecorded(i)')
      BY <1>2, <3>3, <3>4, <3>5, <3>6
    <3>. QED
      BY <3>7, ExplainedNext
  <2>. QED
    BY <2>2, <2>3
<1>. QED
  BY <1>9 DEF SumsInv

(* Writing the row: the payment goes from under way to posted.             *)
LEMMA InsertKeepsSums ==
    ASSUME PaymentsInv, TrailInv, SumsInv, NEW h \in Handlers, Insert(h)
    PROVE  SumsInv'
<1>1. PICK p \in Payments : p = target[h]
  BY PayingTarget DEF Insert, Added
<1>. DEFINE b == Payment[p].bill
<1>2. b \in Bills /\ Payment[p].amount \in Nat
  BY PlanTypes
<1>3. /\ payment'[p].status = "POSTED" /\ payment'[p].bill = b
      /\ \A q \in Payments : q # p => payment'[q] = payment[q]
      /\ UNCHANGED bill /\ Added(h) /\ Paying(h) /\ Finish(h)
  BY <1>1, Parts DEF Insert, Added, Paying
<1>4. /\ Underway(p) /\ ~Underway(p)'
      /\ \A q \in Payments : q # p => (Underway(q)' <=> Underway(q))
  BY <1>1, <1>3, LeftUnderway
<1>5. payment[p].status = "NONE"
  BY <1>1, <1>3 DEF TrailInv, PayersInv
<1>6. ASSUME NEW i \in Bills, bill'[i].status = "POSTED" PROVE Explained(i)'
  <2>1. Explained(i)
    BY <1>3, <1>6 DEF SumsInv
  <2>2. CASE i # b
    <3>1. PostedOn(i)' = PostedOn(i)
      BY <1>3, <1>5, <2>2 DEF PostedOn
    <3>2. UnderwayOn(i)' = UnderwayOn(i)
      BY <1>4, <2>2 DEF UnderwayOn
    <3>3. Unrecorded(i)' = Unrecorded(i)
      BY <1>3, <1>4, <2>2 DEF Unrecorded
    <3>. QED
      BY <1>3, <2>1, <3>1, <3>2, <3>3, SameExplained
  <2>3. CASE i = b
    <3>1. PostedOn(i)' = PostedOn(i) \cup {p} /\ p \notin PostedOn(i)
      BY <1>3, <1>5, <2>3 DEF PostedOn
    <3>2. UnderwayOn(i)' = UnderwayOn(i) \ {p} /\ p \in UnderwayOn(i)
      BY <1>4, <2>3 DEF UnderwayOn
    <3>3. Unrecorded(i)' = Unrecorded(i) \ {p} /\ p \in Unrecorded(i)
      BY <1>3, <1>4, <1>5, <2>3 DEF Unrecorded
    <3>4. /\ Amount(PostedOn(i)') = Payment[p].amount + Amount(PostedOn(i))
          /\ Amount(UnderwayOn(i)) = Payment[p].amount + Amount(UnderwayOn(i)')
          /\ Amount(Unrecorded(i)) = Payment[p].amount + Amount(Unrecorded(i)')
      BY <3>1, <3>2, <3>3, SetTypes, AmountFacts
    <3>5. /\ Amount(PostedOn(i)) + Amount(UnderwayOn(i)) <= bill[i].paid
          /\ bill[i].paid <= Amount(PostedOn(i)) + Amount(Unrecorded(i))
      BY <2>1 DEF Explained
    <3>6. /\ Amount(PostedOn(i)) \in Nat /\ Amount(UnderwayOn(i)') \in Nat
          /\ Amount(Unrecorded(i)') \in Nat /\ bill[i].paid \in Nat
      BY SetTypes, AmountFacts, PaidType
    <3>7. /\ Amount(PostedOn(i)') + Amount(UnderwayOn(i)') <= bill[i].paid
          /\ bill[i].paid <= Amount(PostedOn(i)') + Amount(Unrecorded(i)')
      BY <1>2, <3>4, <3>5, <3>6
    <3>. QED
      BY <1>3, <3>7, ExplainedNext
  <2>. QED
    BY <2>2, <2>3
<1>. QED
  BY <1>6 DEF SumsInv

(* The row cannot be written: what was under way is paid and unrecorded.   *)
LEMMA LeaveKeepsSums ==
    ASSUME PaymentsInv, TrailInv, SumsInv, NEW h \in Handlers, LeaveUnrecorded(h)
    PROVE  SumsInv'
<1>1. PICK p \in Payments : p = target[h]
  BY PayingTarget DEF LeaveUnrecorded, Added
<1>. DEFINE b == Payment[p].bill
<1>2. b \in Bills /\ Payment[p].amount \in Nat
  BY PlanTypes
<1>3. /\ payment'[p].status = "UNRECORDED"
      /\ \A q \in Payments : q # p => payment'[q] = payment[q]
      /\ UNCHANGED bill /\ Added(h) /\ Paying(h) /\ Finish(h)
  BY <1>1, Parts DEF LeaveUnrecorded, Added, Paying, PaymentRows
<1>4. /\ Underway(p) /\ ~Underway(p)'
      /\ \A q \in Payments : q # p => (Underway(q)' <=> Underway(q))
  BY <1>1, <1>3, LeftUnderway
<1>5. payment[p].status = "NONE"
  BY <1>1, <1>3 DEF TrailInv, PayersInv
<1>6. ASSUME NEW i \in Bills, bill'[i].status = "POSTED" PROVE Explained(i)'
  <2>1. Explained(i)
    BY <1>3, <1>6 DEF SumsInv
  <2>2. PostedOn(i)' = PostedOn(i)
    BY <1>3, <1>5 DEF PostedOn
  <2>3. Unrecorded(i)' = Unrecorded(i)
    BY <1>3, <1>4 DEF Unrecorded
  <2>4. CASE i # b
    <3>1. UnderwayOn(i)' = UnderwayOn(i)
      BY <1>4, <2>4 DEF UnderwayOn
    <3>. QED
      BY <1>3, <2>1, <2>2, <2>3, <3>1, SameExplained
  <2>5. CASE i = b
    <3>1. UnderwayOn(i)' = UnderwayOn(i) \ {p} /\ p \in UnderwayOn(i)
      BY <1>4, <2>5 DEF UnderwayOn
    <3>2. Amount(UnderwayOn(i)) = Payment[p].amount + Amount(UnderwayOn(i)')
      BY <3>1, SetTypes, AmountFacts
    <3>3. /\ Amount(PostedOn(i)) + Amount(UnderwayOn(i)) <= bill[i].paid
          /\ bill[i].paid <= Amount(PostedOn(i)) + Amount(Unrecorded(i))
      BY <2>1 DEF Explained
    <3>4. /\ Amount(PostedOn(i)) \in Nat /\ Amount(UnderwayOn(i)') \in Nat
          /\ bill[i].paid \in Nat
      BY SetTypes, AmountFacts, PaidType
    <3>5. /\ Amount(PostedOn(i)') + Amount(UnderwayOn(i)') <= bill[i].paid
          /\ bill[i].paid <= Amount(PostedOn(i)') + Amount(Unrecorded(i)')
      BY <1>2, <2>2, <2>3, <3>2, <3>3, <3>4
    <3>. QED
      BY <1>3, <3>5, ExplainedNext
  <2>. QED
    BY <2>4, <2>5
<1>. QED
  BY <1>6 DEF SumsInv

(* A reversal takes the amount of a posted payment back.                   *)
LEMMA ReverseKeepsSums ==
    ASSUME PaymentsInv, TrailInv, SumsInv, NEW h \in Handlers, Reverse(h)
    PROVE  SumsInv'
<1>1. PICK p \in Payments : p = target[h]
  BY PayingTarget DEF Reverse
<1>. DEFINE b == Payment[p].bill
            left == bill[b].paid - Payment[p].amount
<1>2. b \in Bills /\ Payment[p].amount \in Nat
  BY PlanTypes
<1>3. /\ payment[p].status = "POSTED"
      /\ payment'[p].status = "REVERSED" /\ payment'[p].bill = payment[p].bill
      /\ \A q \in Payments : q # p => payment'[q] = payment[q]
      /\ ~Added(h) /\ Finish(h)
  BY <1>1, Parts DEF Reverse, StillPosted, Added, PaymentRows
<1>4. \A q \in Payments : Underway(q)' <=> Underway(q)
  BY <1>3, EndedUnderway
<1>5. CASE bill[b].status = "POSTED"
  <2>1. p \in PostedOn(b)
    BY <1>3, <1>5 DEF PostedOn, TrailInv, RowsInv
  <2>2. \E st : bill' = Balance(b, AtLeastZero(left), st)
    BY <1>1, <1>5 DEF Reverse
  <2>3. /\ bill'[b].paid = AtLeastZero(left)
        /\ \A i \in Bills : bill'[i].status = bill[i].status
        /\ \A i \in Bills : i # b => bill'[i] = bill[i]
    BY <1>2, <2>2, BillRowsNext
  <2>4. ASSUME NEW i \in Bills, bill'[i].status = "POSTED" PROVE Explained(i)'
    <3>1. Explained(i)
      BY <2>3, <2>4 DEF SumsInv
    <3>2. UnderwayOn(i)' = UnderwayOn(i)
      BY <1>4 DEF UnderwayOn
    <3>3. Unrecorded(i)' = Unrecorded(i)
      BY <1>3, <1>4 DEF Unrecorded
    <3>4. CASE i # b
      <4>1. p \notin PostedOn(i)
        BY <2>1, <3>4 DEF PostedOn
      <4>2. PostedOn(i)' = PostedOn(i)
        BY <1>3, <4>1 DEF PostedOn
      <4>. QED
        BY <2>3, <3>1, <3>2, <3>3, <3>4, <4>2, SameExplained
    <3>5. CASE i = b
      <4>1. PostedOn(i)' = PostedOn(i) \ {p}
        BY <1>3, <3>5 DEF PostedOn
      <4>2. Amount(PostedOn(i)) = Payment[p].amount + Amount(PostedOn(i)')
        BY <2>1, <3>5, <4>1, SetTypes, AmountFacts
      <4>3. /\ Amount(PostedOn(i)) + Amount(UnderwayOn(i)) <= bill[i].paid
            /\ bill[i].paid <= Amount(PostedOn(i)) + Amount(Unrecorded(i))
        BY <3>1 DEF Explained
      <4>4. /\ Amount(PostedOn(i)') \in Nat /\ Amount(UnderwayOn(i)) \in Nat
            /\ Amount(Unrecorded(i)) \in Nat /\ bill[i].paid \in Nat
        BY SetTypes, AmountFacts, PaidType
      <4>5. bill'[i].paid = bill[i].paid - Payment[p].amount
        <5>1. left \in Int /\ left >= 0
          BY <1>2, <3>5, <4>2, <4>3, <4>4
        <5>. QED
          BY <2>3, <3>5, <5>1 DEF AtLeastZero
      <4>6. /\ Amount(PostedOn(i)') + Amount(UnderwayOn(i)') <= bill'[i].paid
            /\ bill'[i].paid <= Amount(PostedOn(i)') + Amount(Unrecorded(i)')
        BY <1>2, <3>2, <3>3, <4>2, <4>3, <4>4, <4>5
      <4>. QED
        BY <4>6, ExplainedNext
    <3>. QED
      BY <3>4, <3>5
  <2>. QED
    BY <2>4 DEF SumsInv
<1>6. CASE bill[b].status # "POSTED"
  <2>1. UNCHANGED bill
    BY <1>1, <1>6 DEF Reverse
  <2>2. ASSUME NEW i \in Bills, bill'[i].status = "POSTED" PROVE Explained(i)'
    <3>1. Explained(i) /\ i # b
      BY <1>6, <2>1, <2>2 DEF SumsInv
    <3>2. p \notin PostedOn(i)
      BY <3>1, PaymentsAssumption DEF PostedOn, TrailInv, RowsInv
    <3>3. PostedOn(i)' = PostedOn(i)
      BY <1>3, <3>2 DEF PostedOn
    <3>4. UnderwayOn(i)' = UnderwayOn(i)
      BY <1>4 DEF UnderwayOn
    <3>5. Unrecorded(i)' = Unrecorded(i)
      BY <1>3, <1>4 DEF Unrecorded
    <3>. QED
      BY <2>1, <3>1, <3>3, <3>4, <3>5, SameExplained
  <2>. QED
    BY <2>2 DEF SumsInv
<1>. QED
  BY <1>5, <1>6

(* All payments of a bill go and its balance is zero: none of its payments *)
(* is under way.                                                           *)
LEMMA ReverseAllKeepsSums ==
    ASSUME PaymentsInv, TrailInv, SumsInv, NEW h \in Handlers, ReverseAll(h)
    PROVE  SumsInv'
<1>1. PICK b \in Bills : b = target[h]
  BY PayingTarget DEF ReverseAll
<1>2. /\ pc[h] = "reverse all" /\ ~Added(h) /\ Finish(h)
      /\ \A p \in listed[h] : payment[p].status = "POSTED"
      /\ \A p \in Payments : payment'[p] = IF p \in listed[h]
             THEN [payment[p] EXCEPT !.status = "REVERSED"] ELSE payment[p]
  BY DEF ReverseAll, StillPosted, Added
<1>3. /\ listed[h] \subseteq Payments
      /\ PostedOn(b) \subseteq listed[h]
      /\ \A p \in listed[h] : Payment[p].bill = b
      /\ \A g \in Handlers : Paying(g) => Payment[target[g]].bill # b
  BY <1>1, <1>2, Parts DEF TrailInv, WipersInv, HandlerTypes
<1>4. \A q \in Payments : Underway(q)' <=> Underway(q)
  BY <1>2, EndedUnderway
<1>5. \A p \in Payments :
        /\ payment'[p].bill = payment[p].bill
        /\ payment'[p].status = IF p \in listed[h] THEN "REVERSED" ELSE payment[p].status
  BY <1>2, Parts DEF PaymentRows
<1>6. /\ \A i \in Bills : bill'[i].status = bill[i].status
      /\ \A i \in Bills : i # b => bill'[i] = bill[i]
      /\ bill[b].status = "POSTED" => bill'[b].paid = 0
  <2>1. CASE bill[b].status = "POSTED"
    <3>1. bill' = Balance(b, 0, "UNPAID")
      BY <1>1, <2>1 DEF ReverseAll
    <3>. QED
      BY <3>1, BillRowsNext
  <2>2. CASE bill[b].status # "POSTED"
    BY <1>1, <2>2 DEF ReverseAll
  <2>. QED
    BY <2>1, <2>2
<1>7. ASSUME NEW i \in Bills, bill'[i].status = "POSTED" PROVE Explained(i)'
  <2>1. Explained(i)
    BY <1>6, <1>7 DEF SumsInv
  <2>2. UnderwayOn(i)' = UnderwayOn(i)
    BY <1>4 DEF UnderwayOn
  <2>3. Unrecorded(i)' = Unrecorded(i)
    BY <1>2, <1>4, <1>5 DEF Unrecorded
  <2>4. CASE i # b
    <3>1. \A p \in listed[h] : payment[p].bill # i
      BY <1>3, <2>4, PaymentsAssumption DEF TrailInv, RowsInv
    <3>2. PostedOn(i)' = PostedOn(i)
      BY <1>5, <3>1 DEF PostedOn
    <3>. QED
      BY <1>6, <2>1, <2>2, <2>3, <2>4, <3>2, SameExplained
  <2>5. CASE i = b
    <3>1. PostedOn(i)' = {}
      BY <1>3, <1>5, <2>5 DEF PostedOn
    <3>2. UnderwayOn(i)' = {}
      BY <1>3, <2>2, <2>5 DEF UnderwayOn, Underway, Paying
    <3>3. bill'[i].paid = 0
      BY <1>6, <1>7, <2>5
    <3>4. Amount(Unrecorded(i)') \in Nat
      BY SetTypes, AmountFacts
    <3>5. /\ Amount(PostedOn(i)') + Amount(UnderwayOn(i)') <= bill'[i].paid
          /\ bill'[i].paid <= Amount(PostedOn(i)') + Amount(Unrecorded(i)')
      BY <3>1, <3>2, <3>3, <3>4, AmountOfNone
    <3>. QED
      BY <3>5, ExplainedNext
  <2>. QED
    BY <2>4, <2>5
<1>. QED
  BY <1>7 DEF SumsInv

(* A bill that is posted has no payments yet; one that is deleted has no   *)
(* balance to explain.                                                     *)
LEMMA BillsKeepSums ==
    ASSUME "REPOST" \notin Mishaps, PaymentsInv, TrailInv, SumsInv,
           NEW b \in Bills, PostBill(b) \/ DeleteBill(b)
    PROVE  SumsInv'
<1>1. UNCHANGED <<pc, target>>
  BY DEF PostBill, DeleteBill, request
<1>2. /\ \A i \in Bills : i # b => bill'[i] = bill[i]
      /\ bill'[b].status = "POSTED" =>
             bill[b].status = "NONE" /\ bill'[b].paid = 0 /\ UNCHANGED payment
  BY Parts DEF PostBill, DeleteBill, BillsInv, Unpaid
<1>3. \A p \in Payments :
        /\ payment'[p].status = payment[p].status
        /\ \/ payment'[p].bill = payment[p].bill
           \/ payment[p].bill = b /\ payment'[p].bill = NoBill
  BY Parts DEF PostBill, DeleteBill, PaymentRows
<1>4. \A q \in Payments : Underway(q)' <=> Underway(q)
  BY <1>1 DEF Underway
<1>5. ASSUME NEW i \in Bills, bill'[i].status = "POSTED" PROVE Explained(i)'
  <2>1. CASE i # b
    <3>1. Explained(i)
      BY <1>2, <1>5, <2>1 DEF SumsInv
    <3>2. PostedOn(i)' = PostedOn(i)
      BY <1>3, <2>1, PaymentsAssumption DEF PostedOn
    <3>3. UnderwayOn(i)' = UnderwayOn(i)
      BY <1>4 DEF UnderwayOn
    <3>4. Unrecorded(i)' = Unrecorded(i)
      BY <1>3, <1>4 DEF Unrecorded
    <3>. QED
      BY <1>2, <2>1, <3>1, <3>2, <3>3, <3>4, SameExplained
  <2>2. CASE i = b
    <3>1. bill[b].status = "NONE" /\ bill'[b].paid = 0 /\ UNCHANGED payment
      BY <1>2, <1>5, <2>2
    <3>2. PostedOn(i)' = {}
      BY <2>2, <3>1, PaymentsAssumption DEF PostedOn, TrailInv, RowsInv
    <3>3. UnderwayOn(i)' = {}
      BY <1>4, <2>2, <3>1 DEF UnderwayOn, Underway, TrailInv, PayersInv, Added
    <3>4. Amount(Unrecorded(i)') \in Nat
      BY SetTypes, AmountFacts
    <3>5. /\ Amount(PostedOn(i)') + Amount(UnderwayOn(i)') <= bill'[i].paid
          /\ bill'[i].paid <= Amount(PostedOn(i)') + Amount(Unrecorded(i)')
      BY <2>2, <3>1, <3>2, <3>3, <3>4, AmountOfNone
    <3>. QED
      BY <3>5, ExplainedNext
  <2>. QED
    BY <2>1, <2>2
<1>. QED
  BY <1>5 DEF SumsInv

LEMMA SumsStep ==
    ASSUME {"WIPE", "BEHIND", "REPOST"} \cap Mishaps = {}
    PROVE  PaymentsInv /\ TrailInv /\ SumsInv /\ [Next]_vars => SumsInv'
<1>. SUFFICES ASSUME PaymentsInv, TrailInv, SumsInv, [Next]_vars PROVE SumsInv'
  OBVIOUS
<1>1. ASSUME UNCHANGED <<bill, payment>>, \A q \in Payments : Underway(q)' <=> Underway(q)
      PROVE  SumsInv'
  <2>1. ASSUME NEW i \in Bills, bill'[i].status = "POSTED" PROVE Explained(i)'
    <3>1. Explained(i)
      BY <1>1, <2>1 DEF SumsInv
    <3>2. PostedOn(i)' = PostedOn(i)
      BY <1>1 DEF PostedOn
    <3>3. UnderwayOn(i)' = UnderwayOn(i)
      BY <1>1 DEF UnderwayOn
    <3>4. Unrecorded(i)' = Unrecorded(i)
      BY <1>1 DEF Unrecorded
    <3>. QED
      BY <1>1, <3>1, <3>2, <3>3, <3>4, SameExplained
  <2>. QED
    BY <2>1 DEF SumsInv
<1>2. ASSUME NEW h \in Handlers, Start(h) PROVE SumsInv'
  <2>1. PICK k, d, found, first :
          Open(h, k, d, found, first) /\ first \in {"pay", "reverse", "reverse all"}
    BY <1>2 DEF Start, StartPay, StartReverse, StartReverseAll
  <2>2. UNCHANGED <<bill, payment>>
    BY <2>1 DEF Open, rows
  <2>3. /\ pc[h] = "idle" /\ pc'[h] \notin {"issue", "insert"}
        /\ \A g \in Handlers : g # h => UNCHANGED <<pc[g], target[g]>>
    BY <2>1, Parts DEF Open, HandlerTypes
  <2>4. \A g \in Handlers : (Added(g)' <=> Added(g)) /\ (Added(g) => target'[g] = target[g])
    BY <2>3 DEF Added
  <2>. QED
    BY <1>1, <2>2, <2>4, SameUnderway
<1>3. ASSUME NEW h \in Handlers, Fail(h) PROVE SumsInv'
  <2>1. Finish(h) /\ UNCHANGED <<bill, payment>> /\ ~Added(h)
    BY <1>3 DEF Fail, rows, Added
  <2>. QED
    BY <1>1, <2>1, EndedUnderway
<1>4. ASSUME NEW h \in Handlers, IssueNumber(h) PROVE SumsInv'
  <2>1. UNCHANGED <<bill, payment, target>> /\ pc[h] = "issue" /\ pc' = [pc EXCEPT ![h] = "insert"]
    BY <1>4 DEF IssueNumber, rows
  <2>2. \A g \in Handlers : Added(g)' <=> Added(g)
    BY <2>1, MoveFrame DEF Added
  <2>. QED
    BY <1>1, <2>1, <2>2, SameUnderway
<1>5. ASSUME Restart \/ UNCHANGED vars PROVE SumsInv'
  <2>1. UNCHANGED <<bill, payment, pc, target>>
    BY <1>5 DEF Restart, vars, rows, request
  <2>2. \A q \in Payments : Underway(q)' <=> Underway(q)
    BY <2>1 DEF Underway
  <2>. QED
    BY <1>1, <2>1, <2>2
<1>. QED
  BY <1>2, <1>3, <1>4, <1>5, PayKeepsSums, InsertKeepsSums, LeaveKeepsSums, ReverseKeepsSums,
     ReverseAllKeepsSums, BillsKeepSums DEF Next, Step

(* Where no client reverses all payments of a bill while another pays it   *)
(* or while the mirror lacks one of them, and no bill is posted twice, the *)
(* balance of a bill is what its posted payments add up to, and at most    *)
(* those paid whose row is not (or not yet) written, however payments,     *)
(* reversals, failures and deletions overlap.                              *)
THEOREM BalanceIsExplained ==
    ASSUME {"WIPE", "BEHIND", "REPOST"} \cap Mishaps = {} PROVE Spec => []BalanceExplained
<1>1. Init => SumsInv
  BY DEF Init, SumsInv, Unpaid
<1>2. PaymentsInv /\ TrailInv /\ [Next]_vars => TrailInv'
  BY TrailStep
<1>3. PaymentsInv /\ TrailInv /\ SumsInv /\ [Next]_vars => SumsInv'
  BY SumsStep
<1>4. PaymentsInv /\ SumsInv => BalanceExplained
  <2>. SUFFICES ASSUME PaymentsInv, SumsInv, NEW b \in Bills, bill[b].status = "POSTED"
       PROVE  /\ Amount(PostedOn(b)) <= bill[b].paid
              /\ bill[b].paid <= Amount(PostedOn(b)) + Amount(Unrecorded(b))
    BY DEF BalanceExplained
  <2>1. /\ Amount(PostedOn(b)) + Amount(UnderwayOn(b)) <= bill[b].paid
        /\ bill[b].paid <= Amount(PostedOn(b)) + Amount(Unrecorded(b))
    BY DEF SumsInv, Explained
  <2>2. Amount(PostedOn(b)) \in Nat /\ Amount(UnderwayOn(b)) \in Nat /\ bill[b].paid \in Nat
    BY SetTypes, AmountFacts, PaidType
  <2>. QED
    BY <2>1, <2>2
<1>. QED
  BY <1>1, <1>2, <1>3, <1>4, TrailInit, PaymentsStart, PaymentsStep, PTL DEF Spec
=============================================================================
