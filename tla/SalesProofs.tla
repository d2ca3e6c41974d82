----------------------------- MODULE SalesProofs -----------------------------
(***************************************************************************)
(* Theorems about Sales for every set of documents, branches, products and *)
(* handlers: its types; that stock never goes negative; that a void never  *)
(* overlooks a payment or a return, and none follows it; and that balances,*)
(* stock, ledger and serial register are those of the documents.           *)
(***************************************************************************)
EXTENDS SalesAudit, FiniteSetTheorems, TLAPS

(* What a handler works on at each point, and stock that is never negative.*)
Working(h) ==
    /\ pc[h] = "sell" => kind[h] = "SELL" /\ target[h] \in Invoices
    /\ pc[h] \in {"lock", "void"} => kind[h] = "VOID" /\ target[h] \in Invoices
    /\ pc[h] = "check" => kind[h] \in {"RETURN", "APPROVE"} /\ target[h] \in Returns
    /\ pc[h] \in {"insert", "post"} =>
          \/ kind[h] = "RETURN" /\ target[h] \in Returns
          \/ kind[h] = "PAY" /\ target[h] \in Payments
    /\ pc[h] = "approve" => kind[h] = "APPROVE" /\ target[h] \in Returns
    /\ pc[h] = "unreturn" => kind[h] = "UNRETURN" /\ target[h] \in Returns
    /\ pc[h] = "reverse" => kind[h] = "REVERSE" /\ target[h] \in Payments

TypeInv == /\ TypeOK
           /\ stock \in [Branches -> Quantities]
           /\ \A h \in Handlers : Working(h)

-----------------------------------------------------------------------------
(* Opening, moving on and finishing a request keep the handlers' types.    *)

LEMMA OpenTypes ==
    ASSUME TypeInv, NEW h \in Handlers, NEW k, NEW d, NEW st, NEW first,
           Open(h, k, d, st, first), first \in PCs, k \in Kinds, d \in Documents,
           st \in ReturnStatuses,
           \/ first = "sell" /\ k = "SELL" /\ d \in Invoices
           \/ first = "lock" /\ k = "VOID" /\ d \in Invoices
           \/ first = "check" /\ k \in {"RETURN", "APPROVE"} /\ d \in Returns
           \/ first = "unreturn" /\ k = "UNRETURN" /\ d \in Returns
           \/ first = "insert" /\ k = "PAY" /\ d \in Payments
           \/ first = "reverse" /\ k = "REVERSE" /\ d \in Payments
    PROVE  TypeInv'
<1>1. TypeOK' /\ (stock \in [Branches -> Quantities])'
  BY DEF Open, TypeInv, TypeOK, tables
<1>2. ASSUME NEW g \in Handlers PROVE Working(g)'
  <2>1. CASE g = h
    BY <2>1 DEF Open, TypeInv, TypeOK, Working
  <2>2. CASE g # h
    BY <2>2 DEF Open, TypeInv, TypeOK, Working
  <2>. QED
    BY <2>1, <2>2
<1>. QED
  BY <1>1, <1>2 DEF TypeInv

LEMMA FinishTypes ==
    ASSUME TypeInv, NEW h \in Handlers, Finish(h)
    PROVE  /\ pc' \in [Handlers -> PCs]
           /\ kind' \in [Handlers -> Kinds \cup {"NONE"}]
           /\ target' \in [Handlers -> Documents \cup {NoDocument}]
           /\ seen' \in [Handlers -> ReturnStatuses]
           /\ \A g \in Handlers : Working(g)'
<1>1. /\ pc' \in [Handlers -> PCs]
      /\ kind' \in [Handlers -> Kinds \cup {"NONE"}]
      /\ target' \in [Handlers -> Documents \cup {NoDocument}]
      /\ seen' \in [Handlers -> ReturnStatuses]
  BY DEF Finish, TypeInv, TypeOK, PCs, ReturnStatuses
<1>2. ASSUME NEW g \in Handlers PROVE Working(g)'
  <2>1. CASE g = h
    BY <2>1 DEF Finish, TypeInv, TypeOK, Working
  <2>2. CASE g # h
    BY <2>2 DEF Finish, TypeInv, TypeOK, Working
  <2>. QED
    BY <2>1, <2>2
<1>. QED
  BY <1>1, <1>2

LEMMA ProceedTypes ==
    ASSUME TypeInv, NEW h \in Handlers, NEW p, Proceed(h, p),
           \/ pc[h] = "lock" /\ p = "void"
           \/ pc[h] = "check" /\ kind[h] = "RETURN" /\ p = "insert"
           \/ pc[h] = "check" /\ kind[h] = "APPROVE" /\ p = "approve"
           \/ pc[h] = "insert" /\ p = "post"
    PROVE  TypeInv'
<1>1. p \in PCs
  BY DEF PCs
<1>2. TypeOK' /\ (stock \in [Branches -> Quantities])'
  BY <1>1 DEF Proceed, TypeInv, TypeOK, tables, request
<1>3. ASSUME NEW g \in Handlers PROVE Working(g)'
  <2>1. CASE g = h
    BY <2>1 DEF Proceed, TypeInv, TypeOK, Working, request
  <2>2. CASE g # h
    BY <2>2 DEF Proceed, TypeInv, TypeOK, Working, request
  <2>. QED
    BY <2>1, <2>2
<1>. QED
  BY <1>2, <1>3 DEF TypeInv

LEMMA RefuseTypes == ASSUME TypeInv, NEW h \in Handlers, Refuse(h) PROVE TypeInv'
<1>1. Finish(h) /\ UNCHANGED tables
  BY DEF Refuse
<1>. QED
  BY <1>1, FinishTypes DEF TypeInv, TypeOK, tables

-----------------------------------------------------------------------------
(* Movements of stock and ledger, and balances.                            *)

LEMMA MovedTypes ==
    ASSUME NEW f \in [Branches -> [Products -> Int]], NEW b \in Branches,
           NEW units \in Quantities, NEW sign \in {1, -1}
    PROVE  Moved(f, b, units, sign) \in [Branches -> [Products -> Int]]
<1>1. [p \in Products |-> f[b][p] + sign * units[p]] \in [Products -> Int]
  BY DEF Quantities
<1>. QED
  BY <1>1 DEF Moved

LEMMA BroughtTypes ==
    ASSUME NEW f \in [Branches -> Quantities], NEW b \in Branches, NEW units \in Quantities
    PROVE  Moved(f, b, units, 1) \in [Branches -> Quantities]
<1>1. [p \in Products |-> f[b][p] + 1 * units[p]] \in Quantities
  BY DEF Quantities
<1>. QED
  BY <1>1 DEF Moved

LEMMA TakenTypes ==
    ASSUME NEW f \in [Branches -> Quantities], NEW b \in Branches, NEW units \in Quantities,
           \A p \in Products : f[b][p] >= units[p]
    PROVE  Moved(f, b, units, -1) \in [Branches -> Quantities]
<1>1. [p \in Products |-> f[b][p] + (-1) * units[p]] \in Quantities
  BY DEF Quantities
<1>. QED
  BY <1>1 DEF Moved

LEMMA StockTypes == stock \in [Branches -> Quantities] => stock \in [Branches -> [Products -> Int]]
  BY DEF Quantities

LEMMA PlanTypes ==
    /\ \A i \in Invoices : /\ Sale[i].branch \in Branches /\ Sale[i].units \in Quantities
                           /\ Sale[i].paid \in Nat /\ Sale[i].total \in Nat
    /\ \A r \in Returns : /\ Credit[r].branch \in Branches /\ Credit[r].units \in Quantities
                          /\ Credit[r].invoice \in Invoices
                          /\ Credit[r].restockable \in BOOLEAN
    /\ \A p \in Payments : Receipt[p].invoice \in Invoices /\ Receipt[p].amount \in Nat
  BY SalesAssumption

LEMMA PayStatusTypes ==
    ASSUME NEW i, NEW n PROVE PayStatus(i, n) \in {"UNPAID", "PARTIAL", "PAID"}
  BY DEF PayStatus

InvoiceRows == [status : {"NONE", "POSTED", "CANCELLED"},
                paid : Nat, payStatus : {"UNPAID", "PARTIAL", "PAID"}]

LEMMA BalanceTypes ==
    ASSUME NEW f \in [Invoices -> InvoiceRows], NEW i \in Invoices, NEW n \in Nat,
           NEW st \in {"UNPAID", "PARTIAL", "PAID"}
    PROVE  [f EXCEPT ![i].paid = n, ![i].payStatus = st] \in [Invoices -> InvoiceRows]
<1>1. [f EXCEPT ![i].paid = n] \in [Invoices -> InvoiceRows]
  BY DEF InvoiceRows
<1>2. ASSUME NEW e \in [Invoices -> InvoiceRows]
      PROVE  [e EXCEPT ![i].payStatus = st] \in [Invoices -> InvoiceRows]
  BY DEF InvoiceRows
<1>. QED
  BY <1>1, <1>2

LEMMA StatusTypes ==
    ASSUME NEW f \in [Invoices -> InvoiceRows], NEW i \in Invoices,
           NEW st \in {"NONE", "POSTED", "CANCELLED"}
    PROVE  [f EXCEPT ![i].status = st] \in [Invoices -> InvoiceRows]
  BY DEF InvoiceRows

-----------------------------------------------------------------------------
(* Each action keeps the types.                                            *)

LEMMA SellTypes == ASSUME TypeInv, NEW h \in Handlers, Sell(h) PROVE TypeInv'
<1>. DEFINE i == target[h]
<1>1. i \in Invoices
  BY DEF Sell, TypeInv, Working
<1>2. Finish(h)
  BY DEF Sell
<1>3. stock' \in [Branches -> Quantities]
  <2>1. \A p \in Products : stock[Sale[i].branch][p] >= Sale[i].units[p]
    BY DEF Sell, CanSell, Enough
  <2>. QED
    BY <1>1, <2>1, PlanTypes, TakenTypes DEF Sell, TypeInv
<1>4. ledger' \in [Branches -> [Products -> Int]]
  BY <1>1, PlanTypes, MovedTypes DEF Sell, TypeInv, TypeOK
<1>5. invoice' \in [Invoices -> [status : {"NONE", "POSTED", "CANCELLED"},
                                 paid : Nat, payStatus : {"UNPAID", "PARTIAL", "PAID"}]]
  BY <1>1, PlanTypes, PayStatusTypes DEF Sell, TypeInv, TypeOK
<1>6. serial' \in [Serials -> [status : {"IN_STOCK", "CUSTOMER_ASSIGNED", "SOLD"},
                               source : Invoices \cup {NoInvoice}]]
  BY <1>1 DEF Sell, TypeInv, TypeOK
<1>7. UNCHANGED <<ret, damage, payment>>
  BY DEF Sell
<1>. QED
  BY <1>2, <1>3, <1>4, <1>5, <1>6, <1>7, FinishTypes, StockTypes DEF TypeInv, TypeOK, Quantities

LEMMA VoidTypes == ASSUME TypeInv, NEW h \in Handlers, Void(h) PROVE TypeInv'
<1>. DEFINE i == target[h]
<1>1. i \in Invoices
  BY DEF Void, TypeInv, Working
<1>2. Finish(h)
  BY DEF Void
<1>3. stock' \in [Branches -> Quantities]
  BY <1>1, PlanTypes, BroughtTypes DEF Void, TypeInv
<1>4. ledger' \in [Branches -> [Products -> Int]]
  BY <1>1, PlanTypes, MovedTypes DEF Void, TypeInv, TypeOK
<1>5. invoice' \in [Invoices -> [status : {"NONE", "POSTED", "CANCELLED"},
                                 paid : Nat, payStatus : {"UNPAID", "PARTIAL", "PAID"}]]
  <2>1. invoice \in [Invoices -> InvoiceRows]
    BY DEF TypeInv, TypeOK, InvoiceRows
  <2>2. invoice' = [invoice EXCEPT ![i].status = "CANCELLED"]
    BY DEF Void
  <2>. QED
    BY <1>1, <2>1, <2>2, StatusTypes DEF InvoiceRows
<1>6. serial' \in [Serials -> [status : {"IN_STOCK", "CUSTOMER_ASSIGNED", "SOLD"},
                               source : Invoices \cup {NoInvoice}]]
  BY DEF Void, TypeInv, TypeOK
<1>7. UNCHANGED <<ret, damage, payment>>
  BY DEF Void
<1>. QED
  BY <1>2, <1>3, <1>4, <1>5, <1>6, <1>7, FinishTypes DEF TypeInv, TypeOK, Quantities

LEMMA SerialsToTypes ==
    ASSUME TypeInv, NEW r, NEW st \in {"IN_STOCK", "SOLD"}
    PROVE  SerialsTo(r, st) \in [Serials -> [status : {"IN_STOCK", "CUSTOMER_ASSIGNED", "SOLD"},
                                             source : Invoices \cup {NoInvoice}]]
  BY DEF SerialsTo, TypeInv, TypeOK

LEMMA ApplyReturnTypes ==
    ASSUME TypeInv, NEW r \in Returns, ApplyReturn(r)
    PROVE  /\ stock' \in [Branches -> Quantities]
           /\ ledger' \in [Branches -> [Products -> Int]]
           /\ damage' \in [Returns -> {"NONE", "IDENTIFIED", "CANCELLED"}]
           /\ serial' \in [Serials -> [status : {"IN_STOCK", "CUSTOMER_ASSIGNED", "SOLD"},
                                       source : Invoices \cup {NoInvoice}]]
<1>1. stock' \in [Branches -> Quantities]
  <2>1. Moved(stock, Credit[r].branch, Credit[r].units, 1) \in [Branches -> Quantities]
    BY PlanTypes, BroughtTypes DEF TypeInv
  <2>. QED
    BY <2>1 DEF ApplyReturn, TypeInv
<1>2. ledger' \in [Branches -> [Products -> Int]]
  BY PlanTypes, MovedTypes DEF ApplyReturn, TypeInv, TypeOK
<1>3. damage' \in [Returns -> {"NONE", "IDENTIFIED", "CANCELLED"}]
  BY DEF ApplyReturn, TypeInv, TypeOK
<1>. QED
  BY <1>1, <1>2, <1>3, SerialsToTypes DEF ApplyReturn

LEMMA PostReturnTypes == ASSUME TypeInv, NEW h \in Handlers, PostReturn(h) PROVE TypeInv'
<1>. DEFINE r == target[h]
<1>1. r \in Returns /\ Finish(h)
  BY DEF PostReturn, TypeInv, Working
<1>2. ret' \in [Returns -> ReturnStatuses] /\ UNCHANGED <<invoice, payment>>
  BY <1>1 DEF PostReturn, TypeInv, TypeOK, ReturnStatuses
<1>3. CASE Credit[r].draft
  BY <1>1, <1>2, <1>3, FinishTypes DEF PostReturn, TypeInv, TypeOK, Quantities
<1>4. CASE ~Credit[r].draft
  BY <1>1, <1>2, <1>4, FinishTypes, ApplyReturnTypes DEF PostReturn, TypeInv, TypeOK, Quantities
<1>. QED
  BY <1>3, <1>4

LEMMA ApproveTypes == ASSUME TypeInv, NEW h \in Handlers, Approve(h) PROVE TypeInv'
<1>1. target[h] \in Returns /\ Finish(h)
  BY DEF Approve, TypeInv, Working
<1>2. ret' \in [Returns -> ReturnStatuses] /\ UNCHANGED <<invoice, payment>>
  BY <1>1 DEF Approve, TypeInv, TypeOK, ReturnStatuses
<1>. QED
  BY <1>1, <1>2, FinishTypes, ApplyReturnTypes DEF Approve, TypeInv, TypeOK, Quantities

LEMMA UnreturnTypes == ASSUME TypeInv, NEW h \in Handlers, Unreturn(h) PROVE TypeInv'
<1>. DEFINE r == target[h]
            left == [p \in Products |->
                        IF stock[Credit[r].branch][p] >= Credit[r].units[p]
                        THEN stock[Credit[r].branch][p] - Credit[r].units[p]
                        ELSE stock[Credit[r].branch][p]]
<1>1. r \in Returns /\ Finish(h) /\ UNCHANGED <<invoice, payment, ledger>>
  BY DEF Unreturn, TypeInv, Working
<1>2. ret' \in [Returns -> ReturnStatuses]
  BY <1>1 DEF Unreturn, TypeInv, TypeOK, ReturnStatuses
<1>3. stock' \in [Branches -> Quantities]
  <2>1. left \in Quantities
    BY <1>1, PlanTypes DEF TypeInv, Quantities
  <2>2. [stock EXCEPT ![Credit[r].branch] = left] \in [Branches -> Quantities]
    BY <1>1, <2>1, PlanTypes DEF TypeInv
  <2>3. \/ stock' = stock
        \/ stock' = [stock EXCEPT ![Credit[r].branch] = left]
    BY <1>1, PlanTypes DEF Unreturn, TypeInv
  <2>. QED
    BY <2>2, <2>3 DEF TypeInv
<1>4. damage' \in [Returns -> {"NONE", "IDENTIFIED", "CANCELLED"}]
  BY <1>1 DEF Unreturn, TypeInv, TypeOK
<1>5. serial' \in [Serials -> [status : {"IN_STOCK", "CUSTOMER_ASSIGNED", "SOLD"},
                               source : Invoices \cup {NoInvoice}]]
  <2>1. serial' = serial \/ serial' = SerialsTo(r, "SOLD")
    BY DEF Unreturn
  <2>. QED
    BY <2>1, SerialsToTypes DEF TypeInv, TypeOK
<1>. QED
  BY <1>1, <1>2, <1>3, <1>4, <1>5, FinishTypes DEF TypeInv, TypeOK, Quantities

LEMMA PostPaymentTypes == ASSUME TypeInv, NEW h \in Handlers, PostPayment(h) PROVE TypeInv'
<1>. DEFINE p == target[h]
            i == Receipt[p].invoice
<1>1. p \in Payments /\ i \in Invoices /\ Finish(h)
  BY PlanTypes DEF PostPayment, TypeInv, Working
<1>2. invoice[i].paid + Receipt[p].amount \in Nat
  BY <1>1, PlanTypes DEF TypeInv, TypeOK
<1>3. invoice' \in [Invoices -> InvoiceRows]
  <2>1. invoice \in [Invoices -> InvoiceRows]
    BY DEF TypeInv, TypeOK, InvoiceRows
  <2>2. invoice' = [invoice EXCEPT
              ![i].paid = invoice[i].paid + Receipt[p].amount,
              ![i].payStatus = PayStatus(i, invoice[i].paid + Receipt[p].amount)]
    BY DEF PostPayment
  <2>. QED
    BY <1>1, <1>2, <2>1, <2>2, PayStatusTypes, BalanceTypes
<1>4. payment' \in [Payments -> {"NONE", "POSTED", "REVERSED"}]
  BY <1>1 DEF PostPayment, TypeInv, TypeOK
<1>5. UNCHANGED <<ret, damage, stock, ledger, serial>>
  BY DEF PostPayment
<1>. QED
  BY <1>1, <1>3, <1>4, <1>5, FinishTypes DEF TypeInv, TypeOK, InvoiceRows

LEMMA ReverseTypes == ASSUME TypeInv, NEW h \in Handlers, Reverse(h) PROVE TypeInv'
<1>. DEFINE p == target[h]
            i == Receipt[p].invoice
<1>1. p \in Payments /\ i \in Invoices /\ Finish(h)
  BY PlanTypes DEF Reverse, TypeInv, Working
<1>2. AtLeastZero(invoice[i].paid - Receipt[p].amount) \in Nat
  BY <1>1, PlanTypes DEF TypeInv, TypeOK, AtLeastZero
<1>3. invoice' \in [Invoices -> InvoiceRows]
  BY <1>1, <1>2, PayStatusTypes, BalanceTypes DEF Reverse, TypeInv, TypeOK, InvoiceRows
<1>4. payment' \in [Payments -> {"NONE", "POSTED", "REVERSED"}]
  BY <1>1 DEF Reverse, TypeInv, TypeOK
<1>5. UNCHANGED <<ret, damage, stock, ledger, serial>>
  BY DEF Reverse
<1>. QED
  BY <1>1, <1>3, <1>4, <1>5, FinishTypes DEF TypeInv, TypeOK, InvoiceRows

LEMMA StartTypes == ASSUME TypeInv, NEW h \in Handlers, Start(h) PROVE TypeInv'
<1>1. CASE \E i \in Invoices : StartSale(h, i) \/ StartVoid(h, i)
  <2>1. PICK i \in Invoices : \/ Open(h, "SELL", i, "NONE", "sell")
                              \/ Open(h, "VOID", i, "POSTED", "lock")
    BY <1>1 DEF StartSale, StartVoid
  <2>. QED
    BY <2>1, OpenTypes DEF Kinds, Documents, PCs, ReturnStatuses
<1>2. CASE \E r \in Returns :
                StartReturn(h, r) \/ StartApprove(h, r) \/ StartUnreturn(h, r)
  <2>1. PICK r \in Returns : \/ Open(h, "RETURN", r, "NONE", "check")
                             \/ Open(h, "APPROVE", r, "DRAFT", "check")
                             \/ \E st \in Past(r, ret[r]) : Open(h, "UNRETURN", r, st, "unreturn")
    BY <1>2 DEF StartReturn, StartApprove, StartUnreturn
  <2>2. \A st \in Past(r, ret[r]) : st \in ReturnStatuses
    BY DEF Past, ReturnStatuses, TypeInv, TypeOK
  <2>3. CASE \E st \in Past(r, ret[r]) : Open(h, "UNRETURN", r, st, "unreturn")
    BY <2>2, <2>3, OpenTypes DEF Kinds, Documents, PCs
  <2>. QED
    BY <2>1, <2>3, OpenTypes DEF Kinds, Documents, PCs, ReturnStatuses
<1>3. CASE \E p \in Payments : StartPay(h, p) \/ StartReverse(h, p)
  <2>1. PICK p \in Payments : \/ Open(h, "PAY", p, "NONE", "insert")
                              \/ Open(h, "REVERSE", p, "POSTED", "reverse")
    BY <1>3 DEF StartPay, StartReverse
  <2>. QED
    BY <2>1, OpenTypes DEF Kinds, Documents, PCs, ReturnStatuses
<1>. QED
  BY <1>1, <1>2, <1>3 DEF Start

LEMMA NextTypes == TypeInv /\ [Next]_vars => TypeInv'
<1>. SUFFICES ASSUME TypeInv, [Next]_vars PROVE TypeInv'
  OBVIOUS
<1>1. CASE UNCHANGED vars
  BY <1>1 DEF vars, tables, request, TypeInv, TypeOK, Working
<1>2. CASE Next
  <2>1. PICK h \in Handlers : Start(h) \/ Step(h) \/ Fail(h)
    BY <1>2 DEF Next
  <2>2. CASE Start(h)
    BY <2>2, StartTypes
  <2>3. CASE Refuse(h)
    BY <2>3, RefuseTypes
  <2>4. CASE LockInvoice(h) \/ Check(h) \/ Insert(h)
    <3>1. \/ pc[h] = "lock" /\ Proceed(h, "void")
          \/ /\ pc[h] = "check"
             /\ Proceed(h, IF kind[h] = "RETURN" THEN "insert" ELSE "approve")
          \/ pc[h] = "insert" /\ Proceed(h, "post")
      BY <2>4 DEF LockInvoice, Check, Insert
    <3>2. pc[h] = "check" => kind[h] \in {"RETURN", "APPROVE"}
      BY DEF TypeInv, Working
    <3>. QED
      BY <3>1, <3>2, ProceedTypes
  <2>5. CASE Sell(h) \/ Void(h) \/ PostReturn(h) \/ Approve(h) \/ Unreturn(h)
    BY <2>5, SellTypes, VoidTypes, PostReturnTypes, ApproveTypes, UnreturnTypes
  <2>6. CASE PostPayment(h) \/ Reverse(h)
    BY <2>6, PostPaymentTypes, ReverseTypes
  <2>7. Step(h) \/ Fail(h) => \/ Refuse(h)
                              \/ LockInvoice(h) \/ Check(h) \/ Insert(h)
                              \/ Sell(h) \/ Void(h) \/ PostReturn(h) \/ Approve(h) \/ Unreturn(h)
                              \/ PostPayment(h) \/ Reverse(h)
    BY DEF Step, Fail, RefuseSale, RefuseVoid, RefuseReturn, RefuseInsert,
           RefuseApprove, RefuseUnreturn, RefuseReverse
  <2>. QED
    BY <2>1, <2>2, <2>3, <2>4, <2>5, <2>6, <2>7
<1>. QED
  BY <1>1, <1>2

LEMMA InitTypes == Init => TypeInv
<1>. SUFFICES ASSUME Init PROVE TypeInv
  OBVIOUS
<1>1. TypeOK
  BY SalesAssumption DEF Init, TypeOK, Unposted, PCs, ReturnStatuses, Quantities
<1>2. stock \in [Branches -> Quantities]
  BY SalesAssumption DEF Init
<1>3. \A h \in Handlers : Working(h)
  BY DEF Init, Working
<1>. QED
  BY <1>1, <1>2, <1>3 DEF TypeInv

LEMMA TypesAlways == Spec => []TypeInv
  BY InitTypes, NextTypes, PTL DEF Spec

(* The types of TypeOK hold for every set of documents and handlers.       *)
THEOREM TypeCorrect == Spec => []TypeOK
<1>1. TypeInv => TypeOK
  BY DEF TypeInv
<1>. QED
  BY <1>1, TypesAlways, PTL

(* No branch ever has less than nothing of a product, however many sales,  *)
(* voids, returns and cancelled returns overlap.                           *)
THEOREM NeverNegative == Spec => []NoNegativeStock
<1>1. TypeInv => NoNegativeStock
  BY DEF TypeInv, Quantities, NoNegativeStock
<1>. QED
  BY <1>1, TypesAlways, PTL

-----------------------------------------------------------------------------
(* While a void holds the lock of an invoice nothing else has a share of   *)
(* it, and what the void has checked stays true.                           *)

VoidInv == \A h \in Handlers :
    pc[h] = "void" => Settled(target[h]) /\ ~Sharing(target[h])

LEMMA ActiveTargets ==
    ASSUME TypeInv, NEW h \in Handlers
    PROVE  /\ pc[h] = "void" => On(h) = target[h]
           /\ pc[h] = "post" /\ kind[h] = "RETURN" => On(h) = Credit[target[h]].invoice
           /\ pc[h] = "post" /\ kind[h] = "PAY" => On(h) = Receipt[target[h]].invoice
  BY DEF TypeInv, Working, On, InvoiceOf

LEMMA OpenVoid ==
    ASSUME TypeInv, VoidInv, NEW h \in Handlers, NEW k, NEW d, NEW st, NEW first,
           Open(h, k, d, st, first), first \notin {"void", "post"}
    PROVE  VoidInv'
<1>. SUFFICES ASSUME NEW g \in Handlers, (pc[g] = "void")'
              PROVE  (Settled(target[g]) /\ ~Sharing(target[g]))'
  BY DEF VoidInv
<1>1. g # h /\ pc[g] = "void" /\ target'[g] = target[g]
  BY DEF Open, TypeInv, TypeOK
<1>2. Settled(target[g])'
  BY <1>1 DEF VoidInv, Settled, Open, tables
<1>3. ASSUME NEW f \in Handlers, (pc[f] = "post")' PROVE pc[f] = "post" /\ On(f)' = On(f)
  BY <1>3 DEF Open, TypeInv, TypeOK, On
<1>4. ~Sharing(target[g])'
  BY <1>1, <1>3 DEF VoidInv, Sharing
<1>. QED
  BY <1>2, <1>4

(* A step that ends a request only frees locks.                            *)
LEMMA FinishVoid ==
    ASSUME TypeInv, VoidInv, NEW h \in Handlers, Finish(h),
           \A i : Settled(i) /\ ~Sharing(i) => Settled(i)'
    PROVE  VoidInv'
<1>. SUFFICES ASSUME NEW g \in Handlers, (pc[g] = "void")'
              PROVE  (Settled(target[g]) /\ ~Sharing(target[g]))'
  BY DEF VoidInv
<1>1. g # h /\ pc[g] = "void" /\ target'[g] = target[g]
  BY DEF Finish, TypeInv, TypeOK
<1>2. Settled(target[g])'
  <2>1. Settled(target[g]) /\ ~Sharing(target[g])
    BY <1>1 DEF VoidInv
  <2>. DEFINE i == target[g]
  <2>2. PICK j : j = i
    OBVIOUS
  <2>3. Settled(j)'
    BY <2>1, <2>2
  <2>. QED
    BY <1>1, <2>2, <2>3 DEF Settled
<1>3. ASSUME NEW f \in Handlers, (pc[f] = "post")' PROVE pc[f] = "post" /\ On(f)' = On(f)
  BY <1>3 DEF Finish, TypeInv, TypeOK, On
<1>4. ~Sharing(target[g])'
  BY <1>1, <1>3 DEF VoidInv, Sharing
<1>. QED
  BY <1>2, <1>4

LEMMA ProceedVoid ==
    ASSUME TypeInv, VoidInv, NEW h \in Handlers, NEW p, Proceed(h, p),
           p = "void" => /\ Settled(target[h])
                         /\ ~Sharing(target[h])
                         /\ pc[h] # "post",
           p = "post" => ~Voiding(On(h))
    PROVE  VoidInv'
<1>. SUFFICES ASSUME NEW g \in Handlers, (pc[g] = "void")'
              PROVE  (Settled(target[g]) /\ ~Sharing(target[g]))'
  BY DEF VoidInv
<1>1. /\ pc' = [pc EXCEPT ![h] = p] /\ pc \in [Handlers -> PCs]
      /\ UNCHANGED <<tables, request>>
  BY DEF Proceed, TypeInv, TypeOK
<1>2. target' = target /\ kind' = kind /\ Settled(target[g])' = Settled(target[g])
  BY <1>1 DEF tables, request, Settled
<1>3. \A f \in Handlers : On(f)' = On(f)
  BY <1>2 DEF On
<1>4. CASE g = h
  <2>1. p = "void" /\ Settled(target[h]) /\ ~Sharing(target[h])
    BY <1>1, <1>4
  <2>2. \A f \in Handlers : pc'[f] = "post" => pc[f] = "post"
    BY <1>1, <2>1
  <2>. QED
    BY <1>2, <1>3, <1>4, <2>1, <2>2 DEF Sharing
<1>5. CASE g # h
  <2>1. pc[g] = "void" /\ Settled(target[g]) /\ ~Sharing(target[g])
    BY <1>1, <1>5 DEF VoidInv
  <2>2. On(g) = target[g]
    BY <2>1, ActiveTargets
  <2>3. ASSUME NEW f \in Handlers, pc'[f] = "post" PROVE On(f) # target[g]
    <3>1. CASE f = h
      BY <1>1, <2>1, <2>2, <2>3, <3>1 DEF Voiding
    <3>2. CASE f # h
      BY <1>1, <2>1, <2>3, <3>2 DEF Sharing
    <3>. QED
      BY <3>1, <3>2
  <2>. QED
    BY <1>2, <1>3, <2>1, <2>3 DEF Sharing
<1>. QED
  BY <1>4, <1>5

LEMMA SettledKept ==
    ASSUME NEW i, Settled(i),
           \A r \in Returns : Credit[r].invoice = i /\ ret'[r] \in {"DRAFT", "POSTED"}
                               => ret[r] \in {"DRAFT", "POSTED"},
           \A p \in Payments : Receipt[p].invoice = i /\ payment'[p] = "POSTED"
                               => payment[p] = "POSTED"
    PROVE  Settled(i)'
  BY DEF Settled

(* A new return or payment is posted by a request with a share of the      *)
(* invoice's lock, an approval finds a draft: neither is of an invoice     *)
(* that a void has checked.                                                *)
LEMMA PostingVoid ==
    ASSUME TypeInv, VoidInv, NEW h \in Handlers,
           PostReturn(h) \/ PostPayment(h) \/ Approve(h)
    PROVE  VoidInv'
<1>1. Finish(h)
  BY DEF PostReturn, PostPayment, Approve
<1>2. ASSUME NEW i, Settled(i), ~Sharing(i) PROVE Settled(i)'
  <2>1. CASE PostReturn(h)
    <3>1. target[h] \in Returns /\ Credit[target[h]].invoice # i
      BY <1>2, <2>1, ActiveTargets DEF PostReturn, Sharing, TypeInv, Working
    <3>. QED
      BY <1>2, <2>1, <3>1, SettledKept DEF PostReturn, TypeInv, TypeOK
  <2>2. CASE PostPayment(h)
    <3>1. target[h] \in Payments /\ Receipt[target[h]].invoice # i
      BY <1>2, <2>2, ActiveTargets DEF PostPayment, Sharing, TypeInv, Working
    <3>. QED
      BY <1>2, <2>2, <3>1, SettledKept DEF PostPayment, TypeInv, TypeOK
  <2>3. CASE Approve(h)
    <3>1. ret[target[h]] = "DRAFT" /\ UNCHANGED payment
      BY <2>3 DEF Approve, Draft
    <3>2. \A r \in Returns : ret'[r] # ret[r] => r = target[h]
      BY <2>3 DEF Approve, TypeInv, TypeOK
    <3>. QED
      BY <1>2, <3>1, <3>2, SettledKept DEF Settled
  <2>. QED
    BY <2>1, <2>2, <2>3
<1>. QED
  BY <1>1, <1>2, FinishVoid

LEMMA OtherVoid ==
    ASSUME TypeInv, VoidInv, NEW h \in Handlers,
           Refuse(h) \/ Sell(h) \/ Void(h) \/ Unreturn(h) \/ Reverse(h)
    PROVE  VoidInv'
<1>1. Finish(h)
  BY DEF Refuse, Sell, Void, Unreturn, Reverse
<1>2. ASSUME NEW i, Settled(i) PROVE Settled(i)'
  <2>1. CASE UNCHANGED <<ret, payment>>
    BY <1>2, <2>1, SettledKept
  <2>2. CASE Unreturn(h)
    <3>1. UNCHANGED payment /\ \A r \in Returns : ret'[r] = ret[r] \/ ret'[r] = "CANCELLED"
      BY <2>2 DEF Unreturn, TypeInv, TypeOK
    <3>. QED
      BY <1>2, <3>1, SettledKept
  <2>3. CASE Reverse(h)
    <3>1. /\ UNCHANGED ret
          /\ \A p \in Payments : payment'[p] = payment[p] \/ payment'[p] = "REVERSED"
      BY <2>3 DEF Reverse, TypeInv, TypeOK
    <3>. QED
      BY <1>2, <3>1, SettledKept
  <2>4. Refuse(h) \/ Sell(h) \/ Void(h) => UNCHANGED <<ret, payment>>
    BY DEF Refuse, tables, Sell, Void
  <2>. QED
    BY <2>1, <2>2, <2>3, <2>4
<1>. QED
  BY <1>1, <1>2, FinishVoid

LEMMA NextVoid == TypeInv /\ VoidInv /\ [Next]_vars => VoidInv'
<1>. SUFFICES ASSUME TypeInv, VoidInv, [Next]_vars PROVE VoidInv'
  OBVIOUS
<1>1. CASE UNCHANGED vars
  BY <1>1 DEF vars, tables, request, VoidInv, Settled, Sharing, On
<1>2. CASE Next
  <2>1. PICK h \in Handlers : Start(h) \/ Step(h) \/ Fail(h)
    BY <1>2 DEF Next
  <2>2. CASE Start(h)
    <3>1. \E k, d, st : \E first \in {"sell", "lock", "check", "unreturn", "insert", "reverse"} :
             Open(h, k, d, st, first)
      BY <2>2 DEF Start, StartSale, StartVoid, StartReturn, StartApprove,
                  StartUnreturn, StartPay, StartReverse
    <3>. QED
      BY <3>1, OpenVoid
  <2>3. CASE LockInvoice(h)
    <3>1. Settled(target[h]) /\ ~Sharing(target[h])
      BY <2>3 DEF LockInvoice, Unlocked, Blocked, Settled
    <3>. QED
      BY <2>3, <3>1, ProceedVoid DEF LockInvoice
  <2>4. CASE Check(h)
    BY <2>4, ProceedVoid DEF Check
  <2>5. CASE Insert(h)
    BY <2>5, ProceedVoid DEF Insert
  <2>6. Step(h) \/ Fail(h) => \/ LockInvoice(h) \/ Check(h) \/ Insert(h)
                              \/ Refuse(h) \/ Sell(h) \/ Void(h) \/ Unreturn(h) \/ Reverse(h)
                              \/ PostReturn(h) \/ PostPayment(h) \/ Approve(h)
    BY DEF Step, Fail, RefuseSale, RefuseVoid, RefuseReturn, RefuseInsert,
           RefuseApprove, RefuseUnreturn, RefuseReverse
  <2>. QED
    BY <2>1, <2>2, <2>3, <2>4, <2>5, <2>6, PostingVoid, OtherVoid
<1>. QED
  BY <1>1, <1>2

(* Only a void turns a posted invoice into a cancelled one.                *)
LEMMA OnlyVoidCancels ==
    ASSUME TypeInv, Next, NEW i \in Invoices,
           invoice[i].status = "POSTED", invoice'[i].status = "CANCELLED"
    PROVE  \E h \in Handlers : Void(h) /\ target[h] = i
<1>1. PICK h \in Handlers : Start(h) \/ Step(h) \/ Fail(h)
  BY DEF Next
<1>2. invoice' # invoice
  OBVIOUS
<1>3. Start(h) \/ Fail(h) => invoice' = invoice
  BY DEF Start, StartSale, StartVoid, StartReturn, StartApprove, StartUnreturn,
         StartPay, StartReverse, Open, Fail, Refuse, tables
<1>4. Step(h) => Sell(h) \/ Void(h) \/ PostPayment(h) \/ Reverse(h) \/ invoice' = invoice
  BY DEF Step, RefuseSale, LockInvoice, RefuseVoid, Check, RefuseReturn, Insert,
         RefuseInsert, PostReturn, Approve, RefuseApprove, Unreturn, RefuseUnreturn,
         RefuseReverse, Refuse, Proceed, tables
<1>5. CASE Sell(h)
  <2>1. CASE i = target[h]
    BY <1>5, <2>1 DEF Sell, CanSell
  <2>2. CASE i # target[h]
    BY <1>5, <2>2 DEF Sell, TypeInv, TypeOK
  <2>. QED
    BY <2>1, <2>2
<1>6. CASE Void(h)
  <2>1. i = target[h]
    BY <1>6 DEF Void, TypeInv, TypeOK
  <2>. QED
    BY <1>6, <2>1
<1>7. CASE PostPayment(h) \/ Reverse(h)
  <2>1. invoice'[i].status = invoice[i].status
    BY <1>7 DEF PostPayment, Reverse, TypeInv, TypeOK
  <2>. QED
    BY <2>1
<1>. QED
  BY <1>1, <1>2, <1>3, <1>4, <1>5, <1>6, <1>7

(* A void never cancels an invoice that has a posted payment or a live     *)
(* return, whatever is posted, approved or reversed between its check and  *)
(* its update.                                                             *)
THEOREM VoidsClean == Spec => VoidsUnencumbered
<1>1. Init => VoidInv
  BY DEF Init, VoidInv
<1>2. ASSUME TypeInv, VoidInv, [Next]_vars
      PROVE  [\A i \in Invoices :
                 invoice[i].status = "POSTED" /\ invoice'[i].status = "CANCELLED"
                     => Settled(i) /\ Settled(i)']_vars
  <2>1. SUFFICES ASSUME Next, NEW i \in Invoices,
                        invoice[i].status = "POSTED", invoice'[i].status = "CANCELLED"
                 PROVE  Settled(i) /\ Settled(i)'
    BY <1>2
  <2>2. PICK h \in Handlers : Void(h) /\ target[h] = i
    BY <1>2, <2>1, OnlyVoidCancels
  <2>3. Settled(i)
    BY <1>2, <2>2 DEF Void, VoidInv
  <2>4. UNCHANGED <<ret, payment>>
    BY <2>2 DEF Void
  <2>. QED
    BY <2>3, <2>4, SettledKept
<1>. QED
  BY <1>1, <1>2, NextVoid, TypesAlways, PTL DEF Spec, VoidsUnencumbered

-----------------------------------------------------------------------------
(* What the open requests have in hand: the row each is about to write is  *)
(* as the request found it, and no two requests hold the same one.         *)

LEMMA NextCases ==
    ASSUME [Next]_vars
    PROVE  \/ UNCHANGED vars
           \/ \E h \in Handlers :
                 \/ Start(h) \/ Refuse(h) \/ LockInvoice(h) \/ Check(h) \/ Insert(h)
                 \/ Sell(h) \/ Void(h) \/ PostReturn(h) \/ Approve(h) \/ Unreturn(h)
                 \/ PostPayment(h) \/ Reverse(h)
  BY DEF Next, Step, Fail, RefuseSale, RefuseVoid, RefuseReturn, RefuseInsert,
         RefuseApprove, RefuseUnreturn, RefuseReverse

(* The steps that open a request, move it on or refuse it write no table.  *)
LEMMA QuietSteps ==
    ASSUME NEW h \in Handlers,
           Start(h) \/ Refuse(h) \/ LockInvoice(h) \/ Check(h) \/ Insert(h)
    PROVE  UNCHANGED tables
  BY DEF Start, StartSale, StartVoid, StartReturn, StartApprove, StartUnreturn,
         StartPay, StartReverse, Open, Refuse, LockInvoice, Check, Insert, Proceed

(* The target of a request that is at work.                                *)
LEMMA Targets ==
    ASSUME TypeInv, NEW h \in Handlers
    PROVE  /\ Sell(h) \/ Void(h) => target[h] \in Invoices
           /\ PostReturn(h) \/ Approve(h) \/ Unreturn(h) =>
                 target[h] \in Returns /\ Credit[target[h]].invoice \in Invoices
           /\ PostPayment(h) \/ Reverse(h) =>
                 target[h] \in Payments /\ Receipt[target[h]].invoice \in Invoices
  BY PlanTypes DEF Sell, Void, PostReturn, Approve, Unreturn, PostPayment, Reverse,
                   TypeInv, Working

(* An invoice's status goes from NONE to POSTED to CANCELLED.              *)
LEMMA StatusSteps ==
    ASSUME TypeInv, [Next]_vars, NEW i \in Invoices, invoice'[i].status # invoice[i].status
    PROVE  \E h \in Handlers : /\ target[h] = i
                               /\ \/ /\ Sell(h) /\ invoice[i].status = "NONE"
                                     /\ invoice'[i].status = "POSTED"
                                  \/ Void(h) /\ invoice'[i].status = "CANCELLED"
<1>1. invoice' # invoice
  OBVIOUS
<1>2. PICK h \in Handlers :
          \/ Start(h) \/ Refuse(h) \/ LockInvoice(h) \/ Check(h) \/ Insert(h)
          \/ Sell(h) \/ Void(h) \/ PostReturn(h) \/ Approve(h) \/ Unreturn(h)
          \/ PostPayment(h) \/ Reverse(h)
  BY <1>1, NextCases DEF vars, tables
<1>3. CASE Sell(h)
  BY <1>3, Targets DEF Sell, CanSell, TypeInv, TypeOK
<1>4. CASE Void(h)
  BY <1>4, Targets DEF Void, TypeInv, TypeOK
<1>5. CASE PostPayment(h) \/ Reverse(h)
  <2>1. invoice'[i].status = invoice[i].status
    BY <1>5 DEF PostPayment, Reverse, TypeInv, TypeOK
  <2>. QED
    BY <2>1
<1>6. CASE PostReturn(h) \/ Approve(h) \/ Unreturn(h)
  BY <1>1, <1>6 DEF PostReturn, Approve, Unreturn
<1>. QED
  BY <1>1, <1>2, <1>3, <1>4, <1>5, <1>6, QuietSteps DEF tables

Paying(h) == pc[h] \in {"insert", "post"} /\ kind[h] = "PAY"
InHand(h) ==
    /\ pc[h] = "void" => invoice[target[h]].status = "POSTED"
    /\ pc[h] = "post" /\ kind[h] = "RETURN" => ret[target[h]] = "NONE"
    /\ Paying(h) => /\ payment[target[h]] = "NONE"
                    /\ invoice[Receipt[target[h]].invoice].status # "NONE"
    /\ pc[h] = "unreturn" => seen[h] \in {"DRAFT", "POSTED"}
Apart(g, h) == target[g] = target[h] =>
    /\ ~(pc[g] = "void" /\ pc[h] = "void")
    /\ ~(pc[g] = "post" /\ pc[h] = "post")
    /\ ~Paying(h)
HandsInv == \A h \in Handlers : InHand(h) /\ \A g \in Handlers \ {h} : Apart(g, h)

LEMMA OpenHands ==
    ASSUME TypeInv, HandsInv, NEW h \in Handlers, Start(h)
    PROVE  HandsInv'
<1>1. PICK k \in Kinds, d \in Documents, st \in ReturnStatuses,
           first \in {"sell", "lock", "check", "unreturn", "insert", "reverse"} :
         /\ Open(h, k, d, st, first)
         /\ first = "unreturn" => st \in {"DRAFT", "POSTED"}
         /\ first = "insert" => /\ d \in Payments /\ payment[d] = "NONE"
                                /\ \A g \in Handlers : target[g] # d
                                /\ invoice[Receipt[d].invoice].status # "NONE"
         /\ d \in Payments => first \in {"insert", "reverse"}
         /\ first = "reverse" => d \in Payments /\ payment[d] # "NONE"
  <2>1. CASE \E i \in Invoices : StartSale(h, i) \/ StartVoid(h, i)
    BY <2>1, SalesAssumption DEF StartSale, StartVoid, Kinds, Documents, ReturnStatuses
  <2>2. CASE \E r \in Returns :
                StartReturn(h, r) \/ StartApprove(h, r) \/ StartUnreturn(h, r)
    <3>1. \A r \in Returns : \A st \in Past(r, ret[r]) \ {"CANCELLED"} :
               st \in {"DRAFT", "POSTED"}
      BY DEF Past, TypeInv, TypeOK, ReturnStatuses
    <3>2. PICK r \in Returns :
              \/ Open(h, "RETURN", r, "NONE", "check")
              \/ Open(h, "APPROVE", r, "DRAFT", "check")
              \/ \E st \in Past(r, ret[r]) \ {"CANCELLED"} : Open(h, "UNRETURN", r, st, "unreturn")
      BY <2>2 DEF StartReturn, StartApprove, StartUnreturn
    <3>3. r \notin Payments
      BY SalesAssumption
    <3>. QED
      BY <3>1, <3>2, <3>3 DEF Kinds, Documents, ReturnStatuses
  <2>3. CASE \E p \in Payments : StartPay(h, p) \/ StartReverse(h, p)
    <3>1. \A p \in Payments : "POSTED" \in Past(p, payment[p]) => payment[p] # "NONE"
      BY DEF Past
    <3>. QED
      BY <2>3, <3>1 DEF StartPay, StartReverse, Kinds, Documents, ReturnStatuses
  <2>. QED
    BY <2>1, <2>2, <2>3 DEF Start
<1>2. /\ pc[h] = "idle" /\ UNCHANGED tables
      /\ pc'[h] = first /\ kind'[h] = k /\ target'[h] = d /\ seen'[h] = st
      /\ \A g \in Handlers \ {h} : /\ pc'[g] = pc[g] /\ kind'[g] = kind[g]
                                   /\ target'[g] = target[g] /\ seen'[g] = seen[g]
  BY <1>1 DEF Open, TypeInv, TypeOK
<1>3. ASSUME NEW g \in Handlers PROVE InHand(g)'
  <2>1. CASE g = h
    BY <1>1, <1>2, <2>1 DEF InHand, Paying, tables
  <2>2. CASE g # h
    <3>1. InHand(g)
      BY DEF HandsInv
    <3>. QED
      BY <1>2, <2>2, <3>1 DEF InHand, Paying, tables
  <2>. QED
    BY <2>1, <2>2
<1>4. ASSUME NEW f \in Handlers, NEW g \in Handlers \ {f} PROVE Apart(g, f)'
  <2>1. CASE f = h
    BY <1>1, <1>2, <2>1 DEF Apart, Paying
  <2>2. CASE g = h
    <3>1. Paying(f) => target[f] # d
      <4>1. InHand(f) /\ (Paying(f) => target[f] \in Payments)
        BY DEF HandsInv, TypeInv, Working, Paying
      <4>. QED
        BY <1>1, <4>1 DEF InHand
    <3>. QED
      BY <1>1, <1>2, <2>2, <3>1 DEF Apart, Paying
  <2>3. CASE f # h /\ g # h
    <3>1. Apart(g, f)
      BY DEF HandsInv
    <3>. QED
      BY <1>2, <2>3, <3>1 DEF Apart, Paying
  <2>. QED
    BY <2>1, <2>2, <2>3
<1>. QED
  BY <1>3, <1>4 DEF HandsInv

LEMMA ProceedHands ==
    ASSUME TypeInv, HandsInv, NEW h \in Handlers, NEW p, Proceed(h, p),
           \/ p \in {"insert", "approve"} /\ kind[h] # "PAY"
           \/ /\ p = "void" /\ pc[h] = "lock" /\ invoice[target[h]].status = "POSTED"
              /\ ~Voiding(target[h])
           \/ /\ p = "post" /\ pc[h] = "insert"
              /\ ~\E g \in Handlers : pc[g] = "post" /\ target[g] = target[h]
              /\ kind[h] = "RETURN" => ret[target[h]] = "NONE"
    PROVE  HandsInv'
<1>1. /\ UNCHANGED <<tables, kind, target, seen>>
      /\ pc'[h] = p /\ \A g \in Handlers \ {h} : pc'[g] = pc[g]
  BY DEF Proceed, request, TypeInv, TypeOK
<1>2. ASSUME NEW g \in Handlers PROVE InHand(g)'
  <2>1. InHand(g)
    BY DEF HandsInv
  <2>. QED
    BY <1>1, <2>1 DEF InHand, Paying, tables
<1>3. ASSUME NEW f \in Handlers, NEW g \in Handlers \ {f} PROVE Apart(g, f)'
  <2>1. Apart(g, f) /\ Apart(f, g)
    BY DEF HandsInv
  <2>2. \A e \in Handlers : pc[e] = "void" => On(e) = target[e]
    BY ActiveTargets
  <2>3. pc[f] = "void" /\ p = "void" => target[f] # target[h]
    BY <2>2 DEF Voiding
  <2>4. pc[g] = "void" /\ p = "void" => target[g] # target[h]
    BY <2>2 DEF Voiding
  <2>5. Paying(f)' => Paying(f)
    BY <1>1 DEF Paying
  <2>. QED
    BY <1>1, <2>1, <2>3, <2>4, <2>5 DEF Apart
<1>. QED
  BY <1>2, <1>3 DEF HandsInv

LEMMA FinishHands ==
    ASSUME TypeInv, HandsInv, NEW h \in Handlers, Finish(h),
           \A g \in Handlers \ {h} :
               /\ pc[g] = "void" =>
                     invoice'[target[g]].status = invoice[target[g]].status
               /\ pc[g] = "post" /\ kind[g] = "RETURN" => ret'[target[g]] = ret[target[g]]
               /\ Paying(g) => payment'[target[g]] = payment[target[g]],
           \A i \in Invoices : invoice[i].status # "NONE" => invoice'[i].status # "NONE"
    PROVE  HandsInv'
<1>1. /\ pc'[h] = "idle"
      /\ \A g \in Handlers \ {h} : /\ pc'[g] = pc[g] /\ kind'[g] = kind[g]
                                   /\ target'[g] = target[g] /\ seen'[g] = seen[g]
  BY DEF Finish, TypeInv, TypeOK
<1>2. ASSUME NEW g \in Handlers PROVE InHand(g)'
  <2>1. CASE g = h
    BY <1>1, <2>1 DEF InHand, Paying
  <2>2. CASE g # h
    <3>1. InHand(g) /\ (Paying(g) => target[g] \in Payments)
      BY DEF HandsInv, TypeInv, Working, Paying
    <3>2. Paying(g)' = Paying(g)
      BY <1>1, <2>2 DEF Paying
    <3>. QED
      BY <1>1, <2>2, <3>1, <3>2, PlanTypes DEF InHand
  <2>. QED
    BY <2>1, <2>2
<1>3. ASSUME NEW f \in Handlers, NEW g \in Handlers \ {f} PROVE Apart(g, f)'
  <2>1. Apart(g, f)
    BY DEF HandsInv
  <2>2. CASE f = h
    BY <1>1, <2>2 DEF Apart, Paying
  <2>3. CASE g = h
    <3>1. target'[h] = NoDocument
      BY DEF Finish, TypeInv, TypeOK
    <3>2. Paying(f) => target[f] \in Payments
      BY DEF TypeInv, Working, Paying
    <3>. QED
      BY <1>1, <2>3, <3>1, <3>2, SalesAssumption DEF Apart, Paying, Documents
  <2>4. CASE f # h /\ g # h
    BY <1>1, <2>1, <2>4 DEF Apart, Paying
  <2>. QED
    BY <2>2, <2>3, <2>4
<1>. QED
  BY <1>2, <1>3 DEF HandsInv

LEMMA NextHands == TypeInv /\ HandsInv /\ [Next]_vars => HandsInv'
<1>. SUFFICES ASSUME TypeInv, HandsInv, [Next]_vars PROVE HandsInv'
  OBVIOUS
<1>1. CASE UNCHANGED vars
  BY <1>1 DEF vars, tables, request, HandsInv, InHand, Apart, Paying
<1>2. ASSUME NEW h \in Handlers PROVE Start(h) \/ Check(h) \/ Insert(h) \/ LockInvoice(h) => HandsInv'
  <2>1. CASE Start(h)
    BY <2>1, OpenHands
  <2>2. CASE Check(h)
    <3>1. kind[h] \in {"RETURN", "APPROVE"}
      BY <2>2 DEF Check, TypeInv, Working
    <3>. QED
      BY <2>2, <3>1, ProceedHands DEF Check
  <2>3. CASE Insert(h)
    BY <2>3, ProceedHands DEF Insert
  <2>4. CASE LockInvoice(h)
    BY <2>4, ProceedHands DEF LockInvoice, Unlocked, Blocked
  <2>. QED
    BY <2>1, <2>2, <2>3, <2>4
<1>3. ASSUME NEW h \in Handlers,
             \/ Refuse(h) \/ Sell(h) \/ Void(h) \/ PostReturn(h) \/ Approve(h) \/ Unreturn(h)
             \/ PostPayment(h) \/ Reverse(h)
      PROVE  HandsInv'
  <2>1. Finish(h)
    BY <1>3 DEF Refuse, Sell, Void, PostReturn, Approve, Unreturn, PostPayment, Reverse
  <2>2. \A i \in Invoices : invoice[i].status # "NONE" => invoice'[i].status # "NONE"
    BY StatusSteps
  <2>3. ASSUME NEW g \in Handlers \ {h}, pc[g] = "void"
        PROVE  invoice'[target[g]].status = invoice[target[g]].status
    <3>1. target[g] \in Invoices /\ invoice[target[g]].status = "POSTED"
      BY <2>3 DEF TypeInv, Working, HandsInv, InHand
    <3>2. ASSUME Void(h) PROVE target[h] # target[g]
      BY <2>3, <3>2 DEF Void, HandsInv, Apart
    <3>3. ASSUME NEW f \in Handlers, Void(f), target[f] = target[g] PROVE f = g
      BY <2>3, <3>3 DEF Void, HandsInv, Apart
    <3>4. ~Void(g)
      <4>1. pc'[g] = "void"
        BY <2>1, <2>3 DEF Finish, TypeInv, TypeOK
      <4>2. Void(g) => pc'[g] = "idle"
        BY DEF Void, Finish, TypeInv, TypeOK
      <4>. QED
        BY <4>1, <4>2
    <3>. QED
      BY <3>1, <3>3, <3>4, StatusSteps
  <2>4. ASSUME NEW g \in Handlers \ {h}, pc[g] = "post", kind[g] = "RETURN"
        PROVE  ret'[target[g]] = ret[target[g]]
    <3>1. target[g] \in Returns /\ ret[target[g]] = "NONE" /\ Apart(h, g)
      BY <2>4 DEF TypeInv, Working, HandsInv, InHand
    <3>2. CASE PostReturn(h)
      <4>1. target[h] # target[g]
        BY <2>4, <3>1, <3>2 DEF PostReturn, Apart
      <4>. QED
        BY <3>1, <3>2, <4>1 DEF PostReturn, TypeInv, TypeOK
    <3>3. CASE Approve(h)
      BY <3>1, <3>3 DEF Approve, Draft, TypeInv, TypeOK
    <3>4. CASE Unreturn(h)
      <4>1. ret[target[h]] # "NONE"
        BY <3>4 DEF Unreturn, HandsInv, InHand
      <4>. QED
        BY <3>1, <3>4, <4>1 DEF Unreturn, TypeInv, TypeOK
    <3>. QED
      BY <1>3, <3>2, <3>3, <3>4 DEF Refuse, Sell, Void, PostPayment, Reverse, tables
  <2>5. ASSUME NEW g \in Handlers \ {h}, Paying(g)
        PROVE  payment'[target[g]] = payment[target[g]]
    <3>1. target[g] \in Payments /\ payment[target[g]] = "NONE" /\ Apart(h, g)
      BY <2>5 DEF TypeInv, Working, HandsInv, InHand, Paying
    <3>2. target[h] # target[g]
      BY <2>5, <3>1 DEF Apart
    <3>3. CASE PostPayment(h) \/ Reverse(h)
      BY <3>1, <3>2, <3>3 DEF PostPayment, Reverse, TypeInv, TypeOK
    <3>. QED
      BY <1>3, <3>3 DEF Refuse, Sell, Void, PostReturn, Approve, Unreturn, tables
  <2>. QED
    BY <2>1, <2>2, <2>3, <2>4, <2>5, FinishHands
<1>. QED
  BY <1>1, <1>2, <1>3, NextCases

LEMMA HandsAlways == Spec => []HandsInv
<1>1. Init => HandsInv
  BY DEF Init, HandsInv, InHand, Apart, Paying
<1>. QED
  BY <1>1, NextHands, TypesAlways, PTL DEF Spec

-----------------------------------------------------------------------------
(* A cancelled invoice: settled when it was voided, and no new share of    *)
(* its lock is taken.                                                      *)

ClosedInv == \A i \in Invoices : invoice[i].status = "CANCELLED" => Settled(i) /\ ~Sharing(i)

(* What writes a document of an invoice that is neither locked nor settled.*)
LEMMA SettledStays ==
    ASSUME TypeInv, NEW h \in Handlers, NEW i, Settled(i), ~Sharing(i),
           \/ Refuse(h) \/ Sell(h) \/ Void(h) \/ PostReturn(h) \/ Approve(h) \/ Unreturn(h)
           \/ PostPayment(h) \/ Reverse(h)
    PROVE  Settled(i)' /\ ~Sharing(i)'
<1>1. Finish(h)
  BY DEF Refuse, Sell, Void, PostReturn, Approve, Unreturn, PostPayment, Reverse
<1>2. ASSUME NEW f \in Handlers, (pc[f] = "post")' PROVE pc[f] = "post" /\ On(f)' = On(f)
  BY <1>1, <1>2 DEF Finish, TypeInv, TypeOK, On
<1>3. ~Sharing(i)'
  BY <1>2 DEF Sharing
<1>4. CASE PostReturn(h)
  <2>1. target[h] \in Returns /\ Credit[target[h]].invoice # i
    BY <1>4, ActiveTargets DEF PostReturn, Sharing, TypeInv, Working
  <2>. QED
    BY <1>3, <1>4, <2>1, SettledKept DEF PostReturn, TypeInv, TypeOK
<1>5. CASE PostPayment(h)
  <2>1. target[h] \in Payments /\ Receipt[target[h]].invoice # i
    BY <1>5, ActiveTargets DEF PostPayment, Sharing, TypeInv, Working
  <2>. QED
    BY <1>3, <1>5, <2>1, SettledKept DEF PostPayment, TypeInv, TypeOK
<1>6. CASE Approve(h)
  <2>1. ret[target[h]] = "DRAFT" /\ UNCHANGED payment
    BY <1>6 DEF Approve, Draft
  <2>2. \A r \in Returns : ret'[r] # ret[r] => r = target[h]
    BY <1>6 DEF Approve, TypeInv, TypeOK
  <2>. QED
    BY <1>3, <2>1, <2>2, SettledKept DEF Settled
<1>7. CASE Unreturn(h)
  <2>1. UNCHANGED payment /\ \A r \in Returns : ret'[r] = ret[r] \/ ret'[r] = "CANCELLED"
    BY <1>7 DEF Unreturn, TypeInv, TypeOK
  <2>. QED
    BY <1>3, <2>1, SettledKept
<1>8. CASE Reverse(h)
  <2>1. /\ UNCHANGED ret
        /\ \A p \in Payments : payment'[p] = payment[p] \/ payment'[p] = "REVERSED"
    BY <1>8 DEF Reverse, TypeInv, TypeOK
  <2>. QED
    BY <1>3, <2>1, SettledKept
<1>9. CASE Refuse(h) \/ Sell(h) \/ Void(h)
  BY <1>3, <1>9, SettledKept DEF Refuse, Sell, Void, tables
<1>. QED
  BY <1>4, <1>5, <1>6, <1>7, <1>8, <1>9

LEMMA NextClosed ==
    ASSUME "LATE" \notin Mishaps
    PROVE  TypeInv /\ VoidInv /\ ClosedInv /\ [Next]_vars => ClosedInv'
<1>. SUFFICES ASSUME TypeInv, VoidInv, ClosedInv, [Next]_vars,
                     NEW i \in Invoices, (invoice[i].status = "CANCELLED")'
              PROVE  Settled(i)' /\ ~Sharing(i)'
  BY DEF ClosedInv
<1>1. Settled(i) /\ ~Sharing(i)
  <2>1. CASE invoice[i].status = "CANCELLED"
    BY <2>1 DEF ClosedInv
  <2>2. CASE invoice[i].status # "CANCELLED"
    <3>1. PICK h \in Handlers : Void(h) /\ target[h] = i
      BY <2>2, StatusSteps
    <3>. QED
      BY <3>1 DEF Void, VoidInv
  <2>. QED
    BY <2>1, <2>2
<1>2. CASE UNCHANGED vars
  BY <1>1, <1>2 DEF vars, tables, request, Settled, Sharing, On
<1>3. ASSUME NEW h \in Handlers, Start(h) \/ LockInvoice(h) \/ Check(h) \/ Insert(h)
      PROVE  Settled(i)' /\ ~Sharing(i)'
  <2>1. UNCHANGED tables
    BY <1>3, QuietSteps
  <2>2. Settled(i)'
    BY <1>1, <2>1 DEF Settled, tables
  <2>3. ASSUME NEW f \in Handlers, (pc[f] = "post")' PROVE ~(On(f) = i)'
    <3>1. CASE f # h
      <4>1. (On(f) = i)' => On(f) = i /\ pc[f] = "post"
        BY <1>3, <2>3, <3>1
           DEF Start, StartSale, StartVoid, StartReturn, StartApprove, StartUnreturn,
               StartPay, StartReverse, Open, LockInvoice, Check, Insert, Proceed,
               request, On, TypeInv, TypeOK
      <4>. QED
        BY <1>1, <4>1 DEF Sharing
    <3>2. CASE f = h
      <4>1. Insert(h)
        BY <1>3, <2>3, <3>2
           DEF Start, StartSale, StartVoid, StartReturn, StartApprove, StartUnreturn,
               StartPay, StartReverse, Open, LockInvoice, Check, Proceed, TypeInv, TypeOK
      <4>2. invoice[On(h)].status = "POSTED" /\ On(h)' = On(h)
        BY <4>1 DEF Insert, Proceed, request, On
      <4>. QED
        BY <2>1, <3>2, <4>2 DEF tables
    <3>. QED
      BY <3>1, <3>2
  <2>. QED
    BY <2>2, <2>3 DEF Sharing
<1>. QED
  BY <1>1, <1>2, <1>3, NextCases, SettledStays

LEMMA VoidAlways == Spec => []VoidInv
<1>1. Init => VoidInv
  BY DEF Init, VoidInv
<1>. QED
  BY <1>1, NextVoid, TypesAlways, PTL DEF Spec

(* Once an invoice is cancelled, nobody posts a payment or a return of it, *)
(* nor approves a draft one, as long as no request that waited for the     *)
(* void's lock goes on behind it (LATE).                                   *)
THEOREM CancelledSettled ==
    ASSUME "LATE" \notin Mishaps
    PROVE  Spec => []CancelledStaysSettled
<1>1. Init => ClosedInv
  BY DEF Init, ClosedInv, Unposted
<1>2. ClosedInv => CancelledStaysSettled
  BY DEF ClosedInv, CancelledStaysSettled
<1>3. Spec => []ClosedInv
  BY <1>1, NextClosed, VoidAlways, TypesAlways, PTL DEF Spec
<1>. QED
  BY <1>2, <1>3, PTL

-----------------------------------------------------------------------------
(* Sums over finite sets.  SumFunctionOnSet is a recursive function that   *)
(* removes the element CHOOSE picks; what it is and that the order does    *)
(* not matter is shown on a smallest counterexample each time.             *)

(* A family of finite sets has a set that is minimal in it.                *)
LEMMA MinimalSet ==
    ASSUME NEW S, IsFiniteSet(S), NEW Z \in SUBSET SUBSET S, Z # {}
    PROVE  \E t \in Z : \A x \in t : t \ {x} \notin Z
<1>. DEFINE sizes == {Cardinality(t) : t \in Z}
<1>1. \A t \in SUBSET S : IsFiniteSet(t) /\ Cardinality(t) \in Nat
  BY FS_Subset, FS_CardinalityType
<1>2. sizes \in SUBSET Nat /\ sizes # {}
  BY <1>1
<1>3. PICK n \in sizes : \A m \in sizes : ~ (<<m, n>> \in OpToRel(<, Nat))
  <2>. HIDE DEF sizes
  <2>. QED
    BY <1>2, NatLessThanWellFounded, WFMin
<1>4. \A m \in sizes : ~ (m < n)
  BY <1>2, <1>3 DEF OpToRel
<1>5. PICK t \in Z : Cardinality(t) = n
  OBVIOUS
<1>6. \A x \in t : Cardinality(t \ {x}) < Cardinality(t)
  BY <1>1, FS_RemoveElement
<1>. QED
  BY <1>4, <1>5, <1>6

Picked(s) == CHOOSE x \in s : TRUE
Unrolled(f, g, s) == IF s = {} THEN 0 ELSE f[Picked(s)] + g[s \ {Picked(s)}]
(* g sums f over every subset of S.                                        *)
Sums(f, g, S) == g = [s \in SUBSET S |-> Unrolled(f, g, s)]

LEMMA SumChosen ==
    ASSUME NEW f, NEW S PROVE SumFunctionOnSet(f, S) = (CHOOSE g : Sums(f, g, S))[S]
  BY DEF SumFunctionOnSet, FoldFunctionOnSet, MapThenFoldSet, Sums, Unrolled, Picked

LEMMA SumsAgree ==
    ASSUME NEW S, IsFiniteSet(S), NEW T, NEW f, NEW g, Sums(f, g, S), NEW e, Sums(f, e, T),
           NEW U \in SUBSET S, U \subseteq T
    PROVE  g[U] = e[U]
<1>. DEFINE Z == {s \in SUBSET U : g[s] # e[s]}
<1>1. ASSUME Z # {} PROVE FALSE
  <2>1. IsFiniteSet(U)
    BY FS_Subset
  <2>2. PICK t \in Z : \A x \in t : t \ {x} \notin Z
    BY <1>1, <2>1, MinimalSet
  <2>3. g[t] = Unrolled(f, g, t) /\ e[t] = Unrolled(f, e, t)
    BY DEF Sums
  <2>4. t # {}
    BY <2>3 DEF Unrolled
  <2>5. Picked(t) \in t
    BY <2>4 DEF Picked
  <2>6. g[t \ {Picked(t)}] = e[t \ {Picked(t)}]
    BY <2>2, <2>5
  <2>. QED
    BY <2>3, <2>6 DEF Unrolled
<1>. QED
  BY <1>1

LEMMA SumsRestrict ==
    ASSUME NEW f, NEW g, NEW S, Sums(f, g, S), NEW U \in SUBSET S
    PROVE  Sums(f, [s \in SUBSET U |-> g[s]], U)
<1>. DEFINE e == [s \in SUBSET U |-> g[s]]
<1>1. ASSUME NEW s \in SUBSET U PROVE Unrolled(f, g, s) = Unrolled(f, e, s)
  BY DEF Unrolled
<1>2. ASSUME NEW s \in SUBSET U PROVE g[s] = Unrolled(f, g, s)
  BY DEF Sums
<1>. QED
  BY <1>1, <1>2 DEF Sums

(* Where a sum exists it is the value of every function that sums.         *)
LEMMA SumValue ==
    ASSUME NEW f, NEW g, NEW S, IsFiniteSet(S), Sums(f, g, S), NEW U \in SUBSET S
    PROVE  SumFunctionOnSet(f, U) = g[U]
<1>1. IsFiniteSet(U)
  BY FS_Subset
<1>2. \E e : Sums(f, e, U)
  BY SumsRestrict
<1>. DEFINE c == CHOOSE e : Sums(f, e, U)
<1>3. Sums(f, c, U)
  BY <1>2
<1>4. c[U] = g[U]
  <2>. HIDE DEF c
  <2>. QED
    BY <1>1, <1>3, SumsAgree
<1>. QED
  BY <1>4, SumChosen

LEMMA SumsExist == ASSUME NEW f, NEW S, IsFiniteSet(S) PROVE \E g : Sums(f, g, S)
<1>. DEFINE Z == {s \in SUBSET S : ~ \E g : Sums(f, g, s)}
<1>1. ASSUME Z # {} PROVE FALSE
  <2>1. PICK t \in Z : \A x \in t : t \ {x} \notin Z
    BY <1>1, MinimalSet
  <2>2. IsFiniteSet(t)
    BY FS_Subset
  <2>. DEFINE v == [s \in SUBSET t |-> SumFunctionOnSet(f, s)]
              g == [v EXCEPT ![t] = Unrolled(f, v, t)]
  <2>3. ASSUME NEW s \in SUBSET t, s # t PROVE v[s] = Unrolled(f, v, s)
    <3>1. PICK x \in t : s \subseteq t \ {x}
      BY <2>3
    <3>2. PICK e : Sums(f, e, t \ {x})
      BY <2>1
    <3>3. IsFiniteSet(t \ {x})
      BY <2>2, FS_RemoveElement
    <3>4. \A u \in SUBSET (t \ {x}) : v[u] = e[u]
      BY <3>2, <3>3, SumValue
    <3>5. e[s] = Unrolled(f, e, s)
      BY <3>1, <3>2 DEF Sums
    <3>6. Unrolled(f, e, s) = Unrolled(f, v, s)
      BY <3>1, <3>4 DEF Unrolled
    <3>. QED
      BY <3>1, <3>4, <3>5, <3>6
  <2>4. ASSUME NEW s \in SUBSET t PROVE Unrolled(f, v, s) = Unrolled(f, g, s)
    <3>1. CASE s = {}
      BY <3>1 DEF Unrolled
    <3>2. CASE s # {}
      <4>1. Picked(s) \in s
        BY <3>2 DEF Picked
      <4>2. s \ {Picked(s)} # t
        BY <4>1
      <4>. QED
        BY <4>2 DEF Unrolled
    <3>. QED
      BY <3>1, <3>2
  <2>5. Sums(f, g, t)
    BY <2>3, <2>4 DEF Sums
  <2>. QED
    BY <2>5
<1>. QED
  BY <1>1

LEMMA SumStep ==
    ASSUME NEW f, NEW S, IsFiniteSet(S)
    PROVE  /\ SumFunctionOnSet(f, {}) = 0
           /\ S # {} => /\ Picked(S) \in S
                        /\ SumFunctionOnSet(f, S) =
                             f[Picked(S)] + SumFunctionOnSet(f, S \ {Picked(S)})
<1>1. PICK g : Sums(f, g, S)
  BY SumsExist
<1>2. \A s \in SUBSET S : SumFunctionOnSet(f, s) = g[s]
  BY <1>1, SumValue
<1>3. \A s \in SUBSET S : g[s] = Unrolled(f, g, s)
  BY <1>1 DEF Sums
<1>. QED
  BY <1>2, <1>3 DEF Unrolled, Picked

LEMMA SumType ==
    ASSUME NEW S, IsFiniteSet(S), NEW f, \A x \in S : f[x] \in Nat
    PROVE  SumFunctionOnSet(f, S) \in Nat
<1>. DEFINE Z == {s \in SUBSET S : SumFunctionOnSet(f, s) \notin Nat}
<1>1. ASSUME Z # {} PROVE FALSE
  <2>1. PICK t \in Z : \A x \in t : t \ {x} \notin Z
    BY <1>1, MinimalSet
  <2>2. IsFiniteSet(t)
    BY FS_Subset
  <2>3. CASE t = {}
    <3>1. SumFunctionOnSet(f, {}) = 0
      BY SumStep
    <3>. QED
      BY <2>1, <2>3, <3>1
  <2>4. CASE t # {}
    <3>1. /\ Picked(t) \in t
          /\ SumFunctionOnSet(f, t) = f[Picked(t)] + SumFunctionOnSet(f, t \ {Picked(t)})
      BY <2>2, <2>4, SumStep
    <3>2. f[Picked(t)] \in Nat /\ SumFunctionOnSet(f, t \ {Picked(t)}) \in Nat
      BY <2>1, <3>1
    <3>. QED
      BY <2>1, <3>1, <3>2
  <2>. QED
    BY <2>3, <2>4
<1>. QED
  BY <1>1

(* Any element of a set can be the one that is summed first.               *)
LEMMA SumRemove ==
    ASSUME NEW S, IsFiniteSet(S), NEW f, \A x \in S : f[x] \in Nat, NEW x \in S
    PROVE  SumFunctionOnSet(f, S) = f[x] + SumFunctionOnSet(f, S \ {x})
<1>. DEFINE Sum(s) == SumFunctionOnSet(f, s)
            Z == {s \in SUBSET S : \E y \in s : Sum(s) # f[y] + Sum(s \ {y})}
<1>1. ASSUME Z # {} PROVE FALSE
  <2>1. PICK t \in Z : \A y \in t : t \ {y} \notin Z
    BY <1>1, MinimalSet
  <2>2. PICK y \in t : Sum(t) # f[y] + Sum(t \ {y})
    BY <2>1
  <2>3. \A s \in SUBSET t : IsFiniteSet(s) /\ Sum(s) \in Nat
    <3>1. ASSUME NEW s \in SUBSET t PROVE IsFiniteSet(s) /\ Sum(s) \in Nat
      BY FS_Subset, SumType
    <3>. QED
      BY <3>1
  <2>. DEFINE z == Picked(t)
  <2>4. z \in t /\ Sum(t) = f[z] + Sum(t \ {z})
    BY <2>3, SumStep
  <2>5. z # y
    BY <2>2, <2>4
  <2>6. y \in t \ {z} /\ z \in t \ {y} /\ (t \ {z}) \ {y} = (t \ {y}) \ {z}
    BY <2>4, <2>5
  <2>7. Sum(t \ {z}) = f[y] + Sum((t \ {z}) \ {y}) /\ Sum(t \ {y}) = f[z] + Sum((t \ {y}) \ {z})
    <3>. HIDE DEF Sum, z
    <3>. QED
      BY <2>1, <2>4, <2>6
  <2>8. f[y] \in Nat /\ f[z] \in Nat /\ Sum((t \ {z}) \ {y}) \in Nat
    BY <2>3, <2>4
  <2>. HIDE DEF Sum, z
  <2>. QED
    BY <2>2, <2>4, <2>6, <2>7, <2>8
<1>. QED
  BY <1>1

LEMMA SumAdd ==
    ASSUME NEW S, IsFiniteSet(S), NEW f, NEW x, x \notin S, \A y \in S \cup {x} : f[y] \in Nat
    PROVE  SumFunctionOnSet(f, S \cup {x}) = f[x] + SumFunctionOnSet(f, S)
<1>1. IsFiniteSet(S \cup {x}) /\ (S \cup {x}) \ {x} = S
  BY FS_AddElement
<1>2. SumFunctionOnSet(f, S \cup {x}) = f[x] + SumFunctionOnSet(f, (S \cup {x}) \ {x})
  BY <1>1, SumRemove
<1>. QED
  BY <1>1, <1>2

-----------------------------------------------------------------------------
(* The balance of an invoice.                                              *)

Posted(i) == {p \in Payments : Receipt[p].invoice = i /\ payment[p] = "POSTED"}
Amounts == [p \in Payments |-> Receipt[p].amount]
Balanced(i) ==
    IF invoice[i].status = "NONE" THEN Posted(i) = {}
    ELSE /\ invoice[i].paid = Sale[i].paid + SumFunctionOnSet(Amounts, Posted(i))
         /\ invoice[i].payStatus = PayStatus(i, invoice[i].paid)
BalanceInv == \A i \in Invoices : Balanced(i)

LEMMA AmountTypes ==
    /\ \A ps \in SUBSET Payments : IsFiniteSet(ps) /\ SumFunctionOnSet(Amounts, ps) \in Nat
    /\ \A p \in Payments : Amounts[p] = Receipt[p].amount /\ Amounts[p] \in Nat
<1>1. \A p \in Payments : Amounts[p] = Receipt[p].amount /\ Amounts[p] \in Nat
  BY PlanTypes DEF Amounts
<1>2. ASSUME NEW ps \in SUBSET Payments PROVE IsFiniteSet(ps) /\ SumFunctionOnSet(Amounts, ps) \in Nat
  <2>1. IsFiniteSet(ps)
    BY FS_Subset, SalesAssumption
  <2>. QED
    BY <1>1, <2>1, SumType
<1>. QED
  BY <1>1, <1>2

LEMMA PostPaymentBalance ==
    ASSUME TypeInv, HandsInv, BalanceInv, NEW h \in Handlers, PostPayment(h)
    PROVE  BalanceInv'
<1>1. PICK p \in Payments, i \in Invoices :
          p = target[h] /\ i = Receipt[p].invoice /\ payment[p] = "NONE"
          /\ invoice[i].status # "NONE"
  BY Targets DEF PostPayment, HandsInv, InHand, Paying
<1>. DEFINE paid == invoice[i].paid + Receipt[p].amount
<1>2. /\ payment' = [payment EXCEPT ![p] = "POSTED"]
      /\ invoice' = [invoice EXCEPT ![i].paid = paid, ![i].payStatus = PayStatus(i, paid)]
  BY <1>1 DEF PostPayment
<1>3. ASSUME NEW j \in Invoices, j # i PROVE Balanced(j)'
  <2>1. Posted(j)' = Posted(j)
    BY <1>1, <1>2, <1>3 DEF Posted, TypeInv, TypeOK
  <2>2. invoice'[j] = invoice[j] /\ Balanced(j)
    BY <1>2, <1>3 DEF TypeInv, TypeOK, BalanceInv
  <2>. QED
    BY <2>1, <2>2 DEF Balanced
<1>4. Balanced(i)'
  <2>1. Posted(i)' = Posted(i) \cup {p} /\ p \notin Posted(i)
    BY <1>1, <1>2 DEF Posted, TypeInv, TypeOK
  <2>2. Posted(i) \in SUBSET Payments
    BY DEF Posted
  <2>3. SumFunctionOnSet(Amounts, Posted(i)') =
            Receipt[p].amount + SumFunctionOnSet(Amounts, Posted(i))
    <3>1. \A q \in Posted(i) \cup {p} : Amounts[q] \in Nat
      BY <2>2, AmountTypes
    <3>2. SumFunctionOnSet(Amounts, Posted(i) \cup {p}) =
              Amounts[p] + SumFunctionOnSet(Amounts, Posted(i))
      BY <2>1, <2>2, <3>1, AmountTypes, SumAdd
    <3>. QED
      BY <2>1, <3>2, AmountTypes
  <2>4. /\ invoice'[i].paid = paid /\ invoice'[i].payStatus = PayStatus(i, paid)
        /\ invoice'[i].status = invoice[i].status
    BY <1>1, <1>2 DEF TypeInv, TypeOK
  <2>5. paid = Sale[i].paid + SumFunctionOnSet(Amounts, Posted(i)')
    <3>1. /\ invoice[i].paid = Sale[i].paid + SumFunctionOnSet(Amounts, Posted(i))
          /\ Sale[i].paid \in Nat /\ Receipt[p].amount \in Nat
          /\ SumFunctionOnSet(Amounts, Posted(i)) \in Nat
      BY <1>1, <2>2, AmountTypes, PlanTypes DEF BalanceInv, Balanced
    <3>. QED
      BY <2>3, <3>1
  <2>. QED
    BY <1>1, <2>4, <2>5 DEF Balanced
<1>. QED
  BY <1>3, <1>4 DEF BalanceInv

LEMMA ReverseBalance ==
    ASSUME TypeInv, BalanceInv, NEW h \in Handlers, Reverse(h)
    PROVE  BalanceInv'
<1>1. PICK p \in Payments, i \in Invoices :
          p = target[h] /\ i = Receipt[p].invoice /\ payment[p] = "POSTED"
  BY Targets DEF Reverse, StillPosted
<1>. DEFINE left == invoice[i].paid - Receipt[p].amount
<1>2. /\ payment' = [payment EXCEPT ![p] = "REVERSED"]
      /\ invoice' = [invoice EXCEPT ![i].paid = AtLeastZero(left),
                                    ![i].payStatus = PayStatus(i, left)]
  BY <1>1 DEF Reverse
<1>3. ASSUME NEW j \in Invoices, j # i PROVE Balanced(j)'
  <2>1. Posted(j)' = Posted(j)
    BY <1>1, <1>2, <1>3 DEF Posted, TypeInv, TypeOK
  <2>2. invoice'[j] = invoice[j] /\ Balanced(j)
    BY <1>2, <1>3 DEF TypeInv, TypeOK, BalanceInv
  <2>. QED
    BY <2>1, <2>2 DEF Balanced
<1>4. Balanced(i)'
  <2>1. Posted(i)' = Posted(i) \ {p} /\ p \in Posted(i)
    BY <1>1, <1>2 DEF Posted, TypeInv, TypeOK
  <2>2. Posted(i) \in SUBSET Payments /\ Posted(i)' \in SUBSET Payments
    BY <2>1 DEF Posted
  <2>3. SumFunctionOnSet(Amounts, Posted(i)) =
            Receipt[p].amount + SumFunctionOnSet(Amounts, Posted(i)')
    <3>1. \A q \in Posted(i) : Amounts[q] \in Nat
      BY <2>2, AmountTypes
    <3>2. SumFunctionOnSet(Amounts, Posted(i)) =
              Amounts[p] + SumFunctionOnSet(Amounts, Posted(i) \ {p})
      BY <2>1, <2>2, <3>1, AmountTypes, SumRemove
    <3>. QED
      BY <1>1, <2>1, <3>2, AmountTypes
  <2>4. left = Sale[i].paid + SumFunctionOnSet(Amounts, Posted(i)') /\ left \in Nat
    <3>1. /\ invoice[i].paid = Sale[i].paid + SumFunctionOnSet(Amounts, Posted(i))
          /\ Sale[i].paid \in Nat /\ Receipt[p].amount \in Nat
          /\ SumFunctionOnSet(Amounts, Posted(i)') \in Nat
      BY <1>1, <2>1, <2>2, AmountTypes, PlanTypes DEF BalanceInv, Balanced
    <3>. QED
      BY <2>3, <3>1
  <2>5. AtLeastZero(left) = left
    BY <2>4 DEF AtLeastZero
  <2>6. /\ invoice'[i].paid = left /\ invoice'[i].payStatus = PayStatus(i, left)
        /\ invoice'[i].status = invoice[i].status
    BY <1>1, <1>2, <2>5 DEF TypeInv, TypeOK
  <2>7. invoice[i].status # "NONE"
    BY <1>1, <2>1 DEF BalanceInv, Balanced
  <2>. QED
    BY <2>4, <2>6, <2>7 DEF Balanced
<1>. QED
  BY <1>3, <1>4 DEF BalanceInv

LEMMA SellBalance ==
    ASSUME TypeInv, BalanceInv, NEW h \in Handlers, Sell(h)
    PROVE  BalanceInv'
<1>1. PICK i \in Invoices : i = target[h] /\ invoice[i].status = "NONE" /\ UNCHANGED payment
  BY Targets DEF Sell, CanSell
<1>2. \A j \in Invoices : Posted(j)' = Posted(j) /\ (j # i => invoice'[j] = invoice[j])
  BY <1>1 DEF Posted, Sell, TypeInv, TypeOK
<1>3. ASSUME NEW j \in Invoices, j # i PROVE Balanced(j)'
  BY <1>2, <1>3 DEF BalanceInv, Balanced
<1>4. Balanced(i)'
  <2>1. invoice'[i] = [status |-> "POSTED", paid |-> Sale[i].paid,
                       payStatus |-> PayStatus(i, Sale[i].paid)]
    BY <1>1 DEF Sell, TypeInv, TypeOK
  <2>2. Posted(i)' = {} /\ SumFunctionOnSet(Amounts, {}) = 0
    BY <1>1, <1>2, FS_EmptySet, SumStep DEF BalanceInv, Balanced
  <2>3. Sale[i].paid = Sale[i].paid + SumFunctionOnSet(Amounts, Posted(i)')
    BY <1>1, <2>2, PlanTypes
  <2>. QED
    BY <2>1, <2>3 DEF Balanced
<1>. QED
  BY <1>3, <1>4 DEF BalanceInv

LEMMA VoidBalance ==
    ASSUME TypeInv, HandsInv, BalanceInv, NEW h \in Handlers, Void(h)
    PROVE  BalanceInv'
<1>1. target[h] \in Invoices /\ invoice[target[h]].status = "POSTED" /\ UNCHANGED payment
  BY Targets DEF Void, HandsInv, InHand
<1>2. ASSUME NEW j \in Invoices
      PROVE  /\ invoice'[j].paid = invoice[j].paid /\ invoice'[j].payStatus = invoice[j].payStatus
             /\ (invoice'[j].status = "NONE") = (invoice[j].status = "NONE")
  BY <1>1 DEF Void, TypeInv, TypeOK
<1>3. ASSUME NEW j \in Invoices PROVE Posted(j)' = Posted(j)
  BY <1>1 DEF Posted
<1>. QED
  BY <1>2, <1>3 DEF BalanceInv, Balanced

LEMMA NextBalance == TypeInv /\ HandsInv /\ BalanceInv /\ [Next]_vars => BalanceInv'
<1>. SUFFICES ASSUME TypeInv, HandsInv, BalanceInv, [Next]_vars PROVE BalanceInv'
  OBVIOUS
<1>1. CASE UNCHANGED <<invoice, payment>>
  BY <1>1 DEF BalanceInv, Balanced, Posted
<1>2. UNCHANGED vars => UNCHANGED <<invoice, payment>>
  BY DEF vars, tables
<1>3. ASSUME NEW h \in Handlers,
             \/ Start(h) \/ Refuse(h) \/ LockInvoice(h) \/ Check(h) \/ Insert(h)
             \/ PostReturn(h) \/ Approve(h) \/ Unreturn(h)
      PROVE  UNCHANGED <<invoice, payment>>
  BY <1>3, QuietSteps DEF tables, PostReturn, Approve, Unreturn
<1>4. ASSUME NEW h \in Handlers, Sell(h) \/ Void(h) \/ PostPayment(h) \/ Reverse(h)
      PROVE  BalanceInv'
  BY <1>4, SellBalance, VoidBalance, PostPaymentBalance, ReverseBalance
<1>. QED
  BY <1>1, <1>2, <1>3, <1>4, NextCases

(* What an invoice says was paid is what was paid at the counter and its   *)
(* posted payments, however payments, reversals and voids overlap.         *)
THEOREM PaidIsExplained == Spec => []PaidMatchesPayments
<1>1. Init => BalanceInv
  BY DEF Init, BalanceInv, Balanced, Posted, Unposted
<1>2. BalanceInv => PaidMatchesPayments
  BY DEF BalanceInv, Balanced, PaidMatchesPayments, Amounts, Posted
<1>3. Spec => []BalanceInv
  BY <1>1, NextBalance, HandsAlways, TypesAlways, PTL DEF Spec
<1>. QED
  BY <1>2, <1>3, PTL

-----------------------------------------------------------------------------
(* Stock and movement ledger.                                              *)

UnitsSold(p) == [i \in Invoices |-> Sale[i].units[p]]
UnitsBack(p) == [r \in Returns |-> Credit[r].units[p]]
Restocked(b) == {r \in LiveReturns(b) : Credit[r].restockable}
StockExplained(b, p) == stock[b][p] = InitStock[b][p] - Sold(b, p) + CameBack(p, Restocked(b))
LedgerExplained(b, p) == (\A r \in Returns : ret[r] # "CANCELLED") =>
    ledger[b][p] = CameBack(p, LiveReturns(b)) - Sold(b, p)
GoodsInv == \A b \in Branches, p \in Products : StockExplained(b, p) /\ LedgerExplained(b, p)

LEMMA SumInsert ==
    ASSUME NEW S, IsFiniteSet(S), NEW f, \A y \in S : f[y] \in Nat,
           NEW A \in SUBSET S, NEW x \in S \ A
    PROVE  SumFunctionOnSet(f, A \cup {x}) = f[x] + SumFunctionOnSet(f, A)
<1>1. IsFiniteSet(A) /\ \A y \in A \cup {x} : f[y] \in Nat
  BY FS_Subset
<1>. QED
  BY <1>1, SumAdd

LEMMA GoodsTypes ==
    ASSUME NEW p \in Products
    PROVE  /\ \A i \in Invoices : UnitsSold(p)[i] \in Nat /\ UnitsSold(p)[i] = Sale[i].units[p]
           /\ \A r \in Returns : UnitsBack(p)[r] \in Nat /\ UnitsBack(p)[r] = Credit[r].units[p]
           /\ \A s \in SUBSET Invoices : SumFunctionOnSet(UnitsSold(p), s) \in Nat
           /\ \A s \in SUBSET Returns : SumFunctionOnSet(UnitsBack(p), s) \in Nat
           /\ \A b \in Branches : InitStock[b][p] \in Nat
<1>1. \A i \in Invoices : UnitsSold(p)[i] \in Nat /\ UnitsSold(p)[i] = Sale[i].units[p]
  BY PlanTypes DEF UnitsSold, Quantities
<1>2. \A r \in Returns : UnitsBack(p)[r] \in Nat /\ UnitsBack(p)[r] = Credit[r].units[p]
  BY PlanTypes DEF UnitsBack, Quantities
<1>3. ASSUME NEW s \in SUBSET Invoices PROVE SumFunctionOnSet(UnitsSold(p), s) \in Nat
  <2>1. IsFiniteSet(s)
    BY FS_Subset, SalesAssumption
  <2>2. \A i \in s : UnitsSold(p)[i] \in Nat
    BY <1>1
  <2>. QED
    BY <2>1, <2>2, SumType
<1>4. ASSUME NEW s \in SUBSET Returns PROVE SumFunctionOnSet(UnitsBack(p), s) \in Nat
  <2>1. IsFiniteSet(s)
    BY FS_Subset, SalesAssumption
  <2>2. \A r \in s : UnitsBack(p)[r] \in Nat
    BY <1>2
  <2>. QED
    BY <2>1, <2>2, SumType
<1>5. \A b \in Branches : InitStock[b][p] \in Nat
  BY SalesAssumption DEF Quantities
<1>. QED
  BY <1>1, <1>2, <1>3, <1>4, <1>5

(* An invoice that joins, or leaves, the live ones moves its branch's sum. *)
LEMMA SoldMore ==
    ASSUME NEW i \in Invoices, NEW A \in SUBSET Invoices, i \notin A, NEW p \in Products
    PROVE  SumFunctionOnSet(UnitsSold(p), A \cup {i}) =
               Sale[i].units[p] + SumFunctionOnSet(UnitsSold(p), A)
<1>1. \A j \in Invoices : UnitsSold(p)[j] \in Nat
  BY GoodsTypes
<1>2. SumFunctionOnSet(UnitsSold(p), A \cup {i}) =
          UnitsSold(p)[i] + SumFunctionOnSet(UnitsSold(p), A)
  <2>1. IsFiniteSet(Invoices) /\ i \in Invoices \ A
    BY SalesAssumption
  <2>. QED
    BY <1>1, <2>1, SumInsert
<1>. QED
  BY <1>2, GoodsTypes

LEMMA BackMore ==
    ASSUME NEW r \in Returns, NEW A \in SUBSET Returns, r \notin A, NEW p \in Products
    PROVE  SumFunctionOnSet(UnitsBack(p), A \cup {r}) =
               Credit[r].units[p] + SumFunctionOnSet(UnitsBack(p), A)
<1>1. \A q \in Returns : UnitsBack(p)[q] \in Nat
  BY GoodsTypes
<1>2. SumFunctionOnSet(UnitsBack(p), A \cup {r}) =
          UnitsBack(p)[r] + SumFunctionOnSet(UnitsBack(p), A)
  <2>1. IsFiniteSet(Returns) /\ r \in Returns \ A
    BY SalesAssumption
  <2>. QED
    BY <1>1, <2>1, SumInsert
<1>. QED
  BY <1>2, GoodsTypes

LEMMA MovedValue ==
    ASSUME NEW f \in [Branches -> [Products -> Int]], NEW b \in Branches, NEW units \in Quantities,
           NEW sign \in {1, -1}, NEW c \in Branches, NEW p \in Products
    PROVE  Moved(f, b, units, sign)[c][p] =
               IF c = b THEN f[c][p] + sign * units[p] ELSE f[c][p]
  BY DEF Moved

LEMMA SoldIs ==
    ASSUME NEW b \in Branches, NEW p \in Products
    PROVE  /\ Sold(b, p) = SumFunctionOnSet(UnitsSold(p), LiveInvoices(b))
           /\ LiveInvoices(b) \in SUBSET Invoices
           /\ \A A : CameBack(p, A) = SumFunctionOnSet(UnitsBack(p), A)
           /\ LiveReturns(b) \in SUBSET Returns /\ Restocked(b) \in SUBSET Returns
           /\ Sold(b, p) \in Nat /\ CameBack(p, Restocked(b)) \in Nat
           /\ CameBack(p, LiveReturns(b)) \in Nat
<1>1. /\ Sold(b, p) = SumFunctionOnSet(UnitsSold(p), LiveInvoices(b))
      /\ \A A : CameBack(p, A) = SumFunctionOnSet(UnitsBack(p), A)
  BY DEF Sold, CameBack, UnitsSold, UnitsBack
<1>2. /\ LiveInvoices(b) \in SUBSET Invoices
      /\ LiveReturns(b) \in SUBSET Returns /\ Restocked(b) \in SUBSET Returns
  BY DEF LiveInvoices, LiveReturns, Restocked
<1>. QED
  BY <1>1, <1>2, GoodsTypes

LEMMA SellGoods ==
    ASSUME TypeInv, GoodsInv, NEW h \in Handlers, Sell(h)
    PROVE  GoodsInv'
<1>1. PICK i \in Invoices : i = target[h] /\ invoice[i].status = "NONE"
  BY Targets DEF Sell, CanSell
<1>2. /\ stock' = Moved(stock, Sale[i].branch, Sale[i].units, -1)
      /\ ledger' = Moved(ledger, Sale[i].branch, Sale[i].units, -1)
      /\ UNCHANGED ret
  BY <1>1 DEF Sell
<1>3. /\ invoice'[i].status = "POSTED"
      /\ \A j \in Invoices \ {i} : invoice'[j] = invoice[j]
  BY <1>1 DEF Sell, TypeInv, TypeOK
<1>4. Sale[i].branch \in Branches /\ Sale[i].units \in Quantities
  BY PlanTypes
<1>5. ASSUME NEW b \in Branches, NEW p \in Products
      PROVE  (StockExplained(b, p) /\ LedgerExplained(b, p))'
  <2>1. LiveReturns(b)' = LiveReturns(b) /\ Restocked(b)' = Restocked(b)
    BY <1>2 DEF LiveReturns, Restocked
  <2>2. StockExplained(b, p) /\ LedgerExplained(b, p)
    BY DEF GoodsInv
  <2>3. Sold(b, p)' = Sold(b, p) + (IF b = Sale[i].branch THEN Sale[i].units[p] ELSE 0)
    <3>1. LiveInvoices(b) \in SUBSET Invoices /\ i \notin LiveInvoices(b)
      BY <1>1 DEF LiveInvoices
    <3>2. LiveInvoices(b)' =
              IF b = Sale[i].branch THEN LiveInvoices(b) \cup {i} ELSE LiveInvoices(b)
      BY <1>3 DEF LiveInvoices
    <3>3. Sale[i].units[p] \in Nat /\ SumFunctionOnSet(UnitsSold(p), LiveInvoices(b)) \in Nat
      BY <3>1, <1>4, GoodsTypes DEF Quantities
    <3>4. Sold(b, p) = SumFunctionOnSet(UnitsSold(p), LiveInvoices(b))
      BY SoldIs
    <3>5. Sold(b, p)' = SumFunctionOnSet(UnitsSold(p), LiveInvoices(b)')
      BY DEF Sold, UnitsSold
    <3>6. SumFunctionOnSet(UnitsSold(p), LiveInvoices(b) \cup {i}) =
              Sale[i].units[p] + SumFunctionOnSet(UnitsSold(p), LiveInvoices(b))
      BY <3>1, SoldMore
    <3>. QED
      BY <3>2, <3>3, <3>4, <3>5, <3>6
  <2>4. /\ stock'[b][p] = stock[b][p] - (IF b = Sale[i].branch THEN Sale[i].units[p] ELSE 0)
        /\ ledger'[b][p] = ledger[b][p] - (IF b = Sale[i].branch THEN Sale[i].units[p] ELSE 0)
    <3>1. Sale[i].units[p] \in Nat /\ stock[b][p] \in Int /\ ledger[b][p] \in Int
      BY <1>4 DEF Quantities, TypeInv, TypeOK
    <3>2. /\ stock \in [Branches -> [Products -> Int]]
          /\ ledger \in [Branches -> [Products -> Int]] /\ -1 \in {1, -1}
      BY DEF TypeInv, TypeOK
    <3>3. ASSUME NEW f \in [Branches -> [Products -> Int]]
          PROVE  Moved(f, Sale[i].branch, Sale[i].units, -1)[b][p] =
                     IF b = Sale[i].branch THEN f[b][p] + (-1) * Sale[i].units[p] ELSE f[b][p]
      <4>. DEFINE at == Sale[i].branch
                  units == Sale[i].units
      <4>1. at \in Branches /\ units \in Quantities
        BY <1>4
      <4>. HIDE DEF at, units
      <4>2. Moved(f, at, units, -1)[b][p] =
                IF b = at THEN f[b][p] + (-1) * units[p] ELSE f[b][p]
        BY <4>1, <3>2, MovedValue
      <4>. QED
        BY <4>2 DEF at, units
    <3>. QED
      BY <1>2, <3>1, <3>2, <3>3
  <2>5. /\ Sold(b, p) \in Nat /\ CameBack(p, Restocked(b)) \in Nat
        /\ CameBack(p, LiveReturns(b)) \in Nat /\ InitStock[b][p] \in Nat
        /\ Sale[i].units[p] \in Nat
    BY <1>4, GoodsTypes, SoldIs DEF Quantities
  <2>. QED
    BY <1>2, <2>1, <2>2, <2>3, <2>4, <2>5 DEF StockExplained, LedgerExplained, CameBack
<1>. QED
  BY <1>5 DEF GoodsInv

LEMMA VoidGoods ==
    ASSUME TypeInv, HandsInv, GoodsInv, NEW h \in Handlers, Void(h)
    PROVE  GoodsInv'
<1>1. PICK i \in Invoices : i = target[h] /\ invoice[i].status = "POSTED"
  BY Targets DEF Void, HandsInv, InHand
<1>2. /\ stock' = Moved(stock, Sale[i].branch, Sale[i].units, 1)
      /\ ledger' = Moved(ledger, Sale[i].branch, Sale[i].units, 1)
      /\ UNCHANGED ret
  BY <1>1 DEF Void
<1>3. /\ invoice'[i].status = "CANCELLED"
      /\ \A j \in Invoices \ {i} : invoice'[j] = invoice[j]
  BY <1>1 DEF Void, TypeInv, TypeOK
<1>4. Sale[i].branch \in Branches /\ Sale[i].units \in Quantities
  BY PlanTypes
<1>5. ASSUME NEW b \in Branches, NEW p \in Products
      PROVE  (StockExplained(b, p) /\ LedgerExplained(b, p))'
  <2>1. LiveReturns(b)' = LiveReturns(b) /\ Restocked(b)' = Restocked(b)
    BY <1>2 DEF LiveReturns, Restocked
  <2>2. StockExplained(b, p) /\ LedgerExplained(b, p)
    BY DEF GoodsInv
  <2>3. Sold(b, p) = Sold(b, p)' + (IF b = Sale[i].branch THEN Sale[i].units[p] ELSE 0)
    <3>1. LiveInvoices(b)' \in SUBSET Invoices /\ i \notin LiveInvoices(b)'
      BY <1>3 DEF LiveInvoices
    <3>2. LiveInvoices(b) =
              IF b = Sale[i].branch THEN LiveInvoices(b)' \cup {i} ELSE LiveInvoices(b)'
      BY <1>1, <1>3 DEF LiveInvoices
    <3>3. Sale[i].units[p] \in Nat /\ SumFunctionOnSet(UnitsSold(p), LiveInvoices(b)') \in Nat
      BY <3>1, <1>4, GoodsTypes DEF Quantities
    <3>4. Sold(b, p) = SumFunctionOnSet(UnitsSold(p), LiveInvoices(b))
      BY SoldIs
    <3>5. Sold(b, p)' = SumFunctionOnSet(UnitsSold(p), LiveInvoices(b)')
      BY DEF Sold, UnitsSold
    <3>6. SumFunctionOnSet(UnitsSold(p), LiveInvoices(b)' \cup {i}) =
              Sale[i].units[p] + SumFunctionOnSet(UnitsSold(p), LiveInvoices(b)')
      BY <3>1, SoldMore
    <3>. QED
      BY <3>2, <3>3, <3>4, <3>5, <3>6
  <2>4. /\ stock'[b][p] = stock[b][p] + (IF b = Sale[i].branch THEN Sale[i].units[p] ELSE 0)
        /\ ledger'[b][p] = ledger[b][p] + (IF b = Sale[i].branch THEN Sale[i].units[p] ELSE 0)
        /\ stock[b][p] \in Int /\ ledger[b][p] \in Int
    <3>1. Sale[i].units[p] \in Nat /\ stock[b][p] \in Int /\ ledger[b][p] \in Int
      BY <1>4 DEF Quantities, TypeInv, TypeOK
    <3>2. /\ stock \in [Branches -> [Products -> Int]]
          /\ ledger \in [Branches -> [Products -> Int]] /\ 1 \in {1, -1}
      BY DEF TypeInv, TypeOK
    <3>3. ASSUME NEW f \in [Branches -> [Products -> Int]]
          PROVE  Moved(f, Sale[i].branch, Sale[i].units, 1)[b][p] =
                     IF b = Sale[i].branch THEN f[b][p] + 1 * Sale[i].units[p] ELSE f[b][p]
      <4>. DEFINE at == Sale[i].branch
                  units == Sale[i].units
      <4>1. at \in Branches /\ units \in Quantities
        BY <1>4
      <4>. HIDE DEF at, units
      <4>2. Moved(f, at, units, 1)[b][p] =
                IF b = at THEN f[b][p] + 1 * units[p] ELSE f[b][p]
        BY <4>1, <3>2, MovedValue
      <4>. QED
        BY <4>2 DEF at, units
    <3>. QED
      BY <1>2, <3>1, <3>2, <3>3
  <2>5. /\ Sold(b, p) \in Nat /\ CameBack(p, Restocked(b)) \in Nat
        /\ CameBack(p, LiveReturns(b)) \in Nat /\ InitStock[b][p] \in Nat
        /\ Sale[i].units[p] \in Nat
    BY <1>4, GoodsTypes, SoldIs DEF Quantities
  <2>6. Sold(b, p)' \in Int
    <3>1. Sold(b, p)' = SumFunctionOnSet(UnitsSold(p), LiveInvoices(b)')
      BY DEF Sold, UnitsSold
    <3>2. LiveInvoices(b)' \in SUBSET Invoices
      BY DEF LiveInvoices
    <3>. QED
      BY <3>1, <3>2, GoodsTypes
  <2>. QED
    BY <1>2, <2>1, <2>2, <2>3, <2>4, <2>5, <2>6 DEF StockExplained, LedgerExplained, CameBack
<1>. QED
  BY <1>5 DEF GoodsInv

(* A return whose goods come back: its units are in the ledger and, when   *)
(* restockable, in the stock.                                              *)
LEMMA ApplyGoods ==
    ASSUME TypeInv, GoodsInv, NEW r \in Returns, ApplyReturn(r), ret[r] \in {"NONE", "DRAFT"},
           ret' = [ret EXCEPT ![r] = "POSTED"], UNCHANGED invoice
    PROVE  GoodsInv'
<1>1. ret'[r] = "POSTED" /\ \A q \in Returns \ {r} : ret'[q] = ret[q]
  BY DEF TypeInv, TypeOK
<1>2. Credit[r].branch \in Branches /\ Credit[r].units \in Quantities
  BY PlanTypes
<1>3. ASSUME NEW b \in Branches, NEW p \in Products
      PROVE  (StockExplained(b, p) /\ LedgerExplained(b, p))'
  <2>. DEFINE more == IF b = Credit[r].branch THEN Credit[r].units[p] ELSE 0
  <2>1. StockExplained(b, p) /\ LedgerExplained(b, p) /\ Sold(b, p)' = Sold(b, p)
    BY DEF GoodsInv, Sold, LiveInvoices
  <2>2. Credit[r].units[p] \in Nat /\ stock[b][p] \in Int /\ ledger[b][p] \in Int
    BY <1>2 DEF Quantities, TypeInv, TypeOK
  <2>3. \A f \in [Branches -> [Products -> Int]] :
            Moved(f, Credit[r].branch, Credit[r].units, 1)[b][p] = f[b][p] + more
    <3>1. 1 \in {1, -1}
      OBVIOUS
    <3>2. \A f \in [Branches -> [Products -> Int]] :
              Moved(f, Credit[r].branch, Credit[r].units, 1)[b][p] =
                  IF b = Credit[r].branch THEN f[b][p] + 1 * Credit[r].units[p] ELSE f[b][p]
      BY <1>2, <3>1, MovedValue
    <3>. QED
      BY <2>2, <3>2
  <2>4. /\ ledger'[b][p] = ledger[b][p] + more
        /\ stock'[b][p] = stock[b][p] + (IF Credit[r].restockable THEN more ELSE 0)
    <3>1. /\ stock \in [Branches -> [Products -> Int]]
          /\ ledger \in [Branches -> [Products -> Int]]
      BY DEF TypeInv, TypeOK
    <3>. HIDE DEF more
    <3>. QED
      BY <2>2, <2>3, <3>1 DEF ApplyReturn
  <2>5. ASSUME NEW A \in SUBSET Returns, r \notin A
        PROVE  SumFunctionOnSet(UnitsBack(p), A \cup {r}) =
                   Credit[r].units[p] + SumFunctionOnSet(UnitsBack(p), A)
    BY <2>5, BackMore
  <2>6. /\ CameBack(p, LiveReturns(b))' = SumFunctionOnSet(UnitsBack(p), LiveReturns(b)')
        /\ CameBack(p, Restocked(b))' = SumFunctionOnSet(UnitsBack(p), Restocked(b)')
    BY DEF CameBack, UnitsBack
  <2>7. /\ LiveReturns(b)' = IF b = Credit[r].branch THEN LiveReturns(b) \cup {r} ELSE LiveReturns(b)
        /\ Restocked(b)' = IF b = Credit[r].branch /\ Credit[r].restockable
                           THEN Restocked(b) \cup {r} ELSE Restocked(b)
        /\ r \notin LiveReturns(b) /\ r \notin Restocked(b)
    BY <1>1 DEF LiveReturns, Restocked
  <2>8. /\ CameBack(p, LiveReturns(b))' = CameBack(p, LiveReturns(b)) + more
        /\ CameBack(p, Restocked(b))' =
               CameBack(p, Restocked(b)) + (IF Credit[r].restockable THEN more ELSE 0)
    BY <2>2, <2>5, <2>6, <2>7, SoldIs
  <2>9. /\ Sold(b, p) \in Nat /\ CameBack(p, Restocked(b)) \in Nat
        /\ CameBack(p, LiveReturns(b)) \in Nat /\ InitStock[b][p] \in Nat /\ more \in Nat
    BY <2>2, GoodsTypes, SoldIs
  <2>10. (\A q \in Returns : ret'[q] # "CANCELLED") => (\A q \in Returns : ret[q] # "CANCELLED")
    BY <1>1
  <2>. HIDE DEF more
  <2>. QED
    BY <2>1, <2>2, <2>4, <2>8, <2>9, <2>10 DEF StockExplained, LedgerExplained
<1>. QED
  BY <1>3 DEF GoodsInv

(* A return that is held as a draft, or dropped while it is one.           *)
LEMMA DraftGoods ==
    ASSUME TypeInv, GoodsInv, NEW r \in Returns, NEW st, ret[r] # "POSTED", st # "POSTED",
           ret[r] = "CANCELLED" => st = "CANCELLED",
           ret' = [ret EXCEPT ![r] = st], UNCHANGED <<invoice, stock, ledger>>
    PROVE  GoodsInv'
<1>1. ret'[r] = st /\ \A q \in Returns \ {r} : ret'[q] = ret[q]
  BY DEF TypeInv, TypeOK
<1>2. ASSUME NEW b \in Branches, NEW p \in Products
      PROVE  (StockExplained(b, p) /\ LedgerExplained(b, p))'
  <2>1. StockExplained(b, p) /\ LedgerExplained(b, p)
    BY DEF GoodsInv
  <2>2. /\ LiveReturns(b)' = LiveReturns(b) /\ Restocked(b)' = Restocked(b)
        /\ Sold(b, p)' = Sold(b, p)
    BY <1>1 DEF LiveReturns, Restocked, Sold, LiveInvoices
  <2>3. (\A q \in Returns : ret'[q] # "CANCELLED") => (\A q \in Returns : ret[q] # "CANCELLED")
    BY <1>1
  <2>. QED
    BY <2>1, <2>2, <2>3 DEF StockExplained, LedgerExplained, CameBack
<1>. QED
  BY <1>2 DEF GoodsInv

(* A posted return that is cancelled: its goods, still there, leave again. *)
LEMMA UnreturnGoods ==
    ASSUME "RESOLD" \notin Mishaps, TypeInv, HandsInv, GoodsInv, NEW h \in Handlers, Unreturn(h)
    PROVE  GoodsInv'
<1>1. PICK r \in Returns : r = target[h] /\ ret[r] = seen[h] /\ seen[h] \in {"DRAFT", "POSTED"}
  BY Targets DEF Unreturn, HandsInv, InHand
<1>2. ret' = [ret EXCEPT ![r] = "CANCELLED"] /\ UNCHANGED <<invoice, ledger>>
  BY <1>1 DEF Unreturn
<1>3. CASE seen[h] = "DRAFT"
  <2>1. UNCHANGED stock
    BY <1>3 DEF Unreturn
  <2>. QED
    BY <1>1, <1>2, <1>3, <2>1, DraftGoods
<1>4. CASE seen[h] = "POSTED"
  <2>1. ret'[r] = "CANCELLED" /\ \A q \in Returns \ {r} : ret'[q] = ret[q]
    BY <1>2 DEF TypeInv, TypeOK
  <2>2. Credit[r].branch \in Branches /\ Credit[r].units \in Quantities
    BY PlanTypes
  <2>3. Credit[r].restockable => Enough(Credit[r].branch, Credit[r].units)
    BY <1>1, <1>4 DEF Unreturn, StillHere
  <2>4. ASSUME NEW b \in Branches, NEW p \in Products
        PROVE  (StockExplained(b, p) /\ LedgerExplained(b, p))'
    <3>. DEFINE less == IF b = Credit[r].branch /\ Credit[r].restockable
                        THEN Credit[r].units[p] ELSE 0
    <3>1. StockExplained(b, p) /\ Sold(b, p)' = Sold(b, p)
      BY <1>2 DEF GoodsInv, Sold, LiveInvoices
    <3>2. Credit[r].units[p] \in Nat /\ stock[b][p] \in Int
      BY <2>2 DEF Quantities, TypeInv, TypeOK
    <3>3. stock'[b][p] = stock[b][p] - less
      <4>1. CASE Credit[r].restockable
        <5>1. stock[Credit[r].branch][p] >= Credit[r].units[p]
          BY <2>3, <4>1 DEF Enough
        <5>2. stock' = [stock EXCEPT ![Credit[r].branch] = [q \in Products |->
                  IF @[q] >= Credit[r].units[q] THEN @[q] - Credit[r].units[q] ELSE @[q]]]
          BY <1>1, <1>4, <4>1 DEF Unreturn
        <5>. QED
          BY <2>2, <3>2, <4>1, <5>1, <5>2 DEF TypeInv, TypeOK
      <4>2. CASE ~Credit[r].restockable
        BY <1>1, <3>2, <4>2 DEF Unreturn
      <4>. QED
        BY <4>1, <4>2
    <3>4. CameBack(p, Restocked(b))' = SumFunctionOnSet(UnitsBack(p), Restocked(b)')
      BY DEF CameBack, UnitsBack
    <3>5. /\ Restocked(b) = IF b = Credit[r].branch /\ Credit[r].restockable
                            THEN Restocked(b)' \cup {r} ELSE Restocked(b)'
          /\ r \notin Restocked(b)' /\ Restocked(b)' \in SUBSET Returns
      BY <1>1, <1>4, <2>1 DEF LiveReturns, Restocked
    <3>6. SumFunctionOnSet(UnitsBack(p), Restocked(b)' \cup {r}) =
              Credit[r].units[p] + SumFunctionOnSet(UnitsBack(p), Restocked(b)')
      BY <3>5, BackMore
    <3>7. SumFunctionOnSet(UnitsBack(p), Restocked(b)') \in Nat
      BY <3>5, GoodsTypes
    <3>8. CameBack(p, Restocked(b)) = CameBack(p, Restocked(b))' + less
      BY <3>2, <3>4, <3>5, <3>6, <3>7, SoldIs
    <3>9. /\ Sold(b, p) \in Nat /\ CameBack(p, Restocked(b))' \in Nat
          /\ InitStock[b][p] \in Nat /\ less \in Nat
      BY <3>2, <3>4, <3>7, GoodsTypes, SoldIs
    <3>10. LedgerExplained(b, p)'
      BY <2>1 DEF LedgerExplained
    <3>. HIDE DEF less
    <3>. QED
      BY <3>1, <3>2, <3>3, <3>8, <3>9, <3>10 DEF StockExplained
  <2>. QED
    BY <2>4 DEF GoodsInv
<1>. QED
  BY <1>1, <1>3, <1>4

LEMMA SameGoods ==
    ASSUME GoodsInv, UNCHANGED <<ret, stock, ledger>>,
           \A i \in Invoices : invoice'[i].status = invoice[i].status
    PROVE  GoodsInv'
<1>1. \A b \in Branches : /\ LiveInvoices(b)' = LiveInvoices(b)
                          /\ LiveReturns(b)' = LiveReturns(b) /\ Restocked(b)' = Restocked(b)
  BY DEF LiveInvoices, LiveReturns, Restocked
<1>2. \A b \in Branches, p \in Products : Sold(b, p)' = Sold(b, p)
  BY <1>1 DEF Sold
<1>. QED
  BY <1>1, <1>2 DEF GoodsInv, StockExplained, LedgerExplained, CameBack

LEMMA NextGoods ==
    ASSUME "RESOLD" \notin Mishaps
    PROVE  TypeInv /\ HandsInv /\ GoodsInv /\ [Next]_vars => GoodsInv'
<1>. SUFFICES ASSUME TypeInv, HandsInv, GoodsInv, [Next]_vars PROVE GoodsInv'
  OBVIOUS
<1>1. CASE UNCHANGED vars
  BY <1>1, SameGoods DEF vars, tables
<1>2. ASSUME NEW h \in Handlers,
             \/ Start(h) \/ Refuse(h) \/ LockInvoice(h) \/ Check(h) \/ Insert(h)
             \/ PostPayment(h) \/ Reverse(h)
      PROVE  GoodsInv'
  <2>1. UNCHANGED <<ret, stock, ledger>>
    BY <1>2, QuietSteps DEF tables, PostPayment, Reverse
  <2>2. \A i \in Invoices : invoice'[i].status = invoice[i].status
    <3>1. Start(h) \/ Refuse(h) \/ LockInvoice(h) \/ Check(h) \/ Insert(h) => UNCHANGED invoice
      BY QuietSteps DEF tables
    <3>2. ASSUME PostPayment(h), NEW i \in Invoices
          PROVE  invoice'[i].status = invoice[i].status
      BY <3>2 DEF PostPayment, TypeInv, TypeOK
    <3>3. ASSUME Reverse(h), NEW i \in Invoices
          PROVE  invoice'[i].status = invoice[i].status
      BY <3>3 DEF Reverse, TypeInv, TypeOK
    <3>. QED
      BY <1>2, <3>1, <3>2, <3>3
  <2>. QED
    BY <2>1, <2>2, SameGoods
<1>3. ASSUME NEW h \in Handlers, PostReturn(h) PROVE GoodsInv'
  <2>1. target[h] \in Returns /\ ret[target[h]] = "NONE"
    BY <1>3, Targets DEF PostReturn, HandsInv, InHand
  <2>2. CASE Credit[target[h]].draft
    BY <1>3, <2>1, <2>2, DraftGoods DEF PostReturn
  <2>3. CASE ~Credit[target[h]].draft
    BY <1>3, <2>1, <2>3, ApplyGoods DEF PostReturn
  <2>. QED
    BY <2>2, <2>3
<1>4. ASSUME NEW h \in Handlers, Approve(h) PROVE GoodsInv'
  BY <1>4, Targets, ApplyGoods DEF Approve, Draft
<1>5. ASSUME NEW h \in Handlers, Sell(h) \/ Void(h) \/ Unreturn(h) PROVE GoodsInv'
  BY <1>5, SellGoods, VoidGoods, UnreturnGoods
<1>. QED
  BY <1>1, <1>2, <1>3, <1>4, <1>5, NextCases

(* Stock and movement ledger are those of the live documents: no void,     *)
(* return, approval or cancellation moves goods twice or not at all, as    *)
(* long as the goods of a cancelled return are still there (RESOLD).       *)
THEOREM GoodsExplained ==
    ASSUME "RESOLD" \notin Mishaps
    PROVE  Spec => []StockMatchesDocuments
<1>1. Init => GoodsInv
  <2>. SUFFICES ASSUME Init, NEW b \in Branches, NEW p \in Products
                PROVE  StockExplained(b, p) /\ LedgerExplained(b, p)
    BY DEF GoodsInv
  <2>1. LiveInvoices(b) = {} /\ LiveReturns(b) = {} /\ Restocked(b) = {}
    BY DEF Init, LiveInvoices, LiveReturns, Restocked, Unposted
  <2>2. SumFunctionOnSet(UnitsSold(p), {}) = 0 /\ SumFunctionOnSet(UnitsBack(p), {}) = 0
    BY FS_EmptySet, SumStep
  <2>3. Sold(b, p) = 0 /\ CameBack(p, {}) = 0
    BY <2>1, <2>2, SoldIs
  <2>4. stock[b][p] = InitStock[b][p] /\ ledger[b][p] = 0 /\ InitStock[b][p] \in Nat
    BY GoodsTypes DEF Init
  <2>. QED
    BY <2>1, <2>3, <2>4 DEF StockExplained, LedgerExplained
<1>2. GoodsInv => StockMatchesDocuments
  BY DEF GoodsInv, StockMatchesDocuments, StockExplained, LedgerExplained, Restocked
<1>3. Spec => []GoodsInv
  BY <1>1, NextGoods, HandsAlways, TypesAlways, PTL DEF Spec
<1>. QED
  BY <1>2, <1>3, PTL

-----------------------------------------------------------------------------
(* The serial register.  What clients send: a return takes back units of   *)
(* its own invoice, and no two returns of an invoice name the same unit.   *)

OwnUnits ==
    /\ \A r \in Returns : Credit[r].serials \subseteq Sale[Credit[r].invoice].serials
    /\ \A q, r \in Returns : q # r /\ Credit[q].invoice = Credit[r].invoice =>
           Credit[q].serials \cap Credit[r].serials = {}

(* A return, and a request to post one, is of an invoice that was posted.  *)
Returning(h) == pc[h] \in {"check", "insert", "post"} /\ kind[h] = "RETURN"
BegunInv ==
    /\ \A r \in Returns : ret[r] # "NONE" => invoice[Credit[r].invoice].status # "NONE"
    /\ \A h \in Handlers : Returning(h) =>
           invoice[Credit[target[h]].invoice].status # "NONE"

LEMMA NextBegun == TypeInv /\ HandsInv /\ BegunInv /\ [Next]_vars => BegunInv'
<1>. SUFFICES ASSUME TypeInv, HandsInv, BegunInv, [Next]_vars PROVE BegunInv'
  OBVIOUS
<1>1. \A i \in Invoices : invoice[i].status # "NONE" => invoice'[i].status # "NONE"
  BY StatusSteps
<1>2. ASSUME NEW r \in Returns, ret'[r] # "NONE", ret[r] = "NONE"
      PROVE  invoice[Credit[r].invoice].status # "NONE"
  <2>1. ret' # ret
    BY <1>2
  <2>2. PICK h \in Handlers : PostReturn(h) \/ Approve(h) \/ Unreturn(h)
    BY <2>1, NextCases, QuietSteps DEF vars, tables, Sell, Void, PostPayment, Reverse
  <2>3. target[h] = r
    BY <1>2, <2>2 DEF PostReturn, Approve, Unreturn, TypeInv, TypeOK
  <2>4. CASE PostReturn(h)
    BY <2>3, <2>4 DEF PostReturn, BegunInv, Returning
  <2>5. CASE Approve(h)
    BY <1>2, <2>3, <2>5 DEF Approve, Draft
  <2>6. CASE Unreturn(h)
    BY <1>2, <2>3, <2>6 DEF Unreturn, HandsInv, InHand
  <2>. QED
    BY <2>2, <2>4, <2>5, <2>6
<1>3. ASSUME NEW g \in Handlers, Returning(g)'
      PROVE  invoice[Credit[target[g]'].invoice].status # "NONE"
  <2>1. CASE UNCHANGED <<pc, kind, target>>
    BY <1>3, <2>1 DEF BegunInv, Returning
  <2>2. ASSUME NEW h \in Handlers, Finish(h) PROVE g # h /\ Returning(g) /\ target'[g] = target[g]
    BY <1>3, <2>2 DEF Finish, Returning, TypeInv, TypeOK
  <2>3. ASSUME NEW h \in Handlers, LockInvoice(h) \/ Check(h) \/ Insert(h)
        PROVE  Returning(g) /\ target'[g] = target[g]
    BY <1>3, <2>3 DEF LockInvoice, Check, Insert, Proceed, request, Returning, TypeInv, TypeOK
  <2>4. ASSUME NEW h \in Handlers, Start(h)
        PROVE  \/ g # h /\ Returning(g) /\ target'[g] = target[g]
               \/ invoice[Credit[target[g]'].invoice].status # "NONE"
    <3>1. CASE g # h
      BY <1>3, <2>4, <3>1
         DEF Start, StartSale, StartVoid, StartReturn, StartApprove, StartUnreturn,
             StartPay, StartReverse, Open, Returning, TypeInv, TypeOK
    <3>2. CASE g = h
      <4>1. PICK r \in Returns : StartReturn(h, r)
        BY <1>3, <2>4, <3>2
           DEF Start, StartSale, StartVoid, StartApprove, StartUnreturn,
               StartPay, StartReverse, Open, Returning, TypeInv, TypeOK
      <4>. QED
        BY <3>2, <4>1 DEF StartReturn, Open, TypeInv, TypeOK
    <3>. QED
      BY <3>1, <3>2
  <2>5. ASSUME NEW h \in Handlers,
               \/ Refuse(h) \/ Sell(h) \/ Void(h) \/ PostReturn(h) \/ Approve(h) \/ Unreturn(h)
               \/ PostPayment(h) \/ Reverse(h)
        PROVE  Returning(g) /\ target'[g] = target[g]
    <3>1. Finish(h)
      BY <2>5 DEF Refuse, Sell, Void, PostReturn, Approve, Unreturn, PostPayment, Reverse
    <3>. QED
      BY <2>2, <3>1
  <2>6. Returning(g) /\ target'[g] = target[g] => invoice[Credit[target[g]'].invoice].status # "NONE"
    BY DEF BegunInv
  <2>7. CASE UNCHANGED vars
    BY <2>1, <2>7 DEF vars, request
  <2>. QED
    BY <2>3, <2>4, <2>5, <2>6, <2>7, NextCases
<1>4. ASSUME NEW r \in Returns, ret'[r] # "NONE"
      PROVE  (invoice[Credit[r].invoice].status # "NONE")'
  BY <1>1, <1>2, <1>4, PlanTypes DEF BegunInv
<1>5. ASSUME NEW g \in Handlers, Returning(g)'
      PROVE  (invoice[Credit[target[g]].invoice].status # "NONE")'
  <2>1. target'[g] \in Returns
    <3>1. TypeInv'
      BY NextTypes
    <3>. QED
      BY <1>5, <3>1 DEF TypeInv, Working, Returning
  <2>. QED
    BY <1>1, <1>3, <1>5, <2>1, PlanTypes
<1>. QED
  BY <1>4, <1>5 DEF BegunInv

LEMMA BegunAlways == Spec => []BegunInv
<1>1. Init => BegunInv
  BY DEF Init, BegunInv, Returning
<1>. QED
  BY <1>1, NextBegun, HandsAlways, TypesAlways, PTL DEF Spec

(* A live return, and one that is being posted, is of a live invoice.      *)
LEMMA LiveReturn ==
    ASSUME TypeInv, BegunInv, ClosedInv, NEW r \in Returns,
           \/ ret[r] \in {"DRAFT", "POSTED"}
           \/ \E h \in Handlers : pc[h] = "post" /\ kind[h] = "RETURN" /\ target[h] = r
    PROVE  invoice[Credit[r].invoice].status = "POSTED"
<1>1. Credit[r].invoice \in Invoices
  BY PlanTypes
<1>2. CASE ret[r] \in {"DRAFT", "POSTED"}
  BY <1>1, <1>2 DEF BegunInv, ClosedInv, Settled, TypeInv, TypeOK
<1>3. ASSUME NEW h \in Handlers, pc[h] = "post", kind[h] = "RETURN", target[h] = r
      PROVE  invoice[Credit[r].invoice].status = "POSTED"
  <2>1. Sharing(Credit[r].invoice)
    BY <1>3, ActiveTargets DEF Sharing
  <2>. QED
    BY <1>1, <1>3, <2>1 DEF BegunInv, Returning, ClosedInv, TypeInv, TypeOK
<1>. QED
  BY <1>2, <1>3

Unit(s) ==
    /\ \A i, j \in Holders(s) : i = j
    /\ serial[s].status = "IN_STOCK" => Holders(s) = {}
    /\ serial[s].status = "CUSTOMER_ASSIGNED" => serial[s].source \in Holders(s)
    /\ serial[s].status = "SOLD" => \E r \in Returns :
           ret[r] = "CANCELLED" /\ s \in Credit[r].serials /\ Credit[r].invoice \in Holders(s)
IntactInv == \A h \in Handlers : pc[h] = "void" => ~Undone(target[h])
UnitsInv == IntactInv /\ \A s \in Serials : Unit(s)

(* Who holds a unit depends on the invoices' statuses and posted returns.  *)
LEMMA SameUnits ==
    ASSUME UnitsInv, UNCHANGED <<ret, serial>>,
           \A i \in Invoices : invoice'[i].status = invoice[i].status
    PROVE  \A s \in Serials : Unit(s)'
<1>1. ASSUME NEW s \in Serials PROVE Holders(s)' = Holders(s)
  BY DEF Holders, PostedReturns
<1>. QED
  BY <1>1 DEF UnitsInv, Unit

LEMMA SellUnits ==
    ASSUME TypeInv, BegunInv, UnitsInv, NEW h \in Handlers, Sell(h), NEW s \in Serials
    PROVE  Unit(s)'
<1>1. PICK i \in Invoices : i = target[h] /\ invoice[i].status = "NONE" /\ Claimable(i)
  BY Targets DEF Sell, CanSell
<1>2. /\ UNCHANGED ret /\ invoice'[i].status = "POSTED"
      /\ \A j \in Invoices \ {i} : invoice'[j] = invoice[j]
      /\ serial'[s] = IF s \in Sale[i].serials
                      THEN [status |-> "CUSTOMER_ASSIGNED", source |-> i] ELSE serial[s]
  BY <1>1 DEF Sell, TypeInv, TypeOK
<1>3. PostedReturns(i) = {} /\ \A j \in Invoices : PostedReturns(j)' = PostedReturns(j)
  BY <1>1, <1>2 DEF PostedReturns, BegunInv
<1>4. Holders(s)' = IF s \in Sale[i].serials THEN Holders(s) \cup {i} ELSE Holders(s)
  BY <1>1, <1>2, <1>3 DEF Holders
<1>5. Unit(s)
  BY DEF UnitsInv
<1>6. CASE s \in Sale[i].serials
  <2>1. serial[s].status = "IN_STOCK" /\ Holders(s) = {}
    BY <1>1, <1>5, <1>6 DEF Claimable, Unit
  <2>. QED
    BY <1>2, <1>4, <1>6, <2>1 DEF Unit
<1>7. CASE s \notin Sale[i].serials
  BY <1>2, <1>4, <1>5, <1>7 DEF Unit
<1>. QED
  BY <1>6, <1>7

LEMMA VoidUnits ==
    ASSUME TypeInv, HandsInv, VoidInv, UnitsInv, NEW h \in Handlers, Void(h), NEW s \in Serials
    PROVE  Unit(s)'
<1>1. PICK i \in Invoices : i = target[h] /\ invoice[i].status = "POSTED"
  BY Targets DEF Void, HandsInv, InHand
<1>2. /\ UNCHANGED ret /\ invoice'[i].status = "CANCELLED"
      /\ \A j \in Invoices \ {i} : invoice'[j] = invoice[j]
      /\ serial'[s] = IF s \in Claimed(i)
                      THEN [serial[s] EXCEPT !.status = "IN_STOCK"] ELSE serial[s]
  BY <1>1 DEF Void, TypeInv, TypeOK
<1>3. PostedReturns(i) = {} /\ \A j \in Invoices : PostedReturns(j)' = PostedReturns(j)
  <2>1. Settled(i)
    BY <1>1 DEF Void, VoidInv
  <2>. QED
    BY <1>2, <2>1 DEF PostedReturns, Settled
<1>4. Holders(s)' = Holders(s) \ {i}
  BY <1>1, <1>2, <1>3 DEF Holders
<1>5. Unit(s) /\ ~Undone(i)
  BY <1>1 DEF UnitsInv, IntactInv, Void
<1>6. serial[s] \in [status : {"IN_STOCK", "CUSTOMER_ASSIGNED", "SOLD"},
                     source : Invoices \cup {NoInvoice}]
  BY DEF TypeInv, TypeOK
<1>7. CASE i \in Holders(s)
  <2>1. serial[s].status # "SOLD"
    BY <1>5, <1>7 DEF Unit, Undone
  <2>2. s \in Claimed(i)
    BY <1>5, <1>6, <1>7, <2>1 DEF Unit, Claimed
  <2>3. serial'[s].status = "IN_STOCK" /\ Holders(s)' = {}
    BY <1>2, <1>4, <1>5, <1>6, <1>7, <2>2 DEF Unit
  <2>. QED
    BY <2>3 DEF Unit
<1>8. CASE i \notin Holders(s)
  <2>1. s \notin Claimed(i) /\ Holders(s)' = Holders(s)
    BY <1>4, <1>5, <1>8 DEF Claimed, Unit
  <2>. QED
    BY <1>2, <1>5, <2>1 DEF Unit
<1>. QED
  BY <1>7, <1>8

LEMMA ApplyUnits ==
    ASSUME OwnUnits, TypeInv, UnitsInv, NEW r \in Returns, ApplyReturn(r),
           ret[r] # "POSTED", ret[r] # "CANCELLED",
           invoice[Credit[r].invoice].status = "POSTED",
           ret' = [ret EXCEPT ![r] = "POSTED"], UNCHANGED invoice, NEW s \in Serials
    PROVE  Unit(s)'
<1>. DEFINE i == Credit[r].invoice
<1>1. i \in Invoices /\ Unit(s)
  BY PlanTypes DEF UnitsInv
<1>2. ret'[r] = "POSTED" /\ \A q \in Returns \ {r} : ret'[q] = ret[q]
  BY DEF TypeInv, TypeOK
<1>3. serial'[s] = IF s \in Credit[r].serials
                   THEN [serial[s] EXCEPT !.status = "IN_STOCK"] ELSE serial[s]
  BY DEF ApplyReturn, SerialsTo
<1>4. \A j \in Invoices : PostedReturns(j)' =
          IF j = i THEN PostedReturns(j) \cup {r} ELSE PostedReturns(j)
  BY <1>2 DEF PostedReturns
<1>5. Holders(s)' = IF s \in Credit[r].serials THEN Holders(s) \ {i} ELSE Holders(s)
  BY <1>1, <1>4 DEF Holders
<1>6. serial[s] \in [status : {"IN_STOCK", "CUSTOMER_ASSIGNED", "SOLD"},
                     source : Invoices \cup {NoInvoice}]
  BY DEF TypeInv, TypeOK
<1>7. CASE s \in Credit[r].serials
  <2>1. \A q \in PostedReturns(i) : s \notin Credit[q].serials
    BY <1>7 DEF PostedReturns, OwnUnits
  <2>2. i \in Holders(s)
    BY <1>1, <1>7, <2>1 DEF Holders, OwnUnits
  <2>3. Holders(s)' = {} /\ serial'[s].status = "IN_STOCK"
    BY <1>1, <1>3, <1>5, <1>6, <1>7, <2>2 DEF Unit
  <2>. QED
    BY <2>3 DEF Unit
<1>8. CASE s \notin Credit[r].serials
  BY <1>1, <1>2, <1>3, <1>5, <1>8 DEF Unit
<1>. QED
  BY <1>7, <1>8

LEMMA UnreturnUnits ==
    ASSUME OwnUnits, "RESOLD" \notin Mishaps, TypeInv, HandsInv, BegunInv, ClosedInv, UnitsInv,
           NEW h \in Handlers, Unreturn(h), NEW s \in Serials
    PROVE  Unit(s)'
<1>1. PICK r \in Returns : r = target[h] /\ ret[r] = seen[h] /\ seen[h] \in {"DRAFT", "POSTED"}
  BY Targets DEF Unreturn, HandsInv, InHand
<1>2. /\ UNCHANGED invoice
      /\ ret'[r] = "CANCELLED" /\ \A q \in Returns \ {r} : ret'[q] = ret[q]
  BY <1>1 DEF Unreturn, TypeInv, TypeOK
<1>3. PICK i \in Invoices : i = Credit[r].invoice /\ invoice[i].status = "POSTED"
  BY <1>1, LiveReturn, PlanTypes
<1>4. Unit(s)
  BY DEF UnitsInv
<1>5. CASE seen[h] = "DRAFT"
  <2>1. UNCHANGED serial
    BY <1>5 DEF Unreturn
  <2>2. \A j \in Invoices : PostedReturns(j)' = PostedReturns(j)
    BY <1>1, <1>2, <1>5 DEF PostedReturns
  <2>3. Holders(s)' = Holders(s)
    BY <1>2, <2>2 DEF Holders
  <2>. QED
    BY <1>2, <1>4, <2>1, <2>3 DEF Unit
<1>6. CASE seen[h] = "POSTED"
  <2>1. \A j \in Invoices : PostedReturns(j)' =
            IF j = i THEN PostedReturns(j) \ {r} ELSE PostedReturns(j)
    BY <1>1, <1>2, <1>3, <1>6 DEF PostedReturns
  <2>2. serial'[s] = IF s \in Credit[r].serials
                     THEN [serial[s] EXCEPT !.status = "SOLD"] ELSE serial[s]
    BY <1>1, <1>6 DEF Unreturn, SerialsTo
  <2>3. CASE s \in Credit[r].serials
    <3>1. serial[s].status = "IN_STOCK" /\ Holders(s) = {}
      BY <1>1, <1>4, <1>6, <2>3 DEF Unreturn, StillHere, Unit
    <3>2. \A q \in PostedReturns(i) \ {r} : s \notin Credit[q].serials
      BY <1>3, <2>3 DEF PostedReturns, OwnUnits
    <3>3. s \in Sale[i].serials
      BY <1>3, <2>3 DEF OwnUnits
    <3>4. Holders(s)' = {i}
      BY <1>2, <1>3, <2>1, <3>1, <3>2, <3>3 DEF Holders
    <3>5. serial'[s].status = "SOLD"
      BY <2>2, <2>3 DEF TypeInv, TypeOK
    <3>. QED
      BY <1>2, <1>3, <2>3, <3>4, <3>5 DEF Unit
  <2>4. CASE s \notin Credit[r].serials
    <3>1. Holders(s)' = Holders(s)
      BY <1>2, <2>1, <2>4 DEF Holders
    <3>. QED
      BY <1>2, <1>4, <2>2, <2>4, <3>1 DEF Unit
  <2>. QED
    BY <2>3, <2>4
<1>. QED
  BY <1>1, <1>5, <1>6

(* What a void has checked of the units stays true while it has the lock.  *)
LEMMA NextIntact ==
    ASSUME OwnUnits, "RESOLD" \notin Mishaps
    PROVE  TypeInv /\ HandsInv /\ VoidInv /\ UnitsInv /\ [Next]_vars => IntactInv'
<1>. SUFFICES ASSUME TypeInv, HandsInv, VoidInv, UnitsInv, [Next]_vars,
                     NEW g \in Handlers, (pc[g] = "void")'
              PROVE  ~Undone(target[g])'
  BY DEF IntactInv
<1>1. CASE UNCHANGED vars
  BY <1>1 DEF vars, tables, request, UnitsInv, IntactInv, Undone
<1>2. ASSUME NEW h \in Handlers, LockInvoice(h), g = h PROVE ~Undone(target[g])'
  BY <1>2 DEF LockInvoice, Proceed, tables, request, Undone
<1>3. ASSUME NEW h \in Handlers, g # h \/ ~LockInvoice(h),
             \/ Start(h) \/ Refuse(h) \/ LockInvoice(h) \/ Check(h) \/ Insert(h)
             \/ Sell(h) \/ Void(h) \/ PostReturn(h) \/ Approve(h) \/ Unreturn(h)
             \/ PostPayment(h) \/ Reverse(h)
      PROVE  ~Undone(target[g])'
  <2>1. pc[g] = "void" /\ target'[g] = target[g]
    <3>1. CASE Finish(h)
      BY <3>1 DEF Finish, TypeInv, TypeOK
    <3>2. CASE LockInvoice(h) \/ Check(h) \/ Insert(h)
      BY <1>3, <3>2 DEF LockInvoice, Check, Insert, Proceed, request, TypeInv, TypeOK
    <3>3. CASE Start(h)
      BY <3>3 DEF Start, StartSale, StartVoid, StartReturn, StartApprove, StartUnreturn,
                  StartPay, StartReverse, Open, TypeInv, TypeOK
    <3>. QED
      BY <1>3, <3>1, <3>2, <3>3
         DEF Refuse, Sell, Void, PostReturn, Approve, Unreturn, PostPayment, Reverse
  <2>2. PICK i \in Invoices : i = target[g] /\ invoice[i].status = "POSTED"
    BY <2>1 DEF TypeInv, Working, HandsInv, InHand
  <2>3. Settled(i) /\ ~Undone(i)
    BY <2>1, <2>2 DEF VoidInv, UnitsInv, IntactInv
  <2>4. ASSUME NEW r \in Returns, Credit[r].invoice = i, ret'[r] = "CANCELLED",
               NEW s \in Credit[r].serials, serial'[s].status = "SOLD"
        PROVE  FALSE
    <3>1. ret[r] # "POSTED" /\ ret[r] # "DRAFT" /\ s \in Serials
      BY <2>3, <2>4, SalesAssumption DEF Settled
    <3>2. ret[r] = "CANCELLED"
      <4>1. CASE UNCHANGED ret
        BY <2>4, <4>1
      <4>2. CASE PostReturn(h) \/ Approve(h)
        BY <2>4, <4>2 DEF PostReturn, Approve, TypeInv, TypeOK
      <4>3. CASE Unreturn(h)
        BY <2>4, <3>1, <4>3 DEF Unreturn, HandsInv, InHand, TypeInv, TypeOK
      <4>4. Start(h) \/ Refuse(h) \/ LockInvoice(h) \/ Check(h) \/ Insert(h) => UNCHANGED ret
        BY QuietSteps DEF tables
      <4>. QED
        BY <1>3, <4>1, <4>2, <4>3, <4>4 DEF Sell, Void, PostPayment, Reverse
    <3>3. serial[s].status # "SOLD"
      BY <2>3, <2>4, <3>2 DEF Undone
    <3>4. Unreturn(h)
      <4>1. CASE UNCHANGED serial
        BY <2>4, <3>3, <4>1
      <4>2. CASE Sell(h) \/ Void(h)
        BY <2>4, <3>1, <3>3, <4>2 DEF Sell, Void, TypeInv, TypeOK
      <4>3. ASSUME NEW q, ApplyReturn(q) PROVE FALSE
        BY <2>4, <3>1, <3>3, <4>3 DEF ApplyReturn, SerialsTo, TypeInv, TypeOK
      <4>4. CASE PostReturn(h) \/ Approve(h)
        BY <4>1, <4>3, <4>4 DEF PostReturn, Approve
      <4>5. Start(h) \/ Refuse(h) \/ LockInvoice(h) \/ Check(h) \/ Insert(h) => UNCHANGED serial
        BY QuietSteps DEF tables
      <4>. QED
        BY <1>3, <4>1, <4>2, <4>4, <4>5 DEF PostPayment, Reverse
    <3>5. seen[h] = "POSTED" /\ s \in Credit[target[h]].serials
      BY <2>4, <3>1, <3>3, <3>4 DEF Unreturn, SerialsTo
    <3>6. serial[s].status = "IN_STOCK"
      BY <3>4, <3>5 DEF Unreturn, StillHere
    <3>7. Holders(s) = {}
      BY <3>1, <3>6 DEF UnitsInv, Unit
    <3>8. i \in Holders(s)
      BY <2>2, <2>3, <2>4 DEF Holders, PostedReturns, Settled, OwnUnits
    <3>. QED
      BY <3>7, <3>8
  <2>5. ~Undone(i)'
    BY <2>4 DEF Undone
  <2>. QED
    BY <2>1, <2>2, <2>5 DEF Undone
<1>. QED
  BY <1>1, <1>2, <1>3, NextCases

LEMMA NextUnits ==
    ASSUME OwnUnits, "RESOLD" \notin Mishaps
    PROVE  TypeInv /\ HandsInv /\ VoidInv /\ ClosedInv /\ BegunInv /\ UnitsInv /\ [Next]_vars
               => UnitsInv'
<1>0. TypeInv /\ HandsInv /\ VoidInv /\ UnitsInv /\ [Next]_vars => IntactInv'
  BY NextIntact
<1>. SUFFICES ASSUME TypeInv, HandsInv, VoidInv, ClosedInv, BegunInv, UnitsInv, [Next]_vars,
                     NEW s \in Serials
              PROVE  Unit(s)'
  BY <1>0 DEF UnitsInv
<1>1. CASE UNCHANGED vars
  BY <1>1, SameUnits DEF vars, tables
<1>2. ASSUME NEW h \in Handlers,
             \/ Start(h) \/ Refuse(h) \/ LockInvoice(h) \/ Check(h) \/ Insert(h)
             \/ PostPayment(h) \/ Reverse(h)
      PROVE  Unit(s)'
  <2>1. UNCHANGED <<ret, serial>>
    BY <1>2, QuietSteps DEF tables, PostPayment, Reverse
  <2>2. \A i \in Invoices : invoice'[i].status = invoice[i].status
    <3>1. Start(h) \/ Refuse(h) \/ LockInvoice(h) \/ Check(h) \/ Insert(h) => UNCHANGED invoice
      BY QuietSteps DEF tables
    <3>2. ASSUME PostPayment(h), NEW i \in Invoices
          PROVE  invoice'[i].status = invoice[i].status
      BY <3>2 DEF PostPayment, TypeInv, TypeOK
    <3>3. ASSUME Reverse(h), NEW i \in Invoices
          PROVE  invoice'[i].status = invoice[i].status
      BY <3>3 DEF Reverse, TypeInv, TypeOK
    <3>. QED
      BY <1>2, <3>1, <3>2, <3>3
  <2>. QED
    BY <2>1, <2>2, SameUnits
<1>3. ASSUME NEW h \in Handlers, PostReturn(h) PROVE Unit(s)'
  <2>1. PICK r \in Returns : /\ r = target[h] /\ ret[r] = "NONE"
                             /\ invoice[Credit[r].invoice].status = "POSTED"
    BY <1>3, Targets, LiveReturn DEF PostReturn, HandsInv, InHand
  <2>2. CASE Credit[r].draft
    <3>1. /\ UNCHANGED <<invoice, serial>> /\ ret'[r] = "DRAFT"
          /\ \A q \in Returns \ {r} : ret'[q] = ret[q]
      BY <1>3, <2>1, <2>2 DEF PostReturn, TypeInv, TypeOK
    <3>2. \A j \in Invoices : PostedReturns(j)' = PostedReturns(j)
      BY <2>1, <3>1 DEF PostedReturns
    <3>3. Holders(s)' = Holders(s) /\ Unit(s)
      BY <3>1, <3>2 DEF Holders, UnitsInv
    <3>. QED
      BY <2>1, <3>1, <3>3 DEF Unit
  <2>3. CASE ~Credit[r].draft
    BY <1>3, <2>1, <2>3, ApplyUnits DEF PostReturn
  <2>. QED
    BY <2>2, <2>3
<1>4. ASSUME NEW h \in Handlers, Approve(h) PROVE Unit(s)'
  <2>1. PICK r \in Returns : /\ r = target[h] /\ ret[r] = "DRAFT"
                             /\ invoice[Credit[r].invoice].status = "POSTED"
    BY <1>4, Targets, LiveReturn DEF Approve, Draft
  <2>. QED
    BY <1>4, <2>1, ApplyUnits DEF Approve
<1>5. ASSUME NEW h \in Handlers, Sell(h) \/ Void(h) \/ Unreturn(h) PROVE Unit(s)'
  BY <1>5, SellUnits, VoidUnits, UnreturnUnits
<1>. QED
  BY <1>1, <1>2, <1>3, <1>4, <1>5, NextCases

(* The register has a unit in stock exactly when no live invoice holds it, *)
(* and one customer has it at a time, as long as nothing reaches a voided  *)
(* invoice (LATE), a cancelled return's goods are still there (RESOLD) and *)
(* returns name units of their own invoice once (OwnUnits).                *)
THEOREM UnitsHeldOnce ==
    ASSUME OwnUnits, Mishaps \cap {"LATE", "RESOLD"} = {}
    PROVE  Spec => []RegisterMatchesInvoices
<1>1. Init => UnitsInv
  BY DEF Init, UnitsInv, IntactInv, Unit, Holders, Unposted
<1>2. Spec => []ClosedInv
  <2>1. Init => ClosedInv
    BY DEF Init, ClosedInv, Unposted
  <2>2. TypeInv /\ VoidInv /\ ClosedInv /\ [Next]_vars => ClosedInv'
    BY NextClosed
  <2>. QED
    BY <2>1, <2>2, VoidAlways, TypesAlways, PTL DEF Spec
<1>3. TypeInv /\ HandsInv /\ VoidInv /\ ClosedInv /\ BegunInv /\ UnitsInv /\ [Next]_vars
         => UnitsInv'
  BY NextUnits
<1>4. Spec => []UnitsInv
  BY <1>1, <1>2, <1>3, BegunAlways, HandsAlways, VoidAlways, TypesAlways, PTL DEF Spec
<1>5. TypeInv /\ UnitsInv => RegisterMatchesInvoices
  <2>. SUFFICES ASSUME TypeInv, UnitsInv, NEW s \in Serials
                PROVE  /\ serial[s].status = "IN_STOCK" <=> Holders(s) = {}
                       /\ Cardinality(Holders(s)) <= 1
    BY DEF RegisterMatchesInvoices
  <2>1. Unit(s) /\ serial[s].status \in {"IN_STOCK", "CUSTOMER_ASSIGNED", "SOLD"}
    BY DEF UnitsInv, TypeInv, TypeOK
  <2>2. Holders(s) = {} \/ \E i \in Holders(s) : Holders(s) = {i}
    BY <2>1 DEF Unit
  <2>3. Cardinality(Holders(s)) <= 1
    BY <2>2, FS_EmptySet, FS_Singleton
  <2>. QED
    BY <2>1, <2>3 DEF Unit
<1>. QED
  BY <1>4, <1>5, TypesAlways, PTL
=============================================================================
