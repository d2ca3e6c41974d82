-------------------------- MODULE ProcurementProofs ---------------------------
(***************************************************************************)
(* Theorems about Procurement for every set of documents, branches,        *)
(* products and handlers: its types, that stock never goes negative, that  *)
(* a bill keeps its order if nobody drops an order while a bill is posted  *)
(* on it, that a device with a customer keeps a bill, that stock, incoming *)
(* quantities and register are what the documents say, and that no more    *)
(* goes back to a vendor than a bill brought.                              *)
(***************************************************************************)
EXTENDS ProcurementAudit, FiniteSetTheorems, TLAPS

(* What a handler works on at each point.                                  *)
Working(h) ==
    /\ pc[h] = "order" => kind[h] = "ORDER" /\ target[h] \in Orders
    /\ pc[h] = "drop" => kind[h] = "DROP" /\ target[h] \in Orders
    /\ pc[h] \in {"lookup", "receive"} => kind[h] = "BILL" /\ target[h] \in Bills
    /\ pc[h] \in {"check", "delete"} => kind[h] = "DELETE" /\ target[h] \in Bills
    /\ pc[h] = "weigh" => kind[h] \in {"RETURN", "APPROVE"} /\ target[h] \in Returns
    /\ pc[h] = "insert" => kind[h] = "RETURN" /\ target[h] \in Returns
    /\ pc[h] = "approve" => kind[h] = "APPROVE" /\ target[h] \in Returns
    /\ pc[h] = "unreturn" => kind[h] = "UNRETURN" /\ target[h] \in Returns

OrderRows == [status : OrderStatuses \cup {"NONE"}, units : Quantities, branch : Branches]
ReturnRows == [status : ReturnStatuses, bill : Bills \cup {NoBill}]

RequestTypes ==
    /\ pc \in [Handlers -> PCs]
    /\ kind \in [Handlers -> Kinds \cup {"NONE"}]
    /\ target \in [Handlers -> Documents \cup {NoDocument}]
    /\ seen \in [Handlers -> {"NONE", "OLD", "NEW", "DRAFT", "POSTED"}]
    /\ release \in [Handlers -> [Branches -> Quantities]]
    /\ \A h \in Handlers : Working(h)
RowTypes ==
    /\ order \in [Orders -> OrderRows]
    /\ bill \in [Bills -> {"NONE", "POSTED"}]
    /\ mirrored \subseteq Bills
    /\ ret \in [Returns -> ReturnRows]
    /\ device \in [Serials -> {"NONE", "IN_STOCK", "ACTIVE"}]
    /\ skewed \subseteq Branches \X Products
    /\ unbilled \subseteq Serials
GoodsTypes ==
    /\ stock \in [Branches -> Quantities]
    /\ incoming \in [Branches -> Quantities]
    /\ ledger \in [Branches -> [Products -> Int]]
    /\ serial \in [Serials -> {"IN_STOCK", "RETURNED_TO_VENDOR"}]
TypeInv == RequestTypes /\ RowTypes /\ GoodsTypes

LEMMA TypeInvImplies == TypeInv => TypeOK /\ NoNegativeStock
  BY DEF TypeInv, RequestTypes, RowTypes, GoodsTypes, TypeOK, NoNegativeStock,
         Quantities, OrderRows, ReturnRows

-----------------------------------------------------------------------------
(* Opening, moving on and finishing a request.                             *)

LEMMA OpenTypes ==
    ASSUME TypeInv, NEW h \in Handlers, NEW k, NEW d, NEW st, NEW first,
           Open(h, k, d, st, first), first \in PCs, k \in Kinds, d \in Documents,
           release' \in [Handlers -> [Branches -> Quantities]],
           st \in {"NONE", "DRAFT", "POSTED"},
           \/ first = "order" /\ k = "ORDER" /\ d \in Orders
           \/ first = "drop" /\ k = "DROP" /\ d \in Orders
           \/ first = "lookup" /\ k = "BILL" /\ d \in Bills
           \/ first = "check" /\ k = "DELETE" /\ d \in Bills
           \/ first = "weigh" /\ k \in {"RETURN", "APPROVE"} /\ d \in Returns
           \/ first = "unreturn" /\ k = "UNRETURN" /\ d \in Returns
    PROVE  TypeInv'
<1>1. (RowTypes /\ GoodsTypes)'
  BY DEF Open, TypeInv, RowTypes, GoodsTypes, tables, goods, history
<1>2. ASSUME NEW g \in Handlers PROVE Working(g)'
  BY DEF Open, TypeInv, RequestTypes, Working
<1>3. /\ pc' \in [Handlers -> PCs]
      /\ kind' \in [Handlers -> Kinds \cup {"NONE"}]
      /\ target' \in [Handlers -> Documents \cup {NoDocument}]
      /\ seen' \in [Handlers -> {"NONE", "OLD", "NEW", "DRAFT", "POSTED"}]
      /\ release' \in [Handlers -> [Branches -> Quantities]]
  BY DEF Open, TypeInv, RequestTypes
<1>. QED
  BY <1>1, <1>2, <1>3 DEF TypeInv, RequestTypes

LEMMA FinishTypes ==
    ASSUME TypeInv, NEW h \in Handlers, Finish(h) PROVE RequestTypes'
<1>1. ASSUME NEW g \in Handlers PROVE Working(g)'
  BY DEF Finish, TypeInv, RequestTypes, Working
<1>2. /\ pc' \in [Handlers -> PCs]
      /\ kind' \in [Handlers -> Kinds \cup {"NONE"}]
      /\ target' \in [Handlers -> Documents \cup {NoDocument}]
      /\ seen' \in [Handlers -> {"NONE", "OLD", "NEW", "DRAFT", "POSTED"}]
  BY DEF Finish, TypeInv, RequestTypes, PCs
<1>3. Nothing \in [Branches -> Quantities]
  BY DEF Nothing, Quantities
<1>4. release' \in [Handlers -> [Branches -> Quantities]]
  BY <1>3 DEF Finish, TypeInv, RequestTypes
<1>. QED
  BY <1>1, <1>2, <1>4 DEF RequestTypes

LEMMA ProceedTypes ==
    ASSUME TypeInv, NEW h \in Handlers, NEW p, Proceed(h, p),
           \/ pc[h] = "check" /\ p = "delete"
           \/ pc[h] = "weigh" /\ kind[h] = "RETURN" /\ p = "insert"
           \/ pc[h] = "weigh" /\ kind[h] = "APPROVE" /\ p = "approve"
    PROVE  TypeInv'
<1>1. (RowTypes /\ GoodsTypes)'
  BY DEF Proceed, TypeInv, RowTypes, GoodsTypes, tables, goods, history
<1>2. ASSUME NEW g \in Handlers PROVE Working(g)'
  BY DEF Proceed, TypeInv, RequestTypes, Working, request
<1>3. pc' \in [Handlers -> PCs] /\ UNCHANGED request
  BY DEF Proceed, TypeInv, RequestTypes, PCs
<1>. QED
  BY <1>1, <1>2, <1>3 DEF TypeInv, RequestTypes, request

LEMMA RefuseTypes == ASSUME TypeInv, NEW h \in Handlers, Refuse(h) PROVE TypeInv'
<1>1. (RowTypes /\ GoodsTypes)'
  BY DEF Refuse, TypeInv, RowTypes, GoodsTypes, tables, goods, history
<1>. QED
  BY <1>1, FinishTypes DEF Refuse, TypeInv

-----------------------------------------------------------------------------
(* Movements, rows and plans.                                              *)

LEMMA MovedTypes ==
    ASSUME NEW f \in [Branches -> [Products -> Int]], NEW b \in Branches,
           NEW units \in Quantities, NEW sign \in {1, -1}
    PROVE  Moved(f, b, units, sign) \in [Branches -> [Products -> Int]]
<1>1. [p \in Products |-> f[b][p] + sign * units[p]] \in [Products -> Int]
  BY DEF Quantities
<1>. QED
  BY <1>1 DEF Moved

LEMMA BroughtTypes ==
    ASSUME NEW f \in [Branches -> Quantities], NEW b \in Branches, NEW units \in Quantities
    PROVE  Moved(f, b, units, 1) \in [Branches -> Quantities]
<1>1. [p \in Products |-> f[b][p] + 1 * units[p]] \in Quantities
  BY DEF Quantities
<1>. QED
  BY <1>1 DEF Moved

LEMMA TakenTypes ==
    ASSUME NEW f \in [Branches -> Quantities], NEW b \in Branches, NEW units \in Quantities,
           \A p \in Products : f[b][p] >= units[p]
    PROVE  Moved(f, b, units, -1) \in [Branches -> Quantities]
<1>1. [p \in Products |-> f[b][p] + (-1) * units[p]] \in Quantities
  BY DEF Quantities
<1>. QED
  BY <1>1 DEF Moved

LEMMA PlanTypes ==
    /\ \A o \in Orders : /\ Order[o].branch \in Branches
                         /\ Order[o].units \in Quantities /\ Order[o].amended \in Quantities
    /\ \A b \in Bills : /\ Bill[b].branch \in Branches /\ Bill[b].units \in Quantities
                        /\ Bill[b].order \in Orders \cup {NoOrder}
                        /\ Bill[b].serials \subseteq Serials
    /\ \A r \in Returns : /\ Credit[r].branch \in Branches /\ Credit[r].units \in Quantities
                          /\ Credit[r].bill \in Bills
  BY ProcurementAssumption

LEMMA SetOrderTypes ==
    ASSUME TypeInv, NEW b, NEW st \in OrderStatuses
    PROVE  SetOrder(b, st) \in [Orders -> OrderRows]
<1>1. ASSUME NEW o \in Orders PROVE [order[o] EXCEPT !.status = st] \in OrderRows
  BY DEF TypeInv, RowTypes, OrderRows
<1>. QED
  BY <1>1 DEF SetOrder, TypeInv, RowTypes

LEMMA RetTypes ==
    ASSUME TypeInv, NEW r, NEW st \in ReturnStatuses
    PROVE  [ret EXCEPT ![r].status = st] \in [Returns -> ReturnRows]
  BY DEF TypeInv, RowTypes, ReturnRows

LEMMA SerialsToTypes ==
    ASSUME TypeInv, NEW r, NEW st \in {"IN_STOCK", "RETURNED_TO_VENDOR"}
    PROVE  SerialsTo(r, st) \in [Serials -> {"IN_STOCK", "RETURNED_TO_VENDOR"}]
  BY DEF SerialsTo, TypeInv, GoodsTypes

LEMMA StockIsInt == GoodsTypes => stock \in [Branches -> [Products -> Int]]
  BY DEF GoodsTypes, Quantities

-----------------------------------------------------------------------------
(* Orders.                                                                 *)

LEMMA PostOrderTypes == ASSUME TypeInv, NEW h \in Handlers, PostOrder(h) PROVE TypeInv'
<1>. DEFINE o == target[h]
<1>1. o \in Orders
  BY DEF PostOrder, TypeInv, RequestTypes, Working
<1>2. RequestTypes'
  BY FinishTypes DEF PostOrder
<1>3. order' \in [Orders -> OrderRows]
  <2>1. Order[o].units \in Quantities /\ "APPROVED" \in OrderStatuses
    BY <1>1, PlanTypes DEF OrderStatuses
  <2>2. order[o] \in OrderRows
    BY <1>1 DEF TypeInv, RowTypes
  <2>3. [order[o] EXCEPT !.status = "APPROVED", !.units = Order[o].units] \in OrderRows
    BY <2>1, <2>2 DEF OrderRows
  <2>. QED
    BY <1>1, <2>3 DEF PostOrder, TypeInv, RowTypes
<1>4. incoming' \in [Branches -> Quantities]
  BY <1>1, PlanTypes, BroughtTypes DEF PostOrder, TypeInv, GoodsTypes
<1>. QED
  BY <1>2, <1>3, <1>4 DEF PostOrder, TypeInv, RowTypes, GoodsTypes, history

LEMMA NoRowTypes == ASSUME NEW o \in Orders PROVE NoOrderRow(o) \in OrderRows
  BY PlanTypes DEF NoOrderRow, OrderRows, Quantities

LEMMA DropOrderTypes == ASSUME TypeInv, NEW h \in Handlers, DropOrder(h) PROVE TypeInv'
<1>1. target[h] \in Orders
  BY DEF DropOrder, TypeInv, RequestTypes, Working
<1>2. RequestTypes'
  BY FinishTypes DEF DropOrder
<1>3. order' \in [Orders -> OrderRows]
  BY <1>1, NoRowTypes DEF DropOrder, TypeInv, RowTypes
<1>4. incoming' \in [Branches -> Quantities]
  <2>1. ASSUME NEW b \in Branches, NEW p \in Products
        PROVE  AtLeastZero(incoming[b][p] - release[h][b][p]) \in Nat
    BY DEF TypeInv, GoodsTypes, RequestTypes, Quantities, AtLeastZero
  <2>. QED
    BY <2>1 DEF DropOrder, Quantities
<1>. QED
  BY <1>2, <1>3, <1>4 DEF DropOrder, TypeInv, RowTypes, GoodsTypes, history

LEMMA AsideTypes == ASSUME TypeInv, Aside PROVE TypeInv'
<1>1. ASSUME NEW o \in Orders, NEW st \in OrderStatuses, NEW b \in Branches, EditOrder(o, st, b)
      PROVE  TypeInv'
  <2>1. [status |-> st, units |-> Order[o].amended, branch |-> b] \in OrderRows
    BY PlanTypes DEF OrderRows
  <2>2. order' \in [Orders -> OrderRows]
    BY <1>1, <2>1 DEF EditOrder, TypeInv, RowTypes
  <2>3. skewed' \subseteq Branches \X Products
    BY <1>1 DEF EditOrder, TypeInv, RowTypes
  <2>4. UNCHANGED <<bill, mirrored, ret, goods, unbilled, pc, request>>
    BY <1>1 DEF EditOrder
  <2>. QED
    BY <2>2, <2>3, <2>4 DEF TypeInv, RequestTypes, RowTypes, GoodsTypes, goods, request, Working
<1>2. ASSUME NEW o \in Orders, NEW st \in OrderStatuses, PatchOrder(o, st) PROVE TypeInv'
  <2>1. order' \in [Orders -> OrderRows]
    BY <1>2 DEF PatchOrder, TypeInv, RowTypes, OrderRows
  <2>. QED
    BY <1>2, <2>1 DEF PatchOrder, TypeInv, RequestTypes, RowTypes, GoodsTypes, goods,
                      request, Working, history
<1>3. ASSUME NEW s \in Serials, Register(s) \/ Assign(s) PROVE TypeInv'
  BY <1>3 DEF Register, Assign, TypeInv, RequestTypes, RowTypes, GoodsTypes, request, Working,
              history
<1>. QED
  BY <1>1, <1>2, <1>3 DEF Aside

-----------------------------------------------------------------------------
(* Bills.                                                                  *)

LEMMA LookUpTypes == ASSUME TypeInv, NEW h \in Handlers, LookUp(h) PROVE TypeInv'
<1>1. target[h] \in Bills /\ kind[h] = "BILL"
  BY DEF LookUp, TypeInv, RequestTypes, Working
<1>2. (RowTypes /\ GoodsTypes)'
  BY <1>1 DEF LookUp, TypeInv, RowTypes, GoodsTypes, goods, history
<1>3. ASSUME NEW g \in Handlers PROVE Working(g)'
  BY <1>1 DEF LookUp, TypeInv, RequestTypes, Working
<1>4. /\ pc' \in [Handlers -> PCs]
      /\ UNCHANGED <<kind, target, release>>
      /\ seen' \in [Handlers -> {"NONE", "OLD", "NEW", "DRAFT", "POSTED"}]
  BY DEF LookUp, TypeInv, RequestTypes, PCs
<1>. QED
  BY <1>2, <1>3, <1>4 DEF TypeInv, RequestTypes

LEMMA ReceiveTypes == ASSUME TypeInv, NEW h \in Handlers, Receive(h) PROVE TypeInv'
<1>. DEFINE b == target[h]
<1>1. b \in Bills
  BY DEF Receive, TypeInv, RequestTypes, Working
<1>2. RequestTypes'
  BY FinishTypes DEF Receive
<1>3. order' \in [Orders -> OrderRows]
  BY SetOrderTypes DEF Receive, OrderStatuses
<1>4. stock' \in [Branches -> Quantities]
  <2>1. Moved(stock, Bill[b].branch, Bill[b].units, 1) \in [Branches -> Quantities]
    BY <1>1, PlanTypes, BroughtTypes DEF TypeInv, GoodsTypes
  <2>. QED
    BY <2>1 DEF Receive, TypeInv, GoodsTypes
<1>5. ledger' \in [Branches -> [Products -> Int]]
  <2>1. Moved(ledger, Bill[b].branch, Bill[b].units, 1) \in [Branches -> [Products -> Int]]
    BY <1>1, PlanTypes, MovedTypes DEF TypeInv, GoodsTypes
  <2>. QED
    BY <2>1 DEF Receive, TypeInv, GoodsTypes
<1>6. /\ bill' \in [Bills -> {"NONE", "POSTED"}]
      /\ UNCHANGED <<mirrored, ret, incoming, serial, device, skewed, unbilled>>
  BY DEF Receive, TypeInv, RowTypes, history
<1>. QED
  BY <1>2, <1>3, <1>4, <1>5, <1>6 DEF TypeInv, RowTypes, GoodsTypes

LEMMA DeleteBillTypes == ASSUME TypeInv, NEW h \in Handlers, DeleteBill(h) PROVE TypeInv'
<1>. DEFINE b == target[h]
<1>1. b \in Bills
  BY DEF DeleteBill, TypeInv, RequestTypes, Working
<1>2. RequestTypes'
  BY FinishTypes DEF DeleteBill
<1>3. order' \in [Orders -> OrderRows]
  BY SetOrderTypes DEF DeleteBill, OrderStatuses
<1>4. stock' \in [Branches -> Quantities]
  <2>1. \A p \in Products : stock[Bill[b].branch][p] >= Bill[b].units[p]
    BY DEF DeleteBill, CanDelete, Enough
  <2>. QED
    BY <1>1, <2>1, PlanTypes, TakenTypes DEF DeleteBill, TypeInv, GoodsTypes
<1>5. ret' \in [Returns -> ReturnRows]
  <2>1. ASSUME NEW r \in Returns PROVE [ret[r] EXCEPT !.bill = NoBill] \in ReturnRows
    BY DEF TypeInv, RowTypes, ReturnRows
  <2>. QED
    BY <2>1 DEF DeleteBill, TypeInv, RowTypes
<1>6. /\ bill' \in [Bills -> {"NONE", "POSTED"}]
      /\ device' \in [Serials -> {"NONE", "IN_STOCK", "ACTIVE"}]
      /\ UNCHANGED <<mirrored, incoming, ledger, serial, skewed, unbilled>>
  BY DEF DeleteBill, TypeInv, RowTypes, history
<1>. QED
  BY <1>2, <1>3, <1>4, <1>5, <1>6 DEF TypeInv, RowTypes, GoodsTypes

-----------------------------------------------------------------------------
(* Returns.                                                                *)

LEMMA ApplyTypes ==
    ASSUME TypeInv, NEW r \in Returns, CanApply(r), ApplyReturn(r), UNCHANGED incoming
    PROVE  GoodsTypes'
<1>1. \A p \in Products : stock[Credit[r].branch][p] >= Credit[r].units[p]
  BY DEF CanApply, Enough
<1>2. stock' \in [Branches -> Quantities]
  BY <1>1, PlanTypes, TakenTypes DEF ApplyReturn, TypeInv, GoodsTypes
<1>3. ledger' \in [Branches -> [Products -> Int]]
  BY PlanTypes, MovedTypes DEF ApplyReturn, TypeInv, GoodsTypes
<1>. QED
  BY <1>2, <1>3, SerialsToTypes DEF ApplyReturn, TypeInv, GoodsTypes

LEMMA PostReturnTypes == ASSUME TypeInv, NEW h \in Handlers, PostReturn(h) PROVE TypeInv'
<1>. DEFINE r == target[h]
<1>1. r \in Returns
  BY DEF PostReturn, TypeInv, RequestTypes, Working
<1>2. RequestTypes'
  BY FinishTypes DEF PostReturn
<1>3. ret' \in [Returns -> ReturnRows]
  <2>1. \A st \in {"DRAFT", "POSTED"} : [status |-> st, bill |-> Credit[r].bill] \in ReturnRows
    BY <1>1, PlanTypes DEF ReturnRows, ReturnStatuses
  <2>. QED
    BY <2>1 DEF PostReturn, TypeInv, RowTypes
<1>4. GoodsTypes'
  <2>1. CASE Credit[r].draft
    BY <2>1 DEF PostReturn, TypeInv, GoodsTypes
  <2>2. CASE ~Credit[r].draft
    BY <1>1, <2>2, ApplyTypes DEF PostReturn, CanInsert
  <2>. QED
    BY <2>1, <2>2
<1>. QED
  BY <1>2, <1>3, <1>4 DEF PostReturn, TypeInv, RowTypes, history

LEMMA ApproveTypes == ASSUME TypeInv, NEW h \in Handlers, ApproveReturn(h) PROVE TypeInv'
<1>1. target[h] \in Returns
  BY DEF ApproveReturn, TypeInv, RequestTypes, Working
<1>2. RequestTypes'
  BY FinishTypes DEF ApproveReturn
<1>3. ret' \in [Returns -> ReturnRows]
  BY RetTypes DEF ApproveReturn, ReturnStatuses
<1>4. GoodsTypes'
  BY <1>1, ApplyTypes DEF ApproveReturn, CanApprove
<1>. QED
  BY <1>2, <1>3, <1>4 DEF ApproveReturn, TypeInv, RowTypes, history

LEMMA CancelTypes == ASSUME TypeInv, NEW h \in Handlers, CancelReturn(h) PROVE TypeInv'
<1>. DEFINE r == target[h]
<1>1. r \in Returns
  BY DEF CancelReturn, TypeInv, RequestTypes, Working
<1>2. RequestTypes'
  BY FinishTypes DEF CancelReturn
<1>3. ret' \in [Returns -> ReturnRows]
  BY RetTypes DEF CancelReturn, ReturnStatuses
<1>4. stock' \in [Branches -> Quantities]
  <2>1. Moved(stock, Credit[r].branch, Credit[r].units, 1) \in [Branches -> Quantities]
    BY <1>1, PlanTypes, BroughtTypes DEF TypeInv, GoodsTypes
  <2>. QED
    BY <2>1 DEF CancelReturn, TypeInv, GoodsTypes
<1>5. serial' \in [Serials -> {"IN_STOCK", "RETURNED_TO_VENDOR"}]
  <2>1. serial' = serial \/ serial' = SerialsTo(r, "IN_STOCK")
    BY DEF CancelReturn
  <2>. QED
    BY <2>1, SerialsToTypes DEF TypeInv, GoodsTypes
<1>. QED
  BY <1>2, <1>3, <1>4, <1>5 DEF CancelReturn, TypeInv, RowTypes, GoodsTypes, history

-----------------------------------------------------------------------------
(* Every step keeps the types.                                             *)

LEMMA StartTypes == ASSUME TypeInv, NEW h \in Handlers, Start(h) PROVE TypeInv'
<1>0. UNCHANGED release => release' \in [Handlers -> [Branches -> Quantities]]
  BY DEF TypeInv, RequestTypes
<1>1. ASSUME NEW o \in Orders, StartOrder(h, o) PROVE TypeInv'
  BY <1>0, <1>1, OpenTypes DEF StartOrder, Ask, PCs, Kinds, Documents
<1>2. ASSUME NEW o \in Orders, StartDrop(h, o) PROVE TypeInv'
  <2>1. PICK row \in InMirror(o) : release' = [release EXCEPT ![h] =
            [b \in Branches |-> [p \in Products |-> Share(row, b, p)]]]
    BY <1>2 DEF StartDrop
  <2>2. row.units \in Quantities
    BY PlanTypes DEF InMirror, TypeInv, RowTypes, OrderRows
  <2>3. [b \in Branches |-> [p \in Products |-> Share(row, b, p)]] \in [Branches -> Quantities]
    BY <2>2 DEF Share, Quantities
  <2>4. release' \in [Handlers -> [Branches -> Quantities]]
    BY <2>1, <2>3 DEF TypeInv, RequestTypes
  <2>. QED
    BY <1>2, <2>4, OpenTypes DEF StartDrop, PCs, Kinds, Documents
<1>3. ASSUME NEW b \in Bills, StartBill(h, b) PROVE TypeInv'
  BY <1>0, <1>3, OpenTypes DEF StartBill, Ask, PCs, Kinds, Documents
<1>4. ASSUME NEW b \in Bills, StartDelete(h, b) PROVE TypeInv'
  BY <1>0, <1>4, OpenTypes DEF StartDelete, Ask, PCs, Kinds, Documents
<1>5. ASSUME NEW r \in Returns, StartReturn(h, r) PROVE TypeInv'
  BY <1>0, <1>5, OpenTypes DEF StartReturn, Ask, PCs, Kinds, Documents
<1>6. ASSUME NEW r \in Returns, StartApprove(h, r) PROVE TypeInv'
  BY <1>0, <1>6, OpenTypes DEF StartApprove, Ask, PCs, Kinds, Documents
<1>7. ASSUME NEW r \in Returns, StartUnreturn(h, r) PROVE TypeInv'
  <2>1. PICK st \in {"POSTED", "DRAFT"} : Ask(h, "UNRETURN", r, st, "unreturn")
    BY <1>7 DEF StartUnreturn
  <2>. QED
    BY <1>0, <2>1, OpenTypes DEF Ask, PCs, Kinds, Documents
<1>. QED
  BY <1>1, <1>2, <1>3, <1>4, <1>5, <1>6, <1>7 DEF Start

LEMMA StepTypes == ASSUME TypeInv, NEW h \in Handlers, Step(h) \/ Fail(h) PROVE TypeInv'
<1>1. CASE CheckDevices(h)
  BY <1>1, ProceedTypes DEF CheckDevices
<1>2. CASE Weigh(h)
  <2>1. kind[h] \in {"RETURN", "APPROVE"} /\ pc[h] = "weigh"
    BY <1>2 DEF Weigh, TypeInv, RequestTypes, Working
  <2>2. \/ Proceed(h, "insert") /\ kind[h] = "RETURN"
        \/ Proceed(h, "approve") /\ kind[h] = "APPROVE"
    BY <1>2, <2>1 DEF Weigh
  <2>. QED
    BY <2>1, <2>2, ProceedTypes
<1>3. Step(h) \/ Fail(h) =>
        \/ CheckDevices(h) \/ Weigh(h) \/ Refuse(h) \/ PostOrder(h) \/ DropOrder(h)
        \/ LookUp(h) \/ Receive(h) \/ DeleteBill(h) \/ PostReturn(h) \/ ApproveReturn(h)
        \/ CancelReturn(h)
  BY DEF Step, Fail, RefuseBill, RefuseAssigned, RefuseDelete, RefuseReturn, RefuseInsert,
         RefuseApprove, RefuseCancel
<1>. QED
  BY <1>1, <1>2, <1>3, RefuseTypes, PostOrderTypes, DropOrderTypes, LookUpTypes, ReceiveTypes,
     DeleteBillTypes, PostReturnTypes, ApproveTypes, CancelTypes

LEMMA InitTypes == Init => TypeInv
<1>. SUFFICES ASSUME Init PROVE TypeInv
  OBVIOUS
<1>1. (\A o \in Orders : NoOrderRow(o) \in OrderRows) /\ Nothing \in [Branches -> Quantities]
  BY NoRowTypes DEF Nothing, Quantities
<1>2. GoodsTypes
  BY <1>1, ProcurementAssumption DEF Init, GoodsTypes, Quantities
<1>3. RowTypes
  BY <1>1 DEF Init, RowTypes, ReturnRows, ReturnStatuses
<1>4. RequestTypes
  BY <1>1 DEF Init, RequestTypes, Working, PCs
<1>. QED
  BY <1>2, <1>3, <1>4 DEF TypeInv

LEMMA NextTypes == TypeInv /\ [Next]_vars => TypeInv'
<1>1. TypeInv /\ UNCHANGED vars => TypeInv'
  BY DEF vars, tables, goods, history, request, TypeInv, RequestTypes, RowTypes, GoodsTypes,
         Working
<1>. QED
  BY <1>1, StartTypes, StepTypes, AsideTypes DEF Next

LEMMA TypesAlways == Spec => []TypeInv
  BY InitTypes, NextTypes, PTL DEF Spec

(* The types of TypeOK hold for every set of documents and handlers.       *)
THEOREM ProcurementTypes == Spec => []TypeOK
  BY TypesAlways, TypeInvImplies, PTL

(* No branch ever has less than nothing of a product, however many bills,  *)
(* deletions, returns, approvals and cancellations overlap, repeat or fail.*)
THEOREM ProcurementNeverNegative == Spec => []NoNegativeStock
  BY TypesAlways, TypeInvImplies, PTL

-----------------------------------------------------------------------------
(* A device with a customer keeps a bill.  Stronger: so does every device  *)
(* there is, and a deletion past its check has none with a customer.       *)

DevicesKept ==
    /\ \A s \in Serials : device[s] # "NONE" /\ s \notin unbilled
          => \E b \in BillsOf(s) : bill[b] = "POSTED"
    /\ \A h \in Handlers : pc[h] = "delete" => ~Assigned(target[h])

LEMMA DeleteKeepsDevices ==
    ASSUME TypeInv, DevicesKept, NEW h \in Handlers, DeleteBill(h)
    PROVE  DevicesKept'
<1>. DEFINE b == target[h]
<1>1. b \in Bills /\ ~Assigned(b) /\ pc[h] = "delete"
  BY DEF DeleteBill, TypeInv, RequestTypes, Working, DevicesKept
<1>2. ASSUME NEW s \in Serials, device'[s] # "NONE", s \notin unbilled'
      PROVE  \E i \in BillsOf(s) : bill'[i] = "POSTED"
  <2>1. device[s] # "NONE" /\ s \notin Bill[b].serials
    BY <1>1, <1>2 DEF DeleteBill, Assigned, TypeInv, RowTypes
  <2>2. PICK i \in BillsOf(s) : bill[i] = "POSTED"
    BY <1>2, <2>1 DEF DevicesKept, DeleteBill, history
  <2>3. i # b /\ i \in Bills
    BY <2>1, <2>2 DEF BillsOf
  <2>. QED
    BY <2>2, <2>3 DEF DeleteBill, TypeInv, RowTypes
<1>3. ASSUME NEW g \in Handlers, pc'[g] = "delete" PROVE ~(Assigned(target[g])')
  <2>1. g # h /\ pc[g] = "delete" /\ target'[g] = target[g]
    BY <1>3 DEF DeleteBill, Finish, TypeInv, RequestTypes
  <2>2. ~Assigned(target[g]) /\ target[g] \in Bills
    BY <2>1 DEF DevicesKept, TypeInv, RequestTypes, Working
  <2>3. \A s \in Bill[target[g]].serials : device'[s] # "ACTIVE"
    <3>1. Bill[target[g]].serials \subseteq Serials
      BY <2>2, PlanTypes
    <3>. QED
      BY <2>2, <3>1 DEF DeleteBill, Assigned
  <2>. QED
    BY <2>1, <2>3 DEF Assigned
<1>. QED
  BY <1>2, <1>3 DEF DevicesKept, BillsOf

LEMMA ReceiveKeepsDevices ==
    ASSUME TypeInv, DevicesKept, NEW h \in Handlers, Receive(h)
    PROVE  DevicesKept'
<1>1. \A i \in Bills : bill[i] = "POSTED" => bill'[i] = "POSTED"
  BY DEF Receive, TypeInv, RowTypes
<1>2. UNCHANGED <<device, unbilled>>
  BY DEF Receive, history
<1>3. ASSUME NEW g \in Handlers, pc'[g] = "delete"
      PROVE  pc[g] = "delete" /\ target'[g] = target[g]
  BY <1>3 DEF Receive, Finish, TypeInv, RequestTypes
<1>. QED
  BY <1>1, <1>2, <1>3 DEF DevicesKept, BillsOf, Assigned

LEMMA AsideKeepsDevices ==
    ASSUME "ASSIGN" \notin Mishaps, TypeInv, DevicesKept, Aside
    PROVE  DevicesKept'
<1>1. ASSUME UNCHANGED <<bill, device, unbilled, pc, target>> PROVE DevicesKept'
  BY <1>1 DEF DevicesKept, BillsOf, Assigned
<1>2. ASSUME NEW s \in Serials, Register(s) PROVE DevicesKept'
  <2>1. /\ \A t \in Serials : t # s => device'[t] = device[t]
        /\ \A t \in Serials : t # s => (t \in unbilled' <=> t \in unbilled)
        /\ device'[s] = "IN_STOCK" /\ device[s] = "NONE"
        /\ UNCHANGED <<bill, pc, target>>
    BY <1>2 DEF Register, request, TypeInv, RowTypes
  <2>2. s \notin unbilled' => \E b \in BillsOf(s) : bill[b] = "POSTED"
    BY <1>2 DEF Register
  <2>3. ASSUME NEW t \in Serials, device'[t] # "NONE", t \notin unbilled'
        PROVE  \E b \in BillsOf(t) : bill'[b] = "POSTED"
    BY <2>1, <2>2, <2>3 DEF DevicesKept
  <2>4. ASSUME NEW h \in Handlers, pc'[h] = "delete" PROVE ~(Assigned(target[h])')
    <3>1. target[h] \in Bills /\ ~Assigned(target[h])
      BY <2>1, <2>4 DEF DevicesKept, TypeInv, RequestTypes, Working
    <3>2. Bill[target[h]].serials \subseteq Serials
      BY <3>1, PlanTypes
    <3>. QED
      BY <2>1, <3>1, <3>2 DEF Assigned
  <2>. QED
    BY <2>1, <2>3, <2>4 DEF DevicesKept, BillsOf
<1>3. ASSUME NEW s \in Serials, Assign(s) PROVE DevicesKept'
  <2>1. \A t \in Serials : device'[t] # "NONE" => device[t] # "NONE"
    BY <1>3 DEF Assign, TypeInv, RowTypes
  <2>2. UNCHANGED <<bill, unbilled, pc, target>>
    BY <1>3 DEF Assign, request, history
  <2>3. ASSUME NEW h \in Handlers, pc[h] = "delete", s \in Bill[target[h]].serials PROVE FALSE
    <3>1. target[h] \in BillsOf(s)
      BY <2>3 DEF TypeInv, RequestTypes, Working, BillsOf
    <3>2. h \in OpenOn(target[h])
      BY <2>3 DEF OpenOn, Active
    <3>. QED
      BY <1>3, <2>3, <3>1, <3>2 DEF Assign
  <2>4. ASSUME NEW h \in Handlers, pc[h] = "delete" PROVE ~(Assigned(target[h])')
    <3>1. \A t \in Bill[target[h]].serials : device'[t] = device[t]
      BY <1>3, <2>3, <2>4 DEF Assign, TypeInv, RowTypes
    <3>. QED
      BY <2>2, <2>4, <3>1 DEF DevicesKept, Assigned
  <2>. QED
    BY <2>1, <2>2, <2>4 DEF DevicesKept, BillsOf
<1>. QED
  BY <1>1, <1>2, <1>3 DEF Aside, EditOrder, PatchOrder, goods, history, request

LEMMA QuietKeepsDevices ==
    ASSUME TypeInv, DevicesKept, UNCHANGED <<bill, device, unbilled>>,
           \A g \in Handlers : pc'[g] = "delete" =>
               \/ pc[g] = "delete" /\ target'[g] = target[g]
               \/ ~Assigned(target[g]) /\ target'[g] = target[g]
    PROVE  DevicesKept'
  BY DEF DevicesKept, BillsOf, Assigned

LEMMA HandlersKeepDevices ==
    ASSUME TypeInv, DevicesKept, NEW h \in Handlers, Start(h) \/ Step(h) \/ Fail(h)
    PROVE  DevicesKept'
<1>1. CASE DeleteBill(h) \/ Receive(h)
  BY <1>1, DeleteKeepsDevices, ReceiveKeepsDevices
<1>2. CASE CheckDevices(h)
  BY <1>2, QuietKeepsDevices DEF CheckDevices, Proceed, tables, goods, history, request, TypeInv,
     RequestTypes
<1>3. CASE Weigh(h)
  BY <1>3, QuietKeepsDevices DEF Weigh, Proceed, tables, goods, history, request, TypeInv, RequestTypes
<1>4. ASSUME Finish(h), UNCHANGED <<bill, device, unbilled>> PROVE DevicesKept'
  BY <1>4, QuietKeepsDevices DEF Finish, TypeInv, RequestTypes
<1>5. CASE LookUp(h)
  BY <1>5, QuietKeepsDevices DEF LookUp, goods, history, TypeInv, RequestTypes
<1>6. CASE Start(h)
  <2>1. PICK k, d, st, first : Open(h, k, d, st, first) /\ first # "delete"
    BY <1>6 DEF Start, StartOrder, StartBill, StartDelete, StartReturn, StartApprove,
       StartUnreturn, StartDrop, Ask
  <2>2. UNCHANGED <<bill, device, unbilled>>
    BY <2>1 DEF Open, tables, goods, history
  <2>. QED
    BY <2>1, <2>2, QuietKeepsDevices DEF Open, TypeInv, RequestTypes
<1>7. Refuse(h) => Finish(h) /\ UNCHANGED <<bill, device, unbilled>>
  BY DEF Refuse, tables, goods, history
<1>8. PostOrder(h) \/ DropOrder(h) \/ PostReturn(h) \/ ApproveReturn(h) \/ CancelReturn(h)
          => Finish(h) /\ UNCHANGED <<bill, device, unbilled>>
  BY DEF PostOrder, DropOrder, PostReturn, ApproveReturn, CancelReturn, history
<1>9. Step(h) \/ Fail(h) =>
        \/ CheckDevices(h) \/ Weigh(h) \/ Refuse(h) \/ PostOrder(h) \/ DropOrder(h)
        \/ LookUp(h) \/ Receive(h) \/ DeleteBill(h) \/ PostReturn(h) \/ ApproveReturn(h)
        \/ CancelReturn(h)
  BY DEF Step, Fail, RefuseBill, RefuseAssigned, RefuseDelete, RefuseReturn, RefuseInsert,
         RefuseApprove, RefuseCancel
<1>. QED
  BY <1>1, <1>2, <1>3, <1>4, <1>5, <1>6, <1>7, <1>8, <1>9

(* Where no device is assigned between a deletion's check and its DELETE,  *)
(* an assigned device that was registered while a bill of its own was      *)
(* there keeps one.                                                        *)
THEOREM AssignedDevicesKeepBills ==
    ASSUME "ASSIGN" \notin Mishaps PROVE Spec => []AssignedKeepsBill
<1>1. Init => DevicesKept
  BY DEF Init, DevicesKept
<1>2. TypeInv /\ DevicesKept /\ [Next]_vars => DevicesKept'
  <2>1. TypeInv /\ DevicesKept /\ UNCHANGED vars => DevicesKept'
    BY QuietKeepsDevices DEF vars, tables, goods, history, request
  <2>. QED
    BY <2>1, HandlersKeepDevices, AsideKeepsDevices DEF Next
<1>3. DevicesKept => AssignedKeepsBill
  BY DEF DevicesKept, AssignedKeepsBill
<1>. QED
  BY <1>1, <1>2, <1>3, TypesAlways, PTL DEF Spec

-----------------------------------------------------------------------------
(* A bill keeps its order.  While an order is about to be dropped no bill  *)
(* on it is there or on its way, and the order of a bill that has been     *)
(* compared with it stays.                                                 *)

OnTheWay(g) == pc[g] \in {"lookup", "receive"}
OrdersKept ==
    /\ BillKeepsOrder
    /\ \A h \in Handlers : pc[h] = "drop" =>
          /\ ~Billed(target[h])
          /\ \A g \in Handlers : OnTheWay(g) => Bill[target[g]].order # target[h]
    /\ \A h \in Handlers : pc[h] = "receive" /\ Bill[target[h]].order # NoOrder
          => order[Bill[target[h]].order].status # "NONE"

LEMMA QuietKeepsOrders ==
    ASSUME TypeInv, OrdersKept,
           \A o \in Orders : order[o].status # "NONE" => order'[o].status # "NONE",
           \A b \in Bills : bill'[b] = "POSTED" => bill[b] = "POSTED",
           \A g \in Handlers : pc'[g] \in {"drop", "lookup", "receive"} =>
               pc[g] = pc'[g] /\ target'[g] = target[g]
    PROVE  OrdersKept'
<1>1. BillKeepsOrder'
  BY PlanTypes DEF OrdersKept, BillKeepsOrder
<1>2. ASSUME NEW h \in Handlers, pc'[h] = "drop"
      PROVE  /\ ~(Billed(target[h])')
             /\ \A g \in Handlers : OnTheWay(g)' => Bill[target'[g]].order # target'[h]
  BY <1>2 DEF OrdersKept, Billed, OnTheWay
<1>3. ASSUME NEW h \in Handlers, pc'[h] = "receive", Bill[target'[h]].order # NoOrder
      PROVE  order'[Bill[target'[h]].order].status # "NONE"
  <2>1. pc[h] = "receive" /\ target'[h] = target[h] /\ target[h] \in Bills
    BY <1>3 DEF TypeInv, RequestTypes, Working
  <2>. QED
    BY <1>3, <2>1, PlanTypes DEF OrdersKept
<1>. QED
  BY <1>1, <1>2, <1>3 DEF OrdersKept

LEMMA DropKeepsOrders ==
    ASSUME TypeInv, OrdersKept, NEW h \in Handlers, DropOrder(h)
    PROVE  OrdersKept'
<1>. DEFINE o == target[h]
<1>1. /\ o \in Orders /\ pc[h] = "drop" /\ ~Billed(o)
      /\ \A g \in Handlers : OnTheWay(g) => Bill[target[g]].order # o
  BY DEF DropOrder, TypeInv, RequestTypes, Working, OrdersKept
<1>2. \A i \in Orders : i # o => order'[i] = order[i]
  BY DEF DropOrder, TypeInv, RowTypes
<1>3. UNCHANGED bill
  BY DEF DropOrder
<1>4. \A g \in Handlers : pc'[g] # "idle" =>
          g # h /\ pc[g] = pc'[g] /\ target'[g] = target[g]
  BY DEF DropOrder, Finish, TypeInv, RequestTypes
<1>5. BillKeepsOrder'
  BY <1>1, <1>2, <1>3, PlanTypes DEF OrdersKept, BillKeepsOrder, Billed
<1>6. ASSUME NEW g \in Handlers, pc'[g] = "drop"
      PROVE  /\ ~(Billed(target[g])')
             /\ \A f \in Handlers : OnTheWay(f)' => Bill[target'[f]].order # target'[g]
  BY <1>3, <1>4, <1>6 DEF OrdersKept, Billed, OnTheWay
<1>7. ASSUME NEW g \in Handlers, pc'[g] = "receive", Bill[target'[g]].order # NoOrder
      PROVE  order'[Bill[target'[g]].order].status # "NONE"
  <2>1. pc[g] = "receive" /\ target'[g] = target[g] /\ target[g] \in Bills
    BY <1>4, <1>7 DEF TypeInv, RequestTypes, Working
  <2>2. Bill[target[g]].order \in Orders /\ Bill[target[g]].order # o
    BY <1>1, <1>7, <2>1, PlanTypes DEF OnTheWay
  <2>. QED
    BY <1>2, <1>7, <2>1, <2>2 DEF OrdersKept
<1>. QED
  BY <1>5, <1>6, <1>7 DEF OrdersKept

LEMMA ReceiveKeepsOrders ==
    ASSUME TypeInv, OrdersKept, NEW h \in Handlers, Receive(h)
    PROVE  OrdersKept'
<1>. DEFINE b == target[h]
<1>1. b \in Bills /\ pc[h] = "receive"
  BY DEF Receive, TypeInv, RequestTypes, Working
<1>2. \A o \in Orders : order[o].status # "NONE" => order'[o].status # "NONE"
  BY DEF Receive, SetOrder, TypeInv, RowTypes, OrderRows
<1>3. \A i \in Bills : bill'[i] = "POSTED" => bill[i] = "POSTED" \/ i = b
  BY DEF Receive, TypeInv, RowTypes
<1>4. \A g \in Handlers : pc'[g] # "idle" => pc[g] = pc'[g] /\ target'[g] = target[g]
  BY DEF Receive, Finish, TypeInv, RequestTypes
<1>5. Bill[b].order # NoOrder => order[Bill[b].order].status # "NONE"
  BY <1>1 DEF OrdersKept
<1>6. BillKeepsOrder'
  BY <1>1, <1>2, <1>3, <1>5, PlanTypes DEF OrdersKept, BillKeepsOrder
<1>7. ASSUME NEW g \in Handlers, pc'[g] = "drop"
      PROVE  /\ ~(Billed(target[g])')
             /\ \A f \in Handlers : OnTheWay(f)' => Bill[target'[f]].order # target'[g]
  <2>1. pc[g] = "drop" /\ target'[g] = target[g]
    BY <1>4, <1>7
  <2>2. Bill[b].order # target[g] /\ ~Billed(target[g])
    BY <1>1, <2>1 DEF OrdersKept, OnTheWay
  <2>3. ~(Billed(target[g])')
    BY <1>3, <2>1, <2>2 DEF Billed
  <2>. QED
    BY <1>4, <2>1, <2>3 DEF OrdersKept, OnTheWay
<1>8. ASSUME NEW g \in Handlers, pc'[g] = "receive", Bill[target'[g]].order # NoOrder
      PROVE  order'[Bill[target'[g]].order].status # "NONE"
  <2>1. pc[g] = "receive" /\ target'[g] = target[g] /\ target[g] \in Bills
    BY <1>4, <1>8 DEF TypeInv, RequestTypes, Working
  <2>. QED
    BY <1>2, <1>8, <2>1, PlanTypes DEF OrdersKept
<1>. QED
  BY <1>6, <1>7, <1>8 DEF OrdersKept

LEMMA LookUpKeepsOrders ==
    ASSUME TypeInv, OrdersKept, NEW h \in Handlers, LookUp(h)
    PROVE  OrdersKept'
<1>1. UNCHANGED <<order, bill, target>> /\ pc[h] = "lookup" /\ MatchesOrder(target[h])
  BY DEF LookUp
<1>2. \A g \in Handlers : pc'[g] = IF g = h THEN "receive" ELSE pc[g]
  BY DEF LookUp, TypeInv, RequestTypes
<1>3. BillKeepsOrder'
  BY <1>1 DEF OrdersKept, BillKeepsOrder
<1>4. ASSUME NEW g \in Handlers, pc'[g] = "drop"
      PROVE  /\ ~(Billed(target[g])')
             /\ \A f \in Handlers : OnTheWay(f)' => Bill[target'[f]].order # target'[g]
  BY <1>1, <1>2, <1>4 DEF OrdersKept, Billed, OnTheWay
<1>5. ASSUME NEW g \in Handlers, pc'[g] = "receive", Bill[target'[g]].order # NoOrder
      PROVE  order'[Bill[target'[g]].order].status # "NONE"
  <2>1. CASE g = h
    BY <1>1, <1>5, <2>1 DEF MatchesOrder
  <2>2. CASE g # h
    BY <1>1, <1>2, <1>5, <2>2 DEF OrdersKept
  <2>. QED
    BY <2>1, <2>2
<1>. QED
  BY <1>3, <1>4, <1>5 DEF OrdersKept

(* What a request that starts finds of the others.                         *)
LEMMA StartKeepsOrders ==
    ASSUME "CROSS" \notin Mishaps, TypeInv, OrdersKept, NEW h \in Handlers, Start(h)
    PROVE  OrdersKept'
<1>1. ASSUME NEW k, NEW d, NEW st, NEW first, Open(h, k, d, st, first)
      PROVE  /\ UNCHANGED <<order, bill>> /\ Apart(k, d)
             /\ \A g \in Handlers : /\ pc'[g] = IF g = h THEN first ELSE pc[g]
                                    /\ target'[g] = IF g = h THEN d ELSE target[g]
  BY <1>1 DEF Open, Expected, tables, TypeInv, RequestTypes
<1>2. ASSUME NEW o \in Orders, StartDrop(h, o) PROVE OrdersKept'
  <2>1. Open(h, "DROP", o, "NONE", "drop") /\ ~Billed(o)
    BY <1>2 DEF StartDrop
  <2>2. UNCHANGED <<order, bill>> /\ Apart("DROP", o)
    BY <1>1, <2>1
  <2>3. \A g \in Handlers : /\ pc'[g] = IF g = h THEN "drop" ELSE pc[g]
                            /\ target'[g] = IF g = h THEN o ELSE target[g]
    BY <1>1, <2>1
  <2>4. ASSUME NEW g \in Handlers, OnTheWay(g) PROVE Bill[target[g]].order # o
    BY <2>2, <2>4 DEF Apart, OnTheWay, OpenOn, Active, TypeInv, RequestTypes, Working
  <2>5. BillKeepsOrder'
    BY <2>2 DEF OrdersKept, BillKeepsOrder
  <2>6. ASSUME NEW g \in Handlers, pc'[g] = "drop"
        PROVE  /\ ~(Billed(target[g])')
               /\ \A f \in Handlers : OnTheWay(f)' => Bill[target'[f]].order # target'[g]
    <3>1. CASE g = h
      BY <2>1, <2>2, <2>3, <2>4, <3>1 DEF Billed, OnTheWay
    <3>2. CASE g # h
      BY <2>2, <2>3, <2>6, <3>2 DEF OrdersKept, Billed, OnTheWay
    <3>. QED
      BY <3>1, <3>2
  <2>7. ASSUME NEW g \in Handlers, pc'[g] = "receive", Bill[target'[g]].order # NoOrder
        PROVE  order'[Bill[target'[g]].order].status # "NONE"
    BY <2>2, <2>3, <2>7 DEF OrdersKept
  <2>. QED
    BY <2>5, <2>6, <2>7 DEF OrdersKept
<1>3. ASSUME NEW b \in Bills, StartBill(h, b) PROVE OrdersKept'
  <2>1. Open(h, "BILL", b, "NONE", "lookup")
    BY <1>3 DEF StartBill, Ask
  <2>2. UNCHANGED <<order, bill>> /\ Apart("BILL", b)
    BY <1>1, <2>1
  <2>3. \A g \in Handlers : /\ pc'[g] = IF g = h THEN "lookup" ELSE pc[g]
                            /\ target'[g] = IF g = h THEN b ELSE target[g]
    BY <1>1, <2>1
  <2>4. ASSUME NEW g \in Handlers, pc[g] = "drop" PROVE target[g] # Bill[b].order
    BY <2>2, <2>4 DEF Apart, OpenOn, Active
  <2>5. BillKeepsOrder'
    BY <2>2 DEF OrdersKept, BillKeepsOrder
  <2>6. ASSUME NEW g \in Handlers, pc'[g] = "drop"
        PROVE  /\ ~(Billed(target[g])')
               /\ \A f \in Handlers : OnTheWay(f)' => Bill[target'[f]].order # target'[g]
    BY <2>2, <2>3, <2>4, <2>6 DEF OrdersKept, Billed, OnTheWay
  <2>7. ASSUME NEW g \in Handlers, pc'[g] = "receive", Bill[target'[g]].order # NoOrder
        PROVE  order'[Bill[target'[g]].order].status # "NONE"
    BY <2>2, <2>3, <2>7 DEF OrdersKept
  <2>. QED
    BY <2>5, <2>6, <2>7 DEF OrdersKept
<1>4. ASSUME NEW k, NEW d, NEW st, NEW first, Open(h, k, d, st, first),
             first \notin {"drop", "lookup", "receive"}
      PROVE  OrdersKept'
  BY <1>1, <1>4, QuietKeepsOrders
<1>. QED
  BY <1>2, <1>3, <1>4 DEF Start, StartOrder, StartDelete, StartReturn, StartApprove,
     StartUnreturn, Ask

LEMMA OthersKeepOrders ==
    ASSUME TypeInv, OrdersKept,
           \/ Aside
           \/ \E h \in Handlers :
                 \/ CheckDevices(h) \/ Weigh(h) \/ Refuse(h) \/ PostOrder(h) \/ DeleteBill(h)
                 \/ PostReturn(h) \/ ApproveReturn(h) \/ CancelReturn(h)
           \/ UNCHANGED vars
    PROVE  OrdersKept'
<1>1. ASSUME NEW h \in Handlers, CheckDevices(h) \/ Weigh(h) PROVE OrdersKept'
  BY <1>1, QuietKeepsOrders DEF CheckDevices, Weigh, Proceed, tables, request, TypeInv,
     RequestTypes
<1>2. ASSUME NEW h \in Handlers, Finish(h),
             \A o \in Orders : order[o].status # "NONE" => order'[o].status # "NONE",
             \A b \in Bills : bill'[b] = "POSTED" => bill[b] = "POSTED"
      PROVE  OrdersKept'
  BY <1>2, QuietKeepsOrders DEF Finish, TypeInv, RequestTypes
<1>3. ASSUME NEW h \in Handlers,
             Refuse(h) \/ PostReturn(h) \/ ApproveReturn(h) \/ CancelReturn(h)
      PROVE  OrdersKept'
  BY <1>2, <1>3 DEF Refuse, PostReturn, ApproveReturn, CancelReturn, tables
<1>4. ASSUME NEW h \in Handlers, PostOrder(h) PROVE OrdersKept'
  BY <1>2, <1>4 DEF PostOrder, TypeInv, RowTypes
<1>5. ASSUME NEW h \in Handlers, DeleteBill(h) PROVE OrdersKept'
  <2>1. \A o \in Orders : order[o].status # "NONE" => order'[o].status # "NONE"
    BY <1>5 DEF DeleteBill, SetOrder, TypeInv, RowTypes, OrderRows
  <2>2. \A b \in Bills : bill'[b] = "POSTED" => bill[b] = "POSTED"
    BY <1>5 DEF DeleteBill, TypeInv, RowTypes
  <2>. QED
    BY <1>2, <1>5, <2>1, <2>2 DEF DeleteBill
<1>6. ASSUME NEW o \in Orders, NEW st \in OrderStatuses, NEW b \in Branches,
             EditOrder(o, st, b) \/ PatchOrder(o, st)
      PROVE  OrdersKept'
  <2>1. \A i \in Orders : order[i].status # "NONE" => order'[i].status # "NONE"
    BY <1>6 DEF EditOrder, PatchOrder, OrderStatuses, TypeInv, RowTypes, OrderRows
  <2>. QED
    BY <1>6, <2>1, QuietKeepsOrders DEF EditOrder, PatchOrder, request
<1>7. ASSUME NEW s \in Serials, Register(s) \/ Assign(s) PROVE OrdersKept'
  BY <1>7, QuietKeepsOrders DEF Register, Assign, request
<1>8. CASE UNCHANGED vars
  BY <1>8, QuietKeepsOrders DEF vars, tables, request
<1>9. ASSUME NEW o \in Orders, NEW st \in OrderStatuses, PatchOrder(o, st) PROVE OrdersKept'
  BY <1>6, <1>9, PlanTypes
<1>. QED
  BY <1>1, <1>3, <1>4, <1>5, <1>6, <1>7, <1>8, <1>9 DEF Aside

(* Where no order is dropped while a bill is posted on it, a bill's order  *)
(* is there as long as the bill is, also when documents are posted or      *)
(* dropped twice and when bills are deleted meanwhile.                     *)
THEOREM BillsKeepOrders ==
    ASSUME "CROSS" \notin Mishaps PROVE Spec => []BillKeepsOrder
<1>1. Init => OrdersKept
  BY DEF Init, OrdersKept, BillKeepsOrder
<1>2. TypeInv /\ OrdersKept /\ [Next]_vars => OrdersKept'
  <2>1. \A h \in Handlers : Step(h) \/ Fail(h) =>
        \/ CheckDevices(h) \/ Weigh(h) \/ Refuse(h) \/ PostOrder(h) \/ DropOrder(h)
        \/ LookUp(h) \/ Receive(h) \/ DeleteBill(h) \/ PostReturn(h) \/ ApproveReturn(h)
        \/ CancelReturn(h)
    BY DEF Step, Fail, RefuseBill, RefuseAssigned, RefuseDelete, RefuseReturn, RefuseInsert,
           RefuseApprove, RefuseCancel
  <2>. QED
    BY <2>1, StartKeepsOrders, DropKeepsOrders, ReceiveKeepsOrders, LookUpKeepsOrders,
       OthersKeepOrders DEF Next
<1>3. OrdersKept => BillKeepsOrder
  BY DEF OrdersKept
<1>. QED
  BY <1>1, <1>2, <1>3, TypesAlways, PTL DEF Spec

-----------------------------------------------------------------------------
(* Sums over finite sets.  SumFunctionOnSet is a recursive function that   *)
(* removes the element CHOOSE picks; what it is and that the order does    *)
(* not matter is shown on a smallest counterexample each time.             *)

(* A family of finite sets has a set that is minimal in it.                *)
LEMMA MinimalSet ==
    ASSUME NEW S, IsFiniteSet(S), NEW Z \in SUBSET SUBSET S, Z # {}
    PROVE  \E t \in Z : \A x \in t : t \ {x} \notin Z
<1>. DEFINE sizes == {Cardinality(t) : t \in Z}
<1>1. \A t \in SUBSET S : IsFiniteSet(t) /\ Cardinality(t) \in Nat
  BY FS_Subset, FS_CardinalityType
<1>2. sizes \in SUBSET Nat /\ sizes # {}
  BY <1>1
<1>3. PICK n \in sizes : \A m \in sizes : ~ (<<m, n>> \in OpToRel(<, Nat))
  <2>. HIDE DEF sizes
  <2>. QED
    BY <1>2, NatLessThanWellFounded, WFMin
<1>4. \A m \in sizes : ~ (m < n)
  BY <1>2, <1>3 DEF OpToRel
<1>5. PICK t \in Z : Cardinality(t) = n
  OBVIOUS
<1>6. \A x \in t : Cardinality(t \ {x}) < Cardinality(t)
  BY <1>1, FS_RemoveElement
<1>. QED
  BY <1>4, <1>5, <1>6

Picked(s) == CHOOSE x \in s : TRUE
Unrolled(f, g, s) == IF s = {} THEN 0 ELSE f[Picked(s)] + g[s \ {Picked(s)}]
(* g sums f over every subset of S.                                        *)
Sums(f, g, S) == g = [s \in SUBSET S |-> Unrolled(f, g, s)]

LEMMA SumChosen ==
    ASSUME NEW f, NEW S PROVE SumFunctionOnSet(f, S) = (CHOOSE g : Sums(f, g, S))[S]
  BY DEF SumFunctionOnSet, FoldFunctionOnSet, MapThenFoldSet, Sums, Unrolled, Picked

LEMMA SumsAgree ==
    ASSUME NEW S, IsFiniteSet(S), NEW T, NEW f, NEW g, Sums(f, g, S), NEW e, Sums(f, e, T),
           NEW U \in SUBSET S, U \subseteq T
    PROVE  g[U] = e[U]
<1>. DEFINE Z == {s \in SUBSET U : g[s] # e[s]}
<1>1. ASSUME Z # {} PROVE FALSE
  <2>1. IsFiniteSet(U)
    BY FS_Subset
  <2>2. PICK t \in Z : \A x \in t : t \ {x} \notin Z
    BY <1>1, <2>1, MinimalSet
  <2>3. g[t] = Unrolled(f, g, t) /\ e[t] = Unrolled(f, e, t)
    BY DEF Sums
  <2>4. t # {}
    BY <2>3 DEF Unrolled
  <2>5. Picked(t) \in t
    BY <2>4 DEF Picked
  <2>6. g[t \ {Picked(t)}] = e[t \ {Picked(t)}]
    BY <2>2, <2>5
  <2>. QED
    BY <2>3, <2>6 DEF Unrolled
<1>. QED
  BY <1>1

LEMMA SumsRestrict ==
    ASSUME NEW f, NEW g, NEW S, Sums(f, g, S), NEW U \in SUBSET S
    PROVE  Sums(f, [s \in SUBSET U |-> g[s]], U)
<1>. DEFINE e == [s \in SUBSET U |-> g[s]]
<1>1. ASSUME NEW s \in SUBSET U PROVE Unrolled(f, g, s) = Unrolled(f, e, s)
  BY DEF Unrolled
<1>2. ASSUME NEW s \in SUBSET U PROVE g[s] = Unrolled(f, g, s)
  BY DEF Sums
<1>. QED
  BY <1>1, <1>2 DEF Sums

(* Where a sum exists it is the value of every function that sums.         *)
LEMMA SumValue ==
    ASSUME NEW f, NEW g, NEW S, IsFiniteSet(S), Sums(f, g, S), NEW U \in SUBSET S
    PROVE  SumFunctionOnSet(f, U) = g[U]
<1>1. IsFiniteSet(U)
  BY FS_Subset
<1>2. \E e : Sums(f, e, U)
  BY SumsRestrict
<1>. DEFINE c == CHOOSE e : Sums(f, e, U)
<1>3. Sums(f, c, U)
  BY <1>2
<1>4. c[U] = g[U]
  <2>. HIDE DEF c
  <2>. QED
    BY <1>1, <1>3, SumsAgree
<1>. QED
  BY <1>4, SumChosen

LEMMA SumsExist == ASSUME NEW f, NEW S, IsFiniteSet(S) PROVE \E g : Sums(f, g, S)
<1>. DEFINE Z == {s \in SUBSET S : ~ \E g : Sums(f, g, s)}
<1>1. ASSUME Z # {} PROVE FALSE
  <2>1. PICK t \in Z : \A x \in t : t \ {x} \notin Z
    BY <1>1, MinimalSet
  <2>2. IsFiniteSet(t)
    BY FS_Subset
  <2>. DEFINE v == [s \in SUBSET t |-> SumFunctionOnSet(f, s)]
              g == [v EXCEPT ![t] = Unrolled(f, v, t)]
  <2>3. ASSUME NEW s \in SUBSET t, s # t PROVE v[s] = Unrolled(f, v, s)
    <3>1. PICK x \in t : s \subseteq t \ {x}
      BY <2>3
    <3>2. PICK e : Sums(f, e, t \ {x})
      BY <2>1
    <3>3. IsFiniteSet(t \ {x})
      BY <2>2, FS_RemoveElement
    <3>4. \A u \in SUBSET (t \ {x}) : v[u] = e[u]
      BY <3>2, <3>3, SumValue
    <3>5. e[s] = Unrolled(f, e, s)
      BY <3>1, <3>2 DEF Sums
    <3>6. Unrolled(f, e, s) = Unrolled(f, v, s)
      BY <3>1, <3>4 DEF Unrolled
    <3>. QED
      BY <3>1, <3>4, <3>5, <3>6
  <2>4. ASSUME NEW s \in SUBSET t PROVE Unrolled(f, v, s) = Unrolled(f, g, s)
    <3>1. CASE s = {}
      BY <3>1 DEF Unrolled
    <3>2. CASE s # {}
      <4>1. Picked(s) \in s
        BY <3>2 DEF Picked
      <4>2. s \ {Picked(s)} # t
        BY <4>1
      <4>. QED
        BY <4>2 DEF Unrolled
    <3>. QED
      BY <3>1, <3>2
  <2>5. Sums(f, g, t)
    BY <2>3, <2>4 DEF Sums
  <2>. QED
    BY <2>5
<1>. QED
  BY <1>1

LEMMA SumStep ==
    ASSUME NEW f, NEW S, IsFiniteSet(S)
    PROVE  /\ SumFunctionOnSet(f, {}) = 0
           /\ S # {} => /\ Picked(S) \in S
                        /\ SumFunctionOnSet(f, S) =
                             f[Picked(S)] + SumFunctionOnSet(f, S \ {Picked(S)})
<1>1. PICK g : Sums(f, g, S)
  BY SumsExist
<1>2. \A s \in SUBSET S : SumFunctionOnSet(f, s) = g[s]
  BY <1>1, SumValue
<1>3. \A s \in SUBSET S : g[s] = Unrolled(f, g, s)
  BY <1>1 DEF Sums
<1>. QED
  BY <1>2, <1>3 DEF Unrolled, Picked

LEMMA SumType ==
    ASSUME NEW S, IsFiniteSet(S), NEW f, \A x \in S : f[x] \in Nat
    PROVE  SumFunctionOnSet(f, S) \in Nat
<1>. DEFINE Z == {s \in SUBSET S : SumFunctionOnSet(f, s) \notin Nat}
<1>1. ASSUME Z # {} PROVE FALSE
  <2>1. PICK t \in Z : \A x \in t : t \ {x} \notin Z
    BY <1>1, MinimalSet
  <2>2. IsFiniteSet(t)
    BY FS_Subset
  <2>3. CASE t = {}
    <3>1. SumFunctionOnSet(f, {}) = 0
      BY SumStep
    <3>. QED
      BY <2>1, <2>3, <3>1
  <2>4. CASE t # {}
    <3>1. /\ Picked(t) \in t
          /\ SumFunctionOnSet(f, t) = f[Picked(t)] + SumFunctionOnSet(f, t \ {Picked(t)})
      BY <2>2, <2>4, SumStep
    <3>2. f[Picked(t)] \in Nat /\ SumFunctionOnSet(f, t \ {Picked(t)}) \in Nat
      BY <2>1, <3>1
    <3>. QED
      BY <2>1, <3>1, <3>2
  <2>. QED
    BY <2>3, <2>4
<1>. QED
  BY <1>1

(* Any element of a set can be the one that is summed first.               *)
LEMMA SumRemove ==
    ASSUME NEW S, IsFiniteSet(S), NEW f, \A x \in S : f[x] \in Nat, NEW x \in S
    PROVE  SumFunctionOnSet(f, S) = f[x] + SumFunctionOnSet(f, S \ {x})
<1>. DEFINE Sum(s) == SumFunctionOnSet(f, s)
            Z == {s \in SUBSET S : \E y \in s : Sum(s) # f[y] + Sum(s \ {y})}
<1>1. ASSUME Z # {} PROVE FALSE
  <2>1. PICK t \in Z : \A y \in t : t \ {y} \notin Z
    BY <1>1, MinimalSet
  <2>2. PICK y \in t : Sum(t) # f[y] + Sum(t \ {y})
    BY <2>1
  <2>3. \A s \in SUBSET t : IsFiniteSet(s) /\ Sum(s) \in Nat
    <3>1. ASSUME NEW s \in SUBSET t PROVE IsFiniteSet(s) /\ Sum(s) \in Nat
      BY FS_Subset, SumType
    <3>. QED
      BY <3>1
  <2>. DEFINE z == Picked(t)
  <2>4. z \in t /\ Sum(t) = f[z] + Sum(t \ {z})
    BY <2>3, SumStep
  <2>5. z # y
    BY <2>2, <2>4
  <2>6. y \in t \ {z} /\ z \in t \ {y} /\ (t \ {z}) \ {y} = (t \ {y}) \ {z}
    BY <2>4, <2>5
  <2>7. Sum(t \ {z}) = f[y] + Sum((t \ {z}) \ {y}) /\ Sum(t \ {y}) = f[z] + Sum((t \ {y}) \ {z})
    <3>. HIDE DEF Sum, z
    <3>. QED
      BY <2>1, <2>4, <2>6
  <2>8. f[y] \in Nat /\ f[z] \in Nat /\ Sum((t \ {z}) \ {y}) \in Nat
    BY <2>3, <2>4
  <2>. HIDE DEF Sum, z
  <2>. QED
    BY <2>2, <2>4, <2>6, <2>7, <2>8
<1>. QED
  BY <1>1

LEMMA SumAdd ==
    ASSUME NEW S, IsFiniteSet(S), NEW f, NEW x, x \notin S, \A y \in S \cup {x} : f[y] \in Nat
    PROVE  SumFunctionOnSet(f, S \cup {x}) = f[x] + SumFunctionOnSet(f, S)
<1>1. IsFiniteSet(S \cup {x}) /\ (S \cup {x}) \ {x} = S
  BY FS_AddElement
<1>2. SumFunctionOnSet(f, S \cup {x}) = f[x] + SumFunctionOnSet(f, (S \cup {x}) \ {x})
  BY <1>1, SumRemove
<1>. QED
  BY <1>1, <1>2

LEMMA SumSame ==
    ASSUME NEW S, IsFiniteSet(S), NEW f, NEW g, \A x \in S : f[x] = g[x]
    PROVE  SumFunctionOnSet(f, S) = SumFunctionOnSet(g, S)
<1>. DEFINE Z == {s \in SUBSET S : SumFunctionOnSet(f, s) # SumFunctionOnSet(g, s)}
<1>1. ASSUME Z # {} PROVE FALSE
  <2>1. PICK t \in Z : \A x \in t : t \ {x} \notin Z
    BY <1>1, MinimalSet
  <2>2. IsFiniteSet(t)
    BY FS_Subset
  <2>3. SumFunctionOnSet(f, {}) = 0 /\ SumFunctionOnSet(g, {}) = 0
    BY <2>2, SumStep
  <2>4. t # {}
    BY <2>1, <2>3
  <2>5. /\ Picked(t) \in t
        /\ SumFunctionOnSet(f, t) = f[Picked(t)] + SumFunctionOnSet(f, t \ {Picked(t)})
        /\ SumFunctionOnSet(g, t) = g[Picked(t)] + SumFunctionOnSet(g, t \ {Picked(t)})
    BY <2>2, <2>4, SumStep
  <2>6. SumFunctionOnSet(f, t \ {Picked(t)}) = SumFunctionOnSet(g, t \ {Picked(t)})
    BY <2>1, <2>5
  <2>. QED
    BY <2>1, <2>5, <2>6
<1>. QED
  BY <1>1

LEMMA SumZero ==
    ASSUME NEW S, IsFiniteSet(S), NEW f, \A x \in S : f[x] = 0
    PROVE  SumFunctionOnSet(f, S) = 0
<1>. DEFINE Z == {s \in SUBSET S : SumFunctionOnSet(f, s) # 0}
<1>1. ASSUME Z # {} PROVE FALSE
  <2>1. PICK t \in Z : \A x \in t : t \ {x} \notin Z
    BY <1>1, MinimalSet
  <2>2. IsFiniteSet(t)
    BY FS_Subset
  <2>3. t # {}
    BY <2>1, <2>2, SumStep
  <2>4. /\ Picked(t) \in t
        /\ SumFunctionOnSet(f, t) = f[Picked(t)] + SumFunctionOnSet(f, t \ {Picked(t)})
    BY <2>2, <2>3, SumStep
  <2>5. SumFunctionOnSet(f, t \ {Picked(t)}) = 0
    BY <2>1, <2>4
  <2>. QED
    BY <2>1, <2>4, <2>5
<1>. QED
  BY <1>1

LEMMA SumShrinks ==
    ASSUME NEW S, IsFiniteSet(S), NEW f, \A x \in S : f[x] \in Nat, NEW T \in SUBSET S
    PROVE  SumFunctionOnSet(f, T) <= SumFunctionOnSet(f, S)
<1>. DEFINE Sum(s) == SumFunctionOnSet(f, s)
            Z == {s \in SUBSET S : T \subseteq s /\ ~(Sum(T) <= Sum(s))}
<1>1. ASSUME Z # {} PROVE FALSE
  <2>1. PICK t \in Z : \A x \in t : t \ {x} \notin Z
    <3>1. Z \in SUBSET SUBSET S
      OBVIOUS
    <3>. HIDE DEF Z
    <3>. QED
      BY <1>1, <3>1, MinimalSet
  <2>2. \A s \in SUBSET t : IsFiniteSet(s) /\ Sum(s) \in Nat
    <3>1. ASSUME NEW s \in SUBSET t PROVE IsFiniteSet(s) /\ Sum(s) \in Nat
      BY FS_Subset, SumType
    <3>. QED
      BY <3>1
  <2>3. T \subseteq t /\ T # t
    BY <2>1, <2>2
  <2>4. PICK x \in t : x \notin T
    BY <2>3
  <2>5. IsFiniteSet(t) /\ \A y \in t : f[y] \in Nat
    BY <2>2
  <2>6. Sum(t) = f[x] + Sum(t \ {x})
    BY <2>5, SumRemove
  <2>7. T \subseteq t \ {x} /\ t \ {x} \in SUBSET S
    BY <2>3, <2>4
  <2>8. Sum(T) <= Sum(t \ {x})
    BY <2>1, <2>4, <2>7
  <2>9. Sum(T) \in Nat /\ Sum(t \ {x}) \in Nat /\ f[x] \in Nat
    BY <2>2, <2>3
  <2>10. ~(Sum(T) <= Sum(t))
    BY <2>1
  <2>. HIDE DEF Sum, Z
  <2>. QED
    BY <2>6, <2>8, <2>9, <2>10
<1>. QED
  BY <1>1

-----------------------------------------------------------------------------
(* What the requests open have in hand.  Nobody else is on the order or    *)
(* the bill a request is on, so what it has read of it still holds when    *)
(* its transaction runs.                                                   *)

Alone == \A g \in Handlers, h \in Handlers :
    Active(g) /\ Active(h) /\ target[g] = target[h] /\ target[g] \in Orders \cup Bills
        => g = h
Current(h) ==
    /\ pc[h] = "order" => order[target[h]].status = "NONE"
    /\ pc[h] = "drop" => order[target[h]].status # "NONE"
    /\ pc[h] = "lookup" => target[h] \notin mirrored
    /\ pc[h] = "receive" => /\ seen[h] = "NEW" /\ bill[target[h]] = "NONE"
                            /\ target[h] \in mirrored
    /\ pc[h] \in {"check", "delete"} => bill[target[h]] = "POSTED"
    /\ pc[h] = "unreturn" => seen[h] \in {"DRAFT", "POSTED"}
HandsInv ==
    /\ Alone
    /\ \A b \in Bills : bill[b] = "POSTED" => b \in mirrored
    /\ \A h \in Handlers : Current(h)

LEMMA Apartness == Orders \cap Bills = {} /\ Orders \cap Returns = {} /\ Bills \cap Returns = {}
  BY ProcurementAssumption

LEMMA OthersCurrent ==
    ASSUME TypeInv, HandsInv, NEW h \in Handlers, NEW g \in Handlers, g # h,
           Active(g), Active(h),
           UNCHANGED <<pc[g], target[g], seen[g]>>,
           \A b \in Bills : b # target[h] =>
               bill'[b] = bill[b] /\ (b \in mirrored' <=> b \in mirrored),
           \A o \in Orders : o # target[h] =>
               (order'[o].status = "NONE" <=> order[o].status = "NONE")
    PROVE  Current(g)'
<1>1. Current(g)
  BY DEF HandsInv
<1>2. target[g] \in Orders \cup Bills => target[g] # target[h]
  BY DEF HandsInv, Alone
<1>3. pc[g] \in {"order", "drop"} => target[g] \in Orders
  BY DEF TypeInv, RequestTypes, Working
<1>4. pc[g] \in {"lookup", "receive", "check", "delete"} => target[g] \in Bills
  BY DEF TypeInv, RequestTypes, Working
<1>. QED
  BY <1>1, <1>2, <1>3, <1>4 DEF Current

(* A request that ends has changed at most its own document.               *)
LEMMA FinishHands ==
    ASSUME TypeInv, HandsInv, NEW h \in Handlers, Finish(h), Active(h),
           \A b \in Bills : b # target[h] => bill'[b] = bill[b],
           mirrored' = mirrored,
           \A b \in Bills : bill'[b] = "POSTED" => b \in mirrored,
           \A o \in Orders : o # target[h] =>
               (order'[o].status = "NONE" <=> order[o].status = "NONE")
    PROVE  HandsInv'
<1>1. \A g \in Handlers :
        /\ g # h => UNCHANGED <<pc[g], target[g], seen[g]>>
        /\ Active(g)' => g # h /\ Active(g)
  BY DEF Finish, TypeInv, RequestTypes, Active
<1>2. Alone'
  BY <1>1 DEF HandsInv, Alone
<1>3. ASSUME NEW g \in Handlers PROVE Current(g)'
  <2>1. CASE Active(g)'
    BY <1>1, <2>1, OthersCurrent
  <2>2. CASE ~Active(g)'
    BY <2>2 DEF Current, Active
  <2>. QED
    BY <2>1, <2>2
<1>. QED
  BY <1>2, <1>3 DEF HandsInv

LEMMA SetOrderStatus ==
    ASSUME TypeInv, NEW b, NEW st \in OrderStatuses, NEW o \in Orders
    PROVE  /\ SetOrder(b, st)[o].status = "NONE" <=> order[o].status = "NONE"
           /\ SetOrder(b, st)[o].units = order[o].units
           /\ SetOrder(b, st)[o].branch = order[o].branch
  BY DEF SetOrder, OrderStatuses, TypeInv, RowTypes, OrderRows

LEMMA EndsKeepHands ==
    ASSUME TypeInv, HandsInv, NEW h \in Handlers,
           \/ Refuse(h) /\ Active(h)
           \/ PostOrder(h) \/ DropOrder(h) \/ Receive(h) \/ DeleteBill(h)
           \/ PostReturn(h) \/ ApproveReturn(h) \/ CancelReturn(h)
    PROVE  HandsInv'
<1>1. \A b \in Bills : bill[b] = "POSTED" => b \in mirrored
  BY DEF HandsInv
<1>2. CASE Refuse(h) /\ Active(h)
  BY <1>1, <1>2, FinishHands DEF Refuse, tables
<1>3. CASE PostOrder(h)
  BY <1>1, <1>3, FinishHands DEF PostOrder, Active, TypeInv, RowTypes
<1>4. CASE DropOrder(h)
  BY <1>1, <1>4, FinishHands DEF DropOrder, Active, TypeInv, RowTypes
<1>5. CASE Receive(h)
  <2>1. \A o \in Orders : order'[o].status = "NONE" <=> order[o].status = "NONE"
    BY <1>5, SetOrderStatus DEF Receive, OrderStatuses
  <2>2. target[h] \in mirrored
    BY <1>5 DEF Receive, HandsInv, Current
  <2>3. /\ \A b \in Bills : b # target[h] => bill'[b] = bill[b]
        /\ Finish(h) /\ Active(h) /\ mirrored' = mirrored
    BY <1>5 DEF Receive, Active, TypeInv, RowTypes
  <2>4. \A b \in Bills : bill'[b] = "POSTED" => b \in mirrored
    BY <1>1, <2>2, <2>3
  <2>. QED
    BY <2>1, <2>3, <2>4, FinishHands
<1>6. CASE DeleteBill(h)
  <2>1. \A o \in Orders : order'[o].status = "NONE" <=> order[o].status = "NONE"
    BY <1>6, SetOrderStatus DEF DeleteBill, OrderStatuses
  <2>2. /\ \A b \in Bills : bill'[b] = IF b = target[h] THEN "NONE" ELSE bill[b]
        /\ Finish(h) /\ Active(h) /\ mirrored' = mirrored
    BY <1>6 DEF DeleteBill, Active, TypeInv, RowTypes
  <2>. QED
    BY <1>1, <2>1, <2>2, FinishHands
<1>7. CASE PostReturn(h) \/ ApproveReturn(h) \/ CancelReturn(h)
  <2>1. Finish(h) /\ Active(h) /\ UNCHANGED <<order, bill, mirrored>>
    BY <1>7 DEF PostReturn, ApproveReturn, CancelReturn, Active
  <2>. QED
    BY <1>1, <2>1, FinishHands
<1>. QED
  BY <1>2, <1>3, <1>4, <1>5, <1>6, <1>7

LEMMA LookUpKeepsHands ==
    ASSUME TypeInv, HandsInv, NEW h \in Handlers, LookUp(h)
    PROVE  HandsInv'
<1>. DEFINE b == target[h]
<1>1. b \in Bills /\ b \notin mirrored /\ bill[b] = "NONE"
  BY DEF LookUp, HandsInv, Current, TypeInv, RequestTypes, RowTypes, Working
<1>2. UNCHANGED <<bill, order, target>> /\ mirrored' = mirrored \cup {b} /\ Active(h)
  BY DEF LookUp, Active
<1>3. /\ pc'[h] = "receive" /\ seen'[h] = "NEW"
      /\ \A g \in Handlers : /\ g # h => UNCHANGED <<pc[g], target[g], seen[g]>>
                             /\ Active(g)' <=> Active(g)
  BY <1>1 DEF LookUp, Active, TypeInv, RequestTypes
<1>4. Current(h)'
  BY <1>1, <1>2, <1>3 DEF Current
<1>5. ASSUME NEW g \in Handlers, g # h PROVE Current(g)'
  <2>1. CASE Active(g)
    BY <1>2, <1>3, <1>5, <2>1, OthersCurrent
  <2>2. CASE ~Active(g)
    BY <1>3, <1>5, <2>2 DEF Current, Active
  <2>. QED
    BY <2>1, <2>2
<1>. QED
  BY <1>1, <1>2, <1>3, <1>4, <1>5 DEF HandsInv, Alone

LEMMA ProceedKeepsHands ==
    ASSUME TypeInv, HandsInv, NEW h \in Handlers, CheckDevices(h) \/ Weigh(h)
    PROVE  HandsInv'
<1>1. PICK p \in {"delete", "insert", "approve"} :
        /\ Proceed(h, p)
        /\ p = "delete" => pc[h] = "check"
  BY DEF CheckDevices, Weigh
<1>2. Active(h) /\ pc' = [pc EXCEPT ![h] = p]
      /\ UNCHANGED <<order, bill, mirrored, target, seen>>
  BY <1>1 DEF CheckDevices, Weigh, Active, Proceed, tables, request
<1>3. \A g \in Handlers : Active(g)' <=> Active(g)
  BY <1>2 DEF Active, TypeInv, RequestTypes
<1>4. Alone'
  BY <1>2, <1>3 DEF HandsInv, Alone
<1>5. ASSUME NEW g \in Handlers PROVE Current(g)'
  BY <1>1, <1>2 DEF HandsInv, Current, TypeInv, RequestTypes
<1>. QED
  BY <1>2, <1>4, <1>5 DEF HandsInv

LEMMA AsideKeepsHands == ASSUME TypeInv, HandsInv, Aside \/ UNCHANGED vars PROVE HandsInv'
<1>1. UNCHANGED <<bill, mirrored, pc, target, seen>>
  BY DEF Aside, EditOrder, PatchOrder, Register, Assign, request, vars, tables
<1>2. \A o \in Orders : order'[o].status = "NONE" <=> order[o].status = "NONE"
  <2>1. ASSUME NEW i \in Orders, NEW st \in OrderStatuses, NEW b \in Branches,
               EditOrder(i, st, b) \/ PatchOrder(i, st)
        PROVE  \A o \in Orders : order'[o].status = "NONE" <=> order[o].status = "NONE"
    BY <2>1 DEF EditOrder, PatchOrder, OrderStatuses, TypeInv, RowTypes, OrderRows
  <2>2. \/ UNCHANGED order
        \/ \E i \in Orders, st \in OrderStatuses, b \in Branches :
              EditOrder(i, st, b) \/ PatchOrder(i, st)
    <3>1. ASSUME NEW i \in Orders, NEW st \in OrderStatuses, PatchOrder(i, st)
          PROVE  \E b \in Branches : EditOrder(i, st, b) \/ PatchOrder(i, st)
      BY <3>1, PlanTypes
    <3>. QED
      BY <3>1 DEF Aside, Register, Assign, vars, tables
  <2>. QED
    BY <2>1, <2>2
<1>3. ASSUME NEW h \in Handlers PROVE Current(h)'
  <2>1. pc[h] \in {"order", "drop"} => target[h] \in Orders
    BY DEF TypeInv, RequestTypes, Working
  <2>2. Current(h)
    BY DEF HandsInv
  <2>. QED
    BY <1>1, <1>2, <2>1, <2>2 DEF Current
<1>. QED
  BY <1>1, <1>3 DEF HandsInv, Alone, Active

LEMMA StartKeepsHands ==
    ASSUME {"REPEAT", "PHANTOM"} \cap Mishaps = {}, TypeInv, HandsInv, NEW h \in Handlers, Start(h)
    PROVE  HandsInv'
<1>1. ASSUME NEW k \in Kinds, NEW d \in Documents, NEW st, NEW first, Open(h, k, d, st, first),
             \/ k = "ORDER" /\ first = "order" /\ d \in Orders
             \/ k = "DROP" /\ first = "drop" /\ d \in Orders /\ order[d].status # "NONE"
             \/ k = "BILL" /\ first = "lookup" /\ d \in Bills
             \/ k = "DELETE" /\ first = "check" /\ d \in Bills
             \/ Posting(k) /\ first = "weigh" /\ d \in Returns
             \/ k = "UNRETURN" /\ first = "unreturn" /\ d \in Returns /\ st \in {"DRAFT", "POSTED"}
      PROVE  HandsInv'
  <2>1. /\ UNCHANGED <<order, bill, mirrored>> /\ Expected(k, d)
        /\ pc[h] = "idle" /\ first # "idle"
        /\ pc'[h] = first /\ target'[h] = d /\ seen'[h] = st
        /\ \A g \in Handlers : g # h => UNCHANGED <<pc[g], target[g], seen[g]>>
    BY <1>1 DEF Open, tables, TypeInv, RequestTypes
  <2>2. d \in Orders \cup Bills => OpenOn(d) = {}
    <3>1. d \in Orders \cup Bills => k \in {"ORDER", "DROP", "BILL", "DELETE"}
      BY <1>1, Apartness
    <3>. QED
      BY <2>1, <3>1 DEF Expected, Fresh
  <2>3. Alone'
    <3>1. ASSUME NEW f \in Handlers, NEW g \in Handlers, Active(f)', Active(g)',
                 target'[f] = target'[g], target'[f] \in Orders \cup Bills, f # g
          PROVE  FALSE
      <4>1. CASE f # h /\ g # h
        BY <2>1, <3>1, <4>1 DEF HandsInv, Alone, Active
      <4>2. CASE f = h
        BY <2>1, <2>2, <3>1, <4>2 DEF OpenOn, Active
      <4>3. CASE g = h
        BY <2>1, <2>2, <3>1, <4>3 DEF OpenOn, Active
      <4>. QED
        BY <4>1, <4>2, <4>3
    <3>. QED
      BY <3>1 DEF Alone
  <2>4. Current(h)'
    <3>1. k = "ORDER" => order[d].status = "NONE"
      BY <2>1 DEF Expected, Fresh
    <3>2. k = "BILL" => d \notin mirrored
      BY <2>1 DEF Expected, Fresh
    <3>3. k = "DELETE" => bill[d] = "POSTED"
      BY <2>1 DEF Expected
    <3>. QED
      BY <1>1, <2>1, <3>1, <3>2, <3>3 DEF Current
  <2>5. ASSUME NEW g \in Handlers, g # h PROVE Current(g)'
    BY <2>1, <2>5 DEF HandsInv, Current
  <2>. QED
    BY <2>1, <2>3, <2>4, <2>5 DEF HandsInv
<1>2. ASSUME NEW o \in Orders, StartOrder(h, o) \/ StartDrop(h, o) PROVE HandsInv'
  BY <1>1, <1>2 DEF StartOrder, StartDrop, Ask, InMirror, OrderStatuses, Kinds, Documents
<1>3. ASSUME NEW b \in Bills, StartBill(h, b) \/ StartDelete(h, b) PROVE HandsInv'
  BY <1>1, <1>3 DEF StartBill, StartDelete, Ask, Kinds, Documents
<1>4. ASSUME NEW r \in Returns, StartReturn(h, r) \/ StartApprove(h, r) \/ StartUnreturn(h, r)
      PROVE HandsInv'
  BY <1>1, <1>4 DEF StartReturn, StartApprove, StartUnreturn, Ask, Posting, Kinds, Documents
<1>. QED
  BY <1>2, <1>3, <1>4 DEF Start

LEMMA StepCases ==
    ASSUME NEW h \in Handlers, Step(h) \/ Fail(h)
    PROVE  \/ CheckDevices(h) \/ Weigh(h)
           \/ Refuse(h) /\ Active(h)
           \/ PostOrder(h) \/ DropOrder(h)
           \/ LookUp(h) \/ Receive(h) \/ DeleteBill(h) \/ PostReturn(h) \/ ApproveReturn(h)
           \/ CancelReturn(h)
  BY DEF Step, Fail, RefuseBill, RefuseAssigned, RefuseDelete, RefuseReturn, RefuseInsert,
         RefuseApprove, RefuseCancel, Active

LEMMA HandsStep ==
    ASSUME {"REPEAT", "PHANTOM"} \cap Mishaps = {}
    PROVE  TypeInv /\ HandsInv /\ [Next]_vars => HandsInv'
<1>1. ASSUME TypeInv, HandsInv, NEW h \in Handlers, Step(h) \/ Fail(h) PROVE HandsInv'
  BY <1>1, StepCases, EndsKeepHands, LookUpKeepsHands, ProceedKeepsHands
<1>. QED
  BY <1>1, StartKeepsHands, AsideKeepsHands DEF Next

LEMMA HandsAlways ==
    ASSUME {"REPEAT", "PHANTOM"} \cap Mishaps = {} PROVE Spec => []HandsInv
<1>1. Init => HandsInv
  BY DEF Init, HandsInv, Alone, Current, Active
<1>2. TypeInv /\ HandsInv /\ [Next]_vars => HandsInv'
  BY HandsStep
<1>. QED
  BY <1>1, <1>2, TypesAlways, PTL DEF Spec

-----------------------------------------------------------------------------
(* Stock as the documents explain it.                                      *)

StockInv == \A b \in Branches, p \in Products :
    stock[b][p] = InitStock[b][p] + Bought(b, p) - SentBack(b, p)

LEMMA MovedAt ==
    ASSUME NEW f \in [Branches -> [Products -> Int]], NEW i \in Branches,
           NEW units \in Quantities, NEW sign \in {1, -1},
           NEW b \in Branches, NEW p \in Products
    PROVE  Moved(f, i, units, sign)[b][p] =
               f[b][p] + (IF b = i THEN sign * units[p] ELSE 0)
<1>1. f[b] \in [Products -> Int]
  OBVIOUS
<1>. QED
  BY <1>1 DEF Moved, Quantities

LEMMA SumsAreNat ==
    ASSUME NEW b \in Branches, NEW p \in Products
    PROVE  Bought(b, p) \in Nat /\ SentBack(b, p) \in Nat
<1>1. IsFiniteSet(LiveBills(b)) /\ IsFiniteSet(LiveReturns(b))
  BY ProcurementAssumption, FS_Subset DEF LiveBills, LiveReturns
<1>2. \A i \in LiveBills(b) : [j \in Bills |-> Bill[j].units[p]][i] \in Nat
  BY PlanTypes DEF LiveBills, Quantities
<1>3. \A r \in LiveReturns(b) : [q \in Returns |-> Credit[q].units[p]][r] \in Nat
  BY PlanTypes DEF LiveReturns, Quantities
<1>. QED
  BY <1>1, <1>2, <1>3, SumType DEF Bought, SentBack

(* A bill that is posted, or goes, is one more, or one fewer, to count.    *)
LEMMA BoughtMore ==
    ASSUME NEW j \in Bills, bill[j] = "NONE", bill'[j] = "POSTED",
           \A i \in Bills : i # j => bill'[i] = bill[i],
           NEW b \in Branches, NEW p \in Products
    PROVE  Bought(b, p)' =
               Bought(b, p) + (IF b = Bill[j].branch THEN Bill[j].units[p] ELSE 0)
<1>. DEFINE f == [i \in Bills |-> Bill[i].units[p]]
<1>1. CASE b # Bill[j].branch
  <2>1. LiveBills(b)' = LiveBills(b)
    BY <1>1 DEF LiveBills
  <2>2. Bought(b, p) \in Nat
    BY SumsAreNat
  <2>. QED
    BY <1>1, <2>1, <2>2 DEF Bought
<1>2. CASE b = Bill[j].branch
  <2>1. LiveBills(b)' = LiveBills(b) \cup {j} /\ j \notin LiveBills(b)
    BY <1>2 DEF LiveBills
  <2>2. IsFiniteSet(LiveBills(b))
    BY ProcurementAssumption, FS_Subset DEF LiveBills
  <2>3. \A i \in LiveBills(b) \cup {j} : f[i] \in Nat
    BY PlanTypes DEF LiveBills, Quantities
  <2>4. SumFunctionOnSet(f, LiveBills(b) \cup {j}) = f[j] + SumFunctionOnSet(f, LiveBills(b))
    BY <2>1, <2>2, <2>3, SumAdd
  <2>5. Bought(b, p) \in Nat /\ f[j] \in Nat
    BY <2>3, SumsAreNat
  <2>. QED
    BY <1>2, <2>1, <2>4, <2>5 DEF Bought
<1>. QED
  BY <1>1, <1>2

LEMMA BoughtLess ==
    ASSUME NEW j \in Bills, bill[j] = "POSTED", bill'[j] = "NONE",
           \A i \in Bills : i # j => bill'[i] = bill[i],
           NEW b \in Branches, NEW p \in Products
    PROVE  Bought(b, p)' =
               Bought(b, p) - (IF b = Bill[j].branch THEN Bill[j].units[p] ELSE 0)
<1>. DEFINE f == [i \in Bills |-> Bill[i].units[p]]
<1>1. CASE b # Bill[j].branch
  <2>1. LiveBills(b)' = LiveBills(b)
    BY <1>1 DEF LiveBills
  <2>2. Bought(b, p) \in Nat
    BY SumsAreNat
  <2>. QED
    BY <1>1, <2>1, <2>2 DEF Bought
<1>2. CASE b = Bill[j].branch
  <2>1. LiveBills(b)' = LiveBills(b) \ {j} /\ j \in LiveBills(b)
    BY <1>2 DEF LiveBills
  <2>2. IsFiniteSet(LiveBills(b))
    BY ProcurementAssumption, FS_Subset DEF LiveBills
  <2>3. \A i \in LiveBills(b) : f[i] \in Nat
    BY PlanTypes DEF LiveBills, Quantities
  <2>4. SumFunctionOnSet(f, LiveBills(b)) = f[j] + SumFunctionOnSet(f, LiveBills(b) \ {j})
    BY <2>1, <2>2, <2>3, SumRemove
  <2>5. IsFiniteSet(LiveBills(b) \ {j})
    BY <2>2, FS_RemoveElement
  <2>6. SumFunctionOnSet(f, LiveBills(b) \ {j}) \in Nat /\ f[j] \in Nat
    BY <2>1, <2>3, <2>5, SumType
  <2>. QED
    BY <1>2, <2>1, <2>4, <2>6 DEF Bought
<1>. QED
  BY <1>1, <1>2

(* The same of a return that is posted or cancelled.                       *)
LEMMA SentMore ==
    ASSUME NEW r \in Returns, ret[r].status # "POSTED", ret'[r].status = "POSTED",
           \A q \in Returns : q # r => ret'[q].status = ret[q].status,
           NEW b \in Branches, NEW p \in Products
    PROVE  SentBack(b, p)' =
               SentBack(b, p) + (IF b = Credit[r].branch THEN Credit[r].units[p] ELSE 0)
<1>. DEFINE f == [q \in Returns |-> Credit[q].units[p]]
<1>1. CASE b # Credit[r].branch
  <2>1. LiveReturns(b)' = LiveReturns(b)
    BY <1>1 DEF LiveReturns
  <2>2. SentBack(b, p) \in Nat
    BY SumsAreNat
  <2>. QED
    BY <1>1, <2>1, <2>2 DEF SentBack
<1>2. CASE b = Credit[r].branch
  <2>1. LiveReturns(b)' = LiveReturns(b) \cup {r} /\ r \notin LiveReturns(b)
    BY <1>2 DEF LiveReturns
  <2>2. IsFiniteSet(LiveReturns(b))
    BY ProcurementAssumption, FS_Subset DEF LiveReturns
  <2>3. \A q \in LiveReturns(b) \cup {r} : f[q] \in Nat
    BY PlanTypes DEF LiveReturns, Quantities
  <2>4. SumFunctionOnSet(f, LiveReturns(b) \cup {r}) = f[r] + SumFunctionOnSet(f, LiveReturns(b))
    BY <2>1, <2>2, <2>3, SumAdd
  <2>5. SentBack(b, p) \in Nat /\ f[r] \in Nat
    BY <2>3, SumsAreNat
  <2>. QED
    BY <1>2, <2>1, <2>4, <2>5 DEF SentBack
<1>. QED
  BY <1>1, <1>2

LEMMA SentLess ==
    ASSUME NEW r \in Returns, ret[r].status = "POSTED", ret'[r].status # "POSTED",
           \A q \in Returns : q # r => ret'[q].status = ret[q].status,
           NEW b \in Branches, NEW p \in Products
    PROVE  SentBack(b, p)' =
               SentBack(b, p) - (IF b = Credit[r].branch THEN Credit[r].units[p] ELSE 0)
<1>. DEFINE f == [q \in Returns |-> Credit[q].units[p]]
<1>1. CASE b # Credit[r].branch
  <2>1. LiveReturns(b)' = LiveReturns(b)
    BY <1>1 DEF LiveReturns
  <2>2. SentBack(b, p) \in Nat
    BY SumsAreNat
  <2>. QED
    BY <1>1, <2>1, <2>2 DEF SentBack
<1>2. CASE b = Credit[r].branch
  <2>1. LiveReturns(b)' = LiveReturns(b) \ {r} /\ r \in LiveReturns(b)
    BY <1>2 DEF LiveReturns
  <2>2. IsFiniteSet(LiveReturns(b))
    BY ProcurementAssumption, FS_Subset DEF LiveReturns
  <2>3. \A q \in LiveReturns(b) : f[q] \in Nat
    BY PlanTypes DEF LiveReturns, Quantities
  <2>4. SumFunctionOnSet(f, LiveReturns(b)) = f[r] + SumFunctionOnSet(f, LiveReturns(b) \ {r})
    BY <2>1, <2>2, <2>3, SumRemove
  <2>5. IsFiniteSet(LiveReturns(b) \ {r})
    BY <2>2, FS_RemoveElement
  <2>6. SumFunctionOnSet(f, LiveReturns(b) \ {r}) \in Nat /\ f[r] \in Nat
    BY <2>1, <2>3, <2>5, SumType
  <2>. QED
    BY <1>2, <2>1, <2>4, <2>6 DEF SentBack
<1>. QED
  BY <1>1, <1>2

LEMMA NobodySent ==
    ASSUME \A r \in Returns : ret'[r].status = "POSTED" <=> ret[r].status = "POSTED",
           NEW b, NEW p
    PROVE  SentBack(b, p)' = SentBack(b, p)
<1>1. LiveReturns(b)' = LiveReturns(b)
  BY DEF LiveReturns
<1>. QED
  BY <1>1 DEF SentBack

LEMMA NothingBought ==
    ASSUME UNCHANGED bill, NEW b, NEW p PROVE Bought(b, p)' = Bought(b, p)
  BY DEF Bought, LiveBills

(* A movement of stock that goes with what it is explained by.             *)
LEMMA StockFollows ==
    ASSUME TypeInv, StockInv, NEW i \in Branches, NEW units \in Quantities, NEW sign \in {1, -1},
           stock' = Moved(stock, i, units, sign),
           \A b \in Branches, p \in Products :
               Bought(b, p)' - SentBack(b, p)' =
                   Bought(b, p) - SentBack(b, p) + (IF b = i THEN sign * units[p] ELSE 0)
    PROVE  StockInv'
<1>1. ASSUME NEW b \in Branches, NEW p \in Products
      PROVE  stock'[b][p] = InitStock[b][p] + Bought(b, p)' - SentBack(b, p)'
  <2>. DEFINE m == IF b = i THEN sign * units[p] ELSE 0
  <2>1. stock'[b][p] = stock[b][p] + m
    BY MovedAt, StockIsInt DEF TypeInv
  <2>2. stock[b][p] = InitStock[b][p] + Bought(b, p) - SentBack(b, p)
    BY DEF StockInv
  <2>3. Bought(b, p) \in Nat /\ SentBack(b, p) \in Nat /\ InitStock[b][p] \in Nat
    BY SumsAreNat, ProcurementAssumption DEF Quantities
  <2>4. Bought(b, p)' \in Nat /\ SentBack(b, p)' \in Nat
    <3>1. IsFiniteSet(LiveBills(b)') /\ IsFiniteSet(LiveReturns(b)')
      BY ProcurementAssumption, FS_Subset DEF LiveBills, LiveReturns
    <3>2. \A j \in LiveBills(b)' : [k \in Bills |-> Bill[k].units[p]][j] \in Nat
      BY PlanTypes DEF LiveBills, Quantities
    <3>3. \A r \in LiveReturns(b)' : [q \in Returns |-> Credit[q].units[p]][r] \in Nat
      BY PlanTypes DEF LiveReturns, Quantities
    <3>. QED
      BY <3>1, <3>2, <3>3, SumType DEF Bought, SentBack
  <2>5. m \in Int
    BY DEF Quantities
  <2>6. Bought(b, p)' - SentBack(b, p)' = Bought(b, p) - SentBack(b, p) + m
    OBVIOUS
  <2>. HIDE DEF m
  <2>. QED
    BY <2>1, <2>2, <2>3, <2>4, <2>5, <2>6
<1>. QED
  BY <1>1 DEF StockInv

LEMMA QuietKeepsStock ==
    ASSUME StockInv, UNCHANGED <<stock, bill>>,
           \A r \in Returns : ret'[r].status = "POSTED" <=> ret[r].status = "POSTED"
    PROVE  StockInv'
  BY NobodySent, NothingBought DEF StockInv

LEMMA ReceiveKeepsStock ==
    ASSUME TypeInv, HandsInv, StockInv, NEW h \in Handlers, Receive(h)
    PROVE  StockInv'
<1>1. PICK j \in Bills : j = target[h]
  BY DEF Receive, TypeInv, RequestTypes, Working
<1>2. seen[h] = "NEW" /\ bill[j] = "NONE"
  BY <1>1 DEF Receive, HandsInv, Current
<1>3. /\ bill'[j] = "POSTED" /\ \A i \in Bills : i # j => bill'[i] = bill[i]
      /\ stock' = Moved(stock, Bill[j].branch, Bill[j].units, 1)
      /\ UNCHANGED ret
  BY <1>1, <1>2 DEF Receive, TypeInv, RowTypes
<1>4. ASSUME NEW b \in Branches, NEW p \in Products
      PROVE  Bought(b, p)' - SentBack(b, p)' = Bought(b, p) - SentBack(b, p)
                 + (IF b = Bill[j].branch THEN 1 * Bill[j].units[p] ELSE 0)
  <2>1. SentBack(b, p)' = SentBack(b, p)
    BY <1>3, NobodySent
  <2>2. Bought(b, p)' = Bought(b, p) + (IF b = Bill[j].branch THEN Bill[j].units[p] ELSE 0)
    BY <1>2, <1>3, BoughtMore
  <2>3. Bought(b, p) \in Nat /\ SentBack(b, p) \in Nat /\ Bill[j].units[p] \in Nat
    BY SumsAreNat, PlanTypes DEF Quantities
  <2>. QED
    BY <2>1, <2>2, <2>3
<1>. QED
  BY <1>3, <1>4, StockFollows, PlanTypes

LEMMA DeleteKeepsStock ==
    ASSUME TypeInv, HandsInv, StockInv, NEW h \in Handlers, DeleteBill(h)
    PROVE  StockInv'
<1>1. PICK j \in Bills : j = target[h]
  BY DEF DeleteBill, TypeInv, RequestTypes, Working
<1>2. bill[j] = "POSTED"
  BY <1>1 DEF DeleteBill, HandsInv, Current
<1>3. /\ bill'[j] = "NONE" /\ \A i \in Bills : i # j => bill'[i] = bill[i]
      /\ stock' = Moved(stock, Bill[j].branch, Bill[j].units, -1)
  BY <1>1, <1>2 DEF DeleteBill, TypeInv, RowTypes
<1>4. \A r \in Returns : ret'[r].status = ret[r].status
  BY DEF DeleteBill, TypeInv, RowTypes, ReturnRows
<1>5. ASSUME NEW b \in Branches, NEW p \in Products
      PROVE  Bought(b, p)' - SentBack(b, p)' = Bought(b, p) - SentBack(b, p)
                 + (IF b = Bill[j].branch THEN (-1) * Bill[j].units[p] ELSE 0)
  <2>1. SentBack(b, p)' = SentBack(b, p)
    BY <1>4, NobodySent
  <2>2. Bought(b, p)' = Bought(b, p) - (IF b = Bill[j].branch THEN Bill[j].units[p] ELSE 0)
    BY <1>2, <1>3, BoughtLess
  <2>3. Bought(b, p) \in Nat /\ SentBack(b, p) \in Nat /\ Bill[j].units[p] \in Nat
    BY SumsAreNat, PlanTypes DEF Quantities
  <2>. QED
    BY <2>1, <2>2, <2>3
<1>. QED
  BY <1>3, <1>5, StockFollows, PlanTypes

(* A return that takes its goods out, from whichever status.               *)
LEMMA ApplyKeepsStock ==
    ASSUME TypeInv, StockInv, NEW r \in Returns, ApplyReturn(r), UNCHANGED bill,
           ret[r].status # "POSTED", ret'[r].status = "POSTED",
           \A q \in Returns : q # r => ret'[q].status = ret[q].status
    PROVE  StockInv'
<1>1. ASSUME NEW b \in Branches, NEW p \in Products
      PROVE  Bought(b, p)' - SentBack(b, p)' = Bought(b, p) - SentBack(b, p)
                 + (IF b = Credit[r].branch THEN (-1) * Credit[r].units[p] ELSE 0)
  <2>1. Bought(b, p)' = Bought(b, p)
    BY NothingBought
  <2>2. SentBack(b, p)' = SentBack(b, p) + (IF b = Credit[r].branch THEN Credit[r].units[p] ELSE 0)
    BY SentMore
  <2>3. Bought(b, p) \in Nat /\ SentBack(b, p) \in Nat /\ Credit[r].units[p] \in Nat
    BY SumsAreNat, PlanTypes DEF Quantities
  <2>. QED
    BY <2>1, <2>2, <2>3
<1>. QED
  BY <1>1, StockFollows, PlanTypes DEF ApplyReturn

(* What the steps on returns do to their rows.                             *)
LEMMA PostReturnRows ==
    ASSUME TypeInv, NEW h \in Handlers, PostReturn(h)
    PROVE  \E r \in Returns :
             /\ r = target[h] /\ ret[r].status = "NONE"
             /\ \A q \in Returns : q # r => ret'[q] = ret[q]
             /\ ret'[r].bill = Credit[r].bill
             /\ \/ ret'[r].status = "DRAFT" /\ UNCHANGED <<stock, serial>>
                \/ ret'[r].status = "POSTED" /\ ApplyReturn(r)
<1>1. target[h] \in Returns
  BY DEF PostReturn, TypeInv, RequestTypes, Working
<1>. QED
  BY <1>1 DEF PostReturn, CanInsert, TypeInv, RowTypes

LEMMA ApproveRows ==
    ASSUME TypeInv, NEW h \in Handlers, ApproveReturn(h)
    PROVE  \E r \in Returns :
             /\ r = target[h] /\ ret[r].status = "DRAFT"
             /\ \A q \in Returns : q # r => ret'[q] = ret[q]
             /\ ret'[r].bill = ret[r].bill /\ ret'[r].status = "POSTED" /\ ApplyReturn(r)
<1>1. target[h] \in Returns
  BY DEF ApproveReturn, TypeInv, RequestTypes, Working
<1>. QED
  BY <1>1 DEF ApproveReturn, CanApprove, TypeInv, RowTypes, ReturnRows

(* A request to cancel has read one of two statuses.                       *)
SeenInv == \A h \in Handlers : pc[h] = "unreturn" => seen[h] \in {"DRAFT", "POSTED"}

LEMMA CancelRows ==
    ASSUME TypeInv, SeenInv, NEW h \in Handlers, CancelReturn(h)
    PROVE  \E r \in Returns :
             /\ r = target[h] /\ ret[r].status \in {"DRAFT", "POSTED"}
             /\ \A q \in Returns : q # r => ret'[q] = ret[q]
             /\ ret'[r].bill = ret[r].bill /\ ret'[r].status = "CANCELLED"
             /\ \/ ret[r].status = "DRAFT" /\ UNCHANGED <<stock, serial>>
                \/ /\ ret[r].status = "POSTED" /\ serial' = SerialsTo(r, "IN_STOCK")
                   /\ stock' = Moved(stock, Credit[r].branch, Credit[r].units, 1)
<1>1. target[h] \in Returns /\ pc[h] = "unreturn"
  BY DEF CancelReturn, TypeInv, RequestTypes, Working
<1>2. ret[target[h]].status = seen[h] /\ seen[h] \in {"DRAFT", "POSTED"}
  BY <1>1 DEF CancelReturn, Still, SeenInv
<1>3. /\ \A q \in Returns : q # target[h] => ret'[q] = ret[q]
      /\ ret'[target[h]].bill = ret[target[h]].bill /\ ret'[target[h]].status = "CANCELLED"
  BY <1>1 DEF CancelReturn, TypeInv, RowTypes, ReturnRows
<1>. QED
  BY <1>1, <1>2, <1>3 DEF CancelReturn

LEMMA ReturnsKeepStock ==
    ASSUME TypeInv, SeenInv, StockInv, NEW h \in Handlers,
           PostReturn(h) \/ ApproveReturn(h) \/ CancelReturn(h)
    PROVE  StockInv'
<1>1. UNCHANGED bill
  BY DEF PostReturn, ApproveReturn, CancelReturn
<1>2. CASE PostReturn(h)
  <2>1. PICK r \in Returns :
             /\ r = target[h] /\ ret[r].status = "NONE"
             /\ \A q \in Returns : q # r => ret'[q] = ret[q]
             /\ \/ ret'[r].status = "DRAFT" /\ UNCHANGED <<stock, serial>>
                \/ ret'[r].status = "POSTED" /\ ApplyReturn(r)
    BY <1>2, PostReturnRows
  <2>. QED
    BY <1>1, <2>1, QuietKeepsStock, ApplyKeepsStock
<1>3. CASE ApproveReturn(h)
  BY <1>1, <1>3, ApproveRows, ApplyKeepsStock
<1>4. CASE CancelReturn(h)
  <2>1. PICK r \in Returns :
             /\ r = target[h] /\ ret[r].status \in {"DRAFT", "POSTED"}
             /\ \A q \in Returns : q # r => ret'[q] = ret[q]
             /\ ret'[r].bill = ret[r].bill /\ ret'[r].status = "CANCELLED"
             /\ \/ ret[r].status = "DRAFT" /\ UNCHANGED <<stock, serial>>
                \/ /\ ret[r].status = "POSTED" /\ serial' = SerialsTo(r, "IN_STOCK")
                   /\ stock' = Moved(stock, Credit[r].branch, Credit[r].units, 1)
    BY <1>4, CancelRows
  <2>2. CASE ret[r].status = "DRAFT"
    BY <1>1, <2>1, <2>2, QuietKeepsStock
  <2>3. CASE ret[r].status = "POSTED"
    <3>1. ASSUME NEW b \in Branches, NEW p \in Products
          PROVE  Bought(b, p)' - SentBack(b, p)' = Bought(b, p) - SentBack(b, p)
                     + (IF b = Credit[r].branch THEN 1 * Credit[r].units[p] ELSE 0)
      <4>1. Bought(b, p)' = Bought(b, p)
        BY <1>1, NothingBought
      <4>2. SentBack(b, p)' =
                SentBack(b, p) - (IF b = Credit[r].branch THEN Credit[r].units[p] ELSE 0)
        BY <2>1, <2>3, SentLess
      <4>3. Bought(b, p) \in Nat /\ SentBack(b, p) \in Nat /\ Credit[r].units[p] \in Nat
        BY SumsAreNat, PlanTypes DEF Quantities
      <4>. QED
        BY <4>1, <4>2, <4>3
    <3>2. stock' = Moved(stock, Credit[r].branch, Credit[r].units, 1)
      BY <2>1, <2>3
    <3>. QED
      BY <3>1, <3>2, StockFollows, PlanTypes
  <2>. QED
    BY <2>1, <2>2, <2>3
<1>. QED
  BY <1>2, <1>3, <1>4

LEMMA StockStep == TypeInv /\ HandsInv /\ StockInv /\ [Next]_vars => StockInv'
<1>. SUFFICES ASSUME TypeInv, HandsInv, StockInv, [Next]_vars PROVE StockInv'
  OBVIOUS
<1>1. SeenInv
  BY DEF HandsInv, Current, SeenInv
<1>2. ASSUME UNCHANGED <<stock, bill, ret>> PROVE StockInv'
  BY <1>2, QuietKeepsStock
<1>3. ASSUME NEW h \in Handlers, Start(h) PROVE UNCHANGED <<stock, bill, ret>>
  BY <1>3 DEF Start, StartOrder, StartDrop, StartBill, StartDelete, StartReturn, StartApprove,
     StartUnreturn, Open, tables, goods, Ask
<1>4. Aside \/ UNCHANGED vars => UNCHANGED <<stock, bill, ret>>
  BY DEF Aside, EditOrder, PatchOrder, Register, Assign, vars, tables, goods
<1>5. ASSUME NEW h \in Handlers, Step(h) \/ Fail(h) PROVE StockInv'
  <2>1. CheckDevices(h) \/ Weigh(h) \/ Refuse(h) \/ PostOrder(h) \/ DropOrder(h) \/ LookUp(h)
            => UNCHANGED <<stock, bill, ret>>
    BY DEF CheckDevices, Weigh, Refuse, PostOrder, DropOrder, LookUp, Proceed, tables, goods
  <2>. QED
    BY <1>1, <1>2, <1>5, <2>1, StepCases, ReceiveKeepsStock, DeleteKeepsStock, ReturnsKeepStock
<1>. QED
  BY <1>2, <1>3, <1>4, <1>5 DEF Next

LEMMA StockInit == Init => StockInv
<1>. SUFFICES ASSUME Init, NEW b \in Branches, NEW p \in Products
     PROVE  stock[b][p] = InitStock[b][p] + Bought(b, p) - SentBack(b, p)
  BY DEF StockInv
<1>1. LiveBills(b) = {} /\ LiveReturns(b) = {}
  BY DEF Init, LiveBills, LiveReturns
<1>2. IsFiniteSet({})
  BY FS_EmptySet
<1>3. \A f : SumFunctionOnSet(f, {}) = 0
  <2>1. ASSUME NEW f PROVE SumFunctionOnSet(f, {}) = 0
    BY <1>2, SumStep
  <2>. QED
    BY <2>1
<1>4. InitStock[b][p] \in Nat
  BY ProcurementAssumption DEF Quantities
<1>. QED
  BY <1>1, <1>3, <1>4 DEF Init, Bought, SentBack

LEMMA StockAlways ==
    ASSUME {"REPEAT", "PHANTOM"} \cap Mishaps = {} PROVE Spec => []StockInv
  BY StockInit, StockStep, HandsAlways, TypesAlways, PTL DEF Spec

-----------------------------------------------------------------------------
(* Incoming quantities.  An order in the table has the lines it was posted *)
(* with or those of an edit, so what a posting added a deletion releases.  *)

(* A row that is not there has no lines and its planned branch.            *)
RowsInv == \A o \in Orders : order[o].status = "NONE" => order[o] = NoOrderRow(o)
IncomingInv ==
    /\ \A b \in Branches, p \in Products :
          <<b, p>> \notin skewed => incoming[b][p] = Planned(b, p)
    /\ \A h \in Handlers : pc[h] = "drop" =>
          \A b \in Branches, p \in Products : <<b, p>> \notin skewed =>
              release[h][b][p] = Share(order[target[h]], b, p)

LEMMA ShareIsNat ==
    ASSUME NEW row \in OrderRows, NEW b \in Branches, NEW p \in Products
    PROVE  Share(row, b, p) \in Nat
  BY DEF OrderRows, Quantities, Share

(* When one row changes, what is planned changes by its share.             *)
LEMMA PlannedChanges ==
    ASSUME order \in [Orders -> OrderRows], order' \in [Orders -> OrderRows],
           NEW i \in Orders, NEW b \in Branches, NEW p \in Products,
           \A o \in Orders : o # i => Share(order'[o], b, p) = Share(order[o], b, p)
    PROVE  \E rest \in Nat : /\ Planned(b, p) = Share(order[i], b, p) + rest
                            /\ Planned(b, p)' = Share(order'[i], b, p) + rest
<1>. DEFINE f == [o \in Orders |-> Share(order[o], b, p)]
            g == [o \in Orders |-> Share(order'[o], b, p)]
            R == Orders \ {i}
<1>1. IsFiniteSet(Orders) /\ IsFiniteSet(R)
  BY ProcurementAssumption, FS_Subset
<1>2. (\A o \in Orders : f[o] \in Nat) /\ (\A o \in Orders : g[o] \in Nat)
  BY ShareIsNat
<1>3. \A o \in R : f[o] = g[o]
  OBVIOUS
<1>4. f[i] = Share(order[i], b, p) /\ g[i] = Share(order'[i], b, p)
  OBVIOUS
<1>5. Planned(b, p) = SumFunctionOnSet(f, Orders) /\ Planned(b, p)' = SumFunctionOnSet(g, Orders)
  BY DEF Planned
<1>. HIDE DEF f, g
<1>6. SumFunctionOnSet(f, Orders) = f[i] + SumFunctionOnSet(f, R)
  BY <1>1, <1>2, SumRemove
<1>7. SumFunctionOnSet(g, Orders) = g[i] + SumFunctionOnSet(g, R)
  BY <1>1, <1>2, SumRemove
<1>8. SumFunctionOnSet(f, R) = SumFunctionOnSet(g, R)
  BY <1>1, <1>3, SumSame
<1>9. SumFunctionOnSet(f, R) \in Nat
  BY <1>1, <1>2, SumType
<1>. QED
  BY <1>4, <1>5, <1>6, <1>7, <1>8, <1>9

LEMMA SamePlanned ==
    ASSUME NEW b \in Branches, NEW p \in Products,
           \A o \in Orders : Share(order'[o], b, p) = Share(order[o], b, p)
    PROVE  Planned(b, p)' = Planned(b, p)
  BY DEF Planned

(* What a deletion has read of an order stays current: only an edit moves  *)
(* lines of an order somebody is about to drop, and then they are skewed.  *)
LEMMA ReleaseKept ==
    ASSUME TypeInv, IncomingInv, skewed \subseteq skewed',
           NEW h \in Handlers, pc'[h] = "drop",
           pc[h] = "drop" /\ UNCHANGED <<target[h], release[h]>>,
           \A b \in Branches, p \in Products : <<b, p>> \notin skewed' =>
               Share(order'[target[h]], b, p) = Share(order[target[h]], b, p),
           NEW b \in Branches, NEW p \in Products, <<b, p>> \notin skewed'
    PROVE  release'[h][b][p] = Share(order'[target'[h]], b, p)
<1>1. <<b, p>> \notin skewed
  OBVIOUS
<1>2. release[h][b][p] = Share(order[target[h]], b, p)
  BY <1>1 DEF IncomingInv
<1>. QED
  BY <1>2

LEMMA PostOrderKeepsIncoming ==
    ASSUME TypeInv, TypeInv', HandsInv, IncomingInv, NEW h \in Handlers, PostOrder(h),
           order[target[h]] = NoOrderRow(target[h])
    PROVE  IncomingInv'
<1>1. PICK i \in Orders : i = target[h]
  BY DEF PostOrder, TypeInv, RequestTypes, Working
<1>2. /\ order'[i] = [order[i] EXCEPT !.status = "APPROVED", !.units = Order[i].units]
      /\ \A o \in Orders : o # i => order'[o] = order[o]
      /\ incoming' = Moved(incoming, Order[i].branch, Order[i].units, 1)
      /\ UNCHANGED skewed
  BY <1>1 DEF PostOrder, TypeInv, RowTypes, history
<1>3. ASSUME NEW b \in Branches, NEW p \in Products, <<b, p>> \notin skewed
      PROVE  incoming'[b][p] = Planned(b, p)'
  <2>1. PICK rest \in Nat : /\ Planned(b, p) = Share(order[i], b, p) + rest
                            /\ Planned(b, p)' = Share(order'[i], b, p) + rest
    BY <1>2, PlannedChanges DEF TypeInv, RowTypes
  <2>2. incoming \in [Branches -> [Products -> Int]]
    BY DEF TypeInv, GoodsTypes, Quantities
  <2>3. incoming'[b][p] = incoming[b][p] + (IF b = Order[i].branch THEN 1 * Order[i].units[p] ELSE 0)
    BY <1>2, <2>2, MovedAt, PlanTypes
  <2>4. Order[i].units[p] \in Nat
    BY PlanTypes DEF Quantities
  <2>5. Share(order[i], b, p) = 0
    BY <1>1 DEF NoOrderRow, Share
  <2>6. Share(order'[i], b, p) = IF b = Order[i].branch THEN Order[i].units[p] ELSE 0
    BY <1>1, <1>2 DEF NoOrderRow, Share
  <2>7. incoming[b][p] = Planned(b, p)
    BY <1>3 DEF IncomingInv
  <2>. QED
    BY <2>1, <2>3, <2>4, <2>5, <2>6, <2>7
<1>4. ASSUME NEW g \in Handlers, pc'[g] = "drop",
             NEW b \in Branches, NEW p \in Products, <<b, p>> \notin skewed'
      PROVE  release'[g][b][p] = Share(order'[target'[g]], b, p)
  <2>1. /\ g # h /\ pc[g] = "drop" /\ UNCHANGED <<target[g], release[g]>>
        /\ pc[h] = "order"
    BY <1>4 DEF PostOrder, Finish, TypeInv, RequestTypes
  <2>2. target[g] \in Orders /\ target[g] # i
    BY <1>1, <2>1 DEF HandsInv, Alone, Active, TypeInv, RequestTypes, Working
  <2>. QED
    BY <1>2, <1>4, <2>1, <2>2, ReleaseKept
<1>. QED
  BY <1>2, <1>3, <1>4 DEF IncomingInv

LEMMA DropOrderKeepsIncoming ==
    ASSUME TypeInv, TypeInv', HandsInv, IncomingInv, NEW h \in Handlers, DropOrder(h)
    PROVE  IncomingInv'
<1>1. PICK i \in Orders : i = target[h]
  BY DEF DropOrder, TypeInv, RequestTypes, Working
<1>2. /\ order'[i] = NoOrderRow(i) /\ pc[h] = "drop"
      /\ \A o \in Orders : o # i => order'[o] = order[o]
      /\ UNCHANGED skewed
  BY <1>1 DEF DropOrder, TypeInv, RowTypes, history
<1>3. ASSUME NEW b \in Branches, NEW p \in Products, <<b, p>> \notin skewed
      PROVE  incoming'[b][p] = Planned(b, p)'
  <2>1. PICK rest \in Nat : /\ Planned(b, p) = Share(order[i], b, p) + rest
                            /\ Planned(b, p)' = Share(order'[i], b, p) + rest
    BY <1>2, PlannedChanges DEF TypeInv, RowTypes
  <2>2. Share(order'[i], b, p) = 0
    BY <1>2 DEF NoOrderRow, Share
  <2>3. release[h][b][p] = Share(order[i], b, p) /\ incoming[b][p] = Planned(b, p)
    BY <1>1, <1>2, <1>3 DEF IncomingInv
  <2>4. Share(order[i], b, p) \in Nat
    BY ShareIsNat DEF TypeInv, RowTypes
  <2>5. incoming'[b][p] = AtLeastZero(incoming[b][p] - release[h][b][p])
    BY DEF DropOrder
  <2>. QED
    BY <2>1, <2>2, <2>3, <2>4, <2>5 DEF AtLeastZero
<1>4. ASSUME NEW g \in Handlers, pc'[g] = "drop",
             NEW b \in Branches, NEW p \in Products, <<b, p>> \notin skewed'
      PROVE  release'[g][b][p] = Share(order'[target'[g]], b, p)
  <2>1. g # h /\ pc[g] = "drop" /\ UNCHANGED <<target[g], release[g]>>
    BY <1>4 DEF DropOrder, Finish, TypeInv, RequestTypes
  <2>2. target[g] \in Orders /\ target[g] # i
    BY <1>1, <1>2, <2>1 DEF HandsInv, Alone, Active, TypeInv, RequestTypes, Working
  <2>. QED
    BY <1>2, <1>4, <2>1, <2>2, ReleaseKept
<1>. QED
  BY <1>2, <1>3, <1>4 DEF IncomingInv

(* Steps that leave the incoming quantities and keep every share that is   *)
(* not skewed.                                                             *)
LEMMA QuietKeepsIncoming ==
    ASSUME TypeInv, IncomingInv, UNCHANGED incoming, skewed \subseteq skewed',
           \A o \in Orders, b \in Branches, p \in Products : <<b, p>> \notin skewed' =>
               Share(order'[o], b, p) = Share(order[o], b, p),
           \A h \in Handlers : pc'[h] = "drop" =>
               pc[h] = "drop" /\ UNCHANGED <<target[h], release[h]>>
    PROVE  IncomingInv'
<1>1. ASSUME NEW b \in Branches, NEW p \in Products, <<b, p>> \notin skewed'
      PROVE  incoming'[b][p] = Planned(b, p)'
  <2>1. Planned(b, p)' = Planned(b, p)
    BY <1>1, SamePlanned
  <2>2. <<b, p>> \notin skewed
    BY <1>1
  <2>. QED
    BY <2>1, <2>2 DEF IncomingInv
<1>2. ASSUME NEW h \in Handlers, pc'[h] = "drop",
             NEW b \in Branches, NEW p \in Products, <<b, p>> \notin skewed'
      PROVE  release'[h][b][p] = Share(order'[target'[h]], b, p)
  <2>1. target[h] \in Orders
    BY <1>2 DEF TypeInv, RequestTypes, Working
  <2>. QED
    BY <1>2, <2>1, ReleaseKept
<1>. QED
  BY <1>1, <1>2 DEF IncomingInv

LEMMA StartKeepsIncoming ==
    ASSUME "PHANTOM" \notin Mishaps, TypeInv, IncomingInv, NEW h \in Handlers, Start(h)
    PROVE  IncomingInv'
<1>1. UNCHANGED <<order, incoming, skewed>>
  BY DEF Start, StartOrder, StartDrop, StartBill, StartDelete, StartReturn, StartApprove,
     StartUnreturn, Ask, Open, tables, goods, history
<1>2. ASSUME NEW k, NEW d, NEW st, NEW first, Ask(h, k, d, st, first), first # "drop"
      PROVE  IncomingInv'
  <2>1. \A g \in Handlers : pc'[g] = "drop" =>
            pc[g] = "drop" /\ UNCHANGED <<target[g], release[g]>>
    BY <1>2 DEF Ask, Open, TypeInv, RequestTypes
  <2>. QED
    BY <1>1, <2>1, QuietKeepsIncoming
<1>3. ASSUME NEW i \in Orders, StartDrop(h, i) PROVE IncomingInv'
  <2>1. release' = [release EXCEPT ![h] =
            [b \in Branches |-> [p \in Products |-> Share(order[i], b, p)]]]
    BY <1>3 DEF StartDrop, InMirror
  <2>2. \A g \in Handlers : g # h => UNCHANGED <<pc[g], target[g]>>
    BY <1>3 DEF StartDrop, Open, TypeInv, RequestTypes
  <2>3. target'[h] = i
    BY <1>3 DEF StartDrop, Open, TypeInv, RequestTypes
  <2>4. ASSUME NEW b \in Branches, NEW p \in Products, <<b, p>> \notin skewed'
        PROVE  incoming'[b][p] = Planned(b, p)'
    <3>1. Planned(b, p)' = Planned(b, p)
      BY <1>1 DEF Planned
    <3>. QED
      BY <1>1, <2>4, <3>1 DEF IncomingInv
  <2>5. ASSUME NEW g \in Handlers, pc'[g] = "drop",
               NEW b \in Branches, NEW p \in Products, <<b, p>> \notin skewed'
        PROVE  release'[g][b][p] = Share(order'[target'[g]], b, p)
    <3>1. CASE g = h
      BY <1>1, <2>1, <2>3, <3>1 DEF TypeInv, RequestTypes
    <3>2. CASE g # h
      <4>1. UNCHANGED release[g]
        BY <2>1, <3>2 DEF TypeInv, RequestTypes
      <4>. QED
        BY <1>1, <2>2, <2>5, <3>2, <4>1, ReleaseKept
    <3>. QED
      BY <3>1, <3>2
  <2>. QED
    BY <2>4, <2>5 DEF IncomingInv
<1>. QED
  BY <1>2, <1>3 DEF Start, StartOrder, StartBill, StartDelete, StartReturn, StartApprove,
     StartUnreturn

LEMMA EditKeepsIncoming ==
    ASSUME TypeInv, IncomingInv, NEW i \in Orders, NEW st \in OrderStatuses, NEW c \in Branches,
           EditOrder(i, st, c) \/ PatchOrder(i, st)
    PROVE  IncomingInv'
<1>1. UNCHANGED <<incoming, pc, target, release>> /\ skewed \subseteq skewed'
  BY DEF EditOrder, PatchOrder, goods, history, request
<1>2. \A o \in Orders : o # i => order'[o] = order[o]
  BY DEF EditOrder, PatchOrder, TypeInv, RowTypes
<1>3. ASSUME NEW b \in Branches, NEW p \in Products, <<b, p>> \notin skewed'
      PROVE  Share(order'[i], b, p) = Share(order[i], b, p)
  <2>1. CASE PatchOrder(i, st)
    BY <2>1 DEF PatchOrder, Share, TypeInv, RowTypes, OrderRows
  <2>2. CASE EditOrder(i, st, c)
    <3>. DEFINE row == [status |-> st, units |-> Order[i].amended, branch |-> c]
    <3>1. order'[i] = row
      BY <2>2 DEF EditOrder, TypeInv, RowTypes
    <3>. HIDE DEF row
    <3>2. <<b, p>> \in Branches \X Products
              /\ (Share(row, b, p) # Share(order[i], b, p) => <<b, p>> \in skewed')
      BY <2>2 DEF EditOrder, row
    <3>. QED
      BY <1>3, <3>1, <3>2
  <2>. QED
    BY <2>1, <2>2
<1>. QED
  BY <1>1, <1>2, <1>3, QuietKeepsIncoming

LEMMA IncomingStep ==
    ASSUME {"REPEAT", "PHANTOM"} \cap Mishaps = {}
    PROVE  TypeInv /\ TypeInv' /\ HandsInv /\ IncomingInv /\ RowsInv /\ [Next]_vars
               => IncomingInv'
<1>. SUFFICES ASSUME TypeInv, TypeInv', HandsInv, IncomingInv, RowsInv, [Next]_vars
     PROVE  IncomingInv'
  OBVIOUS
<1>1. ASSUME UNCHANGED <<order, incoming, skewed>>,
             \A h \in Handlers : pc'[h] = "drop" =>
                 pc[h] = "drop" /\ UNCHANGED <<target[h], release[h]>>
      PROVE  IncomingInv'
  BY <1>1, QuietKeepsIncoming
<1>2. ASSUME NEW h \in Handlers, Start(h) PROVE IncomingInv'
  BY <1>2, StartKeepsIncoming
<1>3. ASSUME NEW s \in Serials, Register(s) \/ Assign(s) PROVE IncomingInv'
  BY <1>1, <1>3 DEF Register, Assign, request, history
<1>4. UNCHANGED vars => IncomingInv'
  BY <1>1 DEF vars, tables, goods, history, request
<1>5. ASSUME NEW h \in Handlers, Finish(h)
      PROVE  \A g \in Handlers : pc'[g] = "drop" =>
                 pc[g] = "drop" /\ UNCHANGED <<target[g], release[g]>>
  BY <1>5 DEF Finish, TypeInv, RequestTypes
<1>6. ASSUME NEW h \in Handlers, Receive(h) \/ DeleteBill(h) PROVE IncomingInv'
  <2>1. PICK st \in OrderStatuses :
            order' = SetOrder(target[h], st) /\ UNCHANGED <<incoming, skewed>> /\ Finish(h)
    BY <1>6 DEF Receive, DeleteBill, OrderStatuses, history
  <2>2. \A o \in Orders, b \in Branches, p \in Products :
            Share(order'[o], b, p) = Share(order[o], b, p)
    BY <2>1, SetOrderStatus DEF Share
  <2>. QED
    BY <1>5, <2>1, <2>2, QuietKeepsIncoming
<1>7. ASSUME NEW h \in Handlers, Step(h) \/ Fail(h) PROVE IncomingInv'
  <2>1. ASSUME CheckDevices(h) \/ Weigh(h) PROVE IncomingInv'
    BY <1>1, <2>1 DEF CheckDevices, Weigh, Proceed, tables, goods, history, request, TypeInv,
       RequestTypes
  <2>2. ASSUME LookUp(h) PROVE IncomingInv'
    BY <1>1, <2>2 DEF LookUp, goods, history, TypeInv, RequestTypes
  <2>3. ASSUME Refuse(h) \/ PostReturn(h) \/ ApproveReturn(h) \/ CancelReturn(h)
        PROVE  IncomingInv'
    BY <1>1, <1>5, <2>3 DEF Refuse, tables, goods, history, PostReturn, ApproveReturn, CancelReturn
  <2>4. ASSUME PostOrder(h) PROVE IncomingInv'
    <3>1. target[h] \in Orders /\ order[target[h]].status = "NONE"
      BY <2>4 DEF PostOrder, HandsInv, Current, TypeInv, RequestTypes, Working
    <3>. QED
      BY <2>4, <3>1, PostOrderKeepsIncoming DEF RowsInv
  <2>. QED
    BY <1>6, <1>7, <2>1, <2>2, <2>3, <2>4, StepCases, DropOrderKeepsIncoming
<1>8. ASSUME NEW i \in Orders, NEW st \in OrderStatuses, PatchOrder(i, st) PROVE IncomingInv'
  BY <1>8, EditKeepsIncoming, PlanTypes
<1>. QED
  BY <1>2, <1>3, <1>4, <1>7, <1>8, EditKeepsIncoming DEF Next, Aside

LEMMA RowsAlways == Spec => []RowsInv
<1>1. Init => RowsInv
  BY DEF Init, RowsInv
<1>2. TypeInv /\ RowsInv /\ [Next]_vars => RowsInv'
  <2>. SUFFICES ASSUME TypeInv, RowsInv, [Next]_vars PROVE RowsInv'
    OBVIOUS
  <2>1. ASSUME UNCHANGED order PROVE RowsInv'
    BY <2>1 DEF RowsInv
  <2>2. ASSUME NEW h \in Handlers, Start(h) PROVE UNCHANGED order
    BY <2>2 DEF Start, StartOrder, StartDrop, StartBill, StartDelete, StartReturn, StartApprove,
       StartUnreturn, Ask, Open, tables
  <2>3. ASSUME NEW o \in Orders, NEW st \in OrderStatuses, NEW b \in Branches,
               EditOrder(o, st, b) \/ PatchOrder(o, st)
        PROVE  RowsInv'
    BY <2>3 DEF EditOrder, PatchOrder, RowsInv, OrderStatuses, TypeInv, RowTypes, OrderRows
  <2>4. ASSUME NEW h \in Handlers, Receive(h) \/ DeleteBill(h) PROVE RowsInv'
    <3>1. \A o \in Orders : order'[o].status = "NONE" => order'[o] = order[o]
                              /\ order[o].status = "NONE"
      BY <2>4 DEF Receive, DeleteBill, SetOrder, TypeInv, RowTypes, OrderRows
    <3>. QED
      BY <3>1 DEF RowsInv
  <2>5. ASSUME NEW h \in Handlers, Step(h) \/ Fail(h) PROVE RowsInv'
    <3>1. CheckDevices(h) \/ Weigh(h) \/ Refuse(h) \/ LookUp(h)
              \/ PostReturn(h) \/ ApproveReturn(h) \/ CancelReturn(h) => UNCHANGED order
      BY DEF CheckDevices, Weigh, Refuse, LookUp, Proceed, tables, PostReturn, ApproveReturn,
             CancelReturn
    <3>2. PostOrder(h) => RowsInv'
      BY DEF PostOrder, RowsInv, TypeInv, RowTypes, OrderRows
    <3>3. DropOrder(h) => RowsInv'
      BY DEF DropOrder, RowsInv, TypeInv, RowTypes
    <3>. QED
      BY <2>1, <2>4, <2>5, <3>1, <3>2, <3>3, StepCases
  <2>6. ASSUME NEW s \in Serials, Register(s) \/ Assign(s) PROVE UNCHANGED order
    BY <2>6 DEF Register, Assign
  <2>7. ASSUME NEW o \in Orders, NEW st \in OrderStatuses, PatchOrder(o, st) PROVE RowsInv'
    BY <2>3, <2>7, PlanTypes
  <2>. QED
    BY <2>1, <2>2, <2>3, <2>5, <2>6, <2>7 DEF Next, Aside, vars, tables
<1>. QED
  BY <1>1, <1>2, TypesAlways, PTL DEF Spec

LEMMA IncomingInit == Init => IncomingInv
<1>. SUFFICES ASSUME Init PROVE IncomingInv
  OBVIOUS
<1>1. ASSUME NEW b \in Branches, NEW p \in Products PROVE incoming[b][p] = Planned(b, p)
  <2>. DEFINE f == [o \in Orders |-> Share(order[o], b, p)]
  <2>1. \A o \in Orders : f[o] = 0
    BY DEF Init, NoOrderRow, Share
  <2>2. SumFunctionOnSet(f, Orders) = 0
    <3>. HIDE DEF f
    <3>. QED
      BY <2>1, ProcurementAssumption, SumZero
  <2>. QED
    BY <2>2 DEF Init, Planned, Nothing
<1>2. \A h \in Handlers : pc[h] # "drop"
  BY DEF Init
<1>. QED
  BY <1>1, <1>2 DEF IncomingInv

LEMMA IncomingAlways ==
    ASSUME {"REPEAT", "PHANTOM"} \cap Mishaps = {} PROVE Spec => []IncomingInv
<1>1. TypeInv /\ TypeInv' /\ HandsInv /\ IncomingInv /\ RowsInv /\ [Next]_vars => IncomingInv'
  BY IncomingStep
<1>. QED
  BY <1>1, IncomingInit, HandsAlways, RowsAlways, TypesAlways, PTL DEF Spec

(* Where no document is posted or dropped by two requests at once and no   *)
(* document is deleted that only the mirror has so, stock is the opening   *)
(* stock with what the bills in the table brought and less what posted     *)
(* returns took out, and the incoming quantity of a product at a branch is *)
(* what the orders in the table have of it there, unless an edit moved     *)
(* lines of it: whatever overlaps or fails.                                *)
THEOREM GoodsMatchDocuments ==
    ASSUME {"REPEAT", "PHANTOM"} \cap Mishaps = {} PROVE Spec => []StockMatchesBills
<1>1. StockInv /\ IncomingInv => StockMatchesBills
  BY DEF StockInv, IncomingInv, StockMatchesBills
<1>. QED
  BY <1>1, StockAlways, IncomingAlways, PTL

-----------------------------------------------------------------------------
(* The register.                                                           *)

LEMMA SeenAlways == Spec => []SeenInv
<1>1. Init => SeenInv
  BY DEF Init, SeenInv
<1>2. TypeInv /\ SeenInv /\ [Next]_vars => SeenInv'
  <2>. SUFFICES ASSUME TypeInv, SeenInv, [Next]_vars PROVE SeenInv'
    OBVIOUS
  <2>1. ASSUME NEW k, NEW d, NEW st, NEW first, NEW h \in Handlers, Open(h, k, d, st, first),
               first = "unreturn" => st \in {"DRAFT", "POSTED"}
        PROVE  SeenInv'
    BY <2>1 DEF Open, SeenInv, TypeInv, RequestTypes
  <2>2. ASSUME NEW h \in Handlers, Start(h) PROVE SeenInv'
    BY <2>1, <2>2 DEF Start, StartOrder, StartDrop, StartBill, StartDelete, StartReturn,
       StartApprove, StartUnreturn, Ask
  <2>3. ASSUME NEW h \in Handlers, Step(h) \/ Fail(h) PROVE SeenInv'
    <3>1. ASSUME Finish(h) PROVE SeenInv'
      BY <3>1 DEF Finish, SeenInv, TypeInv, RequestTypes
    <3>2. ASSUME CheckDevices(h) \/ Weigh(h) PROVE SeenInv'
      BY <3>2 DEF CheckDevices, Weigh, Proceed, SeenInv, TypeInv, RequestTypes, request
    <3>3. ASSUME LookUp(h) PROVE SeenInv'
      BY <3>3 DEF LookUp, SeenInv, TypeInv, RequestTypes
    <3>4. Refuse(h) \/ PostOrder(h) \/ DropOrder(h) \/ Receive(h) \/ DeleteBill(h)
              \/ PostReturn(h) \/ ApproveReturn(h) \/ CancelReturn(h) => Finish(h)
      BY DEF Refuse, PostOrder, DropOrder, Receive, DeleteBill, PostReturn, ApproveReturn,
             CancelReturn
    <3>. QED
      BY <2>3, <3>1, <3>2, <3>3, <3>4, StepCases
  <2>4. Aside \/ UNCHANGED vars => UNCHANGED <<pc, seen>>
    BY DEF Aside, EditOrder, PatchOrder, Register, Assign, request, vars
  <2>5. ASSUME UNCHANGED <<pc, seen>> PROVE SeenInv'
    BY <2>5 DEF SeenInv
  <2>. QED
    BY <2>2, <2>3, <2>4, <2>5 DEF Next
<1>. QED
  BY <1>1, <1>2, TypesAlways, PTL DEF Spec

(* No two posted returns name the same unit.                               *)
OneReturnPerUnit == \A q \in Returns, r \in Returns :
    ret[q].status = "POSTED" /\ ret[r].status = "POSTED" /\ q # r
        => Credit[q].serials \cap Credit[r].serials = {}

LEMMA QuietKeepsRegister ==
    ASSUME RegisterMatchesReturns, UNCHANGED serial,
           \A r \in Returns : ret'[r].status = "POSTED" <=> ret[r].status = "POSTED"
    PROVE  RegisterMatchesReturns'
  BY DEF RegisterMatchesReturns

LEMMA ApplyKeepsRegister ==
    ASSUME TypeInv, RegisterMatchesReturns, NEW r \in Returns, ApplyReturn(r),
           ret'[r].status = "POSTED",
           \A q \in Returns : q # r => ret'[q] = ret[q],
           ret[r].status # "POSTED"
    PROVE  RegisterMatchesReturns'
<1>1. ASSUME NEW s \in Serials
      PROVE  serial'[s] = IF s \in Credit[r].serials THEN "RETURNED_TO_VENDOR" ELSE serial[s]
  BY DEF ApplyReturn, SerialsTo
<1>2. ASSUME NEW s \in Serials, s \in Credit[r].serials
      PROVE  serial'[s] = "RETURNED_TO_VENDOR" <=>
               \E q \in Returns : s \in Credit[q].serials /\ ret'[q].status = "POSTED"
  BY <1>1, <1>2
<1>3. ASSUME NEW s \in Serials, s \notin Credit[r].serials
      PROVE  serial'[s] = "RETURNED_TO_VENDOR" <=>
               \E q \in Returns : s \in Credit[q].serials /\ ret'[q].status = "POSTED"
  <2>1. serial'[s] = serial[s]
    BY <1>1, <1>3
  <2>2. \A q \in Returns : s \in Credit[q].serials => ret'[q] = ret[q]
    BY <1>3
  <2>. QED
    BY <2>1, <2>2 DEF RegisterMatchesReturns
<1>. QED
  BY <1>2, <1>3 DEF RegisterMatchesReturns

LEMMA CancelKeepsRegister ==
    ASSUME TypeInv, RegisterMatchesReturns, OneReturnPerUnit, NEW r \in Returns,
           ret[r].status = "POSTED", ret'[r].status = "CANCELLED",
           serial' = SerialsTo(r, "IN_STOCK"),
           \A q \in Returns : q # r => ret'[q] = ret[q]
    PROVE  RegisterMatchesReturns'
<1>1. ASSUME NEW s \in Serials
      PROVE  serial'[s] = IF s \in Credit[r].serials THEN "IN_STOCK" ELSE serial[s]
  BY DEF SerialsTo
<1>2. ASSUME NEW s \in Serials, s \in Credit[r].serials
      PROVE  serial'[s] = "RETURNED_TO_VENDOR" <=>
               \E q \in Returns : s \in Credit[q].serials /\ ret'[q].status = "POSTED"
  <2>1. serial'[s] # "RETURNED_TO_VENDOR"
    BY <1>1, <1>2
  <2>2. ASSUME NEW q \in Returns, s \in Credit[q].serials, ret'[q].status = "POSTED" PROVE FALSE
    BY <1>2, <2>2 DEF OneReturnPerUnit
  <2>. QED
    BY <2>1, <2>2
<1>3. ASSUME NEW s \in Serials, s \notin Credit[r].serials
      PROVE  serial'[s] = "RETURNED_TO_VENDOR" <=>
               \E q \in Returns : s \in Credit[q].serials /\ ret'[q].status = "POSTED"
  <2>1. serial'[s] = serial[s]
    BY <1>1, <1>3
  <2>2. \A q \in Returns : s \in Credit[q].serials => ret'[q] = ret[q]
    BY <1>3
  <2>. QED
    BY <2>1, <2>2 DEF RegisterMatchesReturns
<1>. QED
  BY <1>2, <1>3 DEF RegisterMatchesReturns

LEMMA RegisterStep ==
    TypeInv /\ SeenInv /\ OneReturnPerUnit /\ RegisterMatchesReturns /\ [Next]_vars
        => RegisterMatchesReturns'
<1>. SUFFICES ASSUME TypeInv, SeenInv, OneReturnPerUnit, RegisterMatchesReturns, [Next]_vars
     PROVE  RegisterMatchesReturns'
  OBVIOUS
<1>1. ASSUME UNCHANGED <<serial, ret>> PROVE RegisterMatchesReturns'
  BY <1>1, QuietKeepsRegister
<1>2. ASSUME NEW h \in Handlers, Start(h) PROVE UNCHANGED <<serial, ret>>
  BY <1>2 DEF Start, StartOrder, StartDrop, StartBill, StartDelete, StartReturn, StartApprove,
     StartUnreturn, Ask, Open, tables, goods
<1>3. Aside \/ UNCHANGED vars => UNCHANGED <<serial, ret>>
  BY DEF Aside, EditOrder, PatchOrder, Register, Assign, vars, tables, goods
<1>4. ASSUME NEW h \in Handlers, DeleteBill(h) PROVE RegisterMatchesReturns'
  <2>1. UNCHANGED serial /\ \A r \in Returns : ret'[r].status = ret[r].status
    BY <1>4 DEF DeleteBill, TypeInv, RowTypes, ReturnRows
  <2>. QED
    BY <2>1, QuietKeepsRegister
<1>5. ASSUME NEW h \in Handlers, PostReturn(h) PROVE RegisterMatchesReturns'
  <2>1. PICK r \in Returns :
             /\ r = target[h] /\ ret[r].status = "NONE"
             /\ \A q \in Returns : q # r => ret'[q] = ret[q]
             /\ \/ ret'[r].status = "DRAFT" /\ UNCHANGED <<stock, serial>>
                \/ ret'[r].status = "POSTED" /\ ApplyReturn(r)
    BY <1>5, PostReturnRows
  <2>. QED
    BY <2>1, QuietKeepsRegister, ApplyKeepsRegister
<1>6. ASSUME NEW h \in Handlers, ApproveReturn(h) PROVE RegisterMatchesReturns'
  <2>1. PICK r \in Returns :
             /\ r = target[h] /\ ret[r].status = "DRAFT"
             /\ \A q \in Returns : q # r => ret'[q] = ret[q]
             /\ ret'[r].status = "POSTED" /\ ApplyReturn(r)
    BY <1>6, ApproveRows
  <2>. QED
    BY <2>1, ApplyKeepsRegister
<1>7. ASSUME NEW h \in Handlers, CancelReturn(h) PROVE RegisterMatchesReturns'
  <2>1. PICK r \in Returns :
             /\ r = target[h] /\ ret[r].status \in {"DRAFT", "POSTED"}
             /\ \A q \in Returns : q # r => ret'[q] = ret[q]
             /\ ret'[r].bill = ret[r].bill /\ ret'[r].status = "CANCELLED"
             /\ \/ ret[r].status = "DRAFT" /\ UNCHANGED <<stock, serial>>
                \/ /\ ret[r].status = "POSTED" /\ serial' = SerialsTo(r, "IN_STOCK")
                   /\ stock' = Moved(stock, Credit[r].branch, Credit[r].units, 1)
    BY <1>7, CancelRows
  <2>. QED
    BY <2>1, QuietKeepsRegister, CancelKeepsRegister
<1>8. ASSUME NEW h \in Handlers, Step(h) \/ Fail(h) PROVE RegisterMatchesReturns'
  <2>1. CheckDevices(h) \/ Weigh(h) \/ Refuse(h) \/ LookUp(h)
            \/ PostOrder(h) \/ DropOrder(h) \/ Receive(h)
            => UNCHANGED <<serial, ret>>
    BY DEF CheckDevices, Weigh, Refuse, LookUp, Proceed, tables, goods, PostOrder, DropOrder,
           Receive
  <2>. QED
    BY <1>1, <1>4, <1>5, <1>6, <1>7, <1>8, <2>1, StepCases
<1>. QED
  BY <1>1, <1>2, <1>3, <1>8 DEF Next

(* As long as no two posted returns name the same unit, the register has a *)
(* unit at the vendor exactly when a posted return sent it there, whatever *)
(* requests overlap, repeat or fail.                                       *)
THEOREM RegisterFollowsReturns == Spec /\ []OneReturnPerUnit => []RegisterMatchesReturns
<1>1. Init => RegisterMatchesReturns
  BY DEF Init, RegisterMatchesReturns
<1>. QED
  BY <1>1, RegisterStep, TypesAlways, SeenAlways, PTL DEF Spec

-----------------------------------------------------------------------------
(* No more goes back than a bill brought.  Of one bill only one request at *)
(* a time posts a return, so what it has weighed still holds when it runs  *)
(* its transaction: the others can only take returns of the bill away.     *)

OneAtATime == \A g \in Handlers, h \in Handlers :
    /\ Active(g) /\ Posting(kind[g])
    /\ Active(h) /\ Posting(kind[h])
    /\ Credit[target[g]].bill = Credit[target[h]].bill
    => g = h
Weighed(h) == pc[h] \in {"insert", "approve"}
ReturnedInv ==
    /\ NoOverReturn
    /\ OneAtATime
    /\ \A r \in Returns : ret[r].bill \in {Credit[r].bill, NoBill}
    /\ \A h \in Handlers : Weighed(h) => ~OverReturn(target[h])

LEMMA ReturnedIsNat ==
    ASSUME NEW b, NEW p \in Products PROVE Returned(b, p) \in Nat /\ Returned(b, p)' \in Nat
<1>1. IsFiniteSet(PostedReturns(b)) /\ IsFiniteSet(PostedReturns(b)')
  BY ProcurementAssumption, FS_Subset DEF PostedReturns
<1>2. \A r \in PostedReturns(b) : [q \in Returns |-> Credit[q].units[p]][r] \in Nat
  BY PlanTypes DEF PostedReturns, Quantities
<1>3. \A r \in PostedReturns(b)' : [q \in Returns |-> Credit[q].units[p]][r] \in Nat
  BY PlanTypes DEF PostedReturns, Quantities
<1>. QED
  BY <1>1, <1>2, <1>3, SumType DEF Returned

LEMMA ReturnedShrinks ==
    ASSUME NEW b, PostedReturns(b)' \subseteq PostedReturns(b), NEW p \in Products
    PROVE  Returned(b, p)' <= Returned(b, p)
<1>1. IsFiniteSet(PostedReturns(b))
  BY ProcurementAssumption, FS_Subset DEF PostedReturns
<1>2. \A r \in PostedReturns(b) : [q \in Returns |-> Credit[q].units[p]][r] \in Nat
  BY PlanTypes DEF PostedReturns, Quantities
<1>. QED
  BY <1>1, <1>2, SumShrinks DEF Returned

LEMMA ReturnedGrows ==
    ASSUME NEW b, NEW r \in Returns, r \notin PostedReturns(b),
           PostedReturns(b)' \subseteq PostedReturns(b) \cup {r}, NEW p \in Products
    PROVE  Returned(b, p)' <= Returned(b, p) + Credit[r].units[p]
<1>. DEFINE f == [q \in Returns |-> Credit[q].units[p]]
            S == PostedReturns(b) \cup {r}
<1>1. IsFiniteSet(PostedReturns(b)) /\ IsFiniteSet(S)
  BY ProcurementAssumption, FS_Subset DEF PostedReturns
<1>2. \A q \in S : f[q] \in Nat
  BY PlanTypes DEF PostedReturns, Quantities
<1>3. SumFunctionOnSet(f, S) = f[r] + SumFunctionOnSet(f, PostedReturns(b))
  BY <1>1, <1>2, SumAdd
<1>4. SumFunctionOnSet(f, PostedReturns(b)') <= SumFunctionOnSet(f, S)
  BY <1>1, <1>2, SumShrinks
<1>5. f[r] = Credit[r].units[p] /\ f[r] \in Nat
  BY <1>2
<1>6. Returned(b, p)' <= f[r] + Returned(b, p)
  BY <1>3, <1>4 DEF Returned
<1>. QED
  BY <1>5, <1>6, ReturnedIsNat

LEMMA PostingTargets ==
    ASSUME TypeInv, NEW h \in Handlers, Active(h), Posting(kind[h])
    PROVE  target[h] \in Returns /\ pc[h] \in {"weigh", "insert", "approve"}
  BY DEF TypeInv, RequestTypes, Working, PCs, Active, Posting

LEMMA StillWeighed ==
    ASSUME NEW r \in Returns, ~OverReturn(r),
           \A p \in Products : Returned(Credit[r].bill, p)' <= Returned(Credit[r].bill, p)
    PROVE  ~OverReturn(r)'
<1>1. ASSUME NEW p \in Products, Credit[r].units[p] > 0
      PROVE  ~(Returned(Credit[r].bill, p)' + Credit[r].units[p] > Bill[Credit[r].bill].units[p])
  <2>1. ~(Returned(Credit[r].bill, p) + Credit[r].units[p] > Bill[Credit[r].bill].units[p])
    BY <1>1 DEF OverReturn
  <2>2. /\ Returned(Credit[r].bill, p) \in Nat /\ Returned(Credit[r].bill, p)' \in Nat
        /\ Credit[r].units[p] \in Nat /\ Bill[Credit[r].bill].units[p] \in Nat
    BY ReturnedIsNat, PlanTypes DEF Quantities
  <2>3. Returned(Credit[r].bill, p)' <= Returned(Credit[r].bill, p)
    OBVIOUS
  <2>. QED
    BY <2>1, <2>2, <2>3
<1>. QED
  BY <1>1 DEF OverReturn

(* Steps that post nothing.                                                *)
LEMMA ShrinkKeepsReturned ==
    ASSUME TypeInv, ReturnedInv,
           \A b \in Bills : PostedReturns(b)' \subseteq PostedReturns(b),
           \A r \in Returns : ret'[r].bill \in {Credit[r].bill, NoBill},
           \A g \in Handlers :
               /\ Active(g)' /\ Posting(kind'[g]) =>
                      Active(g) /\ UNCHANGED <<kind[g], target[g]>>
               /\ Weighed(g)' => /\ target'[g] \in Returns
                                 /\ ~OverReturn(target'[g])
    PROVE  ReturnedInv'
<1>1. NoOverReturn'
  <2>1. ASSUME NEW b \in Bills, NEW p \in Products PROVE Returned(b, p)' <= Bill[b].units[p]
    <3>1. Returned(b, p) <= Bill[b].units[p] /\ Returned(b, p)' <= Returned(b, p)
      BY ReturnedShrinks DEF ReturnedInv, NoOverReturn
    <3>2. Bill[b].units[p] \in Nat
      BY PlanTypes DEF Quantities
    <3>. QED
      BY <3>1, <3>2, ReturnedIsNat
  <2>. QED
    BY <2>1 DEF NoOverReturn
<1>2. OneAtATime'
  BY DEF ReturnedInv, OneAtATime
<1>3. ASSUME NEW g \in Handlers, Weighed(g)' PROVE ~OverReturn(target[g])'
  <2>1. PICK r \in Returns : r = target'[g]
    BY <1>3
  <2>2. ~OverReturn(r)
    BY <1>3, <2>1
  <2>3. \A p \in Products : Returned(Credit[r].bill, p)' <= Returned(Credit[r].bill, p)
    BY ReturnedShrinks, PlanTypes
  <2>4. ~OverReturn(r)'
    BY <2>2, <2>3, StillWeighed
  <2>. QED
    BY <2>1, <2>4 DEF OverReturn, Returned, PostedReturns
<1>. QED
  BY <1>1, <1>2, <1>3 DEF ReturnedInv

LEMMA WeighedTargets ==
    ASSUME TypeInv, NEW h \in Handlers, Weighed(h)
    PROVE  target[h] \in Returns /\ Active(h) /\ Posting(kind[h])
  BY DEF TypeInv, RequestTypes, Working, Weighed, Active, Posting

(* Steps at whose end the request is over and no return is posted.         *)
LEMMA EndKeepsReturned ==
    ASSUME TypeInv, ReturnedInv, NEW h \in Handlers, Finish(h),
           \A b \in Bills : PostedReturns(b)' \subseteq PostedReturns(b),
           \A r \in Returns : ret'[r].bill \in {ret[r].bill, NoBill}
    PROVE  ReturnedInv'
<1>1. \A g \in Handlers : Active(g)' => /\ Active(g) /\ UNCHANGED <<pc[g], kind[g], target[g]>>
  BY DEF Finish, Active, TypeInv, RequestTypes
<1>2. \A r \in Returns : ret'[r].bill \in {Credit[r].bill, NoBill}
  BY DEF ReturnedInv
<1>3. ASSUME NEW g \in Handlers, Weighed(g)'
      PROVE  target'[g] \in Returns /\ ~OverReturn(target'[g])
  <2>1. Weighed(g) /\ target'[g] = target[g]
    BY <1>1, <1>3 DEF Weighed, Active
  <2>. QED
    BY <2>1, WeighedTargets DEF ReturnedInv
<1>. QED
  BY <1>1, <1>2, <1>3, ShrinkKeepsReturned

LEMMA SameReturned ==
    ASSUME UNCHANGED ret PROVE \A b \in Bills : PostedReturns(b)' \subseteq PostedReturns(b)
  BY DEF PostedReturns

(* The step that posts a return.                                           *)
LEMMA PostKeepsReturned ==
    ASSUME TypeInv, ReturnedInv, NEW h \in Handlers, Finish(h), Weighed(h),
           NEW r \in Returns, r = target[h], ret[r].status # "POSTED",
           ret'[r].bill \in {Credit[r].bill, NoBill},
           \A q \in Returns : q # r => ret'[q] = ret[q]
    PROVE  ReturnedInv'
<1>1. \A g \in Handlers : Active(g)' =>
        g # h /\ Active(g) /\ UNCHANGED <<pc[g], kind[g], target[g]>>
  BY DEF Finish, Active, TypeInv, RequestTypes
<1>2. ASSUME NEW b \in Bills, b # Credit[r].bill, NEW p \in Products
      PROVE  Returned(b, p)' <= Returned(b, p)
  <2>1. b # NoBill
    BY ProcurementAssumption
  <2>2. PostedReturns(b)' \subseteq PostedReturns(b)
    BY <1>2, <2>1 DEF PostedReturns
  <2>. QED
    BY <2>2, ReturnedShrinks
<1>3. ~OverReturn(r)
  BY DEF ReturnedInv
<1>4. NoOverReturn'
  <2>1. ASSUME NEW b \in Bills, NEW p \in Products PROVE Returned(b, p)' <= Bill[b].units[p]
    <3>1. Returned(b, p) <= Bill[b].units[p]
      BY DEF ReturnedInv, NoOverReturn
    <3>2. Bill[b].units[p] \in Nat /\ Credit[r].units[p] \in Nat
      BY PlanTypes DEF Quantities
    <3>3. CASE b # Credit[r].bill
      BY <1>2, <3>1, <3>2, <3>3, ReturnedIsNat
    <3>4. CASE b = Credit[r].bill
      <4>1. r \notin PostedReturns(b) /\ PostedReturns(b)' \subseteq PostedReturns(b) \cup {r}
        BY DEF PostedReturns
      <4>2. Returned(b, p)' <= Returned(b, p) + Credit[r].units[p]
        BY <4>1, ReturnedGrows
      <4>3. Credit[r].units[p] > 0 => ~(Returned(b, p) + Credit[r].units[p] > Bill[b].units[p])
        BY <1>3, <3>4 DEF OverReturn
      <4>. QED
        BY <3>1, <3>2, <4>2, <4>3, ReturnedIsNat
    <3>. QED
      BY <3>3, <3>4
  <2>. QED
    BY <2>1 DEF NoOverReturn
<1>5. OneAtATime'
  BY <1>1 DEF ReturnedInv, OneAtATime
<1>6. ASSUME NEW g \in Handlers, Weighed(g)' PROVE ~OverReturn(target[g])'
  <2>1. g # h /\ Weighed(g) /\ target'[g] = target[g]
    BY <1>1, <1>6 DEF Weighed, Active
  <2>2. PICK q \in Returns : q = target[g]
    BY <2>1, WeighedTargets
  <2>3. Credit[q].bill # Credit[r].bill
    BY <2>1, <2>2, WeighedTargets DEF ReturnedInv, OneAtATime
  <2>4. ~OverReturn(q)
    BY <2>1, <2>2 DEF ReturnedInv
  <2>5. ~OverReturn(q)'
    BY <1>2, <2>3, <2>4, StillWeighed, PlanTypes
  <2>. QED
    BY <2>1, <2>2, <2>5 DEF OverReturn, Returned, PostedReturns
<1>7. \A q \in Returns : ret'[q].bill \in {Credit[q].bill, NoBill}
  BY DEF ReturnedInv
<1>. QED
  BY <1>4, <1>5, <1>6, <1>7 DEF ReturnedInv

LEMMA StepKeepsReturned ==
    ASSUME TypeInv, SeenInv, ReturnedInv, NEW h \in Handlers, Step(h) \/ Fail(h)
    PROVE  ReturnedInv'
<1>1. \A r \in Returns : ret[r].bill \in {Credit[r].bill, NoBill}
  BY DEF ReturnedInv
<1>2. CASE PostReturn(h)
  <2>1. PICK r \in Returns :
             /\ r = target[h] /\ ret[r].status = "NONE"
             /\ \A q \in Returns : q # r => ret'[q] = ret[q]
             /\ ret'[r].bill = Credit[r].bill
    BY <1>2, PostReturnRows
  <2>2. Finish(h) /\ Weighed(h)
    BY <1>2 DEF PostReturn, Weighed
  <2>. QED
    BY <2>1, <2>2, PostKeepsReturned
<1>3. CASE ApproveReturn(h)
  <2>1. PICK r \in Returns :
             /\ r = target[h] /\ ret[r].status = "DRAFT"
             /\ \A q \in Returns : q # r => ret'[q] = ret[q]
             /\ ret'[r].bill = ret[r].bill
    BY <1>3, ApproveRows
  <2>2. Finish(h) /\ Weighed(h)
    BY <1>3 DEF ApproveReturn, Weighed
  <2>. QED
    BY <1>1, <2>1, <2>2, PostKeepsReturned
<1>4. CASE CancelReturn(h)
  <2>1. PICK r \in Returns :
             /\ r = target[h]
             /\ \A q \in Returns : q # r => ret'[q] = ret[q]
             /\ ret'[r].bill = ret[r].bill /\ ret'[r].status = "CANCELLED"
    BY <1>4, CancelRows
  <2>2. \A b \in Bills : PostedReturns(b)' \subseteq PostedReturns(b)
    BY <2>1 DEF PostedReturns
  <2>3. Finish(h)
    BY <1>4 DEF CancelReturn
  <2>. QED
    BY <2>1, <2>2, <2>3, EndKeepsReturned
<1>5. CASE DeleteBill(h)
  <2>1. \A r \in Returns : /\ ret'[r].bill \in {ret[r].bill, NoBill}
                           /\ ret'[r].status = ret[r].status
    BY <1>5 DEF DeleteBill, TypeInv, RowTypes, ReturnRows
  <2>2. \A b \in Bills : PostedReturns(b)' \subseteq PostedReturns(b)
    BY <2>1, ProcurementAssumption DEF PostedReturns
  <2>3. Finish(h)
    BY <1>5 DEF DeleteBill
  <2>. QED
    BY <2>1, <2>2, <2>3, EndKeepsReturned
<1>6. ASSUME Finish(h), UNCHANGED ret PROVE ReturnedInv'
  BY <1>6, SameReturned, EndKeepsReturned
<1>7. Refuse(h) \/ PostOrder(h) \/ DropOrder(h) \/ Receive(h) => Finish(h) /\ UNCHANGED ret
  BY DEF Refuse, PostOrder, DropOrder, Receive, tables
<1>8. ASSUME NEW g \in Handlers, Weighed(g)
      PROVE  target[g] \in Returns /\ ~OverReturn(target[g])
  BY <1>8, WeighedTargets DEF ReturnedInv
<1>9. CASE LookUp(h) \/ CheckDevices(h)
  <2>1. UNCHANGED <<ret, kind, target>>
    BY <1>9 DEF LookUp, CheckDevices, Proceed, tables, request
  <2>2. \A g \in Handlers : /\ Active(g)' <=> Active(g)
                            /\ Weighed(g)' => Weighed(g)
    BY <1>9 DEF LookUp, CheckDevices, Proceed, Active, Weighed, TypeInv, RequestTypes
  <2>. QED
    BY <1>1, <1>8, <2>1, <2>2, SameReturned, ShrinkKeepsReturned
<1>10. CASE Weigh(h)
  <2>1. UNCHANGED <<ret, kind, target>> /\ ~OverReturn(target[h])
    BY <1>10 DEF Weigh, Acceptable, Proceed, tables, request
  <2>2. \A g \in Handlers : /\ Active(g)' <=> Active(g)
                            /\ Weighed(g)' => Weighed(g) \/ g = h
    BY <1>10 DEF Weigh, Proceed, Active, Weighed, TypeInv, RequestTypes
  <2>3. target[h] \in Returns
    BY <1>10 DEF Weigh, TypeInv, RequestTypes, Working
  <2>. QED
    BY <1>1, <1>8, <2>1, <2>2, <2>3, SameReturned, ShrinkKeepsReturned
<1>. QED
  BY <1>2, <1>3, <1>4, <1>5, <1>6, <1>7, <1>9, <1>10, StepCases

LEMMA StartKeepsReturned ==
    ASSUME "PARALLEL" \notin Mishaps, TypeInv, ReturnedInv, NEW h \in Handlers, Start(h)
    PROVE  ReturnedInv'
<1>1. PICK k, d, st, first :
        /\ Open(h, k, d, st, first)
        /\ first \notin {"insert", "approve"}
        /\ Posting(k) => d \in Returns
  BY DEF Start, StartOrder, StartBill, StartDelete, StartReturn, StartApprove, StartUnreturn,
         StartDrop, Ask, Posting
<1>2. UNCHANGED ret /\ Posting(k) => ReturnsOpen(Credit[d].bill) = {}
  BY <1>1 DEF Open, Expected
<1>3. UNCHANGED ret
  BY <1>1 DEF Open, tables
<1>4. \A g \in Handlers :
        /\ pc'[g] = IF g = h THEN first ELSE pc[g]
        /\ kind'[g] = IF g = h THEN k ELSE kind[g]
        /\ target'[g] = IF g = h THEN d ELSE target[g]
  BY <1>1 DEF Open, TypeInv, RequestTypes
<1>5. OneAtATime'
  <2>1. ASSUME NEW f \in Handlers, NEW g \in Handlers,
               Active(f)', Posting(kind'[f]), Active(g)', Posting(kind'[g]),
               Credit[target'[f]].bill = Credit[target'[g]].bill, f # g
        PROVE  FALSE
    <3>1. CASE f # h /\ g # h
      BY <1>4, <2>1, <3>1 DEF ReturnedInv, OneAtATime, Active
    <3>2. CASE f = h
      BY <1>2, <1>3, <1>4, <2>1, <3>2 DEF ReturnsOpen, Active
    <3>3. CASE g = h
      BY <1>2, <1>3, <1>4, <2>1, <3>3 DEF ReturnsOpen, Active
    <3>. QED
      BY <2>1, <3>1, <3>2, <3>3
  <2>. QED
    BY <2>1 DEF OneAtATime
<1>6. NoOverReturn'
  BY <1>3 DEF ReturnedInv, NoOverReturn, Returned, PostedReturns
<1>7. ASSUME NEW g \in Handlers, Weighed(g)' PROVE ~OverReturn(target[g])'
  <2>1. Weighed(g) /\ target'[g] = target[g]
    BY <1>1, <1>4, <1>7 DEF Weighed
  <2>. QED
    BY <1>3, <2>1 DEF ReturnedInv, OverReturn, Returned, PostedReturns
<1>. QED
  BY <1>3, <1>5, <1>6, <1>7 DEF ReturnedInv

LEMMA ReturnedStep ==
    ASSUME "PARALLEL" \notin Mishaps
    PROVE  TypeInv /\ SeenInv /\ ReturnedInv /\ [Next]_vars => ReturnedInv'
<1>1. Aside \/ UNCHANGED vars => UNCHANGED <<ret, pc, kind, target>>
  BY DEF Aside, EditOrder, PatchOrder, Register, Assign, vars, tables, request
<1>2. ASSUME ReturnedInv, UNCHANGED <<ret, pc, kind, target>> PROVE ReturnedInv'
  BY <1>2 DEF ReturnedInv, NoOverReturn, OneAtATime, Weighed, Active, OverReturn, Returned,
     PostedReturns
<1>. QED
  BY <1>1, <1>2, StartKeepsReturned, StepKeepsReturned DEF Next

LEMMA ReturnedInit == Init => ReturnedInv
<1>. SUFFICES ASSUME Init PROVE ReturnedInv
  OBVIOUS
<1>1. \A b \in Bills : PostedReturns(b) = {}
  BY DEF Init, PostedReturns
<1>2. IsFiniteSet({})
  BY FS_EmptySet
<1>3. \A f : SumFunctionOnSet(f, {}) = 0
  <2>1. ASSUME NEW f PROVE SumFunctionOnSet(f, {}) = 0
    BY <1>2, SumStep
  <2>. QED
    BY <2>1
<1>4. NoOverReturn
  <2>1. ASSUME NEW b \in Bills, NEW p \in Products PROVE Returned(b, p) <= Bill[b].units[p]
    <3>1. Returned(b, p) = 0
      BY <1>1, <1>3 DEF Returned
    <3>2. Bill[b].units[p] \in Nat
      BY PlanTypes DEF Quantities
    <3>. QED
      BY <3>1, <3>2
  <2>. QED
    BY <2>1 DEF NoOverReturn
<1>. QED
  BY <1>4 DEF Init, ReturnedInv, OneAtATime, Active, Weighed

(* Where the returns of one bill are posted and approved one after the     *)
(* other, no more goes back to the vendor than the bill brought, although  *)
(* it is weighed outside the transaction: whatever else is posted, voided, *)
(* repeated, cancelled or deleted in between.                              *)
THEOREM NeverOverReturned ==
    ASSUME "PARALLEL" \notin Mishaps PROVE Spec => []NoOverReturn
<1>1. ReturnedInv => NoOverReturn
  BY DEF ReturnedInv
<1>2. TypeInv /\ SeenInv /\ ReturnedInv /\ [Next]_vars => ReturnedInv'
  BY ReturnedStep
<1>. QED
  BY <1>1, <1>2, ReturnedInit, SeenAlways, TypesAlways, PTL DEF Spec
=============================================================================
