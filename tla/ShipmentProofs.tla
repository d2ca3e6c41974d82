---------------------------- MODULE ShipmentProofs ----------------------------
(***************************************************************************)
(* Theorems about Shipments, for every set of requests, shipments and      *)
(* branches.  A theorem that needs some of the mishaps away says which.    *)
(***************************************************************************)
EXTENDS TransferAudit, Functions, FiniteSetTheorems, TLAPS

GoodCells == [qoh : Nat, incoming : Nat]
TypeInv == /\ TypeOK
           /\ stock \in [Branches -> GoodCells]
           /\ stockDraft \in [Branches -> GoodCells]
           /\ \A h \in Handlers :
                 Active(h) => target[h] \in Shipments /\ kind[h] \in Kinds

(* The mirror has an object to spare for a new entry.                      *)
LEMMA NewObjectExists ==
    ASSUME TypeInv, NEW s \in Shipments
    PROVE  /\ NewObject(s) \in Objects
           /\ NewObject(s) # mirror[s]
           /\ NewObject(s) \notin InUse(s)
<1>1. object \in [Handlers -> Objects] /\ mirror[s] \in Objects
  BY DEF TypeInv, TypeOK
<1>2. PICK x \in Objects : x # mirror[s] /\ \A h \in Handlers : x # object[h]
  BY <1>1, ShipmentsAssumption
<1>3. x \notin InUse(s) \cup {mirror[s]}
  BY <1>2 DEF InUse
<1>. QED
  BY <1>3 DEF NewObject

LEMMA SomeObject == ASSUME NEW h \in Handlers, TypeInv PROVE FirstObject \in Objects
<1>1. object[h] \in Objects
  BY DEF TypeInv, TypeOK
<1>. QED
  BY <1>1 DEF FirstObject

LEMMA RouteTypes ==
    ASSUME TypeInv, NEW h \in Handlers, Active(h)
    PROVE  /\ target[h] \in Shipments /\ kind[h] \in Kinds
           /\ From(h) \in Branches /\ To(h) \in Branches /\ Qty(h) \in Nat \ {0}
           /\ Held(h) \in Records
<1>1. target[h] \in Shipments /\ kind[h] \in Kinds
  BY DEF TypeInv
<1>2. Route[target[h]] \in [from : Branches, to : Branches, qty : Nat \ {0}]
  BY <1>1, ShipmentsAssumption
<1>3. Held(h) \in Records
  BY <1>1 DEF Held, TypeInv, TypeOK
<1>. QED
  BY <1>1, <1>2, <1>3 DEF From, To, Qty

(* A statement on a stock row keeps the quantities natural, provided it    *)
(* takes no more than there is.                                            *)
LEMMA ChangeStockTypes ==
    ASSUME TypeInv, NEW h \in Handlers, NEW b \in Branches,
           NEW dq \in Int, NEW di \in Int,
           stockDraft[b].qoh + dq >= 0, ChangeStock(h, b, dq, di)
    PROVE  /\ stockDraft' \in [Branches -> GoodCells]
           /\ stockLock' \in [Branches -> Handlers \cup {Nobody}]
<1>1. stockDraft[b].qoh \in Nat /\ stockDraft[b].incoming \in Nat
  BY DEF TypeInv, GoodCells
<1>2. [qoh |-> stockDraft[b].qoh + dq,
       incoming |-> AtLeastZero(stockDraft[b].incoming + di)] \in GoodCells
  BY <1>1 DEF AtLeastZero, GoodCells
<1>. QED
  BY <1>2 DEF ChangeStock, TypeInv, TypeOK

LEMMA ChangeShipmentTypes ==
    ASSUME TypeInv, NEW h \in Handlers, target[h] \in Shipments,
           NEW rec \in Records, ChangeShipment(h, rec)
    PROVE  /\ rowDraft' \in [Shipments -> Records]
           /\ shipLock' \in [Shipments -> Handlers \cup {Nobody}]
  BY DEF ChangeShipment, TypeInv, TypeOK

(* A step inside a request moves its handler between active states.        *)
LEMMA MoveTypes ==
    ASSUME TypeInv, NEW h \in Handlers, Active(h),
           NEW p \in PCs \ {"idle", "ok", "error"},
           pc' = [pc EXCEPT ![h] = p], kind' = kind, target' = target
    PROVE  /\ pc' \in [Handlers -> PCs]
           /\ \A g \in Handlers :
                 Active(g)' => target'[g] \in Shipments /\ kind'[g] \in Kinds
  BY DEF TypeInv, TypeOK, Active, PCs

(* The end of a request.                                                   *)
LEMMA ForgetTypes ==
    ASSUME TypeInv, NEW h \in Handlers, Forget(h),
           NEW a \in {"ok", "error"}, pc' = [pc EXCEPT ![h] = a]
    PROVE  /\ pc' \in [Handlers -> PCs]
           /\ kind' \in [Handlers -> Kinds \cup {"NONE"}]
           /\ target' \in [Handlers -> Shipments \cup {NoShipment}]
           /\ object' \in [Handlers -> Objects]
           /\ exists' \in [Handlers -> BOOLEAN]
           /\ carry' \in [Handlers -> Records]
           /\ \A g \in Handlers :
                 Active(g)' => target'[g] \in Shipments /\ kind'[g] \in Kinds
<1>1. FirstObject \in Objects
  BY SomeObject
<1>2. Absent \in Records
  BY DEF Absent, Records, Statuses
<1>3. /\ pc' \in [Handlers -> PCs]
      /\ kind' \in [Handlers -> Kinds \cup {"NONE"}]
      /\ target' \in [Handlers -> Shipments \cup {NoShipment}]
  BY DEF TypeInv, TypeOK, Forget, PCs
<1>4. /\ object' \in [Handlers -> Objects]
      /\ exists' \in [Handlers -> BOOLEAN]
      /\ carry' \in [Handlers -> Records]
  BY <1>1, <1>2 DEF TypeInv, TypeOK, Forget
<1>5. \A g \in Handlers :
          Active(g)' => target'[g] \in Shipments /\ kind'[g] \in Kinds
  BY DEF TypeInv, TypeOK, Forget, Active
<1>. QED
  BY <1>3, <1>4, <1>5

LEMMA InitTypes == Init => TypeInv
<1>. SUFFICES ASSUME Init PROVE TypeInv
  OBVIOUS
<1>1. Absent \in Records
  BY DEF Absent, Records, Statuses
<1>2. /\ stock \in [Branches -> GoodCells]
      /\ stockDraft \in [Branches -> GoodCells]
  BY ShipmentsAssumption DEF Init, GoodCells
<1>3. /\ stock \in [Branches -> [qoh : Int, incoming : Nat]]
      /\ stockDraft \in [Branches -> [qoh : Int, incoming : Nat]]
  BY <1>2 DEF GoodCells
<1>4. FirstObject \in Objects
  BY ShipmentsAssumption DEF FirstObject
<1>5. /\ row \in [Shipments -> Records] /\ rowDraft \in [Shipments -> Records]
      /\ snapshot \in [Shipments -> Records]
      /\ heap \in [Shipments -> [Objects -> Records]]
      /\ mirror \in [Shipments -> Objects]
      /\ carry \in [Handlers -> Records]
      /\ object \in [Handlers -> Objects]
  BY <1>1, <1>4 DEF Init
<1>6. /\ tally \in [Shipments -> [Kinds -> Nat]]
      /\ sent \subseteq Shipments
      /\ shipLock \in [Shipments -> Handlers \cup {Nobody}]
      /\ stockLock \in [Branches -> Handlers \cup {Nobody}]
      /\ refresher \in Handlers \cup {Nobody}
      /\ placed \in BOOLEAN
      /\ fresh \in BOOLEAN
      /\ kind \in [Handlers -> Kinds \cup {"NONE"}]
      /\ target \in [Handlers -> Shipments \cup {NoShipment}]
      /\ exists \in [Handlers -> BOOLEAN]
  BY DEF Init
<1>7. pc \in [Handlers -> PCs]
  BY DEF Init, PCs
<1>8. \A h \in Handlers : Active(h) => target[h] \in Shipments /\ kind[h] \in Kinds
  BY DEF Init, Active
<1>. QED
  BY <1>2, <1>3, <1>5, <1>6, <1>7, <1>8 DEF TypeInv, TypeOK

LEMMA BeginTypes ==
    ASSUME TypeInv, NEW h \in Handlers, NEW k \in Kinds, NEW s \in Shipments,
           Begin(h, k, s)
    PROVE  TypeInv'
<1>1. UNCHANGED <<tables, drafts, locks, cache, refresh>>
  BY DEF Begin
<1>2. /\ pc' \in [Handlers -> PCs]
      /\ kind' \in [Handlers -> Kinds \cup {"NONE"}]
      /\ target' \in [Handlers -> Shipments \cup {NoShipment}]
  BY DEF Begin, TypeInv, TypeOK, PCs
<1>3. sent' \subseteq Shipments
  BY DEF Begin, TypeInv, TypeOK
<1>4. object' \in [Handlers -> Objects] /\ exists' \in [Handlers -> BOOLEAN]
  BY DEF Begin, TypeInv, TypeOK
<1>5. carry' \in [Handlers -> Records]
  <2>1. PICK r \in (IF k = "RECEIVE" THEN Receipts[s] ELSE {0}) :
            carry' = [carry EXCEPT ![h].received = r]
    BY DEF Begin
  <2>2. r \in Nat
    BY <2>1, ShipmentsAssumption
  <2>3. [carry[h] EXCEPT !.received = r] \in Records
    BY <2>2 DEF TypeInv, TypeOK, Records
  <2>. QED
    BY <2>1, <2>3 DEF TypeInv, TypeOK
<1>6. \A g \in Handlers : Active(g)' => target'[g] \in Shipments /\ kind'[g] \in Kinds
  BY DEF Begin, TypeInv, TypeOK, Active
<1>. QED
  BY <1>1, <1>2, <1>3, <1>4, <1>5, <1>6
     DEF TypeInv, TypeOK, tables, drafts, locks, cache, refresh

(* Steps on the mirror and on the local state of a handler.                *)
LEMMA ProbeTypes == ASSUME TypeInv, NEW h \in Handlers, Probe(h) PROVE TypeInv'
<1>. DEFINE s == target[h]
            x == NewObject(s)
<1>1. Active(h)
  BY DEF Probe, Active
<1>2. s \in Shipments /\ x \in Objects
  BY <1>1, RouteTypes, NewObjectExists
<1>3. /\ pc' \in [Handlers -> PCs]
      /\ \A g \in Handlers :
            Active(g)' => target'[g] \in Shipments /\ kind'[g] \in Kinds
  <2>1. "begin" \in PCs \ {"idle", "ok", "error"}
    BY DEF PCs
  <2>2. pc' = [pc EXCEPT ![h] = "begin"] /\ kind' = kind /\ target' = target
    BY DEF Probe
  <2>. QED
    BY <1>1, <2>1, <2>2, MoveTypes
<1>4. InTransit \in Records
  BY DEF InTransit, Records, Statuses
<1>5. /\ heap' \in [Shipments -> [Objects -> Records]]
      /\ mirror' \in [Shipments -> Objects]
      /\ object' \in [Handlers -> Objects]
      /\ exists' \in [Handlers -> BOOLEAN]
  BY <1>2, <1>4 DEF Probe, TypeInv, TypeOK
<1>6. UNCHANGED <<tables, sent, drafts, locks, refresh, kind, target, carry>>
  BY DEF Probe
<1>. QED
  BY <1>3, <1>5, <1>6 DEF TypeInv, TypeOK, tables, drafts, locks, refresh

LEMMA MarkTypes == ASSUME TypeInv, NEW h \in Handlers, Mark(h) PROVE TypeInv'
<1>1. Active(h)
  BY DEF Mark, Active
<1>2. /\ pc' \in [Handlers -> PCs]
      /\ \A g \in Handlers :
            Active(g)' => target'[g] \in Shipments /\ kind'[g] \in Kinds
  <2>1. "begin" \in PCs \ {"idle", "ok", "error"}
    BY DEF PCs
  <2>2. pc' = [pc EXCEPT ![h] = "begin"] /\ kind' = kind /\ target' = target
    BY DEF Mark, request
  <2>. QED
    BY <1>1, <2>1, <2>2, MoveTypes
<1>3. \A st \in {"DISCREPANCY", "RECEIVED"} :
          [status |-> st, received |-> carry[h].received] \in Records
  BY DEF TypeInv, TypeOK, Records, Statuses
<1>4. heap' \in [Shipments -> [Objects -> Records]]
  BY <1>1, <1>3, RouteTypes DEF Mark, TypeInv, TypeOK
<1>5. UNCHANGED <<tables, sent, drafts, locks, mirror, refresh, request, carry>>
  BY DEF Mark
<1>. QED
  BY <1>2, <1>4, <1>5 DEF TypeInv, TypeOK, tables, drafts, locks, refresh, request

LEMMA SendTypes == ASSUME TypeInv, NEW h \in Handlers, Send(h) PROVE TypeInv'
<1>1. Active(h)
  BY DEF Send, Active
<1>2. /\ pc' \in [Handlers -> PCs]
      /\ \A g \in Handlers :
            Active(g)' => target'[g] \in Shipments /\ kind'[g] \in Kinds
  <2>1. "write" \in PCs \ {"idle", "ok", "error"}
    BY DEF PCs
  <2>2. pc' = [pc EXCEPT ![h] = "write"] /\ kind' = kind /\ target' = target
    BY DEF Send, request
  <2>. QED
    BY <1>1, <2>1, <2>2, MoveTypes
<1>3. carry' \in [Handlers -> Records]
  BY <1>1, RouteTypes DEF Send, TypeInv, TypeOK
<1>4. UNCHANGED <<tables, sent, drafts, locks, cache, refresh, request>>
  BY DEF Send
<1>. QED
  BY <1>2, <1>3, <1>4 DEF TypeInv, TypeOK, tables, drafts, locks, cache, refresh, request

(* Statements on the shipment row.                                         *)
LEMMA UpsertTypes == ASSUME TypeInv, NEW h \in Handlers, Upsert(h) PROVE TypeInv'
<1>1. Active(h)
  BY DEF Upsert, Active
<1>2. /\ pc' \in [Handlers -> PCs]
      /\ \A g \in Handlers :
            Active(g)' => target'[g] \in Shipments /\ kind'[g] \in Kinds
  <2>. DEFINE p == IF exists[h] THEN "commit" ELSE "deduct"
  <2>1. p \in PCs \ {"idle", "ok", "error"}
    BY DEF PCs
  <2>2. pc' = [pc EXCEPT ![h] = p] /\ kind' = kind /\ target' = target
    BY DEF Upsert, request
  <2>. QED
    BY <1>1, <2>1, <2>2, MoveTypes
<1>3. carry[h] \in Records /\ ChangeShipment(h, carry[h])
  BY DEF Upsert, TypeInv, TypeOK
<1>4. /\ rowDraft' \in [Shipments -> Records]
      /\ shipLock' \in [Shipments -> Handlers \cup {Nobody}]
  BY <1>1, <1>3, RouteTypes, ChangeShipmentTypes
<1>5. UNCHANGED <<tables, sent, stockDraft, stockLock, cache, refresh, request, carry>>
  BY DEF Upsert
<1>. QED
  BY <1>2, <1>4, <1>5 DEF TypeInv, TypeOK, tables, cache, refresh, request

LEMMA UpdateTypes == ASSUME TypeInv, NEW h \in Handlers, Update(h) PROVE TypeInv'
<1>1. Active(h)
  BY DEF Update, Active
<1>2. /\ pc' \in [Handlers -> PCs]
      /\ \A g \in Handlers :
            Active(g)' => target'[g] \in Shipments /\ kind'[g] \in Kinds
  <2>1. "credit" \in PCs \ {"idle", "ok", "error"}
    BY DEF PCs
  <2>2. pc' = [pc EXCEPT ![h] = "credit"] /\ kind' = kind /\ target' = target
    BY DEF Update, request
  <2>. QED
    BY <1>1, <2>1, <2>2, MoveTypes
<1>3. carry[h] \in Records
  BY DEF TypeInv, TypeOK
<1>4. /\ rowDraft' \in [Shipments -> Records]
      /\ shipLock' \in [Shipments -> Handlers \cup {Nobody}]
  <2>1. CASE UNCHANGED <<rowDraft, shipLock>>
    BY <2>1 DEF TypeInv, TypeOK
  <2>2. CASE ChangeShipment(h, carry[h])
    BY <1>1, <1>3, <2>2, RouteTypes, ChangeShipmentTypes
  <2>. QED
    BY <2>1, <2>2 DEF Update
<1>5. carry' \in [Handlers -> Records]
  BY <1>1, RouteTypes DEF Update, TypeInv, TypeOK
<1>6. UNCHANGED <<tables, sent, stockDraft, stockLock, cache, refresh, request>>
  BY DEF Update
<1>. QED
  BY <1>2, <1>4, <1>5, <1>6 DEF TypeInv, TypeOK, tables, cache, refresh, request

LEMMA ClaimTypes == ASSUME TypeInv, NEW h \in Handlers, Claim(h) PROVE TypeInv'
<1>. DEFINE s == target[h]
            rec == [row[s] EXCEPT !.status =
                        IF kind[h] = "CANCEL" THEN "CANCELLED" ELSE "IN_TRANSIT"]
<1>1. Active(h)
  BY DEF Claim, Active
<1>2. /\ pc' \in [Handlers -> PCs]
      /\ \A g \in Handlers :
            Active(g)' => target'[g] \in Shipments /\ kind'[g] \in Kinds
  <2>. DEFINE p == IF kind[h] = "CANCEL" THEN "restore" ELSE "undo"
  <2>1. p \in PCs \ {"idle", "ok", "error"}
    BY DEF PCs
  <2>2. pc' = [pc EXCEPT ![h] = p] /\ kind' = kind /\ target' = target
    BY DEF Claim, request
  <2>. QED
    BY <1>1, <2>1, <2>2, MoveTypes
<1>3. rec \in Records
  <2>1. row[s] \in Records
    BY <1>1, RouteTypes DEF TypeInv, TypeOK
  <2>. QED
    BY <2>1 DEF Records, Statuses
<1>4. ChangeShipment(h, rec)
  BY DEF Claim
<1>5. /\ rowDraft' \in [Shipments -> Records]
      /\ shipLock' \in [Shipments -> Handlers \cup {Nobody}]
  BY <1>1, <1>3, <1>4, RouteTypes, ChangeShipmentTypes
<1>6. UNCHANGED <<tables, sent, stockDraft, stockLock, cache, refresh, request, carry>>
  BY DEF Claim
<1>. QED
  BY <1>2, <1>5, <1>6 DEF TypeInv, TypeOK, tables, cache, refresh, request

(* Statements on a stock row: a step that changes one row of stock, by     *)
(* amounts that leave it natural, and moves its handler.                   *)
LEMMA StockStepTypes ==
    ASSUME TypeInv, NEW h \in Handlers, Active(h),
           NEW p \in PCs \ {"idle", "ok", "error"},
           NEW b \in Branches, NEW dq \in Int, NEW di \in Int,
           stockDraft[b].qoh + dq >= 0,
           ChangeStock(h, b, dq, di), pc' = [pc EXCEPT ![h] = p],
           UNCHANGED <<tables, sent, rowDraft, shipLock, cache, refresh,
                       request, carry>>
    PROVE  TypeInv'
<1>1. /\ stockDraft' \in [Branches -> GoodCells]
      /\ stockLock' \in [Branches -> Handlers \cup {Nobody}]
  BY ChangeStockTypes
<1>2. stockDraft' \in [Branches -> [qoh : Int, incoming : Nat]]
  BY <1>1 DEF GoodCells
<1>3. /\ pc' \in [Handlers -> PCs]
      /\ \A g \in Handlers :
            Active(g)' => target'[g] \in Shipments /\ kind'[g] \in Kinds
  BY MoveTypes DEF request
<1>. QED
  BY <1>1, <1>2, <1>3 DEF TypeInv, TypeOK, tables, cache, refresh, request

LEMMA StockStepsTypes ==
    ASSUME TypeInv, NEW h \in Handlers,
           Deduct(h) \/ Reserve(h) \/ Credit(h) \/ Restore(h) \/ Release(h) \/ Undo(h)
    PROVE  TypeInv'
<1>1. Active(h)
  BY DEF Deduct, Reserve, Credit, Restore, Release, Undo, Active
<1>2. /\ From(h) \in Branches /\ To(h) \in Branches /\ Qty(h) \in Nat
      /\ target[h] \in Shipments
  BY <1>1, RouteTypes
<1>3. \A b \in Branches : stockDraft[b].qoh \in Nat
  BY DEF TypeInv, GoodCells
<1>4. carry[h].received \in Nat /\ rowDraft[target[h]].received \in Nat
  BY <1>2 DEF TypeInv, TypeOK, Records
<1>5. {"reserve", "commit", "release"} \subseteq PCs \ {"idle", "ok", "error"}
  BY DEF PCs
<1>6. CASE Deduct(h)
  <2>1. stockDraft[From(h)].qoh + (-Qty(h)) >= 0
    BY <1>2, <1>3, <1>6 DEF Deduct, Enough
  <2>2. -Qty(h) \in Int /\ 0 \in Int
    BY <1>2
  <2>3. /\ ChangeStock(h, From(h), -Qty(h), 0)
        /\ pc' = [pc EXCEPT ![h] = "reserve"]
        /\ UNCHANGED <<tables, sent, rowDraft, shipLock, cache, refresh,
                       request, carry>>
    BY <1>6 DEF Deduct
  <2>. QED
    BY <1>1, <1>2, <1>5, <2>1, <2>2, <2>3, StockStepTypes
<1>7. CASE Reserve(h)
  <2>1. stockDraft[To(h)].qoh + 0 >= 0 /\ 0 \in Int /\ Qty(h) \in Int
    BY <1>2, <1>3
  <2>2. /\ ChangeStock(h, To(h), 0, Qty(h))
        /\ pc' = [pc EXCEPT ![h] = "commit"]
        /\ UNCHANGED <<tables, sent, rowDraft, shipLock, cache, refresh,
                       request, carry>>
    BY <1>7 DEF Reserve
  <2>. QED
    BY <1>1, <1>2, <1>5, <2>1, <2>2, StockStepTypes
<1>8. CASE Credit(h)
  <2>1. /\ stockDraft[To(h)].qoh + carry[h].received >= 0
        /\ carry[h].received \in Int /\ -carry[h].received \in Int
    BY <1>2, <1>3, <1>4
  <2>2. /\ ChangeStock(h, To(h), carry[h].received, -carry[h].received)
        /\ pc' = [pc EXCEPT ![h] = "commit"]
        /\ UNCHANGED <<tables, sent, rowDraft, shipLock, cache, refresh,
                       request, carry>>
    BY <1>8 DEF Credit
  <2>. QED
    BY <1>1, <1>2, <1>5, <2>1, <2>2, StockStepTypes
<1>9. CASE Restore(h)
  <2>1. stockDraft[From(h)].qoh + Qty(h) >= 0 /\ Qty(h) \in Int /\ 0 \in Int
    BY <1>2, <1>3
  <2>2. /\ ChangeStock(h, From(h), Qty(h), 0)
        /\ pc' = [pc EXCEPT ![h] = "release"]
        /\ UNCHANGED <<tables, sent, rowDraft, shipLock, cache, refresh,
                       request, carry>>
    BY <1>9 DEF Restore
  <2>. QED
    BY <1>1, <1>2, <1>5, <2>1, <2>2, StockStepTypes
<1>10. CASE Release(h)
  <2>1. stockDraft[To(h)].qoh + 0 >= 0 /\ 0 \in Int /\ -Qty(h) \in Int
    BY <1>2, <1>3
  <2>2. /\ ChangeStock(h, To(h), 0, -Qty(h))
        /\ pc' = [pc EXCEPT ![h] = "commit"]
        /\ UNCHANGED <<tables, sent, rowDraft, shipLock, cache, refresh,
                       request, carry>>
    BY <1>10 DEF Release
  <2>. QED
    BY <1>1, <1>2, <1>5, <2>1, <2>2, StockStepTypes
<1>11. CASE Undo(h)
  <2>. DEFINE r == rowDraft[target[h]].received
  <2>1. /\ pc' = [pc EXCEPT ![h] = "commit"]
        /\ UNCHANGED <<tables, sent, rowDraft, shipLock, cache, refresh,
                       request, carry>>
    BY <1>11 DEF Undo
  <2>2. CASE r = 0
    <3>1. UNCHANGED <<stockDraft, stockLock>>
      BY <1>11, <2>2 DEF Undo
    <3>2. /\ pc' \in [Handlers -> PCs]
          /\ \A g \in Handlers :
                Active(g)' => target'[g] \in Shipments /\ kind'[g] \in Kinds
      BY <1>1, <1>5, <2>1, MoveTypes DEF request
    <3>. QED
      BY <2>1, <3>1, <3>2 DEF TypeInv, TypeOK, tables, cache, refresh, request
  <2>3. CASE r # 0
    <3>1. Enough(To(h), r) /\ ChangeStock(h, To(h), -r, r)
      BY <1>11, <2>3 DEF Undo
    <3>2. stockDraft[To(h)].qoh + (-r) >= 0 /\ r \in Int /\ -r \in Int
      BY <1>2, <1>3, <1>4, <3>1 DEF Enough
    <3>. QED
      BY <1>1, <1>2, <1>5, <2>1, <3>1, <3>2, StockStepTypes
  <2>. QED
    BY <2>2, <2>3
<1>. QED
  BY <1>6, <1>7, <1>8, <1>9, <1>10, <1>11

(* The end of the transaction and of the request.                          *)
LEMMA ReleaseTypes ==
    ASSUME TypeInv, NEW h \in Handlers, ReleaseLocks(h)
    PROVE  /\ shipLock' \in [Shipments -> Handlers \cup {Nobody}]
           /\ stockLock' \in [Branches -> Handlers \cup {Nobody}]
  BY DEF ReleaseLocks, Freed, TypeInv, TypeOK

LEMMA CommitTypes == ASSUME TypeInv, NEW h \in Handlers, Commit(h) PROVE TypeInv'
<1>. DEFINE s == target[h]
<1>1. Active(h)
  BY DEF Commit, Active
<1>2. s \in Shipments /\ kind[h] \in Kinds /\ object[h] \in Objects
  BY <1>1, RouteTypes DEF TypeInv, TypeOK
<1>3. /\ pc' \in [Handlers -> PCs]
      /\ \A g \in Handlers :
            Active(g)' => target'[g] \in Shipments /\ kind'[g] \in Kinds
  <2>1. "refresh" \in PCs \ {"idle", "ok", "error"}
    BY DEF PCs
  <2>2. pc' = [pc EXCEPT ![h] = "refresh"] /\ kind' = kind /\ target' = target
    BY DEF Commit, request
  <2>. QED
    BY <1>1, <2>1, <2>2, MoveTypes
<1>4. row' \in [Shipments -> Records]
  BY DEF Commit, Overlay, TypeInv, TypeOK
<1>5. stock' \in [Branches -> GoodCells]
  BY DEF Commit, Overlay, TypeInv
<1>6. stock' \in [Branches -> [qoh : Int, incoming : Nat]]
  BY <1>5 DEF GoodCells
<1>7. tally' \in [Shipments -> [Kinds -> Nat]]
  BY <1>2 DEF Commit, TypeInv, TypeOK
<1>8. /\ shipLock' \in [Shipments -> Handlers \cup {Nobody}]
      /\ stockLock' \in [Branches -> Handlers \cup {Nobody}]
  BY ReleaseTypes DEF Commit
<1>9. heap' \in [Shipments -> [Objects -> Records]]
  <2>1. \A st \in Statuses :
            [heap EXCEPT ![s][object[h]].status = st]
                \in [Shipments -> [Objects -> Records]]
    <3>. TAKE st \in Statuses
    <3>0. heap[s][object[h]] \in Records
      BY <1>2 DEF TypeInv, TypeOK
    <3>1. [heap[s][object[h]] EXCEPT !.status = st] \in Records
      BY <3>0 DEF Records
    <3>. QED
      BY <1>2, <3>1 DEF TypeInv, TypeOK
  <2>2. CASE kind[h] = "CANCEL"
    BY <2>1, <2>2 DEF Commit, Statuses
  <2>3. CASE kind[h] = "UNDO"
    BY <2>1, <2>3 DEF Commit, Statuses
  <2>4. CASE kind[h] \notin {"CANCEL", "UNDO"}
    BY <2>4 DEF Commit, TypeInv, TypeOK
  <2>. QED
    BY <2>2, <2>3, <2>4
<1>10. UNCHANGED <<sent, drafts, mirror, refresh, request, carry>>
  BY DEF Commit
<1>. QED
  BY <1>3, <1>4, <1>5, <1>6, <1>7, <1>8, <1>9, <1>10
     DEF TypeInv, TypeOK, drafts, refresh, request

LEMMA RollbackTypes == ASSUME TypeInv, NEW h \in Handlers, Rollback(h) PROVE TypeInv'
<1>1. /\ rowDraft' \in [Shipments -> Records]
      /\ stockDraft' \in [Branches -> GoodCells]
  BY DEF Rollback, Overlay, TypeInv, TypeOK
<1>2. stockDraft' \in [Branches -> [qoh : Int, incoming : Nat]]
  BY <1>1 DEF GoodCells
<1>3. /\ shipLock' \in [Shipments -> Handlers \cup {Nobody}]
      /\ stockLock' \in [Branches -> Handlers \cup {Nobody}]
  BY ReleaseTypes DEF Rollback
<1>4. Forget(h) /\ pc' = [pc EXCEPT ![h] = "error"]
  BY DEF Rollback
<1>5. /\ fresh' \in BOOLEAN
      /\ UNCHANGED <<tables, sent, cache, snapshot, refresher, placed>>
  BY DEF Rollback
<1>. QED
  BY <1>1, <1>2, <1>3, <1>4, <1>5, ForgetTypes DEF TypeInv, TypeOK, tables, cache

LEMMA StartRefreshTypes ==
    ASSUME TypeInv, NEW h \in Handlers, StartRefresh(h)
    PROVE  TypeInv'
<1>1. /\ snapshot' \in [Shipments -> Records] /\ refresher' \in Handlers \cup {Nobody}
      /\ placed' \in BOOLEAN
  BY DEF StartRefresh, TypeInv, TypeOK
<1>2. UNCHANGED <<tables, sent, drafts, locks, cache, fresh, pc, request, carry>>
  BY DEF StartRefresh
<1>. QED
  BY <1>1, <1>2 DEF TypeInv, TypeOK, tables, drafts, locks, cache, request, Active

LEMMA PlacedTypes ==
    ASSUME TypeInv, NEW h \in Handlers, NEW success \in BOOLEAN, Placed(success),
           heap' \in [Shipments -> [Objects -> Records]],
           mirror' \in [Shipments -> Objects]
    PROVE  TypeInv'
<1>1. /\ placed' \in BOOLEAN /\ fresh' \in BOOLEAN
      /\ UNCHANGED <<tables, sent, drafts, locks, snapshot, refresher, pc, request, carry>>
  BY DEF Placed
<1>. QED
  BY <1>1 DEF TypeInv, TypeOK, tables, drafts, locks, request, Active

LEMMA ApplyRefreshTypes ==
    ASSUME TypeInv, NEW h \in Handlers, ApplyRefresh(h)
    PROVE  TypeInv'
<1>1. mirror' \in [Shipments -> Objects]
  BY NewObjectExists DEF ApplyRefresh
<1>2. heap' \in [Shipments -> [Objects -> Records]]
  <2>1. \A s \in Shipments, x \in Objects :
            /\ snapshot[s] \in Records /\ heap[s][x] \in Records /\ Absent \in Records
    BY DEF TypeInv, TypeOK, Absent, Records, Statuses
  <2>. QED
    BY <2>1 DEF ApplyRefresh
<1>3. Placed(TRUE)
  BY DEF ApplyRefresh
<1>. QED
  BY <1>1, <1>2, <1>3, PlacedTypes

LEMMA SkipRefreshTypes ==
    ASSUME TypeInv, NEW h \in Handlers, SkipRefresh(h)
    PROVE  TypeInv'
<1>1. Placed(FALSE) /\ UNCHANGED cache
  BY DEF SkipRefresh
<1>2. heap' \in [Shipments -> [Objects -> Records]] /\ mirror' \in [Shipments -> Objects]
  BY <1>1 DEF cache, TypeInv, TypeOK
<1>. QED
  BY <1>1, <1>2, PlacedTypes

LEMMA AnswerTypes ==
    ASSUME TypeInv, NEW h \in Handlers, Answer(h)
    PROVE  TypeInv'
<1>1. Forget(h) /\ pc' = [pc EXCEPT ![h] = "ok"]
  BY DEF Answer
<1>2. /\ refresher' = Nobody
      /\ UNCHANGED <<tables, sent, drafts, locks, cache, snapshot, placed, fresh>>
  BY DEF Answer
<1>. QED
  BY <1>1, <1>2, ForgetTypes DEF TypeInv, TypeOK, tables, drafts, locks, cache

LEMMA NextTypes == TypeInv /\ [Next]_vars => TypeInv'
<1>. SUFFICES ASSUME TypeInv, [Next]_vars PROVE TypeInv'
  OBVIOUS
<1>1. CASE UNCHANGED vars
  BY <1>1 DEF vars, tables, drafts, locks, cache, refresh, request, TypeInv, TypeOK,
              Active
<1>2. CASE Next
  <2>1. PICK h \in Handlers :
            \/ \E k \in Kinds, s \in Shipments : Begin(h, k, s)
            \/ Step(h)
            \/ Fail(h)
    BY <1>2 DEF Next
  <2>2. CASE \E k \in Kinds, s \in Shipments : Begin(h, k, s)
    BY <2>2, BeginTypes
  <2>3. CASE Fail(h)
    BY <2>3, RollbackTypes DEF Fail
  <2>4. CASE RefuseShort(h) \/ RefuseClaim(h) \/ RefuseOverdraw(h)
    BY <2>4, RollbackTypes DEF RefuseShort, RefuseClaim, RefuseOverdraw
  <2>5. CASE Probe(h) \/ Mark(h) \/ Send(h)
    BY <2>5, ProbeTypes, MarkTypes, SendTypes
  <2>6. CASE Upsert(h) \/ Update(h) \/ Claim(h)
    BY <2>6, UpsertTypes, UpdateTypes, ClaimTypes
  <2>7. CASE Deduct(h) \/ Reserve(h) \/ Credit(h) \/ Restore(h) \/ Release(h) \/ Undo(h)
    BY <2>7, StockStepsTypes
  <2>8. CASE Commit(h)
    BY <2>8, CommitTypes
  <2>9. CASE StartRefresh(h) \/ ApplyRefresh(h) \/ SkipRefresh(h) \/ Answer(h)
    BY <2>9, StartRefreshTypes, ApplyRefreshTypes, SkipRefreshTypes, AnswerTypes
  <2>. QED
    BY <2>1, <2>2, <2>3, <2>4, <2>5, <2>6, <2>7, <2>8, <2>9 DEF Step
<1>. QED
  BY <1>1, <1>2

LEMMA TypesAlways == Spec => []TypeInv
  BY InitTypes, NextTypes, PTL DEF Spec

(* The types of TypeOK hold in every instance, whatever goes wrong.        *)
THEOREM TypeCorrect == Spec => []TypeOK
<1>1. TypeInv => TypeOK
  BY DEF TypeInv
<1>. QED
  BY <1>1, TypesAlways, PTL

(* No dispatch, cancellation or undone receipt ever overdraws a branch,    *)
(* however requests overlap, repeat or fail: NoOverdraft for every number  *)
(* of branches, shipments and requests.                                    *)
THEOREM NeverOverdrawn == Spec => []NoOverdraft
<1>1. TypeInv => NoOverdraft
  BY DEF TypeInv, GoodCells, NoOverdraft
<1>. QED
  BY <1>1, TypesAlways, PTL

-----------------------------------------------------------------------------
(* The mirror.  The running refresh is of a handler that has committed,    *)
(* and until it has replaced the mirror what it read is the table, unless  *)
(* another handler has committed since, whose own refresh is still to come.*)
(* After that, and unless something has failed, the mirror differs from    *)
(* the table only while some other request is open.                        *)

RefreshInv ==
    refresher # Nobody =>
        /\ refresher \in Handlers
        /\ pc[refresher] = "refresh"
        /\ \/ placed
           \/ snapshot = row
           \/ \E g \in Handlers : g # refresher /\ pc[g] = "refresh"

(* No request is open, or one that has only its answer to send.            *)
AllDone == \A g \in Handlers : Active(g) => g = refresher /\ placed
SameAsTable == \A s \in Shipments : heap[s][mirror[s]] = row[s]
SettledMirror == fresh /\ AllDone => SameAsTable

MirrorInv == RefreshInv /\ SettledMirror

(* Steps that neither change the table nor take part in a refresh keep     *)
(* RefreshInv, and leave a request open or are a failure.                  *)
LEMMA OtherSteps ==
    ASSUME TypeInv, MirrorInv, NEW h \in Handlers, pc[h] # "refresh",
           NEW p \in PCs, pc' = [pc EXCEPT ![h] = p],
           p \notin {"idle", "ok", "error"} \/ fresh' = FALSE,
           UNCHANGED <<row, snapshot, refresher, placed>>
    PROVE  MirrorInv'
<1>1. pc \in [Handlers -> PCs]
  BY DEF TypeInv, TypeOK
<1>2. RefreshInv'
  BY <1>1 DEF MirrorInv, RefreshInv
<1>3. SettledMirror'
  <2>1. CASE fresh' = FALSE
    BY <2>1 DEF SettledMirror
  <2>2. CASE p \notin {"idle", "ok", "error"}
    <3>1. Active(h)' /\ refresher' # h
      BY <1>1, <2>2, ShipmentsAssumption DEF Active, MirrorInv, RefreshInv
    <3>. QED
      BY <3>1 DEF SettledMirror, AllDone
  <2>. QED
    BY <2>1, <2>2
<1>. QED
  BY <1>2, <1>3 DEF MirrorInv

LEMMA CommitMirror ==
    ASSUME TypeInv, MirrorInv, NEW h \in Handlers, Commit(h)
    PROVE  MirrorInv'
<1>1. /\ pc \in [Handlers -> PCs] /\ pc[h] = "commit"
      /\ pc' = [pc EXCEPT ![h] = "refresh"]
      /\ UNCHANGED <<snapshot, refresher, placed, fresh>>
  BY DEF Commit, TypeInv, TypeOK, refresh
<1>2. h # refresher
  BY <1>1, ShipmentsAssumption DEF MirrorInv, RefreshInv
<1>3. RefreshInv'
  <2>. SUFFICES ASSUME refresher # Nobody PROVE RefreshInv'
    BY <1>1 DEF RefreshInv
  <2>1. refresher \in Handlers /\ pc[refresher] = "refresh"
    BY <1>1 DEF MirrorInv, RefreshInv
  <2>. QED
    BY <1>1, <1>2, <2>1 DEF RefreshInv
<1>4. Active(h)' /\ h # refresher'
  BY <1>1, <1>2 DEF Active
<1>. QED
  BY <1>3, <1>4 DEF MirrorInv, SettledMirror, AllDone

LEMMA StartRefreshMirror ==
    ASSUME TypeInv, MirrorInv, NEW h \in Handlers, StartRefresh(h)
    PROVE  MirrorInv'
<1>1. /\ refresher' = h /\ snapshot' = row /\ pc[h] = "refresh" /\ placed' = FALSE
      /\ UNCHANGED <<row, pc>>
  BY DEF StartRefresh, tables
<1>2. Active(h)'
  BY <1>1 DEF Active
<1>. QED
  BY <1>1, <1>2 DEF MirrorInv, RefreshInv, SettledMirror, AllDone

LEMMA ApplyRefreshMirror ==
    ASSUME TypeInv, MirrorInv, NEW h \in Handlers, ApplyRefresh(h)
    PROVE  MirrorInv'
<1>1. /\ refresher = h /\ pc[h] = "refresh" /\ placed' = TRUE /\ ~placed
      /\ UNCHANGED <<row, pc, refresher, snapshot>>
  BY DEF ApplyRefresh, Refreshing, Placed, tables
<1>2. RefreshInv'
  BY <1>1 DEF RefreshInv
<1>3. SettledMirror'
  <2>. SUFFICES ASSUME AllDone', NEW s \in Shipments
                PROVE  heap'[s][mirror'[s]] = row'[s]
    BY DEF SettledMirror, SameAsTable
  <2>1. snapshot = row
    <3>1. h # Nobody
      BY ShipmentsAssumption
    <3>2. ASSUME NEW g \in Handlers, g # h, pc[g] = "refresh" PROVE FALSE
      BY <1>1, <3>2 DEF AllDone, Active
    <3>. QED
      BY <1>1, <3>1, <3>2 DEF MirrorInv, RefreshInv
  <2>2. mirror'[s] = NewObject(s) /\ NewObject(s) \in Objects
    BY NewObjectExists DEF ApplyRefresh
  <2>3. heap'[s][NewObject(s)] = snapshot[s]
    <3>1. heap'[s] = [x \in Objects |->
                         CASE x = NewObject(s) -> snapshot[s]
                           [] x \in InUse(s) -> heap[s][x]
                           [] OTHER -> Absent]
      BY DEF ApplyRefresh
    <3>2. PICK x \in Objects : x = NewObject(s) /\ x \notin InUse(s)
      BY <2>2, NewObjectExists
    <3>3. heap'[s][x] = snapshot[s]
      BY <3>1, <3>2
    <3>. QED
      BY <3>2, <3>3
  <2>. QED
    BY <1>1, <2>1, <2>2, <2>3
<1>. QED
  BY <1>2, <1>3 DEF MirrorInv

LEMMA SkipRefreshMirror ==
    ASSUME TypeInv, MirrorInv, NEW h \in Handlers, SkipRefresh(h)
    PROVE  MirrorInv'
  BY DEF SkipRefresh, Refreshing, Placed, MirrorInv, RefreshInv, SettledMirror

LEMMA AnswerMirror ==
    ASSUME TypeInv, MirrorInv, NEW h \in Handlers, Answer(h)
    PROVE  MirrorInv'
<1>1. /\ refresher = h /\ placed /\ refresher' = Nobody
      /\ pc' = [pc EXCEPT ![h] = "ok"] /\ pc \in [Handlers -> PCs]
      /\ UNCHANGED <<row, heap, mirror, fresh>>
  BY DEF Answer, tables, cache, TypeInv, TypeOK
<1>2. AllDone' => AllDone
  <2>. SUFFICES ASSUME AllDone', NEW g \in Handlers, g # h PROVE ~Active(g)
    BY <1>1 DEF AllDone
  <2>1. Active(g)' <=> Active(g)
    BY <1>1 DEF Active
  <2>. QED
    BY <1>1, <2>1, ShipmentsAssumption DEF AllDone
<1>3. SettledMirror'
  BY <1>1, <1>2 DEF MirrorInv, SettledMirror, SameAsTable
<1>. QED
  BY <1>1, <1>3 DEF MirrorInv, RefreshInv

LEMMA NextMirror == TypeInv /\ MirrorInv /\ [Next]_vars => MirrorInv'
<1>. SUFFICES ASSUME TypeInv, MirrorInv, [Next]_vars PROVE MirrorInv'
  OBVIOUS
<1>1. CASE UNCHANGED vars
  BY <1>1 DEF vars, tables, cache, refresh, MirrorInv, RefreshInv,
              SettledMirror, SameAsTable, AllDone, Active
<1>2. CASE Next
  <2>1. PICK h \in Handlers :
            \/ \E k \in Kinds, s \in Shipments : Begin(h, k, s)
            \/ Step(h)
            \/ Fail(h)
    BY <1>2 DEF Next
  <2>2. CASE \E k \in Kinds, s \in Shipments : Begin(h, k, s)
    <3>1. \E p \in {"probe", "dated", "claim"} : pc' = [pc EXCEPT ![h] = p]
      BY <2>2 DEF Begin
    <3>2. pc[h] # "refresh" /\ UNCHANGED <<row, snapshot, refresher, placed>>
      BY <2>2 DEF Begin, tables, refresh
    <3>. QED
      BY <3>1, <3>2, OtherSteps DEF PCs
  <2>3. CASE Fail(h) \/ RefuseShort(h) \/ RefuseClaim(h) \/ RefuseOverdraw(h)
    <3>1. pc[h] # "refresh" /\ Rollback(h)
      BY <2>3 DEF Fail, RefuseShort, RefuseClaim, RefuseOverdraw
    <3>2. /\ pc' = [pc EXCEPT ![h] = "error"] /\ fresh' = FALSE
          /\ UNCHANGED <<row, snapshot, refresher, placed>>
      BY <3>1 DEF Rollback, tables
    <3>. QED
      BY <3>1, <3>2, OtherSteps DEF PCs
  <2>4. CASE Probe(h) \/ Mark(h) \/ Send(h)
    <3>1. \E p \in {"begin", "write"} : pc' = [pc EXCEPT ![h] = p]
      BY <2>4 DEF Probe, Mark, Send
    <3>2. pc[h] # "refresh" /\ UNCHANGED <<row, snapshot, refresher, placed>>
      BY <2>4 DEF Probe, Mark, Send, tables, refresh
    <3>. QED
      BY <3>1, <3>2, OtherSteps DEF PCs
  <2>5. CASE Upsert(h) \/ Update(h) \/ Claim(h)
    <3>1. \E p \in {"commit", "deduct", "credit", "restore", "undo"} :
              pc' = [pc EXCEPT ![h] = p]
      BY <2>5 DEF Upsert, Update, Claim
    <3>2. pc[h] # "refresh" /\ UNCHANGED <<row, snapshot, refresher, placed>>
      BY <2>5 DEF Upsert, Update, Claim, tables, refresh
    <3>. QED
      BY <3>1, <3>2, OtherSteps DEF PCs
  <2>6. CASE Deduct(h) \/ Reserve(h) \/ Credit(h) \/ Restore(h) \/ Release(h) \/ Undo(h)
    <3>1. \E p \in {"reserve", "commit", "release"} : pc' = [pc EXCEPT ![h] = p]
      BY <2>6 DEF Deduct, Reserve, Credit, Restore, Release, Undo
    <3>2. pc[h] # "refresh" /\ UNCHANGED <<row, snapshot, refresher, placed>>
      BY <2>6 DEF Deduct, Reserve, Credit, Restore, Release, Undo, tables, refresh
    <3>. QED
      BY <3>1, <3>2, OtherSteps DEF PCs
  <2>7. CASE Commit(h)
    BY <2>7, CommitMirror
  <2>8. CASE StartRefresh(h) \/ ApplyRefresh(h) \/ SkipRefresh(h) \/ Answer(h)
    BY <2>8, StartRefreshMirror, ApplyRefreshMirror, SkipRefreshMirror, AnswerMirror
  <2>. QED
    BY <2>1, <2>2, <2>3, <2>4, <2>5, <2>6, <2>7, <2>8 DEF Step
<1>. QED
  BY <1>1, <1>2

(* The cache protocol is right: one refresh at a time, each reading after  *)
(* its own commit, leaves in the mirror exactly the table once all open    *)
(* requests are answered, also those that began between the replacement of *)
(* the mirror and the answer, as long as neither they nor a refresh fail.  *)
THEOREM MirrorFresh == Spec => []QuietMirrorIsFresh
<1>1. Init => MirrorInv
  BY DEF Init, MirrorInv, RefreshInv, SettledMirror
<1>2. MirrorInv => QuietMirrorIsFresh
  BY DEF MirrorInv, SettledMirror, AllDone, SameAsTable, QuietMirrorIsFresh
<1>. QED
  BY <1>1, <1>2, TypesAlways, NextMirror, PTL DEF Spec

-----------------------------------------------------------------------------
(***************************************************************************)
(* UndoneOnlyIfReceived.  Only a shipment that its table shows as received *)
(* can be undone, its row locked meanwhile; and a row shows that only when *)
(* a receipt wrote it: a dispatch writes the shipment as in transit, since *)
(* no other request on it can have begun before it is in the table.        *)

Acts(h) == \/ \E k \in Kinds, s \in Shipments : Begin(h, k, s)
           \/ Step(h)
           \/ Fail(h)
Refuses(h) == RefuseShort(h) \/ RefuseClaim(h) \/ RefuseOverdraw(h) \/ Fail(h)
Refreshes(h) == StartRefresh(h) \/ ApplyRefresh(h) \/ SkipRefresh(h)

LEMMA RefusalRollsBack ==
    ASSUME NEW h, Refuses(h) PROVE Rollback(h) /\ pc[h] # "refresh" /\ Active(h)
  BY DEF Refuses, RefuseShort, RefuseClaim, RefuseOverdraw, Fail, Active

(* A refresh concerns nothing but the mirror and itself.                   *)
LEMMA RefreshesKeep ==
    ASSUME NEW h, Refreshes(h)
    PROVE  pc[h] = "refresh" /\ UNCHANGED <<tables, sent, drafts, locks, pc, request, carry>>
  BY DEF Refreshes, StartRefresh, ApplyRefresh, SkipRefresh, Refreshing, Placed

LEMMA ActionOfHandler == ASSUME Next PROVE \E h \in Handlers : Acts(h)
  BY DEF Next, Acts

(* What a handler does to another's state and locks: nothing.              *)
LEMMA OthersStay ==
    ASSUME TypeInv, NEW h \in Handlers, NEW g \in Handlers, g # h, Acts(h)
    PROVE  /\ pc'[g] = pc[g] /\ kind'[g] = kind[g] /\ target'[g] = target[g]
           /\ object'[g] = object[g] /\ carry'[g] = carry[g] /\ exists'[g] = exists[g]
<1>1. ASSUME NEW k \in Kinds, NEW s \in Shipments, Begin(h, k, s)
      PROVE  /\ pc'[g] = pc[g] /\ kind'[g] = kind[g] /\ target'[g] = target[g]
             /\ object'[g] = object[g] /\ carry'[g] = carry[g] /\ exists'[g] = exists[g]
  BY <1>1 DEF Begin, TypeInv, TypeOK
<1>2. CASE Probe(h) \/ Mark(h) \/ Send(h) \/ Upsert(h) \/ Update(h) \/ Claim(h)
  BY <1>2 DEF Probe, Mark, Send, Upsert, Update, Claim, request, TypeInv, TypeOK
<1>3. CASE Deduct(h) \/ Reserve(h) \/ Credit(h) \/ Restore(h) \/ Release(h) \/ Undo(h)
  BY <1>3 DEF Deduct, Reserve, Credit, Restore, Release, Undo, request, TypeInv, TypeOK
<1>4. CASE Commit(h) \/ Refreshes(h)
  BY <1>4, RefreshesKeep DEF Commit, request, TypeInv, TypeOK
<1>5. CASE Refuses(h) \/ Answer(h)
  <2>1. Forget(h) /\ \E a \in {"ok", "error"} : pc' = [pc EXCEPT ![h] = a]
    BY <1>5, RefusalRollsBack DEF Rollback, Answer
  <2>. QED
    BY <2>1 DEF Forget, TypeInv, TypeOK
<1>. QED
  BY <1>1, <1>2, <1>3, <1>4, <1>5 DEF Acts, Step, Refuses, Refreshes

LEMMA OthersRows ==
    ASSUME TypeInv, NEW h \in Handlers, NEW g \in Handlers, g # h, Acts(h),
           NEW s \in Shipments
    PROVE  /\ shipLock'[s] = g <=> shipLock[s] = g
           /\ shipLock[s] = g => rowDraft'[s] = rowDraft[s]
<1>0. g # Nobody
  BY ShipmentsAssumption
<1>1. CASE \E k \in Kinds, p \in Shipments : Begin(h, k, p)
  BY <1>1 DEF Begin, drafts, locks
<1>2. CASE Probe(h) \/ Mark(h) \/ Send(h) \/ Refreshes(h)
  BY <1>2, RefreshesKeep DEF Probe, Mark, Send, drafts, locks
<1>3. CASE Deduct(h) \/ Reserve(h) \/ Credit(h) \/ Restore(h) \/ Release(h) \/ Undo(h)
  BY <1>3 DEF Deduct, Reserve, Credit, Restore, Release, Undo
<1>4. CASE Upsert(h) \/ Update(h) \/ Claim(h)
  <2>1. \/ UNCHANGED <<rowDraft, shipLock>>
        \/ \E rec : ChangeShipment(h, rec)
    BY <1>4 DEF Upsert, Update, Claim
  <2>. QED
    BY <1>0, <2>1 DEF ChangeShipment, Free, TypeInv, TypeOK
<1>5. CASE Commit(h)
  BY <1>0, <1>5 DEF Commit, ReleaseLocks, Freed, drafts, TypeInv, TypeOK
<1>6. CASE Refuses(h)
  <2>1. Rollback(h)
    BY <1>6, RefusalRollsBack
  <2>. QED
    BY <1>0, <2>1 DEF Rollback, Overlay, ReleaseLocks, Freed, TypeInv, TypeOK
<1>7. CASE Answer(h)
  BY <1>7 DEF Answer, drafts, locks
<1>. QED
  BY <1>1, <1>2, <1>3, <1>4, <1>5, <1>6, <1>7 DEF Acts, Step, Refuses, Refreshes

(* Which kinds of request reach which point.                               *)
KindPoint(h) ==
    /\ pc[h] = "probe" => kind[h] = "DISPATCH"
    /\ pc[h] \in {"deduct", "reserve"} => kind[h] = "DISPATCH"
    /\ pc[h] \in {"begin", "write"} => kind[h] \in {"DISPATCH", "RECEIVE"}
    /\ pc[h] \in {"dated", "credit"} => kind[h] = "RECEIVE"
    /\ pc[h] = "claim" => kind[h] \in {"CANCEL", "UNDO"}
    /\ pc[h] \in {"restore", "release"} => kind[h] = "CANCEL"
    /\ pc[h] = "undo" => kind[h] = "UNDO"
Posting == {"deduct", "reserve", "restore", "release", "undo", "commit"}
(* The handler holds its shipment's row: a receipt may have found none.    *)
HoldsRow(h) == pc[h] \in Posting /\ kind[h] # "RECEIVE" => shipLock[target[h]] = h
RowOfTarget(h) ==
    \A s \in Shipments :
        shipLock[s] = h => target[h] = s /\ pc[h] \in Posting \cup {"credit"}
PointsInv == \A h \in Handlers : KindPoint(h) /\ HoldsRow(h) /\ RowOfTarget(h)

LEMMA OwnKindPoint ==
    ASSUME TypeInv, PointsInv, NEW h \in Handlers, Acts(h)
    PROVE  KindPoint(h)'
<1>0. KindPoint(h) /\ (Active(h) => kind[h] \in Kinds)
  BY DEF PointsInv, TypeInv
<1>1. ASSUME NEW k \in Kinds, NEW s \in Shipments, Begin(h, k, s)
      PROVE  KindPoint(h)'
  BY <1>1 DEF Begin, KindPoint, Kinds, TypeInv, TypeOK
<1>2. CASE Probe(h) \/ Mark(h) \/ Send(h) \/ Upsert(h) \/ Update(h) \/ Claim(h)
  BY <1>0, <1>2 DEF Probe, Mark, Send, Upsert, Update, Claim, request, TypeInv, TypeOK,
                    KindPoint
<1>3. CASE Deduct(h) \/ Reserve(h) \/ Credit(h) \/ Restore(h) \/ Release(h) \/ Undo(h)
  BY <1>0, <1>3 DEF Deduct, Reserve, Credit, Restore, Release, Undo, request, TypeInv,
                    TypeOK, KindPoint
<1>4. CASE Commit(h) \/ Refreshes(h)
  BY <1>0, <1>4, RefreshesKeep DEF Commit, request, TypeInv, TypeOK, KindPoint
<1>5. CASE Refuses(h) \/ Answer(h)
  <2>1. \E a \in {"ok", "error"} : pc' = [pc EXCEPT ![h] = a]
    BY <1>5, RefusalRollsBack DEF Rollback, Answer
  <2>. QED
    BY <2>1 DEF KindPoint, TypeInv, TypeOK
<1>. QED
  BY <1>1, <1>2, <1>3, <1>4, <1>5 DEF Acts, Step, Refuses, Refreshes

LEMMA OwnRow ==
    ASSUME TypeInv, PointsInv, NEW h \in Handlers, Acts(h)
    PROVE  (HoldsRow(h) /\ RowOfTarget(h))'
<1>0. /\ KindPoint(h) /\ HoldsRow(h) /\ RowOfTarget(h) /\ h # Nobody
      /\ Active(h) => target[h] \in Shipments
  BY ShipmentsAssumption DEF PointsInv, TypeInv
<1>1. ASSUME NEW k \in Kinds, NEW s \in Shipments, Begin(h, k, s)
      PROVE  (HoldsRow(h) /\ RowOfTarget(h))'
  <2>1. /\ pc[h] = "idle" /\ pc'[h] \in {"probe", "dated", "claim"} /\ shipLock' = shipLock
    BY <1>1 DEF Begin, locks, TypeInv, TypeOK
  <2>. QED
    BY <1>0, <2>1 DEF HoldsRow, RowOfTarget, Posting
<1>2. CASE Probe(h) \/ Mark(h) \/ Send(h) \/ Refreshes(h)
  <2>1. /\ pc[h] \notin Posting \cup {"credit"} /\ pc'[h] \notin Posting
        /\ shipLock' = shipLock /\ target' = target
    BY <1>2, RefreshesKeep DEF Probe, Mark, Send, locks, request, Posting, TypeInv, TypeOK
  <2>. QED
    BY <1>0, <2>1 DEF HoldsRow, RowOfTarget
<1>3. CASE Upsert(h) \/ Update(h) \/ Claim(h)
  <2>1. /\ pc[h] \in {"write", "claim"} /\ pc'[h] \in Posting \cup {"credit"}
        /\ UNCHANGED <<kind, target>>
    BY <1>3 DEF Upsert, Update, Claim, request, Posting, TypeInv, TypeOK
  <2>2. /\ \/ shipLock' = shipLock /\ pc'[h] = "credit"
           \/ shipLock' = [shipLock EXCEPT ![target[h]] = h]
    BY <1>3 DEF Upsert, Update, Claim, ChangeShipment, TypeInv, TypeOK
  <2>3. \A s \in Shipments : shipLock[s] # h
    BY <1>0, <2>1 DEF RowOfTarget, Posting
  <2>4. target[h] \in Shipments
    BY <1>0, <2>1 DEF Active
  <2>5. HoldsRow(h)'
    BY <2>1, <2>2, <2>4 DEF HoldsRow, Posting, TypeInv, TypeOK
  <2>6. RowOfTarget(h)'
    BY <2>1, <2>2, <2>3 DEF RowOfTarget, TypeInv, TypeOK
  <2>. QED
    BY <2>5, <2>6
<1>4. CASE Deduct(h) \/ Reserve(h) \/ Credit(h) \/ Restore(h) \/ Release(h) \/ Undo(h)
  <2>1. /\ pc[h] \in Posting \cup {"credit"} /\ pc'[h] \in Posting
        /\ UNCHANGED <<kind, target, shipLock>>
        /\ pc[h] = "credit" => kind[h] = "RECEIVE"
    BY <1>0, <1>4 DEF Deduct, Reserve, Credit, Restore, Release, Undo, request, Posting,
                      TypeInv, TypeOK, KindPoint
  <2>. QED
    BY <1>0, <2>1 DEF HoldsRow, RowOfTarget
<1>5. CASE Commit(h) \/ Refuses(h)
  <2>1. /\ ReleaseLocks(h) /\ \E a \in {"refresh", "error"} : pc' = [pc EXCEPT ![h] = a]
    BY <1>5, RefusalRollsBack DEF Commit, Rollback
  <2>2. pc'[h] \notin Posting /\ \A s \in Shipments : shipLock'[s] # h
    BY <1>0, <2>1 DEF ReleaseLocks, Freed, Posting, TypeInv, TypeOK
  <2>. QED
    BY <2>2 DEF HoldsRow, RowOfTarget
<1>6. CASE Answer(h)
  <2>1. pc[h] = "refresh" /\ pc'[h] = "ok" /\ shipLock' = shipLock
    BY <1>6 DEF Answer, locks, TypeInv, TypeOK
  <2>. QED
    BY <1>0, <2>1 DEF HoldsRow, RowOfTarget, Posting
<1>. QED
  BY <1>1, <1>2, <1>3, <1>4, <1>5, <1>6 DEF Acts, Step, Refuses, Refreshes

LEMMA OthersPoints ==
    ASSUME TypeInv, PointsInv, NEW h \in Handlers, NEW g \in Handlers, g # h, Acts(h)
    PROVE  (KindPoint(g) /\ HoldsRow(g) /\ RowOfTarget(g))'
<1>1. pc'[g] = pc[g] /\ kind'[g] = kind[g] /\ target'[g] = target[g]
  BY OthersStay
<1>2. KindPoint(g) /\ HoldsRow(g) /\ RowOfTarget(g)
  BY DEF PointsInv
<1>3. \A s \in Shipments : shipLock'[s] = g <=> shipLock[s] = g
  BY OthersRows
<1>4. pc[g] \in Posting => target[g] \in Shipments
  BY DEF TypeInv, Active, Posting
<1>. QED
  BY <1>1, <1>2, <1>3, <1>4 DEF KindPoint, HoldsRow, RowOfTarget

LEMMA PointsAlways == Spec => []PointsInv
<1>1. Init => PointsInv
  BY ShipmentsAssumption DEF Init, PointsInv, KindPoint, HoldsRow, RowOfTarget, Posting
<1>2. TypeInv /\ PointsInv /\ [Next]_vars => PointsInv'
  <2>. SUFFICES ASSUME TypeInv, PointsInv, [Next]_vars, NEW g \in Handlers
                PROVE  (KindPoint(g) /\ HoldsRow(g) /\ RowOfTarget(g))'
    BY DEF PointsInv
  <2>1. CASE UNCHANGED vars
    BY <2>1 DEF vars, locks, request, PointsInv, KindPoint, HoldsRow, RowOfTarget
  <2>2. CASE Next
    BY <2>2, ActionOfHandler, OwnKindPoint, OwnRow, OthersPoints
  <2>. QED
    BY <2>1, <2>2
<1>. QED
  BY <1>1, <1>2, TypesAlways, PTL DEF Spec

NotYetSent(s) ==
    s \notin sent =>
        row[s].status = "NONE" /\ \A g \in Handlers : Active(g) => target[g] # s
Alone(h) ==
    Active(h) /\ kind[h] = "DISPATCH" /\ pc[h] # "refresh" =>
        /\ row[target[h]].status = "NONE"
        /\ \A g \in Handlers : g # h /\ Active(g) => target[g] # target[h]
Plain(h) ==
    kind[h] = "DISPATCH" =>
        /\ pc[h] = "begin" => Held(h) = InTransit
        /\ pc[h] = "write" => carry[h] = InTransit
        /\ pc[h] \in {"deduct", "reserve", "commit"} => rowDraft[target[h]] = InTransit
Taking(h) ==
    /\ kind[h] = "UNDO" /\ pc[h] \in {"undo", "commit"} =>
          /\ row[target[h]].status \in ReceiptDone
          /\ rowDraft[target[h]].status = "IN_TRANSIT"
    /\ kind[h] = "CANCEL" /\ pc[h] \in {"restore", "release", "commit"} =>
          rowDraft[target[h]].status = "CANCELLED"
Tallied(s) ==
    tally[s]["UNDO"] + (IF row[s].status \in ReceiptDone THEN 1 ELSE 0)
        <= tally[s]["RECEIVE"]
UndoInv == /\ \A s \in Shipments : NotYetSent(s) /\ Tallied(s)
           /\ \A h \in Handlers : Alone(h) /\ Plain(h) /\ Taking(h)
OnceSent == "RESEND" \notin Mishaps /\ "GHOST" \notin Mishaps

(* Only a commit changes the table and the history, and only of its own    *)
(* shipment.                                                               *)
LEMMA TablesCommitted ==
    ASSUME NEW h \in Handlers, Acts(h)
    PROVE  (row' = row /\ stock' = stock /\ tally' = tally) \/ Commit(h)
<1>1. ASSUME NEW k \in Kinds, NEW s \in Shipments, Begin(h, k, s)
      PROVE  row' = row /\ stock' = stock /\ tally' = tally
  BY <1>1 DEF Begin, tables
<1>2. CASE Probe(h) \/ Mark(h) \/ Send(h) \/ Upsert(h) \/ Update(h) \/ Claim(h)
  BY <1>2 DEF Probe, Mark, Send, Upsert, Update, Claim, tables
<1>3. CASE Deduct(h) \/ Reserve(h) \/ Credit(h) \/ Restore(h) \/ Release(h) \/ Undo(h)
  BY <1>3 DEF Deduct, Reserve, Credit, Restore, Release, Undo, tables
<1>4. CASE Refreshes(h) \/ Answer(h)
  BY <1>4, RefreshesKeep DEF Answer, tables
<1>5. CASE Refuses(h)
  BY <1>5, RefusalRollsBack DEF Rollback, tables
<1>. QED
  BY <1>1, <1>2, <1>3, <1>4, <1>5 DEF Acts, Step, Refuses, Refreshes

LEMMA CommitRow ==
    ASSUME TypeInv, PointsInv, NEW h \in Handlers, Commit(h)
    PROVE  /\ pc[h] = "commit" /\ Active(h) /\ target[h] \in Shipments /\ kind[h] \in Kinds
           /\ \A s \in Shipments \ {target[h]} : row'[s] = row[s] /\ tally'[s] = tally[s]
           /\ row'[target[h]] = IF shipLock[target[h]] = h THEN rowDraft[target[h]]
                                                           ELSE row[target[h]]
           /\ kind[h] # "RECEIVE" => shipLock[target[h]] = h
           /\ tally'[target[h]] = [tally[target[h]] EXCEPT ![kind[h]] = @ + 1]
<1>1. /\ pc[h] = "commit" /\ Active(h) /\ target[h] \in Shipments /\ kind[h] \in Kinds
      /\ row' = Overlay(row, rowDraft, shipLock, h)
      /\ tally' = [tally EXCEPT ![target[h]][kind[h]] = @ + 1]
  BY DEF Commit, TypeInv, Active
<1>2. \A s \in Shipments : row'[s] = IF shipLock[s] = h THEN rowDraft[s] ELSE row[s]
  BY <1>1 DEF Overlay, TypeInv, TypeOK
<1>3. \A s \in Shipments \ {target[h]} : shipLock[s] # h
  BY DEF PointsInv, RowOfTarget
<1>4. kind[h] # "RECEIVE" => shipLock[target[h]] = h
  BY <1>1 DEF PointsInv, HoldsRow, Posting
<1>5. /\ \A s \in Shipments \ {target[h]} : tally'[s] = tally[s]
      /\ tally'[target[h]] = [tally[target[h]] EXCEPT ![kind[h]] = @ + 1]
  BY <1>1 DEF TypeInv, TypeOK
<1>. QED
  BY <1>1, <1>2, <1>3, <1>4, <1>5

LEMMA BeginMeets ==
    ASSUME OnceSent, TypeInv, UndoInv, NEW h \in Handlers, NEW k \in Kinds,
           NEW s \in Shipments, Begin(h, k, s)
    PROVE  /\ k = "DISPATCH" => /\ s \notin sent /\ row[s].status = "NONE"
                                /\ \A g \in Handlers : Active(g) => target[g] # s
           /\ k # "DISPATCH" => row[s].status # "NONE"
           /\ \A g \in Handlers : Alone(g) /\ kind[g] = "DISPATCH" /\ Active(g)
                                   /\ pc[g] # "refresh" => target[g] # s
<1>1. /\ k = "DISPATCH" => s \notin sent
      /\ k # "DISPATCH" => row[s].status # "NONE"
  BY DEF Begin, Expected, OnceSent
<1>2. k = "DISPATCH" => /\ row[s].status = "NONE"
                        /\ \A g \in Handlers : Active(g) => target[g] # s
  BY <1>1 DEF UndoInv, NotYetSent
<1>. QED
  BY <1>1, <1>2 DEF Alone

(* The object a handler holds is written by requests on its own shipment   *)
(* only: a refresh replaces it in the mirror, but does not change it.      *)
LEMMA HeldStays ==
    ASSUME TypeInv, NEW h \in Handlers, NEW g \in Handlers, g # h, Acts(h),
           Active(g), pc[g] \notin {"probe", "refresh"},
           Active(h) => target[h] # target[g]
    PROVE  heap'[target[g]][object[g]] = heap[target[g]][object[g]]
<1>. DEFINE s == target[g]
            x == object[g]
<1>1. s \in Shipments /\ x \in Objects
  BY DEF TypeInv, TypeOK
<1>2. Active(h) => target[h] # s /\ target[h] \in Shipments
  BY DEF TypeInv
<1>3. CASE \E k \in Kinds, p \in Shipments : Begin(h, k, p)
  BY <1>3 DEF Begin, cache
<1>4. CASE \/ Send(h) \/ Upsert(h) \/ Update(h) \/ Claim(h)
           \/ Deduct(h) \/ Reserve(h) \/ Credit(h) \/ Restore(h) \/ Release(h) \/ Undo(h)
           \/ StartRefresh(h) \/ SkipRefresh(h) \/ Answer(h)
  BY <1>4 DEF Send, Upsert, Update, Claim, Deduct, Reserve, Credit, Restore, Release, Undo,
              StartRefresh, SkipRefresh, Answer, cache
<1>5. CASE Probe(h) \/ Mark(h) \/ Commit(h)
  <2>1. Active(h)
    BY <1>5 DEF Probe, Mark, Commit, Active
  <2>2. heap'[s] = heap[s]
    BY <1>1, <1>2, <1>5, <2>1 DEF Probe, Mark, Commit, TypeInv, TypeOK
  <2>. QED
    BY <2>2
<1>6. CASE Refuses(h)
  BY <1>6, RefusalRollsBack DEF Rollback, cache
<1>7. CASE ApplyRefresh(h)
  <2>1. heap'[s] = [y \in Objects |->
                       CASE y = NewObject(s) -> snapshot[s]
                         [] y \in InUse(s) -> heap[s][y]
                         [] OTHER -> Absent]
    BY <1>1, <1>7 DEF ApplyRefresh
  <2>2. x \in InUse(s)
    BY <1>1 DEF InUse
  <2>3. x # NewObject(s)
    BY <1>1, <2>2, NewObjectExists
  <2>. QED
    BY <1>1, <2>1, <2>2, <2>3
<1>. QED
  BY <1>3, <1>4, <1>5, <1>6, <1>7 DEF Acts, Step, Refuses, Refreshes

LEMMA OthersHeld ==
    ASSUME TypeInv, UndoInv, NEW h \in Handlers, NEW g \in Handlers, g # h,
           Acts(h), kind[g] = "DISPATCH", pc[g] = "begin"
    PROVE  heap'[target[g]][object[g]] = heap[target[g]][object[g]]
<1>1. Active(g) /\ pc[g] \notin {"probe", "refresh"}
  BY DEF Active
<1>2. Active(h) => target[h] # target[g]
  BY <1>1 DEF UndoInv, Alone
<1>. QED
  BY <1>1, <1>2, HeldStays

LEMMA OthersUndo ==
    ASSUME OnceSent, TypeInv, PointsInv, UndoInv, NEW h \in Handlers, NEW g \in Handlers,
           g # h, Acts(h)
    PROVE  (Alone(g) /\ Plain(g) /\ Taking(g))'
<1>1. /\ pc'[g] = pc[g] /\ kind'[g] = kind[g] /\ target'[g] = target[g]
      /\ object'[g] = object[g] /\ carry'[g] = carry[g]
  BY OthersStay
<1>2. Alone(g) /\ Plain(g) /\ Taking(g) /\ KindPoint(g) /\ HoldsRow(g)
  BY DEF UndoInv, PointsInv
<1>3. Active(g)' <=> Active(g)
  BY <1>1 DEF Active
<1>4. Active(g) => target[g] \in Shipments
  BY DEF TypeInv
<1>5. Alone(g)'
  <2>. SUFFICES ASSUME Active(g), kind[g] = "DISPATCH", pc[g] # "refresh"
                PROVE  /\ row'[target[g]].status = "NONE"
                       /\ \A f \in Handlers : f # g /\ Active(f)' => target'[f] # target[g]
    BY <1>1, <1>3 DEF Alone
  <2>1. row'[target[g]] = row[target[g]]
    <3>1. CASE Commit(h)
      <4>1. Active(h) /\ target[h] # target[g] /\ target[g] \in Shipments
        BY <1>2, <1>4, <3>1, CommitRow DEF Alone
      <4>. QED
        BY <3>1, <4>1, CommitRow
    <3>. QED
      BY <3>1, TablesCommitted
  <2>2. ASSUME NEW f \in Handlers, f # g, Active(f)' PROVE target'[f] # target[g]
    <3>1. CASE f # h
      BY <1>2, <2>2, <3>1, OthersStay DEF Alone, Active
    <3>2. CASE f = h /\ \E k \in Kinds, s \in Shipments : Begin(h, k, s)
      <4>1. PICK k \in Kinds, s \in Shipments : Begin(h, k, s)
        BY <3>2
      <4>2. target[g] # s
        BY <1>2, <4>1, BeginMeets
      <4>. QED
        BY <3>2, <4>1, <4>2 DEF Begin, TypeInv, TypeOK
    <3>3. CASE f = h /\ ~ \E k \in Kinds, s \in Shipments : Begin(h, k, s)
      <4>1. Active(h) /\ (target' = target \/ ~Active(h)')
        <5>1. CASE Probe(h) \/ Mark(h) \/ Send(h) \/ Upsert(h) \/ Update(h) \/ Claim(h)
          BY <5>1 DEF Probe, Mark, Send, Upsert, Update, Claim, request, Active
        <5>2. CASE \/ Deduct(h) \/ Reserve(h) \/ Credit(h) \/ Restore(h) \/ Release(h)
                   \/ Undo(h)
          BY <5>2 DEF Deduct, Reserve, Credit, Restore, Release, Undo, request, Active
        <5>3. CASE Commit(h) \/ Refreshes(h)
          BY <5>3, RefreshesKeep DEF Commit, request, Active
        <5>4. CASE Refuses(h) \/ Answer(h)
          <6>1. Active(h) /\ \E a \in {"ok", "error"} : pc' = [pc EXCEPT ![h] = a]
            BY <5>4, RefusalRollsBack DEF Rollback, Answer,
                                          Active
          <6>. QED
            BY <6>1 DEF Active, TypeInv, TypeOK
        <5>. QED
          BY <3>3, <5>1, <5>2, <5>3, <5>4 DEF Acts, Step, Refuses, Refreshes
      <4>. QED
        BY <1>2, <2>2, <3>3, <4>1 DEF Alone
    <3>. QED
      BY <3>1, <3>2, <3>3
  <2>. QED
    BY <1>2, <2>1, <2>2 DEF Alone
<1>6. pc[g] \in Posting /\ kind[g] # "RECEIVE" =>
          rowDraft'[target[g]] = rowDraft[target[g]]
  <2>. SUFFICES ASSUME pc[g] \in Posting, kind[g] # "RECEIVE"
                PROVE  rowDraft'[target[g]] = rowDraft[target[g]]
    OBVIOUS
  <2>1. target[g] \in Shipments /\ shipLock[target[g]] = g
    BY <1>2, <1>4 DEF HoldsRow, Active, Posting
  <2>. QED
    BY <2>1, OthersRows
<1>7. Plain(g)'
  <2>1. kind[g] = "DISPATCH" /\ pc[g] = "begin" => Held(g)' = InTransit
    BY <1>1, <1>2, OthersHeld DEF Plain, Held
  <2>. QED
    BY <1>1, <1>2, <1>6, <2>1 DEF Plain, Posting
<1>8. Taking(g)'
  <2>1. ASSUME kind[g] = "UNDO", pc[g] \in {"undo", "commit"}
        PROVE  row'[target[g]] = row[target[g]]
    <3>1. shipLock[target[g]] = g /\ target[g] \in Shipments
      BY <1>2, <1>4, <2>1 DEF HoldsRow, Active, Posting
    <3>2. CASE Commit(h)
      <4>1. CASE target[h] = target[g]
        <5>1. shipLock[target[h]] # h
          BY <3>1, <4>1
        <5>. QED
          BY <3>1, <3>2, <4>1, <5>1, CommitRow
      <4>2. CASE target[h] # target[g]
        BY <3>1, <3>2, <4>2, CommitRow
      <4>. QED
        BY <4>1, <4>2
    <3>. QED
      BY <3>2, TablesCommitted
  <2>. QED
    BY <1>1, <1>2, <1>6, <2>1 DEF Taking, Posting
<1>. QED
  BY <1>5, <1>7, <1>8

LEMMA OwnAlone ==
    ASSUME OnceSent, TypeInv, PointsInv, UndoInv, NEW h \in Handlers, Acts(h)
    PROVE  Alone(h)'
<1>1. ASSUME NEW k \in Kinds, NEW s \in Shipments, Begin(h, k, s)
      PROVE  Alone(h)'
  <2>1. /\ target'[h] = s /\ kind'[h] = k /\ row' = row
    BY <1>1 DEF Begin, tables, TypeInv, TypeOK
  <2>2. ASSUME NEW g \in Handlers, g # h, Active(g)', k = "DISPATCH" PROVE target'[g] # s
    <3>1. Active(g) /\ target'[g] = target[g]
      BY <1>1, <2>2, OthersStay DEF Acts, Active
    <3>. QED
      BY <1>1, <2>2, <3>1, BeginMeets
  <2>. QED
    BY <1>1, <2>1, <2>2, BeginMeets DEF Alone
<1>2. ASSUME ~ \E k \in Kinds, s \in Shipments : Begin(h, k, s),
             Active(h)', kind'[h] = "DISPATCH", pc'[h] # "refresh"
      PROVE  Alone(h)'
  <2>1. /\ Active(h) /\ kind'[h] = kind[h] /\ target'[h] = target[h] /\ row' = row
        /\ pc[h] # "refresh"
    <3>1. CASE Probe(h) \/ Mark(h) \/ Send(h) \/ Upsert(h) \/ Update(h) \/ Claim(h)
      BY <3>1 DEF Probe, Mark, Send, Upsert, Update, Claim, request, tables, Active
    <3>2. CASE \/ Deduct(h) \/ Reserve(h) \/ Credit(h) \/ Restore(h) \/ Release(h)
               \/ Undo(h)
      BY <3>2 DEF Deduct, Reserve, Credit, Restore, Release, Undo, request, tables, Active
    <3>3. CASE Commit(h) \/ Refreshes(h)
      BY <1>2, <3>3, RefreshesKeep DEF Commit, TypeInv, TypeOK
    <3>4. CASE Refuses(h) \/ Answer(h)
      <4>1. \E a \in {"ok", "error"} : pc' = [pc EXCEPT ![h] = a]
        BY <3>4, RefusalRollsBack DEF Rollback, Answer
      <4>. QED
        BY <1>2, <4>1 DEF Active, TypeInv, TypeOK
    <3>. QED
      BY <1>2, <3>1, <3>2, <3>3, <3>4 DEF Acts, Step, Refuses, Refreshes
  <2>2. Alone(h)
    BY DEF UndoInv
  <2>3. \A g \in Handlers : g # h => (Active(g)' <=> Active(g)) /\ target'[g] = target[g]
    BY OthersStay DEF Active
  <2>. QED
    BY <1>2, <2>1, <2>2, <2>3 DEF Alone
<1>3. ASSUME ~(Active(h)' /\ kind'[h] = "DISPATCH" /\ pc'[h] # "refresh") PROVE Alone(h)'
  BY <1>3 DEF Alone
<1>. QED
  BY <1>1, <1>2, <1>3

LEMMA OwnPlain ==
    ASSUME TypeInv, PointsInv, UndoInv, NEW h \in Handlers, Acts(h)
    PROVE  (Plain(h) /\ Taking(h))'
<1>0. Plain(h) /\ Taking(h) /\ KindPoint(h) /\ (Active(h) => target[h] \in Shipments)
  BY DEF UndoInv, PointsInv, TypeInv
<1>1. ASSUME NEW k \in Kinds, NEW s \in Shipments, Begin(h, k, s)
      PROVE  (Plain(h) /\ Taking(h))'
  <2>1. pc'[h] \in {"probe", "dated", "claim"}
    BY <1>1 DEF Begin, TypeInv, TypeOK
  <2>. QED
    BY <2>1 DEF Plain, Taking
<1>2. CASE Probe(h)
  <2>. DEFINE s == target[h]
              x == NewObject(s)
  <2>1. s \in Shipments /\ x \in Objects
    BY <1>0, <1>2, NewObjectExists DEF Probe, Active
  <2>2. heap'[s][x] = InTransit /\ object'[h] = x /\ target' = target /\ pc'[h] = "begin"
    BY <1>2, <2>1 DEF Probe, TypeInv, TypeOK
  <2>. QED
    BY <2>2 DEF Plain, Taking, Held
<1>3. CASE Mark(h)
  <2>1. pc'[h] = "begin" /\ kind'[h] = "RECEIVE"
    BY <1>0, <1>3 DEF Mark, request, KindPoint, TypeInv, TypeOK
  <2>. QED
    BY <2>1 DEF Plain, Taking
<1>4. CASE Send(h)
  <2>1. pc[h] = "begin" /\ pc'[h] = "write" /\ kind' = kind /\ carry'[h] = Held(h)
    BY <1>4 DEF Send, request, TypeInv, TypeOK
  <2>. QED
    BY <1>0, <2>1 DEF Plain, Taking
<1>5. CASE Upsert(h)
  <2>1. /\ pc[h] = "write" /\ kind[h] = "DISPATCH" /\ pc'[h] \in {"deduct", "commit"}
        /\ UNCHANGED <<kind, target>> /\ rowDraft' = [rowDraft EXCEPT ![target[h]] = carry[h]]
    BY <1>5 DEF Upsert, ChangeShipment, request, TypeInv, TypeOK
  <2>2. rowDraft'[target[h]] = carry[h]
    BY <1>0, <2>1 DEF Active, TypeInv, TypeOK
  <2>. QED
    BY <1>0, <2>1, <2>2 DEF Plain, Taking
<1>6. CASE Update(h)
  <2>1. pc'[h] = "credit"
    BY <1>6 DEF Update, TypeInv, TypeOK
  <2>. QED
    BY <2>1 DEF Plain, Taking
<1>7. CASE Claim(h)
  <2>1. /\ pc[h] = "claim" /\ pc'[h] = (IF kind[h] = "CANCEL" THEN "restore" ELSE "undo")
        /\ UNCHANGED <<kind, target, row>> /\ Claimable(kind[h], row[target[h]].status)
        /\ rowDraft' = [rowDraft EXCEPT ![target[h]] =
                           [row[target[h]] EXCEPT !.status =
                                IF kind[h] = "CANCEL" THEN "CANCELLED" ELSE "IN_TRANSIT"]]
    BY <1>7 DEF Claim, ChangeShipment, request, tables, TypeInv, TypeOK
  <2>2. target[h] \in Shipments /\ kind[h] \in {"CANCEL", "UNDO"}
    BY <1>0, <2>1 DEF Active, KindPoint
  <2>3. rowDraft'[target[h]].status =
            IF kind[h] = "CANCEL" THEN "CANCELLED" ELSE "IN_TRANSIT"
    BY <2>1, <2>2 DEF TypeInv, TypeOK, Records
  <2>. QED
    BY <2>1, <2>2, <2>3 DEF Plain, Taking, Claimable
<1>8. CASE Deduct(h) \/ Reserve(h) \/ Restore(h) \/ Release(h) \/ Undo(h)
  <2>1. /\ UNCHANGED <<kind, target, row, rowDraft>>
        /\ pc[h] \in Posting /\ pc'[h] \in {"reserve", "release", "commit"}
        /\ kind[h] = "DISPATCH" => pc[h] \in {"deduct", "reserve"}
        /\ kind[h] = "UNDO" => pc[h] = "undo"
        /\ kind[h] = "CANCEL" => pc[h] \in {"restore", "release"}
    BY <1>0, <1>8 DEF Deduct, Reserve, Restore, Release, Undo, request, tables, Posting,
                      KindPoint, TypeInv, TypeOK
  <2>. QED
    BY <1>0, <2>1 DEF Plain, Taking
<1>9. CASE Credit(h)
  <2>1. kind'[h] = "RECEIVE"
    BY <1>0, <1>9 DEF Credit, request, KindPoint
  <2>. QED
    BY <2>1 DEF Plain, Taking
<1>10. CASE Commit(h) \/ Refreshes(h)
  <2>1. pc'[h] = "refresh"
    BY <1>10, RefreshesKeep DEF Commit, TypeInv, TypeOK
  <2>. QED
    BY <2>1 DEF Plain, Taking
<1>11. CASE Refuses(h) \/ Answer(h)
  <2>1. \E a \in {"ok", "error"} : pc' = [pc EXCEPT ![h] = a]
    BY <1>11, RefusalRollsBack DEF Rollback, Answer
  <2>2. pc'[h] \in {"ok", "error"}
    BY <2>1 DEF TypeInv, TypeOK
  <2>. QED
    BY <2>2 DEF Plain, Taking
<1>. QED
  BY <1>1, <1>2, <1>3, <1>4, <1>5, <1>6, <1>7, <1>8, <1>9, <1>10, <1>11
     DEF Acts, Step, Refuses, Refreshes

LEMMA NextSent ==
    ASSUME OnceSent, TypeInv, PointsInv, UndoInv, NEW h \in Handlers, Acts(h),
           NEW s \in Shipments
    PROVE  NotYetSent(s)'
<1>. SUFFICES ASSUME s \notin sent'
              PROVE  /\ row'[s].status = "NONE"
                     /\ \A g \in Handlers : Active(g)' => target'[g] # s
  BY DEF NotYetSent
<1>1. ASSUME NEW k \in Kinds, NEW p \in Shipments, Begin(h, k, p)
      PROVE  s \notin sent /\ p # s /\ row' = row
             /\ \A g \in Handlers : Active(g)' => target'[g] = p \/ (Active(g) /\ target'[g] = target[g])
  <2>1. s \notin sent /\ row' = row /\ (k = "DISPATCH" => p # s)
    BY <1>1 DEF Begin, tables
  <2>2. k # "DISPATCH" => p # s
    BY <1>1, <2>1, BeginMeets DEF UndoInv, NotYetSent
  <2>3. \A g \in Handlers : g # h => (Active(g)' => Active(g)) /\ target'[g] = target[g]
    BY <1>1, OthersStay DEF Acts, Active
  <2>4. target'[h] = p
    BY <1>1 DEF Begin, TypeInv, TypeOK
  <2>. QED
    BY <2>1, <2>2, <2>3, <2>4
<1>2. ASSUME ~ \E k \in Kinds, p \in Shipments : Begin(h, k, p)
      PROVE  /\ sent' = sent /\ Active(h)
             /\ \A g \in Handlers : Active(g)' => Active(g) /\ target'[g] = target[g]
  <2>1. sent' = sent /\ Active(h) /\ (Active(h)' => target'[h] = target[h])
    <3>1. CASE Probe(h) \/ Mark(h) \/ Send(h) \/ Upsert(h) \/ Update(h) \/ Claim(h)
      BY <3>1 DEF Probe, Mark, Send, Upsert, Update, Claim, request, Active
    <3>2. CASE \/ Deduct(h) \/ Reserve(h) \/ Credit(h) \/ Restore(h) \/ Release(h)
               \/ Undo(h)
      BY <3>2 DEF Deduct, Reserve, Credit, Restore, Release, Undo, request, Active
    <3>3. CASE Commit(h) \/ Refreshes(h)
      BY <3>3, RefreshesKeep DEF Commit, request, Active
    <3>4. CASE Refuses(h) \/ Answer(h)
      <4>1. Active(h) /\ sent' = sent /\ \E a \in {"ok", "error"} : pc' = [pc EXCEPT ![h] = a]
        BY <3>4, RefusalRollsBack DEF Rollback, Answer, Active
      <4>. QED
        BY <4>1 DEF Active, TypeInv, TypeOK
    <3>. QED
      BY <1>2, <3>1, <3>2, <3>3, <3>4 DEF Acts, Step, Refuses, Refreshes
  <2>2. \A g \in Handlers : g # h => (Active(g)' => Active(g)) /\ target'[g] = target[g]
    BY OthersStay DEF Active
  <2>. QED
    BY <2>1, <2>2
<1>3. CASE \E k \in Kinds, p \in Shipments : Begin(h, k, p)
  BY <1>1, <1>3 DEF UndoInv, NotYetSent
<1>4. CASE ~ \E k \in Kinds, p \in Shipments : Begin(h, k, p)
  <2>1. /\ row[s].status = "NONE" /\ \A g \in Handlers : Active(g) => target[g] # s
    BY <1>2, <1>4 DEF UndoInv, NotYetSent
  <2>2. row'[s] = row[s]
    <3>1. CASE Commit(h)
      <4>1. target[h] # s
        BY <1>2, <1>4, <2>1
      <4>2. s \in Shipments \ {target[h]}
        BY <4>1
      <4>. QED
        BY <3>1, <4>2, CommitRow
    <3>. QED
      BY <3>1, TablesCommitted
  <2>. QED
    BY <1>2, <1>4, <2>1, <2>2
<1>. QED
  BY <1>3, <1>4

LEMMA NextTallied ==
    ASSUME TypeInv, PointsInv, UndoInv, NEW h \in Handlers, Acts(h), NEW s \in Shipments
    PROVE  Tallied(s)'
<1>1. Tallied(s) /\ tally[s] \in [Kinds -> Nat]
  BY DEF UndoInv, TypeInv, TypeOK
<1>2. CASE row' = row /\ tally' = tally
  BY <1>1, <1>2 DEF Tallied
<1>3. CASE Commit(h) /\ s # target[h]
  <2>1. s \in Shipments \ {target[h]}
    BY <1>3
  <2>2. row'[s] = row[s] /\ tally'[s] = tally[s]
    BY <1>3, <2>1, CommitRow
  <2>. QED
    BY <1>1, <2>2 DEF Tallied
<1>4. CASE Commit(h) /\ s = target[h]
  <2>. DEFINE k == kind[h]
  <2>1. /\ pc[h] = "commit" /\ k \in Kinds
        /\ tally'[s] = [tally[s] EXCEPT ![k] = @ + 1]
        /\ row'[s] = IF shipLock[s] = h THEN rowDraft[s] ELSE row[s]
        /\ k # "RECEIVE" => shipLock[s] = h
    BY <1>4, CommitRow
  <2>2. Plain(h) /\ Taking(h)
    BY DEF UndoInv
  <2>3. tally[s]["UNDO"] \in Nat /\ tally[s]["RECEIVE"] \in Nat
    BY <1>1 DEF Kinds
  <2>4. CASE k = "RECEIVE"
    <3>1. /\ tally'[s]["RECEIVE"] = tally[s]["RECEIVE"] + 1
          /\ tally'[s]["UNDO"] = tally[s]["UNDO"]
      BY <1>1, <2>1, <2>4 DEF Kinds
    <3>. QED
      BY <1>1, <2>3, <3>1 DEF Tallied
  <2>5. CASE k = "UNDO"
    <3>1. /\ tally'[s]["RECEIVE"] = tally[s]["RECEIVE"]
          /\ tally'[s]["UNDO"] = tally[s]["UNDO"] + 1
      BY <1>1, <2>1, <2>5 DEF Kinds
    <3>2. row'[s].status \notin ReceiptDone /\ row[s].status \in ReceiptDone
      BY <1>4, <2>1, <2>2, <2>5 DEF Taking, ReceiptDone
    <3>. QED
      BY <1>1, <2>3, <3>1, <3>2 DEF Tallied
  <2>6. CASE k \in {"DISPATCH", "CANCEL"}
    <3>1. /\ tally'[s]["RECEIVE"] = tally[s]["RECEIVE"]
          /\ tally'[s]["UNDO"] = tally[s]["UNDO"]
      BY <1>1, <2>1, <2>6 DEF Kinds
    <3>2. row'[s].status \notin ReceiptDone
      BY <1>4, <2>1, <2>2, <2>6 DEF Plain, Taking, InTransit, ReceiptDone
    <3>. QED
      BY <1>1, <2>3, <3>1, <3>2 DEF Tallied
  <2>. QED
    BY <2>1, <2>4, <2>5, <2>6 DEF Kinds
<1>. QED
  BY <1>2, <1>3, <1>4, TablesCommitted

LEMMA UndoAlways == ASSUME OnceSent PROVE Spec => []UndoInv
<1>1. Init => UndoInv
  <2>. SUFFICES ASSUME Init PROVE UndoInv
    OBVIOUS
  <2>1. ASSUME NEW s \in Shipments PROVE NotYetSent(s) /\ Tallied(s)
    BY DEF Init, NotYetSent, Tallied, Active, Absent, ReceiptDone, Kinds
  <2>2. ASSUME NEW h \in Handlers PROVE Alone(h) /\ Plain(h) /\ Taking(h)
    BY DEF Init, Alone, Plain, Taking
  <2>. QED
    BY <2>1, <2>2 DEF UndoInv
<1>2. TypeInv /\ PointsInv /\ UndoInv /\ [Next]_vars => UndoInv'
  <2>. SUFFICES ASSUME TypeInv, PointsInv, UndoInv, [Next]_vars PROVE UndoInv'
    OBVIOUS
  <2>1. CASE UNCHANGED vars
    BY <2>1 DEF vars, tables, drafts, cache, request, UndoInv, NotYetSent, Tallied, Alone,
                Plain, Taking, Active, Held
  <2>2. CASE Next
    <3>1. PICK h \in Handlers : Acts(h)
      BY <2>2, ActionOfHandler
    <3>2. ASSUME NEW s \in Shipments PROVE (NotYetSent(s) /\ Tallied(s))'
      BY <3>1, NextSent, NextTallied
    <3>3. ASSUME NEW g \in Handlers PROVE (Alone(g) /\ Plain(g) /\ Taking(g))'
      BY <3>1, OthersUndo, OwnAlone, OwnPlain
    <3>. QED
      BY <3>2, <3>3 DEF UndoInv
  <2>. QED
    BY <2>1, <2>2
<1>. QED
  BY <1>1, <1>2, TypesAlways, PointsAlways, PTL DEF Spec

(* A receipt is undone at most once for each time the shipment was         *)
(* received, however receipts, cancellations and undos overlap, repeat or  *)
(* fail, provided that no dispatch is sent again under the same id and no  *)
(* request is sent on a shipment that is not in the table: a dispatch      *)
(* writes what its mirror object says by then.                             *)
THEOREM UndoesFollowReceipts ==
    ASSUME "RESEND" \notin Mishaps, "GHOST" \notin Mishaps
    PROVE  Spec => []UndoneOnlyIfReceived
<1>1. TypeInv /\ UndoInv => UndoneOnlyIfReceived
  <2>. SUFFICES ASSUME TypeInv, UndoInv, NEW s \in Shipments
                PROVE  tally[s]["UNDO"] <= tally[s]["RECEIVE"]
    BY DEF UndoneOnlyIfReceived
  <2>1. tally[s]["UNDO"] \in Nat /\ tally[s]["RECEIVE"] \in Nat
    BY DEF TypeInv, TypeOK, Kinds
  <2>. QED
    BY <2>1 DEF UndoInv, Tallied
<1>2. Spec => []UndoInv
  BY UndoAlways DEF OnceSent
<1>. QED
  BY <1>1, <1>2, TypesAlways, PTL

-----------------------------------------------------------------------------
-----------------------------------------------------------------------------
(* Sums over finite sets.  SumFunctionOnSet is a recursive function that   *)
(* removes the element CHOOSE picks; what it is and that the order does    *)
(* not matter is shown on a smallest counterexample each time.             *)

(* A family of finite sets has a set that is minimal in it.                *)
LEMMA MinimalSet ==
    ASSUME NEW S, IsFiniteSet(S), NEW Z \in SUBSET SUBSET S, Z # {}
    PROVE  \E t \in Z : \A x \in t : t \ {x} \notin Z
<1>. DEFINE sizes == {Cardinality(t) : t \in Z}
<1>1. \A t \in SUBSET S : IsFiniteSet(t) /\ Cardinality(t) \in Nat
  BY FS_Subset, FS_CardinalityType
<1>2. sizes \in SUBSET Nat /\ sizes # {}
  BY <1>1
<1>3. PICK n \in sizes : \A m \in sizes : ~ (<<m, n>> \in OpToRel(<, Nat))
  <2>. HIDE DEF sizes
  <2>. QED
    BY <1>2, NatLessThanWellFounded, WFMin
<1>4. \A m \in sizes : ~ (m < n)
  BY <1>2, <1>3 DEF OpToRel
<1>5. PICK t \in Z : Cardinality(t) = n
  OBVIOUS
<1>6. \A x \in t : Cardinality(t \ {x}) < Cardinality(t)
  BY <1>1, FS_RemoveElement
<1>. QED
  BY <1>4, <1>5, <1>6

Picked(s) == CHOOSE x \in s : TRUE
Unrolled(f, g, s) == IF s = {} THEN 0 ELSE f[Picked(s)] + g[s \ {Picked(s)}]
(* g sums f over every subset of S.                                        *)
Sums(f, g, S) == g = [s \in SUBSET S |-> Unrolled(f, g, s)]

LEMMA SumChosen ==
    ASSUME NEW f, NEW S PROVE SumFunctionOnSet(f, S) = (CHOOSE g : Sums(f, g, S))[S]
  BY DEF SumFunctionOnSet, FoldFunctionOnSet, MapThenFoldSet, Sums, Unrolled, Picked

LEMMA SumsAgree ==
    ASSUME NEW S, IsFiniteSet(S), NEW T, NEW f, NEW g, Sums(f, g, S), NEW e, Sums(f, e, T),
           NEW U \in SUBSET S, U \subseteq T
    PROVE  g[U] = e[U]
<1>. DEFINE Z == {s \in SUBSET U : g[s] # e[s]}
<1>1. ASSUME Z # {} PROVE FALSE
  <2>1. IsFiniteSet(U)
    BY FS_Subset
  <2>2. PICK t \in Z : \A x \in t : t \ {x} \notin Z
    BY <1>1, <2>1, MinimalSet
  <2>3. g[t] = Unrolled(f, g, t) /\ e[t] = Unrolled(f, e, t)
    BY DEF Sums
  <2>4. t # {}
    BY <2>3 DEF Unrolled
  <2>5. Picked(t) \in t
    BY <2>4 DEF Picked
  <2>6. g[t \ {Picked(t)}] = e[t \ {Picked(t)}]
    BY <2>2, <2>5
  <2>. QED
    BY <2>3, <2>6 DEF Unrolled
<1>. QED
  BY <1>1

LEMMA SumsRestrict ==
    ASSUME NEW f, NEW g, NEW S, Sums(f, g, S), NEW U \in SUBSET S
    PROVE  Sums(f, [s \in SUBSET U |-> g[s]], U)
<1>. DEFINE e == [s \in SUBSET U |-> g[s]]
<1>1. ASSUME NEW s \in SUBSET U PROVE Unrolled(f, g, s) = Unrolled(f, e, s)
  BY DEF Unrolled
<1>2. ASSUME NEW s \in SUBSET U PROVE g[s] = Unrolled(f, g, s)
  BY DEF Sums
<1>. QED
  BY <1>1, <1>2 DEF Sums

(* Where a sum exists it is the value of every function that sums.         *)
LEMMA SumValue ==
    ASSUME NEW f, NEW g, NEW S, IsFiniteSet(S), Sums(f, g, S), NEW U \in SUBSET S
    PROVE  SumFunctionOnSet(f, U) = g[U]
<1>1. IsFiniteSet(U)
  BY FS_Subset
<1>2. \E e : Sums(f, e, U)
  BY SumsRestrict
<1>. DEFINE c == CHOOSE e : Sums(f, e, U)
<1>3. Sums(f, c, U)
  BY <1>2
<1>4. c[U] = g[U]
  <2>. HIDE DEF c
  <2>. QED
    BY <1>1, <1>3, SumsAgree
<1>. QED
  BY <1>4, SumChosen

LEMMA SumsExist == ASSUME NEW f, NEW S, IsFiniteSet(S) PROVE \E g : Sums(f, g, S)
<1>. DEFINE Z == {s \in SUBSET S : ~ \E g : Sums(f, g, s)}
<1>1. ASSUME Z # {} PROVE FALSE
  <2>1. PICK t \in Z : \A x \in t : t \ {x} \notin Z
    BY <1>1, MinimalSet
  <2>2. IsFiniteSet(t)
    BY FS_Subset
  <2>. DEFINE v == [s \in SUBSET t |-> SumFunctionOnSet(f, s)]
              g == [v EXCEPT ![t] = Unrolled(f, v, t)]
  <2>3. ASSUME NEW s \in SUBSET t, s # t PROVE v[s] = Unrolled(f, v, s)
    <3>1. PICK x \in t : s \subseteq t \ {x}
      BY <2>3
    <3>2. PICK e : Sums(f, e, t \ {x})
      BY <2>1
    <3>3. IsFiniteSet(t \ {x})
      BY <2>2, FS_RemoveElement
    <3>4. \A u \in SUBSET (t \ {x}) : v[u] = e[u]
      BY <3>2, <3>3, SumValue
    <3>5. e[s] = Unrolled(f, e, s)
      BY <3>1, <3>2 DEF Sums
    <3>6. Unrolled(f, e, s) = Unrolled(f, v, s)
      BY <3>1, <3>4 DEF Unrolled
    <3>. QED
      BY <3>1, <3>4, <3>5, <3>6
  <2>4. ASSUME NEW s \in SUBSET t PROVE Unrolled(f, v, s) = Unrolled(f, g, s)
    <3>1. CASE s = {}
      BY <3>1 DEF Unrolled
    <3>2. CASE s # {}
      <4>1. Picked(s) \in s
        BY <3>2 DEF Picked
      <4>2. s \ {Picked(s)} # t
        BY <4>1
      <4>. QED
        BY <4>2 DEF Unrolled
    <3>. QED
      BY <3>1, <3>2
  <2>5. Sums(f, g, t)
    BY <2>3, <2>4 DEF Sums
  <2>. QED
    BY <2>5
<1>. QED
  BY <1>1

LEMMA SumStep ==
    ASSUME NEW f, NEW S, IsFiniteSet(S)
    PROVE  /\ SumFunctionOnSet(f, {}) = 0
           /\ S # {} => /\ Picked(S) \in S
                        /\ SumFunctionOnSet(f, S) =
                             f[Picked(S)] + SumFunctionOnSet(f, S \ {Picked(S)})
<1>1. PICK g : Sums(f, g, S)
  BY SumsExist
<1>2. \A s \in SUBSET S : SumFunctionOnSet(f, s) = g[s]
  BY <1>1, SumValue
<1>3. \A s \in SUBSET S : g[s] = Unrolled(f, g, s)
  BY <1>1 DEF Sums
<1>. QED
  BY <1>2, <1>3 DEF Unrolled, Picked

LEMMA SumType ==
    ASSUME NEW S, IsFiniteSet(S), NEW f, \A x \in S : f[x] \in Nat
    PROVE  SumFunctionOnSet(f, S) \in Nat
<1>. DEFINE Z == {s \in SUBSET S : SumFunctionOnSet(f, s) \notin Nat}
<1>1. ASSUME Z # {} PROVE FALSE
  <2>1. PICK t \in Z : \A x \in t : t \ {x} \notin Z
    BY <1>1, MinimalSet
  <2>2. IsFiniteSet(t)
    BY FS_Subset
  <2>3. CASE t = {}
    <3>1. SumFunctionOnSet(f, {}) = 0
      BY SumStep
    <3>. QED
      BY <2>1, <2>3, <3>1
  <2>4. CASE t # {}
    <3>1. /\ Picked(t) \in t
          /\ SumFunctionOnSet(f, t) = f[Picked(t)] + SumFunctionOnSet(f, t \ {Picked(t)})
      BY <2>2, <2>4, SumStep
    <3>2. f[Picked(t)] \in Nat /\ SumFunctionOnSet(f, t \ {Picked(t)}) \in Nat
      BY <2>1, <3>1
    <3>. QED
      BY <2>1, <3>1, <3>2
  <2>. QED
    BY <2>3, <2>4
<1>. QED
  BY <1>1

(* Any element of a set can be the one that is summed first.               *)
LEMMA SumRemove ==
    ASSUME NEW S, IsFiniteSet(S), NEW f, \A x \in S : f[x] \in Nat, NEW x \in S
    PROVE  SumFunctionOnSet(f, S) = f[x] + SumFunctionOnSet(f, S \ {x})
<1>. DEFINE Sum(s) == SumFunctionOnSet(f, s)
            Z == {s \in SUBSET S : \E y \in s : Sum(s) # f[y] + Sum(s \ {y})}
<1>1. ASSUME Z # {} PROVE FALSE
  <2>1. PICK t \in Z : \A y \in t : t \ {y} \notin Z
    BY <1>1, MinimalSet
  <2>2. PICK y \in t : Sum(t) # f[y] + Sum(t \ {y})
    BY <2>1
  <2>3. \A s \in SUBSET t : IsFiniteSet(s) /\ Sum(s) \in Nat
    <3>1. ASSUME NEW s \in SUBSET t PROVE IsFiniteSet(s) /\ Sum(s) \in Nat
      BY FS_Subset, SumType
    <3>. QED
      BY <3>1
  <2>. DEFINE z == Picked(t)
  <2>4. z \in t /\ Sum(t) = f[z] + Sum(t \ {z})
    BY <2>3, SumStep
  <2>5. z # y
    BY <2>2, <2>4
  <2>6. y \in t \ {z} /\ z \in t \ {y} /\ (t \ {z}) \ {y} = (t \ {y}) \ {z}
    BY <2>4, <2>5
  <2>7. Sum(t \ {z}) = f[y] + Sum((t \ {z}) \ {y}) /\ Sum(t \ {y}) = f[z] + Sum((t \ {y}) \ {z})
    <3>. HIDE DEF Sum, z
    <3>. QED
      BY <2>1, <2>4, <2>6
  <2>8. f[y] \in Nat /\ f[z] \in Nat /\ Sum((t \ {z}) \ {y}) \in Nat
    BY <2>3, <2>4
  <2>. HIDE DEF Sum, z
  <2>. QED
    BY <2>2, <2>4, <2>6, <2>7, <2>8
<1>. QED
  BY <1>1

LEMMA SumAdd ==
    ASSUME NEW S, IsFiniteSet(S), NEW f, NEW x, x \notin S, \A y \in S \cup {x} : f[y] \in Nat
    PROVE  SumFunctionOnSet(f, S \cup {x}) = f[x] + SumFunctionOnSet(f, S)
<1>1. IsFiniteSet(S \cup {x}) /\ (S \cup {x}) \ {x} = S
  BY FS_AddElement
<1>2. SumFunctionOnSet(f, S \cup {x}) = f[x] + SumFunctionOnSet(f, (S \cup {x}) \ {x})
  BY <1>1, SumRemove
<1>. QED
  BY <1>1, <1>2

(* A sum whose function changes in one place.                              *)
LEMMA SumChange ==
    ASSUME NEW S, IsFiniteSet(S), NEW x \in S, NEW f, NEW g,
           \A y \in S : f[y] \in Nat /\ g[y] \in Nat,
           \A y \in S \ {x} : g[y] = f[y]
    PROVE  SumFunctionOnSet(g, S) = SumFunctionOnSet(f, S) - f[x] + g[x]
<1>. DEFINE T == S \ {x}
<1>1. IsFiniteSet(T)
  BY FS_RemoveElement
<1>2. PICK e : Sums(f, e, T)
  BY <1>1, SumsExist
<1>3. \A s \in SUBSET T : Unrolled(f, e, s) = Unrolled(g, e, s)
  <2>1. ASSUME NEW s \in SUBSET T PROVE Unrolled(f, e, s) = Unrolled(g, e, s)
    <3>1. s # {} => Picked(s) \in s
      BY DEF Picked
    <3>. QED
      BY <3>1 DEF Unrolled
  <2>. QED
    BY <2>1
<1>4. Sums(g, e, T)
  BY <1>2, <1>3 DEF Sums
<1>5. SumFunctionOnSet(f, T) = e[T] /\ SumFunctionOnSet(g, T) = e[T]
  BY <1>1, <1>2, <1>4, SumValue
<1>6. /\ SumFunctionOnSet(f, S) = f[x] + SumFunctionOnSet(f, T)
      /\ SumFunctionOnSet(g, S) = g[x] + SumFunctionOnSet(g, T)
  BY SumRemove
<1>7. SumFunctionOnSet(f, T) \in Nat
  BY <1>1, SumType
<1>. QED
  BY <1>5, <1>6, <1>7

(* No term is more than the sum.                                           *)
LEMMA SumCovers ==
    ASSUME NEW S, IsFiniteSet(S), NEW x \in S, NEW f, \A y \in S : f[y] \in Nat
    PROVE  SumFunctionOnSet(f, S) >= f[x]
<1>1. IsFiniteSet(S \ {x})
  BY FS_RemoveElement
<1>2. SumFunctionOnSet(f, S) = f[x] + SumFunctionOnSet(f, S \ {x})
  BY SumRemove
<1>3. SumFunctionOnSet(f, S \ {x}) \in Nat
  BY <1>1, SumType
<1>. QED
  BY <1>2, <1>3

LEMMA BookSum == ASSUME NEW f PROVE Book!SumFunction(f) = SumFunctionOnSet(f, DOMAIN f)
  BY DEF Book!SumFunction, Book!SumFunctionOnSet, Book!FoldFunctionOnSet, SumFunctionOnSet, FoldFunctionOnSet, MapThenFoldSet, Book!MapThenFoldSet

(***************************************************************************)
(* The books.  Where each shipment has one request open at a time and      *)
(* nothing is sent again or out of turn, a receiver reporting no more than *)
(* was sent, the statements of a transaction add up to what its shipment's *)
(* change of status says.                                                  *)
Orderly == Mishaps \subseteq {"STALE"}
ReceiptsFit == \A s \in Shipments : \A r \in Receipts[s] : r <= Route[s].qty

(* One request at a time for each shipment.                                *)
Solo == \A g, h \in Handlers : Active(g) /\ Active(h) /\ g # h => target[g] # target[h]
(* A shipment nobody has sent is not in the mirror, nor on its way there.  *)
Unseen == \A s \in Shipments \ sent :
              heap[s][mirror[s]].status = "NONE" /\ snapshot[s].status = "NONE"
(* So a dispatch is of a shipment that was not there, and has to deduct.   *)
New(h) == Active(h) /\ kind[h] = "DISPATCH" /\ pc[h] # "refresh" => ~exists[h]
SoloInv == Solo /\ Unseen /\ \A h \in Handlers : New(h)

(* What a receipt writes.                                                  *)
Receipt(s, rec) ==
    /\ rec.received <= Route[s].qty
    /\ rec.status = IF rec.received < Route[s].qty THEN "DISCREPANCY" ELSE "RECEIVED"
Receiving(h) ==
    kind[h] = "RECEIVE" =>
        /\ pc[h] = "dated" => carry[h].received <= Qty(h)
        /\ pc[h] \in {"begin", "write"} => Receipt(target[h], Held(h))
        /\ pc[h] = "write" => carry[h] = Held(h)
        /\ pc[h] \in {"credit", "commit"} =>
              /\ Receipt(target[h], carry[h])
              /\ shipLock[target[h]] = h /\ rowDraft[target[h]] = carry[h]
(* What a cancellation and a cancelled receipt write.                      *)
Restating(h) ==
    LET s == target[h]
    IN  /\ kind[h] = "CANCEL" /\ pc[h] \in {"restore", "release", "commit"} =>
              rowDraft[s] = [row[s] EXCEPT !.status = "CANCELLED"]
        /\ kind[h] = "UNDO" /\ pc[h] \in {"undo", "commit"} =>
              rowDraft[s] = [row[s] EXCEPT !.status = "IN_TRANSIT"]
(* What they act on is still on its way.                                   *)
OnItsWay(h) ==
    Active(h) /\ kind[h] \in {"RECEIVE", "CANCEL"} /\ pc[h] # "refresh" =>
        row[target[h]].status = "IN_TRANSIT"
HandInv == /\ \A s \in Shipments : row[s].received <= Route[s].qty
           /\ \A h \in Handlers : Receiving(h) /\ Restating(h) /\ OnItsWay(h)

(* What a transaction has moved so far: at the source, at the destination, *)
(* and of what is announced there.                                         *)
Outgoing(h) ==
    IF kind[h] = "DISPATCH" /\ pc[h] \in {"reserve", "commit"} THEN -Qty(h)
    ELSE IF kind[h] = "CANCEL" /\ pc[h] \in {"release", "commit"} THEN Qty(h)
    ELSE 0
Incoming(h) ==
    IF kind[h] = "RECEIVE" /\ pc[h] = "commit" THEN carry[h].received
    ELSE IF kind[h] = "UNDO" /\ pc[h] = "commit" THEN -rowDraft[target[h]].received
    ELSE 0
Announcing(h) ==
    IF pc[h] # "commit" THEN 0
    ELSE IF kind[h] = "DISPATCH" THEN Qty(h)
    ELSE IF kind[h] = "CANCEL" THEN -Qty(h)
    ELSE -Incoming(h)
MovedHand(h, b) == IF ~Active(h) THEN 0
                   ELSE IF b = From(h) THEN Outgoing(h)
                   ELSE IF b = To(h) THEN Incoming(h)
                   ELSE 0
MovedDue(h, b) == IF Active(h) /\ b = To(h) THEN Announcing(h) ELSE 0
(* The versions of the rows a transaction has locked differ from the table *)
(* by what it moved, and it moved nothing at the others.                   *)
Drafted(h) ==
    \A b \in Branches :
        /\ stockLock[b] # h => MovedHand(h, b) = 0 /\ MovedDue(h, b) = 0
        /\ stockLock[b] = h =>
              /\ stockDraft[b].qoh = stock[b].qoh + MovedHand(h, b)
              /\ stockDraft[b].incoming = stock[b].incoming + MovedDue(h, b)
Undrafted == \A b \in Branches : stockLock[b] = Nobody => stockDraft[b] = stock[b]
DraftInv == Undrafted /\ \A h \in Handlers : Drafted(h)

(* A request that has begun stays with its shipment until it is answered.  *)
LEMMA Continues ==
    ASSUME TypeInv, NEW h \in Handlers, Acts(h),
           ~ \E k \in Kinds, s \in Shipments : Begin(h, k, s)
    PROVE  /\ Active(h) /\ target[h] \in Shipments /\ kind[h] \in Kinds /\ sent' = sent
           /\ Active(h)' => target'[h] = target[h] /\ kind'[h] = kind[h]
           /\ pc[h] = "refresh" /\ Active(h)' => pc'[h] = "refresh"
<1>1. Active(h) => target[h] \in Shipments /\ kind[h] \in Kinds
  BY DEF TypeInv
<1>2. CASE Probe(h) \/ Mark(h) \/ Send(h) \/ Upsert(h) \/ Update(h) \/ Claim(h)
  BY <1>1, <1>2 DEF Probe, Mark, Send, Upsert, Update, Claim, request, Active
<1>3. CASE Deduct(h) \/ Reserve(h) \/ Credit(h) \/ Restore(h) \/ Release(h) \/ Undo(h)
  BY <1>1, <1>3 DEF Deduct, Reserve, Credit, Restore, Release, Undo, request, Active
<1>4. CASE Commit(h) \/ Refreshes(h)
  BY <1>1, <1>4, RefreshesKeep DEF Commit, request, Active
<1>5. CASE Refuses(h) \/ Answer(h)
  <2>1. Active(h) /\ sent' = sent /\ \E a \in {"ok", "error"} : pc' = [pc EXCEPT ![h] = a]
    BY <1>5, RefusalRollsBack DEF Rollback, Answer, Active
  <2>. QED
    BY <1>1, <2>1 DEF Active, TypeInv, TypeOK
<1>. QED
  BY <1>2, <1>3, <1>4, <1>5 DEF Acts, Step, Refuses, Refreshes

LEMMA BeginState ==
    ASSUME TypeInv, NEW h \in Handlers, NEW k \in Kinds, NEW s \in Shipments, Begin(h, k, s)
    PROVE  /\ target'[h] = s /\ kind'[h] = k /\ object'[h] = mirror[s]
           /\ pc'[h] = CASE k = "DISPATCH" -> "probe" [] k = "RECEIVE" -> "dated"
                         [] OTHER -> "claim"
           /\ exists'[h] = (heap[s][mirror[s]].status # "NONE")
           /\ \E r \in (IF k = "RECEIVE" THEN Receipts[s] ELSE {0}) : carry'[h].received = r
           /\ UNCHANGED <<tables, drafts, locks, cache, refresh>>
           /\ sent \subseteq sent'
<1>1. /\ target'[h] = s /\ kind'[h] = k /\ object'[h] = mirror[s]
      /\ pc'[h] = CASE k = "DISPATCH" -> "probe" [] k = "RECEIVE" -> "dated"
                    [] OTHER -> "claim"
      /\ exists'[h] = (heap[s][mirror[s]].status # "NONE")
      /\ UNCHANGED <<tables, drafts, locks, cache, refresh>> /\ sent \subseteq sent'
  BY DEF Begin, TypeInv, TypeOK
<1>2. carry[h] \in Records /\ carry \in [Handlers -> Records]
  BY DEF TypeInv, TypeOK
<1>3. PICK r \in (IF k = "RECEIVE" THEN Receipts[s] ELSE {0}) :
          carry' = [carry EXCEPT ![h].received = r]
  BY DEF Begin
<1>4. carry'[h].received = r
  BY <1>2, <1>3 DEF Records
<1>. QED
  BY <1>1, <1>4

LEMMA NextSolo ==
    ASSUME "OVERLAP" \notin Mishaps, TypeInv, Solo, NEW h \in Handlers, Acts(h)
    PROVE  Solo'
<1>. SUFFICES ASSUME NEW f \in Handlers, NEW g \in Handlers, f # g, Active(f)', Active(g)'
              PROVE  target'[f] # target'[g]
  BY DEF Solo
<1>1. \A i \in Handlers : i # h => (Active(i)' <=> Active(i)) /\ target'[i] = target[i]
  BY OthersStay DEF Active
<1>2. CASE \E k \in Kinds, s \in Shipments : Begin(h, k, s)
  <2>1. PICK k \in Kinds, s \in Shipments : Begin(h, k, s)
    BY <1>2
  <2>2. \A i \in Handlers : Active(i) => target[i] # s
    BY <2>1 DEF Begin, Expected
  <2>3. target'[h] = s
    BY <2>1, BeginState
  <2>. QED
    BY <1>1, <2>2, <2>3 DEF Solo
<1>3. CASE ~ \E k \in Kinds, s \in Shipments : Begin(h, k, s)
  <2>1. Active(h) /\ (Active(h)' => target'[h] = target[h])
    BY <1>3, Continues
  <2>. QED
    BY <1>1, <2>1 DEF Solo
<1>. QED
  BY <1>2, <1>3

LEMMA NextUnseen ==
    ASSUME TypeInv, UndoInv, Unseen, NEW h \in Handlers, Acts(h)
    PROVE  Unseen'
<1>. SUFFICES ASSUME NEW s \in Shipments, s \notin sent'
              PROVE  /\ heap'[s][mirror'[s]].status = "NONE"
                     /\ snapshot'[s].status = "NONE"
  BY DEF Unseen
<1>1. CASE \E k \in Kinds, p \in Shipments : Begin(h, k, p)
  BY <1>1, BeginState DEF Unseen, cache, refresh
<1>2. CASE ~ \E k \in Kinds, p \in Shipments : Begin(h, k, p)
  <2>1. /\ Active(h) /\ target[h] \in Shipments /\ s \notin sent
    BY <1>2, Continues
  <2>2. /\ row[s].status = "NONE" /\ target[h] # s
        /\ heap[s][mirror[s]].status = "NONE" /\ snapshot[s].status = "NONE"
    BY <2>1 DEF UndoInv, NotYetSent, Unseen
  <2>3. CASE Probe(h) \/ Mark(h) \/ Commit(h)
    <3>1. heap'[s] = heap[s] /\ mirror'[s] = mirror[s] /\ snapshot' = snapshot
      BY <2>1, <2>2, <2>3 DEF Probe, Mark, Commit, refresh, TypeInv, TypeOK
    <3>. QED
      BY <2>2, <3>1
  <2>4. CASE StartRefresh(h)
    BY <2>2, <2>4 DEF StartRefresh, cache
  <2>5. CASE ApplyRefresh(h)
    <3>1. mirror'[s] = NewObject(s) /\ NewObject(s) \in Objects \ InUse(s)
          /\ snapshot' = snapshot
      BY <2>5, NewObjectExists DEF ApplyRefresh, Placed
    <3>2. heap'[s][NewObject(s)] = snapshot[s]
      BY <2>5, <3>1 DEF ApplyRefresh
    <3>. QED
      BY <2>2, <3>1, <3>2
  <2>6. CASE Refuses(h)
    BY <2>2, <2>6, RefusalRollsBack DEF Rollback, cache
  <2>7. CASE \/ Send(h) \/ Upsert(h) \/ Update(h) \/ Claim(h)
             \/ SkipRefresh(h) \/ Answer(h)
             \/ Deduct(h) \/ Reserve(h) \/ Credit(h) \/ Restore(h) \/ Release(h) \/ Undo(h)
    BY <2>2, <2>7 DEF Send, Upsert, Update, Claim, SkipRefresh, Placed, Answer, Deduct, Reserve, Credit,
                      Restore, Release, Undo, cache, refresh
  <2>. QED
    BY <1>2, <2>3, <2>4, <2>5, <2>6, <2>7 DEF Acts, Step, Refuses, Refreshes
<1>. QED
  BY <1>1, <1>2

LEMMA OwnNew ==
    ASSUME OnceSent, TypeInv, UndoInv, Unseen, NEW h \in Handlers, New(h), Acts(h)
    PROVE  New(h)'
<1>1. ASSUME NEW k \in Kinds, NEW s \in Shipments, Begin(h, k, s)
      PROVE  New(h)'
  <2>1. k = "DISPATCH" => s \notin sent
    BY <1>1, BeginMeets
  <2>. QED
    BY <1>1, <2>1, BeginState DEF Unseen, New
<1>2. CASE Probe(h)
  <2>1. /\ pc[h] = "probe" /\ kind' = kind /\ target[h] \in Shipments
        /\ exists'[h] = (exists[h] \/ row[target[h]].status # "NONE")
    BY <1>2 DEF Probe, Active, TypeInv, TypeOK
  <2>2. kind[h] = "DISPATCH" => row[target[h]].status = "NONE"
    BY <2>1 DEF UndoInv, Alone, Active
  <2>. QED
    BY <2>1, <2>2 DEF New, Active
<1>3. CASE Mark(h) \/ Send(h) \/ Upsert(h) \/ Update(h) \/ Claim(h)
  BY <1>3 DEF Mark, Send, Upsert, Update, Claim, request, New, Active
<1>4. CASE Deduct(h) \/ Reserve(h) \/ Credit(h) \/ Restore(h) \/ Release(h) \/ Undo(h)
  BY <1>4 DEF Deduct, Reserve, Credit, Restore, Release, Undo, request, New, Active
<1>5. CASE Commit(h) \/ Refreshes(h)
  BY <1>5, RefreshesKeep DEF Commit, request, New, Active, TypeInv, TypeOK
<1>6. CASE Refuses(h) \/ Answer(h)
  <2>1. \E a \in {"ok", "error"} : pc' = [pc EXCEPT ![h] = a]
    BY <1>6, RefusalRollsBack DEF Rollback, Answer
  <2>. QED
    BY <2>1 DEF New, Active, TypeInv, TypeOK
<1>. QED
  BY <1>1, <1>2, <1>3, <1>4, <1>5, <1>6 DEF Acts, Step, Refuses, Refreshes

LEMMA SoloAlways == ASSUME Orderly PROVE Spec => []SoloInv
<1>0. "OVERLAP" \notin Mishaps /\ OnceSent
  BY DEF Orderly, OnceSent
<1>1. Init => SoloInv
  <2>1. FirstObject \in Objects
    BY ShipmentsAssumption DEF FirstObject
  <2>. HIDE DEF FirstObject
  <2>. QED
    BY <2>1 DEF Init, SoloInv, Solo, Unseen, New, Active, Absent
<1>2. TypeInv /\ UndoInv /\ SoloInv /\ [Next]_vars => SoloInv'
  <2>. SUFFICES ASSUME TypeInv, UndoInv, SoloInv, [Next]_vars PROVE SoloInv'
    OBVIOUS
  <2>1. CASE UNCHANGED vars
    BY <2>1 DEF vars, cache, refresh, request, SoloInv, Solo, Unseen, New, Active
  <2>2. CASE Next
    <3>1. PICK h \in Handlers : Acts(h)
      BY <2>2, ActionOfHandler
    <3>2. Solo' /\ Unseen'
      BY <1>0, <3>1, NextSolo, NextUnseen DEF SoloInv
    <3>3. ASSUME NEW g \in Handlers PROVE New(g)'
      <4>1. CASE g = h
        BY <1>0, <3>1, <4>1, OwnNew DEF SoloInv
      <4>2. CASE g # h
        BY <3>1, <4>2, OthersStay DEF SoloInv, New, Active
      <4>. QED
        BY <4>1, <4>2
    <3>. QED
      BY <3>2, <3>3 DEF SoloInv
  <2>. QED
    BY <2>1, <2>2
<1>3. Spec => []UndoInv
  BY <1>0, UndoAlways
<1>. QED
  BY <1>1, <1>2, <1>3, TypesAlways, PTL DEF Spec

(* What a commit changes in the shipments table.                           *)
LEMMA CommitWrites ==
    ASSUME TypeInv, PointsInv, UndoInv, HandInv, NEW h \in Handlers, Commit(h)
    PROVE  /\ pc[h] = "commit" /\ Active(h) /\ target[h] \in Shipments /\ kind[h] \in Kinds
           /\ row' = [row EXCEPT ![target[h]] = rowDraft[target[h]]]
           /\ kind[h] = "DISPATCH" => /\ row[target[h]].status = "NONE"
                                      /\ rowDraft[target[h]] = InTransit
           /\ kind[h] = "RECEIVE" => /\ row[target[h]].status = "IN_TRANSIT"
                                     /\ rowDraft[target[h]] = carry[h]
                                     /\ Receipt(target[h], carry[h])
           /\ kind[h] = "CANCEL" =>
                 /\ row[target[h]].status = "IN_TRANSIT"
                 /\ rowDraft[target[h]] = [row[target[h]] EXCEPT !.status = "CANCELLED"]
           /\ kind[h] = "UNDO" =>
                 /\ row[target[h]].status \in ReceiptDone
                 /\ rowDraft[target[h]] = [row[target[h]] EXCEPT !.status = "IN_TRANSIT"]
<1>. DEFINE s == target[h]
<1>1. /\ pc[h] = "commit" /\ Active(h) /\ s \in Shipments /\ kind[h] \in Kinds
      /\ \A p \in Shipments \ {s} : row'[p] = row[p]
      /\ row'[s] = IF shipLock[s] = h THEN rowDraft[s] ELSE row[s]
      /\ kind[h] # "RECEIVE" => shipLock[s] = h
  BY CommitRow
<1>2. Receiving(h) /\ Restating(h) /\ OnItsWay(h) /\ Alone(h) /\ Plain(h) /\ Taking(h)
  BY DEF HandInv, UndoInv
<1>3. kind[h] = "RECEIVE" => /\ shipLock[s] = h /\ rowDraft[s] = carry[h]
                             /\ Receipt(s, carry[h])
  BY <1>1, <1>2 DEF Receiving
<1>4. row' = [row EXCEPT ![s] = rowDraft[s]]
  <2>1. row'[s] = rowDraft[s]
    BY <1>1, <1>3
  <2>2. row \in [Shipments -> Records] /\ row' = [p \in Shipments |-> row'[p]]
    BY DEF Commit, Overlay, TypeInv, TypeOK
  <2>. QED
    BY <1>1, <2>1, <2>2
<1>5. CASE kind[h] = "DISPATCH"
  BY <1>1, <1>2, <1>4, <1>5 DEF Alone, Plain
<1>6. CASE kind[h] = "RECEIVE"
  BY <1>1, <1>2, <1>3, <1>4, <1>6 DEF OnItsWay
<1>7. CASE kind[h] = "CANCEL"
  BY <1>1, <1>2, <1>4, <1>7 DEF OnItsWay, Restating
<1>8. CASE kind[h] = "UNDO"
  BY <1>1, <1>2, <1>4, <1>8 DEF Taking, Restating
<1>. QED
  BY <1>1, <1>5, <1>6, <1>7, <1>8 DEF Kinds

LEMMA NextRows ==
    ASSUME TypeInv, PointsInv, UndoInv, HandInv, NEW h \in Handlers, Acts(h),
           NEW s \in Shipments
    PROVE  row'[s].received <= Route[s].qty
<1>0. /\ row[s] \in Records /\ row[s].received <= Route[s].qty /\ Route[s].qty \in Nat
  BY ShipmentsAssumption DEF HandInv, TypeInv, TypeOK
<1>1. CASE row' = row
  BY <1>0, <1>1
<1>2. CASE Commit(h)
  <2>1. /\ row' = [row EXCEPT ![target[h]] = rowDraft[target[h]]]
        /\ kind[h] \in Kinds
    BY <1>2, CommitWrites
  <2>2. CASE s # target[h]
    BY <1>0, <2>1, <2>2 DEF TypeInv, TypeOK
  <2>3. CASE s = target[h]
    <3>1. row'[s] = rowDraft[s]
      BY <2>1, <2>3 DEF TypeInv, TypeOK
    <3>2. CASE kind[h] = "DISPATCH"
      <4>1. rowDraft[target[h]] = InTransit
        BY <1>2, <3>2, CommitWrites
      <4>2. row'[s].received = 0
        BY <2>3, <3>1, <4>1 DEF InTransit
      <4>. QED
        BY <1>0, <4>2
    <3>3. CASE kind[h] = "RECEIVE"
      BY <1>2, <2>3, <3>1, <3>3, CommitWrites DEF Receipt
    <3>4. CASE kind[h] \in {"CANCEL", "UNDO"}
      <4>1. \E st : rowDraft[s] = [row[s] EXCEPT !.status = st]
        BY <1>2, <2>3, <3>4, CommitWrites
      <4>. QED
        BY <1>0, <3>1, <4>1 DEF Records
    <3>. QED
      BY <2>1, <3>2, <3>3, <3>4 DEF Kinds
  <2>. QED
    BY <2>2, <2>3
<1>. QED
  BY <1>1, <1>2, TablesCommitted

LEMMA OwnHand ==
    ASSUME Orderly, ReceiptsFit, TypeInv, PointsInv, UndoInv, HandInv,
           NEW h \in Handlers, Acts(h)
    PROVE  (Receiving(h) /\ Restating(h) /\ OnItsWay(h))'
<1>0. /\ Receiving(h) /\ Restating(h) /\ OnItsWay(h) /\ KindPoint(h)
      /\ Active(h) => target[h] \in Shipments /\ kind[h] \in Kinds
  BY DEF HandInv, PointsInv, TypeInv
<1>1. ASSUME NEW k \in Kinds, NEW s \in Shipments, Begin(h, k, s)
      PROVE  (Receiving(h) /\ Restating(h) /\ OnItsWay(h))'
  <2>1. PICK r \in (IF k = "RECEIVE" THEN Receipts[s] ELSE {0}) : carry'[h].received = r
    BY <1>1, BeginState
  <2>2. /\ target'[h] = s /\ kind'[h] = k /\ row' = row
        /\ pc'[h] \in {"probe", "dated", "claim"}
    BY <1>1, BeginState DEF tables
  <2>3. k \in {"RECEIVE", "CANCEL"} => row[s].status = "IN_TRANSIT"
    BY <1>1 DEF Begin, Expected, Orderly
  <2>4. k = "RECEIVE" => r <= Route[s].qty
    BY <2>1 DEF ReceiptsFit
  <2>. QED
    BY <2>1, <2>2, <2>3, <2>4 DEF Receiving, Restating, OnItsWay, Qty
<1>2. CASE Probe(h)
  <2>1. kind'[h] = "DISPATCH"
    BY <1>0, <1>2 DEF Probe, KindPoint
  <2>. QED
    BY <2>1 DEF Receiving, Restating, OnItsWay
<1>3. CASE Mark(h)
  <2>. DEFINE r == carry[h].received
              rec == [status |-> IF r < Qty(h) THEN "DISCREPANCY" ELSE "RECEIVED",
                      received |-> r]
  <2>1. /\ pc[h] = "dated" /\ pc'[h] = "begin" /\ Active(h)
        /\ UNCHANGED <<kind, target, object, row>>
        /\ heap' = [heap EXCEPT ![target[h]][object[h]] = rec]
    BY <1>3 DEF Mark, request, tables, Active, TypeInv, TypeOK
  <2>2. heap'[target[h]][object[h]] = rec
    BY <1>0, <2>1 DEF TypeInv, TypeOK
  <2>3. kind[h] = "RECEIVE" /\ r <= Route[target[h]].qty
    BY <1>0, <2>1 DEF KindPoint, Receiving, Qty
  <2>4. Receipt(target[h], rec)
    BY <2>3 DEF Receipt, Qty
  <2>. QED
    BY <1>0, <2>1, <2>2, <2>3, <2>4 DEF Receiving, Restating, OnItsWay, Held, Active
<1>4. CASE Send(h)
  <2>1. /\ pc[h] = "begin" /\ pc'[h] = "write" /\ Active(h)
        /\ UNCHANGED <<kind, target, object, row, heap>> /\ carry'[h] = Held(h)
    BY <1>4 DEF Send, request, tables, cache, Active, TypeInv, TypeOK
  <2>. QED
    BY <1>0, <2>1 DEF Receiving, Restating, OnItsWay, Held, Active
<1>5. CASE Upsert(h)
  <2>1. kind'[h] = "DISPATCH"
    BY <1>5 DEF Upsert, request
  <2>. QED
    BY <2>1 DEF Receiving, Restating, OnItsWay
<1>6. CASE Update(h)
  <2>1. /\ pc[h] = "write" /\ pc'[h] = "credit" /\ Active(h) /\ kind[h] = "RECEIVE"
        /\ UNCHANGED <<kind, target, row>> /\ carry'[h] = Held(h)
    BY <1>6 DEF Update, request, tables, Active, TypeInv, TypeOK
  <2>2. /\ row[target[h]].status = "IN_TRANSIT" /\ Held(h) = carry[h]
        /\ Receipt(target[h], carry[h])
    BY <1>0, <2>1 DEF OnItsWay, Receiving
  <2>3. shipLock'[target[h]] = h /\ rowDraft'[target[h]] = carry[h]
    BY <1>0, <1>6, <2>1, <2>2 DEF Update, ChangeShipment, TypeInv, TypeOK
  <2>. QED
    BY <2>1, <2>2, <2>3 DEF Receiving, Restating, OnItsWay
<1>7. CASE Claim(h)
  <2>1. /\ pc[h] = "claim" /\ pc'[h] = (IF kind[h] = "CANCEL" THEN "restore" ELSE "undo")
        /\ Active(h) /\ UNCHANGED <<kind, target, row>>
        /\ rowDraft' = [rowDraft EXCEPT ![target[h]] =
                           [row[target[h]] EXCEPT !.status =
                                IF kind[h] = "CANCEL" THEN "CANCELLED" ELSE "IN_TRANSIT"]]
    BY <1>7 DEF Claim, ChangeShipment, request, tables, Active, TypeInv, TypeOK
  <2>2. rowDraft'[target[h]] = [row[target[h]] EXCEPT !.status =
                                    IF kind[h] = "CANCEL" THEN "CANCELLED" ELSE "IN_TRANSIT"]
    BY <1>0, <2>1 DEF TypeInv, TypeOK
  <2>3. kind[h] \in {"CANCEL", "UNDO"}
    BY <1>0, <2>1 DEF KindPoint
  <2>. QED
    BY <1>0, <2>1, <2>2, <2>3 DEF Receiving, Restating, OnItsWay
<1>8. CASE Deduct(h) \/ Reserve(h) \/ Credit(h) \/ Restore(h) \/ Release(h) \/ Undo(h)
  <2>1. /\ UNCHANGED <<kind, target, row, rowDraft, shipLock, carry>> /\ Active(h)
        /\ kind[h] = "RECEIVE" => pc[h] = "credit" /\ pc'[h] = "commit"
        /\ kind[h] = "CANCEL" => pc[h] \in {"restore", "release"}
        /\ kind[h] = "UNDO" => pc[h] = "undo"
        /\ pc[h] # "refresh"
    BY <1>0, <1>8 DEF Deduct, Reserve, Credit, Restore, Release, Undo, request, tables,
                      KindPoint, Active, TypeInv, TypeOK
  <2>. QED
    BY <1>0, <2>1 DEF Receiving, Restating, OnItsWay
<1>9. CASE Commit(h) \/ Refreshes(h)
  <2>1. pc'[h] = "refresh"
    BY <1>9, RefreshesKeep DEF Commit, TypeInv, TypeOK
  <2>. QED
    BY <2>1 DEF Receiving, Restating, OnItsWay
<1>10. CASE Refuses(h) \/ Answer(h)
  <2>1. \E a \in {"ok", "error"} : pc' = [pc EXCEPT ![h] = a]
    BY <1>10, RefusalRollsBack DEF Rollback, Answer
  <2>2. pc'[h] \in {"ok", "error"}
    BY <2>1 DEF TypeInv, TypeOK
  <2>. QED
    BY <2>2 DEF Receiving, Restating, OnItsWay, Active
<1>. QED
  BY <1>1, <1>2, <1>3, <1>4, <1>5, <1>6, <1>7, <1>8, <1>9, <1>10 DEF Acts, Step, Refuses, Refreshes

LEMMA OthersHand ==
    ASSUME TypeInv, PointsInv, UndoInv, Solo, HandInv, NEW h \in Handlers, Acts(h),
           NEW g \in Handlers, g # h
    PROVE  (Receiving(g) /\ Restating(g) /\ OnItsWay(g))'
<1>1. /\ pc'[g] = pc[g] /\ kind'[g] = kind[g] /\ target'[g] = target[g]
      /\ object'[g] = object[g] /\ carry'[g] = carry[g]
  BY OthersStay
<1>2. Receiving(g) /\ Restating(g) /\ OnItsWay(g) /\ HoldsRow(g)
  BY DEF HandInv, PointsInv
<1>3. CASE ~Active(g)
  BY <1>1, <1>3 DEF Receiving, Restating, OnItsWay, Active
<1>4. CASE Active(g)
  <2>1. target[g] \in Shipments /\ (Active(h) => target[h] # target[g])
    BY <1>4 DEF Solo, TypeInv
  <2>2. row'[target[g]] = row[target[g]]
    <3>1. CASE Commit(h)
      <4>1. target[g] \in Shipments \ {target[h]}
        BY <2>1, <3>1, CommitRow
      <4>. QED
        BY <3>1, <4>1, CommitRow
    <3>. QED
      BY <3>1, TablesCommitted
  <2>3. /\ shipLock'[target[g]] = g <=> shipLock[target[g]] = g
        /\ shipLock[target[g]] = g => rowDraft'[target[g]] = rowDraft[target[g]]
    BY <2>1, OthersRows
  <2>4. pc[g] \in {"begin", "write"} =>
            heap'[target[g]][object[g]] = heap[target[g]][object[g]]
    BY <1>4, <2>1, HeldStays
  <2>5. Receiving(g)'
    BY <1>1, <1>2, <2>3, <2>4 DEF Receiving, Held, Qty
  <2>6. (Restating(g) /\ OnItsWay(g))'
    BY <1>1, <1>2, <2>2, <2>3 DEF Restating, OnItsWay, HoldsRow, Posting, Active
  <2>. QED
    BY <2>5, <2>6
<1>. QED
  BY <1>3, <1>4

LEMMA HandAlways == ASSUME Orderly, ReceiptsFit PROVE Spec => []HandInv
<1>0. OnceSent
  BY DEF Orderly, OnceSent
<1>1. Init => HandInv
  <2>. SUFFICES ASSUME Init PROVE HandInv
    OBVIOUS
  <2>1. ASSUME NEW s \in Shipments PROVE row[s].received <= Route[s].qty
    <3>1. Route[s].qty \in Nat
      BY ShipmentsAssumption
    <3>. QED
      BY <3>1 DEF Init, Absent
  <2>2. ASSUME NEW h \in Handlers PROVE Receiving(h) /\ Restating(h) /\ OnItsWay(h)
    BY DEF Init, Receiving, Restating, OnItsWay
  <2>. QED
    BY <2>1, <2>2 DEF HandInv
<1>2. TypeInv /\ PointsInv /\ UndoInv /\ SoloInv /\ HandInv /\ [Next]_vars => HandInv'
  <2>. SUFFICES ASSUME TypeInv, PointsInv, UndoInv, SoloInv, HandInv, [Next]_vars
                PROVE  HandInv'
    OBVIOUS
  <2>1. CASE UNCHANGED vars
    BY <2>1 DEF vars, tables, drafts, locks, cache, request, HandInv, Receiving, Restating,
                OnItsWay, Active, Held, Qty
  <2>2. CASE Next
    <3>1. PICK h \in Handlers : Acts(h)
      BY <2>2, ActionOfHandler
    <3>2. \A s \in Shipments : row'[s].received <= Route[s].qty
      BY <3>1, NextRows
    <3>3. ASSUME NEW g \in Handlers PROVE (Receiving(g) /\ Restating(g) /\ OnItsWay(g))'
      BY <3>1, OwnHand, OthersHand DEF SoloInv
    <3>. QED
      BY <3>2, <3>3 DEF HandInv
  <2>. QED
    BY <2>1, <2>2
<1>3. Spec => []UndoInv /\ []SoloInv
  BY <1>0, UndoAlways, SoloAlways
<1>. QED
  BY <1>1, <1>2, <1>3, TypesAlways, PointsAlways, PTL DEF Spec

(* The terms of the book's sums.                                           *)
LEMMA BookTerms ==
    ASSUME TypeInv, HandInv, NEW b \in Branches, NEW s \in Shipments
    PROVE  /\ Book!Taken(b)[s] \in Nat
           /\ Book!Brought(b)[s] \in Nat
           /\ Book!Due(b)[s] \in Nat
<1>1. /\ Route[s].qty \in Nat /\ row[s].received \in Nat
      /\ row[s].received <= Route[s].qty
  BY ShipmentsAssumption DEF HandInv, TypeInv, TypeOK, Records
<1>. QED
  BY <1>1 DEF Book!Taken, Book!Brought, Book!Due

LEMMA BookTypes ==
    ASSUME IsFiniteSet(Shipments), TypeInv, HandInv, NEW b \in Branches
    PROVE  Book!OnHand(b) \in Int /\ Book!Announced(b) \in Nat
<1>. DEFINE sum(f) == SumFunctionOnSet(f, Shipments)
<1>1. /\ Book!OnHand(b) = InitStock[b] - sum(Book!Taken(b)) + sum(Book!Brought(b))
      /\ Book!Announced(b) = sum(Book!Due(b))
  BY BookSum DEF Book!OnHand, Book!Announced, Book!Taken, Book!Brought, Book!Due
<1>2. /\ sum(Book!Taken(b)) \in Nat /\ sum(Book!Brought(b)) \in Nat
      /\ sum(Book!Due(b)) \in Nat
  BY BookTerms, SumType
<1>. QED
  BY <1>1, <1>2, ShipmentsAssumption

(* What a shipment on its way has announced is part of what is announced.  *)
LEMMA DueCovers ==
    ASSUME IsFiniteSet(Shipments), TypeInv, HandInv, NEW s \in Shipments,
           row[s].status = "IN_TRANSIT"
    PROVE  Book!Announced(Route[s].to) >= Route[s].qty
<1>. DEFINE b == Route[s].to
<1>1. b \in Branches /\ Route[s].qty \in Nat
  BY ShipmentsAssumption
<1>2. Book!Announced(b) = SumFunctionOnSet(Book!Due(b), Shipments)
  BY BookSum DEF Book!Announced, Book!Due
<1>3. \A p \in Shipments : Book!Due(b)[p] \in Nat
  BY <1>1, BookTerms
<1>4. Book!Due(b)[s] = Route[s].qty
  BY <1>1 DEF Book!Due, Book!Gone, Book!Arrived
<1>. QED
  BY <1>2, <1>3, <1>4, SumCovers

(* When one shipment's row changes, the books change by its terms.         *)
LEMMA BookChange ==
    ASSUME IsFiniteSet(Shipments), TypeInv, HandInv, TypeInv', HandInv',
           NEW p \in Shipments, NEW rec, row' = [row EXCEPT ![p] = rec],
           NEW b \in Branches
    PROVE  /\ Book!OnHand(b)' = Book!OnHand(b) + (Book!Taken(b)[p] - (Book!Taken(b)')[p])
                                               + ((Book!Brought(b)')[p] - Book!Brought(b)[p])
           /\ Book!Announced(b)' = Book!Announced(b) + ((Book!Due(b)')[p] - Book!Due(b)[p])
<1>. DEFINE sum(f) == SumFunctionOnSet(f, Shipments)
<1>1. /\ Book!OnHand(b) = InitStock[b] - sum(Book!Taken(b)) + sum(Book!Brought(b))
      /\ Book!Announced(b) = sum(Book!Due(b))
      /\ Book!OnHand(b)' = InitStock[b] - sum(Book!Taken(b)') + sum(Book!Brought(b)')
      /\ Book!Announced(b)' = sum(Book!Due(b)')
  BY BookSum DEF Book!OnHand, Book!Announced, Book!Taken, Book!Brought, Book!Due
<1>2. \A s \in Shipments :
          /\ Book!Taken(b)[s] \in Nat /\ Book!Brought(b)[s] \in Nat /\ Book!Due(b)[s] \in Nat
          /\ (Book!Taken(b)')[s] \in Nat /\ (Book!Brought(b)')[s] \in Nat
          /\ (Book!Due(b)')[s] \in Nat
  <2>1. ASSUME NEW s \in Shipments
        PROVE  /\ (Book!Taken(b)')[s] \in Nat /\ (Book!Brought(b)')[s] \in Nat
               /\ (Book!Due(b)')[s] \in Nat
    <3>1. /\ Route[s].qty \in Nat /\ row'[s].received \in Nat
          /\ row'[s].received <= Route[s].qty
      BY ShipmentsAssumption DEF HandInv, TypeInv, TypeOK, Records
    <3>. QED
      BY <3>1 DEF Book!Taken, Book!Brought, Book!Due
  <2>. QED
    BY <2>1, BookTerms
<1>3. \A s \in Shipments \ {p} :
          /\ (Book!Taken(b)')[s] = Book!Taken(b)[s]
          /\ (Book!Brought(b)')[s] = Book!Brought(b)[s]
          /\ (Book!Due(b)')[s] = Book!Due(b)[s]
  <2>1. \A s \in Shipments \ {p} : row'[s] = row[s]
    BY DEF TypeInv, TypeOK
  <2>. QED
    BY <2>1 DEF Book!Taken, Book!Brought, Book!Due, Book!Gone, Book!Arrived
<1>4. sum(Book!Taken(b)') = sum(Book!Taken(b)) - Book!Taken(b)[p] + (Book!Taken(b)')[p]
  BY <1>2, <1>3, SumChange
<1>5. sum(Book!Brought(b)')
          = sum(Book!Brought(b)) - Book!Brought(b)[p] + (Book!Brought(b)')[p]
  BY <1>2, <1>3, SumChange
<1>6. sum(Book!Due(b)') = sum(Book!Due(b)) - Book!Due(b)[p] + (Book!Due(b)')[p]
  BY <1>2, <1>3, SumChange
<1>7. /\ sum(Book!Taken(b)) \in Nat /\ sum(Book!Brought(b)) \in Nat
      /\ sum(Book!Due(b)) \in Nat /\ InitStock[b] \in Int
  BY <1>2, SumType, ShipmentsAssumption
<1>. HIDE DEF sum
<1>. QED
  BY <1>1, <1>2, <1>4, <1>5, <1>6, <1>7

LEMMA CommitBooks ==
    ASSUME IsFiniteSet(Shipments), TypeInv, PointsInv, UndoInv, HandInv, TypeInv', HandInv',
           NEW h \in Handlers, Commit(h), NEW b \in Branches
    PROVE  /\ Book!OnHand(b)' = Book!OnHand(b) + MovedHand(h, b)
           /\ Book!Announced(b)' = Book!Announced(b) + MovedDue(h, b)
<1>. DEFINE s == target[h]
            rec == rowDraft[s]
<1>1. /\ pc[h] = "commit" /\ Active(h) /\ s \in Shipments /\ kind[h] \in Kinds
      /\ row' = [row EXCEPT ![s] = rec]
  BY CommitWrites
<1>2. /\ Book!OnHand(b)' = Book!OnHand(b) + (Book!Taken(b)[s] - (Book!Taken(b)')[s])
                                          + ((Book!Brought(b)')[s] - Book!Brought(b)[s])
      /\ Book!Announced(b)' = Book!Announced(b) + ((Book!Due(b)')[s] - Book!Due(b)[s])
  BY <1>1, BookChange
<1>3. /\ Route[s].qty \in Nat /\ Route[s].from # Route[s].to
      /\ row[s] \in Records /\ rec \in Records /\ row'[s] = rec
      /\ Book!OnHand(b) \in Int /\ Book!Announced(b) \in Int
  <2>1. Route[s].qty \in Nat /\ Route[s].from # Route[s].to
    BY <1>1, ShipmentsAssumption
  <2>2. row[s] \in Records /\ rec \in Records /\ row'[s] = rec
    BY <1>1 DEF TypeInv, TypeOK
  <2>3. Book!OnHand(b) \in Int /\ Book!Announced(b) \in Int
    BY BookTypes
  <2>. QED
    BY <2>1, <2>2, <2>3
<1>6. kind[h] = "DISPATCH" => row[s].status = "NONE" /\ rec.status = "IN_TRANSIT"
  <2>1. kind[h] = "DISPATCH" => row[s].status = "NONE" /\ rec = InTransit
    BY CommitWrites
  <2>. QED
    BY <2>1 DEF InTransit
<1>4. /\ Book!Taken(b)[s] - (Book!Taken(b)')[s] + ((Book!Brought(b)')[s] - Book!Brought(b)[s])
             = MovedHand(h, b)
      /\ (Book!Due(b)')[s] - Book!Due(b)[s] = MovedDue(h, b)
  <2>. USE DEF Book!Taken, Book!Brought, Book!Due, Book!Gone, Book!Arrived, MovedHand,
               MovedDue, Outgoing, Incoming, Announcing, From, To, Qty, Records
  <2>1. CASE kind[h] = "DISPATCH"
    BY <1>1, <1>3, <1>6, <2>1
  <2>2. CASE kind[h] = "RECEIVE"
    <3>1. /\ row[s].status = "IN_TRANSIT" /\ rec = carry[h]
          /\ rec.status \in {"RECEIVED", "DISCREPANCY"}
      BY <2>2, CommitWrites DEF Receipt
    <3>. QED
      BY <1>1, <1>3, <2>2, <3>1
  <2>3. CASE kind[h] = "CANCEL"
    <3>1. row[s].status = "IN_TRANSIT" /\ rec.status = "CANCELLED"
      BY <1>3, <2>3, CommitWrites
    <3>. QED
      BY <1>1, <1>3, <2>3, <3>1
  <2>4. CASE kind[h] = "UNDO"
    <3>1. /\ row[s].status \in {"RECEIVED", "DISCREPANCY"} /\ rec.status = "IN_TRANSIT"
          /\ rec.received = row[s].received
      BY <1>3, <2>4, CommitWrites DEF ReceiptDone
    <3>. QED
      BY <1>1, <1>3, <2>4, <3>1
  <2>. QED
    BY <1>1, <2>1, <2>2, <2>3, <2>4 DEF Kinds
<1>5. /\ Book!Taken(b)[s] \in Int /\ (Book!Taken(b)')[s] \in Int
      /\ Book!Brought(b)[s] \in Int /\ (Book!Brought(b)')[s] \in Int
      /\ Book!Due(b)[s] \in Int /\ (Book!Due(b)')[s] \in Int
  BY <1>1, <1>3 DEF Book!Taken, Book!Brought, Book!Due, Records
<1>. QED
  BY <1>2, <1>3, <1>4, <1>5

BooksInv == DraftInv /\ StockMatchesShipments

(* What a handler does to the stock rows that another has locked: nothing. *)
LEMMA OthersStock ==
    ASSUME TypeInv, NEW h \in Handlers, NEW g \in Handlers, g # h, Acts(h),
           NEW b \in Branches
    PROVE  /\ stockLock'[b] = g <=> stockLock[b] = g
           /\ stockLock[b] = g => stockDraft'[b] = stockDraft[b] /\ stock'[b] = stock[b]
<1>0. g # Nobody
  BY ShipmentsAssumption
<1>1. CASE \E k \in Kinds, p \in Shipments : Begin(h, k, p)
  BY <1>1 DEF Begin, tables, drafts, locks
<1>2. CASE Probe(h) \/ Mark(h) \/ Send(h) \/ Refreshes(h)
  BY <1>2, RefreshesKeep DEF Probe, Mark, Send, tables, drafts, locks
<1>3. CASE Upsert(h) \/ Update(h) \/ Claim(h)
  BY <1>3 DEF Upsert, Update, Claim, tables
<1>4. CASE Deduct(h) \/ Reserve(h) \/ Credit(h) \/ Restore(h) \/ Release(h) \/ Undo(h)
  <2>1. /\ stock' = stock
        /\ \/ UNCHANGED <<stockDraft, stockLock>>
           \/ \E c, dq, di : ChangeStock(h, c, dq, di)
    <3>1. CASE Deduct(h) \/ Reserve(h) \/ Credit(h)
      BY <3>1 DEF Deduct, Reserve, Credit, tables
    <3>2. CASE Restore(h) \/ Release(h)
      BY <3>2 DEF Restore, Release, tables
    <3>3. CASE Undo(h)
      BY <3>3 DEF Undo, tables
    <3>. QED
      BY <1>4, <3>1, <3>2, <3>3
  <2>. QED
    BY <1>0, <2>1 DEF ChangeStock, Free, TypeInv, TypeOK
<1>5. CASE Commit(h)
  BY <1>0, <1>5 DEF Commit, Overlay, ReleaseLocks, Freed, drafts, TypeInv, TypeOK
<1>6. CASE Refuses(h)
  <2>1. Rollback(h)
    BY <1>6, RefusalRollsBack
  <2>. QED
    BY <1>0, <2>1 DEF Rollback, Overlay, ReleaseLocks, Freed, tables, TypeInv, TypeOK
<1>7. CASE Answer(h)
  BY <1>7 DEF Answer, tables, drafts, locks
<1>. QED
  BY <1>1, <1>2, <1>3, <1>4, <1>5, <1>6, <1>7 DEF Acts, Step, Refuses, Refreshes

LEMMA OthersDrafted ==
    ASSUME TypeInv, PointsInv, DraftInv, NEW h \in Handlers, NEW g \in Handlers, g # h,
           Acts(h)
    PROVE  Drafted(g)'
<1>1. /\ pc'[g] = pc[g] /\ kind'[g] = kind[g] /\ target'[g] = target[g]
      /\ carry'[g] = carry[g]
  BY OthersStay
<1>2. Drafted(g) /\ HoldsRow(g) /\ (Active(g) => target[g] \in Shipments)
  BY DEF DraftInv, PointsInv, TypeInv
<1>3. Active(g) /\ kind[g] = "UNDO" /\ pc[g] = "commit" =>
          rowDraft'[target[g]] = rowDraft[target[g]]
  BY <1>2, OthersRows DEF HoldsRow, Posting
<1>4. \A b \in Branches : MovedHand(g, b)' = MovedHand(g, b) /\ MovedDue(g, b)' = MovedDue(g, b)
  BY <1>1, <1>3 DEF MovedHand, MovedDue, Outgoing, Incoming, Announcing, From, To, Qty, Active
<1>5. \A b \in Branches :
          /\ stockLock'[b] = g <=> stockLock[b] = g
          /\ stockLock[b] = g => stockDraft'[b] = stockDraft[b] /\ stock'[b] = stock[b]
  BY OthersStock
<1>. QED
  BY <1>2, <1>4, <1>5 DEF Drafted

(* The amounts are integers, and what a handler sees of a row that it may  *)
(* lock is the table with what it moved.                                   *)
LEMMA MovedTypes ==
    ASSUME TypeInv, NEW h \in Handlers, NEW b \in Branches
    PROVE  MovedHand(h, b) \in Int /\ MovedDue(h, b) \in Int
<1>1. Active(h) => /\ Qty(h) \in Int /\ carry[h].received \in Int
                   /\ rowDraft[target[h]].received \in Int
  BY RouteTypes DEF TypeInv, TypeOK, Records
<1>. QED
  BY <1>1 DEF MovedHand, MovedDue, Outgoing, Incoming, Announcing

LEMMA StatementDrafts ==
    ASSUME TypeInv, DraftInv, NEW h \in Handlers, NEW b \in Branches,
           NEW dq \in Int, NEW di \in Int, ChangeStock(h, b, dq, di), stock' = stock,
           MovedHand(h, b)' = MovedHand(h, b) + dq, MovedDue(h, b)' = MovedDue(h, b) + di,
           \A c \in Branches \ {b} : /\ MovedHand(h, c)' = MovedHand(h, c)
                                     /\ MovedDue(h, c)' = MovedDue(h, c),
           stock[b].incoming + MovedDue(h, b) + di >= 0
    PROVE  Undrafted' /\ Drafted(h)'
<1>1. /\ stock[b].qoh \in Int /\ stock[b].incoming \in Int
      /\ stockDraft[b].qoh \in Int /\ stockDraft[b].incoming \in Int
      /\ MovedHand(h, b) \in Int /\ MovedDue(h, b) \in Int /\ h # Nobody
  BY MovedTypes, ShipmentsAssumption DEF TypeInv, TypeOK
<1>2. /\ stockDraft[b].qoh = stock[b].qoh + MovedHand(h, b)
      /\ stockDraft[b].incoming = stock[b].incoming + MovedDue(h, b)
  <2>1. CASE stockLock[b] = h
    BY <2>1 DEF DraftInv, Drafted
  <2>2. CASE stockLock[b] = Nobody
    BY <1>1, <2>2 DEF DraftInv, Drafted, Undrafted
  <2>. QED
    BY <2>1, <2>2 DEF ChangeStock, Free
<1>3. /\ stockLock' = [stockLock EXCEPT ![b] = h]
      /\ stockDraft' = [stockDraft EXCEPT
            ![b] = [qoh |-> @.qoh + dq, incoming |-> AtLeastZero(@.incoming + di)]]
  BY DEF ChangeStock
<1>4. /\ stockLock'[b] = h
      /\ stockDraft'[b].qoh = stock[b].qoh + MovedHand(h, b) + dq
      /\ stockDraft'[b].incoming = stock[b].incoming + MovedDue(h, b) + di
      /\ \A c \in Branches \ {b} : /\ stockLock'[c] = stockLock[c]
                                   /\ stockDraft'[c] = stockDraft[c]
  BY <1>1, <1>2, <1>3 DEF AtLeastZero, TypeInv, TypeOK
<1>5. Undrafted'
  BY <1>1, <1>4 DEF DraftInv, Undrafted
<1>6. ASSUME NEW c \in Branches
      PROVE  /\ stockLock'[c] # h => MovedHand(h, c)' = 0 /\ MovedDue(h, c)' = 0
             /\ stockLock'[c] = h =>
                   /\ stockDraft'[c].qoh = stock'[c].qoh + MovedHand(h, c)'
                   /\ stockDraft'[c].incoming = stock'[c].incoming + MovedDue(h, c)'
  <2>1. CASE c = b
    BY <1>1, <1>4, <2>1
  <2>2. CASE c # b
    BY <1>4, <2>2 DEF DraftInv, Drafted
  <2>. QED
    BY <2>1, <2>2
<1>. QED
  BY <1>5, <1>6 DEF Drafted

(* Steps that leave the stock rows alone.                                  *)
LEMMA NoDrafts ==
    ASSUME DraftInv, NEW h \in Handlers, UNCHANGED <<stock, stockDraft, stockLock>>,
           \A c \in Branches : /\ MovedHand(h, c)' = MovedHand(h, c)
                               /\ MovedDue(h, c)' = MovedDue(h, c)
    PROVE  Undrafted' /\ Drafted(h)'
  BY DEF DraftInv, Undrafted, Drafted

(* A handler at a statement on stock: where its goods go from and to.      *)
LEMMA Ends ==
    ASSUME TypeInv, NEW h \in Handlers, Active(h)
    PROVE  /\ From(h) \in Branches /\ To(h) \in Branches /\ From(h) # To(h)
           /\ Qty(h) \in Nat /\ target[h] \in Shipments /\ kind[h] \in Kinds
<1>1. target[h] \in Shipments /\ kind[h] \in Kinds
  BY DEF TypeInv
<1>. QED
  BY <1>1, ShipmentsAssumption DEF From, To, Qty

LEMMA SourceDrafts ==
    ASSUME TypeInv, PointsInv, DraftInv, NEW h \in Handlers, Deduct(h) \/ Restore(h)
    PROVE  Undrafted' /\ Drafted(h)'
<1>. DEFINE dq == IF pc[h] = "deduct" THEN -Qty(h) ELSE Qty(h)
<1>1. /\ Active(h) /\ stock' = stock /\ UNCHANGED <<kind, target, carry, rowDraft>>
      /\ \/ pc[h] = "deduct" /\ pc'[h] = "reserve"
         \/ pc[h] = "restore" /\ pc'[h] = "release"
  BY DEF Deduct, Restore, request, tables, Active, TypeInv, TypeOK
<1>2. From(h) \in Branches /\ From(h) # To(h) /\ Qty(h) \in Nat
  BY <1>1, Ends
<1>3. PICK b \in Branches : b = From(h)
  BY <1>2
<1>4. dq \in Int /\ ChangeStock(h, b, dq, 0) /\ 0 \in Int
  BY <1>2, <1>3 DEF Deduct, Restore
<1>5. /\ pc[h] = "deduct" => kind[h] = "DISPATCH"
      /\ pc[h] = "restore" => kind[h] = "CANCEL"
  BY DEF PointsInv, KindPoint
<1>6. /\ MovedHand(h, b)' = MovedHand(h, b) + dq
      /\ MovedDue(h, b)' = MovedDue(h, b) + 0
      /\ MovedDue(h, b) = 0
      /\ \A c \in Branches \ {b} : /\ MovedHand(h, c)' = MovedHand(h, c)
                                   /\ MovedDue(h, c)' = MovedDue(h, c)
  BY <1>1, <1>2, <1>3, <1>5 DEF MovedHand, MovedDue, Outgoing, Incoming, Announcing, From, To,
                                Qty, Active
<1>7. stock[b].incoming + MovedDue(h, b) + 0 >= 0
  BY <1>3, <1>6 DEF TypeInv, TypeOK
<1>8. stock' = stock
  BY <1>1
<1>. HIDE DEF dq
<1>. QED
  BY <1>3, <1>4, <1>6, <1>7, <1>8, StatementDrafts

LEMMA DestinationDrafts ==
    ASSUME TypeInv, PointsInv, DraftInv, NEW h \in Handlers, NEW dq \in Int, NEW di \in Int,
           Active(h), ChangeStock(h, To(h), dq, di), stock' = stock,
           pc[h] \in {"reserve", "credit", "release", "undo"}, pc'[h] = "commit",
           UNCHANGED <<kind, target, carry, rowDraft>>,
           dq = Incoming(h)', di = Announcing(h)',
           stock[To(h)].incoming + di >= 0
    PROVE  Undrafted' /\ Drafted(h)'
<1>1. /\ pc[h] = "reserve" => kind[h] = "DISPATCH"
      /\ pc[h] = "release" => kind[h] = "CANCEL"
      /\ pc[h] = "credit" => kind[h] = "RECEIVE"
      /\ pc[h] = "undo" => kind[h] = "UNDO"
  BY DEF PointsInv, KindPoint
<1>2. To(h) \in Branches /\ From(h) # To(h) /\ Qty(h) \in Nat
  BY Ends
<1>3. Incoming(h) = 0 /\ Announcing(h) = 0 /\ Outgoing(h)' = Outgoing(h)
  BY <1>1 DEF Incoming, Announcing, Outgoing, Qty
<1>4. PICK b \in Branches : b = To(h)
  BY <1>2
<1>5. /\ MovedHand(h, b)' = MovedHand(h, b) + dq
      /\ MovedDue(h, b)' = MovedDue(h, b) + di
      /\ MovedDue(h, b) = 0
      /\ \A c \in Branches \ {b} : /\ MovedHand(h, c)' = MovedHand(h, c)
                                   /\ MovedDue(h, c)' = MovedDue(h, c)
  BY <1>2, <1>3, <1>4 DEF MovedHand, MovedDue, From, To, Active
<1>6. stock[b].incoming + MovedDue(h, b) + di >= 0
  BY <1>4, <1>5 DEF TypeInv, TypeOK
<1>7. ChangeStock(h, b, dq, di)
  BY <1>4
<1>. QED
  BY <1>4, <1>5, <1>6, <1>7, StatementDrafts

LEMMA StockDrafts ==
    ASSUME IsFiniteSet(Shipments), TypeInv, PointsInv, HandInv, BooksInv, NEW h \in Handlers,
           Reserve(h) \/ Credit(h) \/ Release(h) \/ Undo(h)
    PROVE  Undrafted' /\ Drafted(h)'
<1>1. /\ Active(h) /\ stock' = stock /\ UNCHANGED <<kind, target, carry, rowDraft>>
      /\ pc'[h] = "commit"
  BY DEF Reserve, Credit, Release, Undo, request, tables, Active, TypeInv, TypeOK
<1>2. /\ To(h) \in Branches /\ Qty(h) \in Nat /\ target[h] \in Shipments
      /\ stock[To(h)].incoming \in Nat /\ carry[h].received \in Nat
      /\ rowDraft[target[h]].received \in Nat /\ DraftInv
  BY <1>1, Ends DEF BooksInv, TypeInv, TypeOK, Records
<1>3. KindPoint(h) /\ OnItsWay(h) /\ Receiving(h)
  BY DEF PointsInv, HandInv
<1>4. ASSUME kind[h] \in {"RECEIVE", "CANCEL"}, pc[h] # "refresh"
      PROVE  stock[To(h)].incoming >= Qty(h)
  <2>1. row[target[h]].status = "IN_TRANSIT"
    BY <1>1, <1>3, <1>4 DEF OnItsWay
  <2>2. Book!Announced(To(h)) >= Qty(h)
    BY <1>2, <2>1, DueCovers DEF To, Qty
  <2>. QED
    BY <1>2, <2>2 DEF BooksInv, StockMatchesShipments
<1>5. CASE Reserve(h)
  <2>1. /\ pc[h] = "reserve" /\ kind[h] = "DISPATCH" /\ ChangeStock(h, To(h), 0, Qty(h))
    BY <1>3, <1>5 DEF Reserve, KindPoint
  <2>2. Incoming(h)' = 0 /\ Announcing(h)' = Qty(h)
    BY <1>1, <2>1 DEF Incoming, Announcing, Qty
  <2>. QED
    BY <1>1, <1>2, <2>1, <2>2, DestinationDrafts
<1>6. CASE Credit(h)
  <2>. DEFINE r == carry[h].received
  <2>1. /\ pc[h] = "credit" /\ kind[h] = "RECEIVE" /\ ChangeStock(h, To(h), r, -r)
    BY <1>3, <1>6 DEF Credit, KindPoint
  <2>2. Incoming(h)' = r /\ Announcing(h)' = -r
    BY <1>1, <2>1 DEF Incoming, Announcing
  <2>3. r <= Qty(h)
    BY <1>3, <2>1 DEF Receiving, Receipt, Qty
  <2>4. stock[To(h)].incoming >= Qty(h)
    BY <1>4, <2>1
  <2>5. stock[To(h)].incoming + (-r) >= 0
    BY <1>2, <2>3, <2>4
  <2>. QED
    BY <1>1, <1>2, <2>1, <2>2, <2>5, DestinationDrafts
<1>7. CASE Release(h)
  <2>1. /\ pc[h] = "release" /\ kind[h] = "CANCEL" /\ ChangeStock(h, To(h), 0, -Qty(h))
    BY <1>3, <1>7 DEF Release, KindPoint
  <2>2. Incoming(h)' = 0 /\ Announcing(h)' = -Qty(h)
    BY <1>1, <2>1 DEF Incoming, Announcing, Qty
  <2>3. stock[To(h)].incoming >= Qty(h)
    BY <1>4, <2>1
  <2>4. stock[To(h)].incoming + (-Qty(h)) >= 0
    BY <1>2, <2>3
  <2>. QED
    BY <1>1, <1>2, <2>1, <2>2, <2>4, DestinationDrafts
<1>8. CASE Undo(h)
  <2>. DEFINE r == rowDraft[target[h]].received
  <2>1. pc[h] = "undo" /\ kind[h] = "UNDO"
    BY <1>3, <1>8 DEF Undo, KindPoint
  <2>2. Incoming(h)' = -r /\ Announcing(h)' = -(-r) /\ -(-r) = r
    BY <1>1, <1>2, <2>1 DEF Incoming, Announcing
  <2>3. CASE r = 0
    <3>1. UNCHANGED <<stock, stockDraft, stockLock>>
      BY <1>1, <1>8, <2>3 DEF Undo
    <3>2. /\ Incoming(h) = 0 /\ Announcing(h) = 0 /\ Outgoing(h) = 0 /\ Outgoing(h)' = 0
          /\ Incoming(h)' = 0 /\ Announcing(h)' = 0
      BY <1>1, <2>1, <2>2, <2>3 DEF Incoming, Announcing, Outgoing
    <3>3. \A c \in Branches : /\ MovedHand(h, c)' = MovedHand(h, c)
                              /\ MovedDue(h, c)' = MovedDue(h, c)
      BY <3>2 DEF MovedHand, MovedDue
    <3>. QED
      BY <1>2, <3>1, <3>3, NoDrafts
  <2>4. CASE r # 0
    <3>1. ChangeStock(h, To(h), -r, r)
      BY <1>8, <2>4 DEF Undo
    <3>2. -r \in Int /\ r \in Int /\ stock[To(h)].incoming + r >= 0
      BY <1>2
    <3>. QED
      BY <1>1, <1>2, <2>1, <2>2, <3>1, <3>2, DestinationDrafts
  <2>. QED
    BY <2>3, <2>4
<1>. QED
  BY <1>5, <1>6, <1>7, <1>8

(* Where a handler has moved nothing yet, or no longer has anything open.  *)
Settled(h) == \A b \in Branches : MovedHand(h, b) = 0 /\ MovedDue(h, b) = 0

LEMMA SettledPoints ==
    ASSUME NEW h \in Handlers
    PROVE  /\ pc[h] \notin {"reserve", "release", "commit"} => Settled(h)
           /\ pc'[h] \notin {"reserve", "release", "commit"} => Settled(h)'
  BY DEF Settled, MovedHand, MovedDue, Outgoing, Incoming, Announcing

LEMMA CommitStock ==
    ASSUME TypeInv, DraftInv, NEW h \in Handlers, Commit(h), NEW b \in Branches
    PROVE  /\ stock'[b].qoh = stock[b].qoh + MovedHand(h, b)
           /\ stock'[b].incoming = stock[b].incoming + MovedDue(h, b)
<1>1. stock'[b] = IF stockLock[b] = h THEN stockDraft[b] ELSE stock[b]
  BY DEF Commit, Overlay, TypeInv, TypeOK
<1>2. stock[b].qoh \in Int /\ stock[b].incoming \in Int
  BY DEF TypeInv, TypeOK
<1>. QED
  BY <1>1, <1>2 DEF DraftInv, Drafted

LEMMA OwnDrafted ==
    ASSUME IsFiniteSet(Shipments), TypeInv, PointsInv, SoloInv, HandInv, BooksInv,
           NEW h \in Handlers, Acts(h)
    PROVE  Undrafted' /\ Drafted(h)'
<1>0. DraftInv /\ New(h) /\ h # Nobody
  BY ShipmentsAssumption DEF BooksInv, SoloInv
<1>1. ASSUME UNCHANGED <<stock, stockDraft, stockLock>>,
             pc[h] \notin {"reserve", "release", "commit"},
             pc'[h] \notin {"reserve", "release", "commit"}
      PROVE  Undrafted' /\ Drafted(h)'
  <2>1. Settled(h) /\ Settled(h)'
    BY <1>1, SettledPoints
  <2>2. \A c \in Branches : /\ MovedHand(h, c)' = MovedHand(h, c)
                            /\ MovedDue(h, c)' = MovedDue(h, c)
    BY <2>1 DEF Settled
  <2>. QED
    BY <1>0, <1>1, <2>2, NoDrafts
<1>2. CASE \E k \in Kinds, p \in Shipments : Begin(h, k, p)
  <2>1. /\ UNCHANGED <<stock, stockDraft, stockLock>>
        /\ pc[h] = "idle" /\ pc'[h] \in {"probe", "dated", "claim"}
    BY <1>2 DEF Begin, tables, drafts, locks, TypeInv, TypeOK
  <2>. QED
    BY <1>1, <2>1
<1>3. CASE Probe(h) \/ Mark(h) \/ Send(h) \/ Refreshes(h)
  <2>1. /\ UNCHANGED <<stock, stockDraft, stockLock>>
        /\ pc[h] \in {"probe", "dated", "begin", "refresh"}
        /\ pc'[h] \in {"begin", "write", "refresh"}
    BY <1>3, RefreshesKeep DEF Probe, Mark, Send, tables, drafts, locks, TypeInv, TypeOK
  <2>. QED
    BY <1>1, <2>1
<1>4. CASE Upsert(h) \/ Update(h) \/ Claim(h)
  <2>1. Upsert(h) => ~exists[h]
    BY <1>0 DEF Upsert, New, Active
  <2>2. /\ UNCHANGED <<stock, stockDraft, stockLock>>
        /\ pc[h] \in {"write", "claim"}
        /\ pc'[h] \in {"deduct", "credit", "restore", "undo"}
    BY <1>4, <2>1 DEF Upsert, Update, Claim, tables, TypeInv, TypeOK
  <2>. QED
    BY <1>1, <2>2
<1>5. CASE Deduct(h) \/ Restore(h)
  BY <1>0, <1>5, SourceDrafts
<1>6. CASE Reserve(h) \/ Credit(h) \/ Release(h) \/ Undo(h)
  BY <1>6, StockDrafts
<1>7. CASE Commit(h)
  <2>1. /\ pc'[h] = "refresh" /\ stockDraft' = stockDraft
        /\ \A b \in Branches :
              /\ stockLock'[b] = IF stockLock[b] = h THEN Nobody ELSE stockLock[b]
              /\ stock'[b] = IF stockLock[b] = h THEN stockDraft[b] ELSE stock[b]
    BY <1>7 DEF Commit, Overlay, ReleaseLocks, Freed, drafts, TypeInv, TypeOK
  <2>2. Settled(h)'
    BY <2>1, SettledPoints
  <2>. QED
    BY <1>0, <2>1, <2>2 DEF DraftInv, Undrafted, Drafted, Settled
<1>8. CASE Refuses(h)
  <2>1. Rollback(h)
    BY <1>8, RefusalRollsBack
  <2>2. /\ pc'[h] = "error" /\ stock' = stock
        /\ \A b \in Branches :
              /\ stockLock'[b] = IF stockLock[b] = h THEN Nobody ELSE stockLock[b]
              /\ stockDraft'[b] = IF stockLock[b] = h THEN stock[b] ELSE stockDraft[b]
    BY <2>1 DEF Rollback, Overlay, ReleaseLocks, Freed, tables, TypeInv, TypeOK
  <2>3. Settled(h)'
    BY <2>2, SettledPoints
  <2>. QED
    BY <1>0, <2>2, <2>3 DEF DraftInv, Undrafted, Drafted, Settled
<1>9. CASE Answer(h)
  <2>1. /\ UNCHANGED <<stock, stockDraft, stockLock>>
        /\ pc[h] = "refresh" /\ pc'[h] = "ok"
    BY <1>9 DEF Answer, tables, drafts, locks, TypeInv, TypeOK
  <2>. QED
    BY <1>1, <2>1
<1>. QED
  BY <1>2, <1>3, <1>4, <1>5, <1>6, <1>7, <1>8, <1>9 DEF Acts, Step, Refuses, Refreshes

(* The books say the same where no row changes.                            *)
LEMMA BookSame ==
    ASSUME row' = row, NEW b \in Branches
    PROVE  Book!OnHand(b)' = Book!OnHand(b) /\ Book!Announced(b)' = Book!Announced(b)
  BY DEF Book!OnHand, Book!Announced, Book!Taken, Book!Brought, Book!Due, Book!Gone,
         Book!Arrived

LEMMA NextBooks ==
    ASSUME IsFiniteSet(Shipments), TypeInv, PointsInv, UndoInv, SoloInv, HandInv, BooksInv,
           TypeInv', HandInv', NEW h \in Handlers, Acts(h)
    PROVE  BooksInv'
<1>1. Undrafted' /\ Drafted(h)'
  BY OwnDrafted
<1>2. \A g \in Handlers \ {h} : Drafted(g)'
  BY OthersDrafted DEF BooksInv
<1>3. StockMatchesShipments'
  <2>. SUFFICES ASSUME NEW b \in Branches
                PROVE  /\ stock'[b].qoh = Book!OnHand(b)'
                       /\ stock'[b].incoming = Book!Announced(b)'
    BY DEF StockMatchesShipments
  <2>1. stock[b].qoh = Book!OnHand(b) /\ stock[b].incoming = Book!Announced(b)
    BY DEF BooksInv, StockMatchesShipments
  <2>2. CASE row' = row /\ stock' = stock
    BY <2>1, <2>2, BookSame
  <2>3. CASE Commit(h)
    <3>1. /\ Book!OnHand(b)' = Book!OnHand(b) + MovedHand(h, b)
          /\ Book!Announced(b)' = Book!Announced(b) + MovedDue(h, b)
      BY <2>3, CommitBooks
    <3>2. /\ stock'[b].qoh = stock[b].qoh + MovedHand(h, b)
          /\ stock'[b].incoming = stock[b].incoming + MovedDue(h, b)
      BY <2>3, CommitStock DEF BooksInv
    <3>. QED
      BY <2>1, <3>1, <3>2
  <2>. QED
    BY <2>2, <2>3, TablesCommitted
<1>. QED
  BY <1>1, <1>2, <1>3 DEF BooksInv, DraftInv

LEMMA SumZero ==
    ASSUME NEW S, IsFiniteSet(S), NEW f, \A x \in S : f[x] = 0
    PROVE  SumFunctionOnSet(f, S) = 0
<1>. DEFINE Z == {s \in SUBSET S : SumFunctionOnSet(f, s) # 0}
<1>1. ASSUME Z # {} PROVE FALSE
  <2>1. PICK t \in Z : \A x \in t : t \ {x} \notin Z
    BY <1>1, MinimalSet
  <2>2. IsFiniteSet(t)
    BY FS_Subset
  <2>3. t # {}
    BY <2>2, SumStep
  <2>4. /\ Picked(t) \in t
        /\ SumFunctionOnSet(f, t) = f[Picked(t)] + SumFunctionOnSet(f, t \ {Picked(t)})
    BY <2>2, <2>3, SumStep
  <2>5. f[Picked(t)] = 0 /\ SumFunctionOnSet(f, t \ {Picked(t)}) = 0
    BY <2>1, <2>4
  <2>. QED
    BY <2>1, <2>4, <2>5
<1>. QED
  BY <1>1

LEMMA InitBooks == ASSUME IsFiniteSet(Shipments), Init PROVE BooksInv
<1>1. ASSUME NEW b \in Branches
      PROVE  /\ stock[b].qoh = Book!OnHand(b)
             /\ stock[b].incoming = Book!Announced(b)
  <2>. DEFINE sum(f) == SumFunctionOnSet(f, Shipments)
  <2>1. /\ Book!OnHand(b) = InitStock[b] - sum(Book!Taken(b)) + sum(Book!Brought(b))
        /\ Book!Announced(b) = sum(Book!Due(b))
    BY BookSum DEF Book!OnHand, Book!Announced, Book!Taken, Book!Brought, Book!Due
  <2>2. \A s \in Shipments :
            Book!Taken(b)[s] = 0 /\ Book!Brought(b)[s] = 0 /\ Book!Due(b)[s] = 0
    BY DEF Init, Absent, Book!Taken, Book!Brought, Book!Due, Book!Gone, Book!Arrived
  <2>3. sum(Book!Taken(b)) = 0 /\ sum(Book!Brought(b)) = 0 /\ sum(Book!Due(b)) = 0
    BY <2>2, SumZero
  <2>4. stock[b].qoh = InitStock[b] /\ stock[b].incoming = 0 /\ InitStock[b] \in Int
    BY ShipmentsAssumption DEF Init
  <2>. HIDE DEF sum
  <2>. QED
    BY <2>1, <2>3, <2>4
<1>2. Undrafted
  BY DEF Init, Undrafted
<1>3. ASSUME NEW h \in Handlers PROVE Drafted(h)
  <2>1. h # Nobody /\ pc[h] = "idle"
    BY ShipmentsAssumption DEF Init
  <2>2. Settled(h)
    BY <2>1, SettledPoints
  <2>. QED
    BY <2>1, <2>2 DEF Drafted, Settled, Init
<1>. QED
  BY <1>1, <1>2, <1>3 DEF BooksInv, DraftInv, StockMatchesShipments

LEMMA BooksAlways ==
    ASSUME Orderly, ReceiptsFit, IsFiniteSet(Shipments) PROVE Spec => []BooksInv
<1>0. OnceSent
  BY DEF Orderly, OnceSent
<1>1. Init => BooksInv
  BY InitBooks
<1>2. TypeInv /\ PointsInv /\ UndoInv /\ SoloInv /\ HandInv /\ BooksInv
          /\ TypeInv' /\ HandInv' /\ [Next]_vars => BooksInv'
  <2>. SUFFICES ASSUME TypeInv, PointsInv, UndoInv, SoloInv, HandInv, BooksInv,
                       TypeInv', HandInv', [Next]_vars
                PROVE  BooksInv'
    OBVIOUS
  <2>1. CASE UNCHANGED vars
    <3>1. UNCHANGED <<row, stock, rowDraft, stockDraft, stockLock, pc, kind, target, carry>>
      BY <2>1 DEF vars, tables, drafts, locks, request
    <3>2. StockMatchesShipments'
      BY <3>1, BookSame DEF BooksInv, StockMatchesShipments
    <3>3. DraftInv'
      BY <3>1 DEF BooksInv, DraftInv, Undrafted, Drafted, MovedHand, MovedDue, Outgoing,
                  Incoming, Announcing, Active, From, To, Qty
    <3>. QED
      BY <3>2, <3>3 DEF BooksInv
  <2>2. CASE Next
    BY <2>2, ActionOfHandler, NextBooks
  <2>. QED
    BY <2>1, <2>2
<1>3. Spec => []UndoInv /\ []SoloInv /\ []HandInv
  BY <1>0, UndoAlways, SoloAlways, HandAlways
<1>. QED
  BY <1>1, <1>2, <1>3, TypesAlways, PointsAlways, PTL DEF Spec

(* The branches' stock is what the shipments table says it is: what each   *)
(* began with, less what was sent from it, plus what was received there,   *)
(* and announced there exactly what is still to come.  It holds however    *)
(* the transactions of different shipments interleave, deadlock, fail and  *)
(* leave the mirror behind, provided that each shipment has one request    *)
(* open at a time, none is sent again, on a shipment that is not there or  *)
(* after its receipt, and nobody reports more received than was sent.      *)
THEOREM StockFollowsShipments ==
    ASSUME Mishaps \subseteq {"STALE"}, IsFiniteSet(Shipments),
           \A s \in Shipments : \A r \in Receipts[s] : r <= Route[s].qty
    PROVE  Spec => []StockMatchesShipments
<1>1. BooksInv => StockMatchesShipments
  BY DEF BooksInv
<1>2. Spec => []BooksInv
  BY BooksAlways DEF Orderly, ReceiptsFit
<1>. QED
  BY <1>1, <1>2, PTL

LEMMA BookFollows ==
    ASSUME TypeInv, StockMatchesShipments PROVE Book!StockFollows
<1>. SUFFICES ASSUME NEW b \in Branches
              PROVE  stock[b] = [qoh |-> Book!OnHand(b), incoming |-> Book!Announced(b)]
  BY DEF Book!StockFollows
<1>1. stock[b] = [qoh |-> stock[b].qoh, incoming |-> stock[b].incoming]
  BY DEF TypeInv, TypeOK
<1>. QED
  BY <1>1 DEF StockMatchesShipments

(* A commit is one move of the book, and no other step moves it.           *)
LEMMA CommitMoves ==
    ASSUME TypeInv, PointsInv, UndoInv, HandInv, TypeInv', HandInv', Book!StockFollows',
           NEW h \in Handlers, Commit(h)
    PROVE  Book!Next
<1>. DEFINE s == target[h]
            rec == rowDraft[s]
<1>1. /\ s \in Shipments /\ kind[h] \in Kinds
      /\ row' = [row EXCEPT ![s] = rec]
  BY CommitWrites
<1>2. /\ rec \in Records /\ row[s] \in Records /\ row'[s] = rec
      /\ rec = [status |-> rec.status, received |-> rec.received]
  BY <1>1 DEF TypeInv, TypeOK, Records
<1>3. rec.received \in 0..Route[s].qty
  <2>1. rec.received <= Route[s].qty /\ Route[s].qty \in Nat /\ rec.received \in Nat
    BY <1>1, <1>2, ShipmentsAssumption DEF HandInv, Records
  <2>. QED
    BY <2>1
<1>4. /\ Book!Moves(row[s].status, rec.status)
      /\ rec.status \in {"IN_TRANSIT", "RECEIVED", "DISCREPANCY", "CANCELLED"}
      /\ rec.status = "RECEIVED" => rec.received = Route[s].qty
      /\ rec.status = "DISCREPANCY" => rec.received < Route[s].qty
  <2>1. CASE kind[h] = "DISPATCH"
    <3>1. row[s].status = "NONE" /\ rec = InTransit
      BY <2>1, CommitWrites
    <3>2. rec.status = "IN_TRANSIT"
      BY <3>1 DEF InTransit
    <3>. QED
      BY <3>1, <3>2 DEF Book!Moves
  <2>2. CASE kind[h] = "RECEIVE"
    <3>1. row[s].status = "IN_TRANSIT" /\ rec = carry[h] /\ Receipt(s, carry[h])
      BY <2>2, CommitWrites
    <3>2. /\ rec.received <= Route[s].qty /\ Route[s].qty \in Nat /\ rec.received \in Nat
          /\ rec.status = IF rec.received < Route[s].qty THEN "DISCREPANCY" ELSE "RECEIVED"
      BY <1>1, <1>2, <3>1, ShipmentsAssumption DEF Receipt, Records
    <3>. QED
      BY <3>1, <3>2 DEF Book!Moves
  <2>3. CASE kind[h] = "CANCEL"
    <3>1. row[s].status = "IN_TRANSIT" /\ rec.status = "CANCELLED"
      BY <1>2, <2>3, CommitWrites DEF Records
    <3>. QED
      BY <3>1 DEF Book!Moves
  <2>4. CASE kind[h] = "UNDO"
    <3>1. row[s].status \in {"RECEIVED", "DISCREPANCY"} /\ rec.status = "IN_TRANSIT"
      BY <1>2, <2>4, CommitWrites DEF Records, ReceiptDone
    <3>. QED
      BY <3>1 DEF Book!Moves
  <2>. QED
    BY <1>1, <2>1, <2>2, <2>3, <2>4 DEF Kinds
<1>5. \A b \in Branches : stock'[b].qoh >= 0
  BY DEF TypeInv, GoodCells
<1>. HIDE DEF s, rec
<1>. QED
  BY <1>1, <1>2, <1>3, <1>4, <1>5 DEF Book!Next

(* The transfer handlers implement the book of transfers: seen through the *)
(* shipments and the stock tables, each request moves its shipment and     *)
(* both branches' stock at one instant, its commit, and nothing else does; *)
(* under the conditions of StockFollowsShipments.                          *)
THEOREM TransfersImplementBook ==
    ASSUME Mishaps \subseteq {"STALE"}, IsFiniteSet(Shipments),
           \A s \in Shipments : \A r \in Receipts[s] : r <= Route[s].qty
    PROVE  Spec => ImplementsBook
<1>0. Orderly /\ ReceiptsFit /\ OnceSent
  BY DEF Orderly, ReceiptsFit, OnceSent
<1>1. TypeInv /\ BooksInv => Book!StockFollows
  BY BookFollows DEF BooksInv
<1>2. Init /\ Book!StockFollows => Book!Init
  BY DEF Init, Absent, Book!Init
<1>3. TypeInv /\ PointsInv /\ UndoInv /\ HandInv
          /\ TypeInv' /\ HandInv' /\ Book!StockFollows' /\ [Next]_vars
          => [Book!Next]_<<row, stock>>
  <2>. SUFFICES ASSUME TypeInv, PointsInv, UndoInv, HandInv, TypeInv', HandInv',
                       Book!StockFollows', [Next]_vars
                PROVE  [Book!Next]_<<row, stock>>
    OBVIOUS
  <2>1. CASE UNCHANGED vars
    BY <2>1 DEF vars, tables
  <2>2. CASE Next
    <3>1. PICK h \in Handlers : Acts(h)
      BY <2>2, ActionOfHandler
    <3>2. CASE Commit(h)
      BY <3>2, CommitMoves
    <3>. QED
      BY <3>1, <3>2, TablesCommitted
  <2>. QED
    BY <2>1, <2>2
<1>4. Spec => []UndoInv /\ []HandInv /\ []BooksInv
  BY <1>0, UndoAlways, HandAlways, BooksAlways
<1>. QED
  BY <1>1, <1>2, <1>3, <1>4, TypesAlways, PointsAlways, PTL DEF Spec, ImplementsBook, Book!Spec
=============================================================================
