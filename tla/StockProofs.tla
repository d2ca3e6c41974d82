----------------------------- MODULE StockProofs -----------------------------
(***************************************************************************)
(* Theorems about StockOperations, for every set of requests, operations,  *)
(* products and branches: whatever the clients do, and, in the second half *)
(* (the books), where they open one request at a time on an operation, as  *)
(* the user interface does.                                                *)
(***************************************************************************)
EXTENDS StockAudit, FiniteSetTheorems, TLAPS

(* The rows and quantities a body names are of the right types.            *)
LEMMA LineTypes ==
    ASSUME NEW o \in Ops, NEW i \in LineIdx(o)
    PROVE  /\ Lines(o)[i] \in LineType
           /\ Lines(o)[i].qty \in Nat \ {0}
           /\ SourceRow(o, i) \in Rows
           /\ DestRow(o, i) \in Rows
           /\ i \in Nat \ {0}
<1>1. Req[o].lines \in Seq(LineType) /\ Req[o].branch \in Branches
      /\ Req[o].dest \in Branches
  BY ConstantsAssumption
<1>2. Lines(o)[i] \in LineType /\ i \in Nat \ {0}
  BY <1>1 DEF LineIdx, Lines
<1>. QED
  BY <1>1, <1>2 DEF LineType, SourceRow, DestRow, Rows, Lines

(* What the inductive invariant says of a handler: the operation and kind  *)
(* of request it works on, and which kinds reach which point.              *)
HandlerOK(h) ==
    /\ Active(h) => target[h] \in Ops /\ kind[h] \in Kinds
    /\ pc[h] = "lock" => kind[h] \in {"CREATE", "REVERSE", "RETURN"}
    /\ pc[h] \in {"insert", "apply"} => kind[h] = "CREATE"
    /\ pc[h] = "serials" => kind[h] \in {"CREATE", "REVERSE"}
    /\ pc[h] = "cancel" => kind[h] \in {"REVERSE", "RETURN"}
    /\ pc[h] \in {"claim", "credit"} => kind[h] = "RECEIVE"

TypeInv == /\ TypeOK
           /\ stock \in [Rows -> Cells]
           /\ draft \in [Rows -> Cells]
           /\ \A h \in Handlers : HandlerOK(h)

(* A guarded UPDATE keeps a row's quantities natural.                      *)
LEMMA AfterLineCell ==
    ASSUME NEW o \in Ops, NEW i \in LineIdx(o), NEW cell \in Cells,
           Applies(cell, o, i)
    PROVE  AfterLine(cell, o, i) \in Cells
<1>1. Lines(o)[i].qty \in Nat \ {0} /\ cell.qoh \in Nat /\ cell.damaged \in Nat
  BY LineTypes DEF Cells
<1>2. cell = [qoh |-> cell.qoh, damaged |-> cell.damaged]
  BY DEF Cells
<1>3. CASE Req[o].type = "DAMAGE"
  <2>1. ~FromDamaged(o, i)
    BY <1>3 DEF FromDamaged
  <2>. QED
    BY <1>1, <1>3, <2>1 DEF AfterLine, Applies, Cells
<1>4. CASE Req[o].type # "DAMAGE" /\ FromDamaged(o, i)
  BY <1>1, <1>2, <1>4 DEF AfterLine, Applies, Cells
<1>5. CASE Req[o].type # "DAMAGE" /\ ~FromDamaged(o, i)
  BY <1>1, <1>2, <1>5 DEF AfterLine, Applies, Cells
<1>. QED
  BY <1>3, <1>4, <1>5

(* Ending a request keeps the types, whatever becomes of the tables.       *)
LEMMA FinishTypes ==
    ASSUME TypeInv, NEW h \in Handlers, NEW a \in {"ok", "error"}, Finish(h, a)
    PROVE  /\ rowLock' \in [Rows -> Handlers \cup {Nobody}]
           /\ opLock' \in [Ops -> Handlers \cup {Nobody}]
           /\ serialLock' \in [Serials -> Handlers \cup {Nobody}]
           /\ pc' \in [Handlers -> PCs]
           /\ kind' \in [Handlers -> Kinds \cup {"NONE"}]
           /\ target' \in [Handlers -> Ops \cup {NoOp}]
           /\ need' \in [Handlers -> SUBSET Rows]
           /\ line' \in [Handlers -> Nat \ {0}]
           /\ \A g \in Handlers : HandlerOK(g)'
<1>1. rowLock' \in [Rows -> Handlers \cup {Nobody}]
  BY DEF TypeInv, TypeOK, Finish, Freed
<1>2. opLock' \in [Ops -> Handlers \cup {Nobody}]
  BY DEF TypeInv, TypeOK, Finish, Freed
<1>3. serialLock' \in [Serials -> Handlers \cup {Nobody}]
  BY DEF TypeInv, TypeOK, Finish, Freed
<1>4. pc' \in [Handlers -> PCs] /\ kind' \in [Handlers -> Kinds \cup {"NONE"}]
  BY DEF TypeInv, TypeOK, Finish, PCs
<1>5. /\ target' \in [Handlers -> Ops \cup {NoOp}]
      /\ need' \in [Handlers -> SUBSET Rows]
      /\ line' \in [Handlers -> Nat \ {0}]
  BY DEF TypeInv, TypeOK, Finish
<1>6. \A g \in Handlers : HandlerOK(g)'
  BY DEF TypeInv, TypeOK, Finish, HandlerOK, Active
<1>. QED
  BY <1>1, <1>2, <1>3, <1>4, <1>5, <1>6

LEMMA RollbackTypes ==
    ASSUME TypeInv, NEW h \in Handlers, Rollback(h)
    PROVE  TypeInv'
<1>1. Finish(h, "error") /\ UNCHANGED tables
  BY DEF Rollback
<1>2. draft' \in [Rows -> Cells]
  BY DEF Rollback, Undone, Overlay, TypeInv
<1>3. serialDraft' \in [Serials -> SerialType]
  BY DEF Rollback, Undone, Overlay, TypeInv, TypeOK
<1>4. draft' \in [Rows -> [qoh : Int, damaged : Int]]
  BY <1>2 DEF Cells
<1>. QED
  BY <1>1, <1>2, <1>3, <1>4, FinishTypes DEF TypeInv, TypeOK, tables

LEMMA CommitTypes ==
    ASSUME TypeInv, NEW h \in Handlers, Commit(h)
    PROVE  TypeInv'
<1>. DEFINE o == target[h]
            k == kind[h]
<1>1. o \in Ops /\ k \in Kinds
  BY DEF Commit, TypeInv, HandlerOK, Active
<1>2. Finish(h, "ok")
  BY DEF Commit
<1>3. stock' \in [Rows -> Cells] /\ draft' = draft
  BY DEF Commit, Overlay, TypeInv
<1>4. serial' \in [Serials -> SerialType] /\ serialDraft' = serialDraft
  BY DEF Commit, Overlay, TypeInv, TypeOK
<1>5. status' \in [Ops -> OpStatus]
  <2>1. StatusAfter(k, o) \in OpStatus
    BY DEF StatusAfter, PostedStatus, OpStatus
  <2>2. status' = [status EXCEPT ![o] = StatusAfter(k, o)]
    BY DEF Commit
  <2>. QED
    BY <2>1, <2>2 DEF TypeInv, TypeOK
<1>6. tally' \in [Ops -> [Kinds -> Nat]]
  BY <1>1 DEF Commit, TypeInv, TypeOK
<1>7. stock' \in [Rows -> [qoh : Int, damaged : Int]]
  BY <1>3 DEF Cells
<1>. QED
  BY <1>2, <1>3, <1>4, <1>5, <1>6, <1>7, FinishTypes DEF TypeInv, TypeOK

LEMMA InitTypes == Init => TypeInv
<1>. SUFFICES ASSUME Init PROVE TypeInv
  OBVIOUS
<1>1. stock \in [Rows -> Cells] /\ draft \in [Rows -> Cells]
  BY ConstantsAssumption DEF Init
<1>2. /\ stock \in [Rows -> [qoh : Int, damaged : Int]]
      /\ draft \in [Rows -> [qoh : Int, damaged : Int]]
  BY <1>1 DEF Cells
<1>3. status \in [Ops -> OpStatus] /\ tally \in [Ops -> [Kinds -> Nat]]
  BY DEF Init, OpStatus
<1>4. serial \in [Serials -> SerialType] /\ serialDraft \in [Serials -> SerialType]
  BY DEF Init, SerialType
<1>5. /\ rowLock \in [Rows -> Handlers \cup {Nobody}]
      /\ opLock \in [Ops -> Handlers \cup {Nobody}]
      /\ serialLock \in [Serials -> Handlers \cup {Nobody}]
  BY DEF Init
<1>6. pc \in [Handlers -> PCs]
  BY DEF Init, PCs
<1>7. /\ kind \in [Handlers -> Kinds \cup {"NONE"}]
      /\ target \in [Handlers -> Ops \cup {NoOp}]
      /\ need \in [Handlers -> SUBSET Rows]
      /\ line \in [Handlers -> Nat \ {0}]
  BY DEF Init
<1>8. \A h \in Handlers : HandlerOK(h)
  BY DEF Init, HandlerOK, Active
<1>. QED
  BY <1>1, <1>2, <1>3, <1>4, <1>5, <1>6, <1>7, <1>8 DEF TypeInv, TypeOK

LEMMA BeginTypes ==
    ASSUME TypeInv, NEW h \in Handlers, NEW k \in Kinds, NEW o \in Ops,
           Begin(h, k, o)
    PROVE  TypeInv'
<1>1. SourceRows(o) \in SUBSET Rows
  BY LineTypes DEF SourceRows
<1>2. UNCHANGED <<tables, draft, serialDraft, locks, line>>
  BY DEF Begin
<1>3. /\ pc' \in [Handlers -> PCs]
      /\ kind' \in [Handlers -> Kinds \cup {"NONE"}]
      /\ target' \in [Handlers -> Ops \cup {NoOp}]
      /\ need' \in [Handlers -> SUBSET Rows]
  BY <1>1 DEF Begin, TypeInv, TypeOK, PCs
<1>4. \A g \in Handlers : HandlerOK(g)'
  <2>. TAKE g \in Handlers
  <2>1. CASE g = h
    <3>1. pc'[g] = (IF k = "RECEIVE" THEN "claim" ELSE "lock")
          /\ kind'[g] = k /\ target'[g] = o
      BY <2>1 DEF Begin, TypeInv, TypeOK
    <3>. QED
      BY <3>1 DEF HandlerOK, Active, Kinds
  <2>2. CASE g # h
    BY <2>2 DEF Begin, TypeInv, TypeOK, HandlerOK, Active
  <2>. QED
    BY <2>1, <2>2
<1>. QED
  BY <1>2, <1>3, <1>4 DEF TypeInv, TypeOK, tables, locks

(* The steps inside a transaction.                                         *)
LEMMA LockRowTypes ==
    ASSUME TypeInv, NEW h \in Handlers, LockRow(h)
    PROVE  TypeInv'
<1>1. PICK r \in Rows :
        /\ rowLock' = [rowLock EXCEPT ![r] = h]
        /\ need' = [need EXCEPT ![h] = @ \ {r}]
        /\ UNCHANGED <<tables, draft, serialDraft, opLock, serialLock,
                       pc, kind, target, line>>
  BY DEF LockRow
<1>2. /\ rowLock' \in [Rows -> Handlers \cup {Nobody}]
      /\ need' \in [Handlers -> SUBSET Rows]
  BY <1>1 DEF TypeInv, TypeOK
<1>3. \A g \in Handlers : HandlerOK(g)'
  BY <1>1 DEF TypeInv, HandlerOK, Active
<1>. QED
  BY <1>1, <1>2, <1>3 DEF TypeInv, TypeOK, tables

(* A step that moves pc and at most an operation lock and the line.        *)
LEMMA ControlTypes ==
    ASSUME TypeInv, NEW h \in Handlers,
           \/ Verify(h) \/ Insert(h) \/ ApplyDone(h) \/ SerialsDone(h)
           \/ MarkCancelled(h) \/ ClaimReceipt(h) \/ CreditDone(h)
    PROVE  TypeInv'
<1>1. /\ UNCHANGED <<tables, draft, serialDraft, rowLock, serialLock,
                     kind, target, need>>
      /\ opLock' = opLock \/ opLock' = [opLock EXCEPT ![target[h]] = h]
      /\ line' = line \/ line' = [line EXCEPT ![h] = 1]
  BY DEF Verify, Insert, ApplyDone, SerialsDone, MarkCancelled, ClaimReceipt,
         CreditDone, locks
<1>2. \E p \in PCs : /\ pc' = [pc EXCEPT ![h] = p]
                     /\ p \in {"insert", "apply"} => kind[h] = "CREATE"
                     /\ p = "serials" => kind[h] \in {"CREATE", "REVERSE"}
                     /\ p = "cancel" => kind[h] \in {"REVERSE", "RETURN"}
                     /\ p = "credit" => kind[h] = "RECEIVE"
                     /\ p \notin {"lock", "claim", "idle"}
                     /\ Active(h)
  <2>. HandlerOK(h)
    BY DEF TypeInv
  <2>1. CASE Verify(h)
    BY <2>1 DEF Verify, AllLocked, PCs, Active
  <2>2. CASE Insert(h)
    BY <2>2 DEF Insert, HandlerOK, PCs, Active
  <2>3. CASE ApplyDone(h)
    BY <2>3 DEF ApplyDone, HandlerOK, PCs, Active
  <2>4. CASE SerialsDone(h)
    BY <2>4 DEF SerialsDone, HandlerOK, PCs, Active
  <2>5. CASE MarkCancelled(h)
    BY <2>5 DEF MarkCancelled, PCs, Active
  <2>6. CASE ClaimReceipt(h)
    BY <2>6 DEF ClaimReceipt, HandlerOK, PCs, Active
  <2>7. CASE CreditDone(h)
    BY <2>7 DEF CreditDone, PCs, Active
  <2>. QED
    BY <2>1, <2>2, <2>3, <2>4, <2>5, <2>6, <2>7
<1>3. opLock' \in [Ops -> Handlers \cup {Nobody}]
  BY <1>1 DEF TypeInv, TypeOK
<1>4. pc' \in [Handlers -> PCs] /\ line' \in [Handlers -> Nat \ {0}]
  BY <1>1, <1>2 DEF TypeInv, TypeOK
<1>5. \A g \in Handlers : HandlerOK(g)'
  <2>. TAKE g \in Handlers
  <2>1. CASE g = h
    BY <1>1, <1>2, <2>1 DEF TypeInv, TypeOK, HandlerOK, Active
  <2>2. CASE g # h
    BY <1>1, <1>2, <2>2 DEF TypeInv, TypeOK, HandlerOK, Active
  <2>. QED
    BY <2>1, <2>2
<1>. QED
  BY <1>1, <1>3, <1>4, <1>5 DEF TypeInv, TypeOK, tables

(* A step that changes the drafts of stock rows, and perhaps pc.           *)
LEMMA DraftTypes ==
    ASSUME TypeInv, NEW h \in Handlers, draft' \in [Rows -> Cells],
           UNCHANGED <<tables, serialDraft, opLock, serialLock, kind, target, need>>,
           rowLock' \in [Rows -> Handlers \cup {Nobody}],
           line' \in [Handlers -> Nat \ {0}],
           pc' \in [Handlers -> PCs],
           \A g \in Handlers : HandlerOK(g)'
    PROVE  TypeInv'
<1>1. draft' \in [Rows -> [qoh : Int, damaged : Int]]
  BY DEF Cells
<1>. QED
  BY <1>1 DEF TypeInv, TypeOK, tables

LEMMA ApplyLineTypes ==
    ASSUME TypeInv, NEW h \in Handlers, ApplyLine(h)
    PROVE  TypeInv'
<1>. DEFINE o == target[h]
            i == line[h]
<1>1. o \in Ops /\ i \in LineIdx(o) /\ Applies(draft[SourceRow(o, i)], o, i)
  BY DEF ApplyLine, TypeInv, HandlerOK, Active
<1>2. SourceRow(o, i) \in Rows /\ i \in Nat
  BY <1>1, LineTypes
<1>3. AfterLine(draft[SourceRow(o, i)], o, i) \in Cells
  <2>1. draft[SourceRow(o, i)] \in Cells
    BY <1>2 DEF TypeInv
  <2>. QED
    BY <1>1, <2>1, AfterLineCell
<1>4. draft' = [draft EXCEPT ![SourceRow(o, i)] = AfterLine(draft[SourceRow(o, i)], o, i)]
  BY DEF ApplyLine
<1>5. draft' \in [Rows -> Cells]
  BY <1>3, <1>4 DEF TypeInv
<1>6. line' \in [Handlers -> Nat \ {0}]
  BY <1>2 DEF ApplyLine, TypeInv, TypeOK
<1>7. \A g \in Handlers : HandlerOK(g)'
  BY DEF ApplyLine, TypeInv, HandlerOK, Active
<1>8. UNCHANGED <<tables, serialDraft, opLock, serialLock, kind, target, need, rowLock, pc>>
  BY DEF ApplyLine, locks
<1>. QED
  BY <1>5, <1>6, <1>7, <1>8, DraftTypes DEF TypeInv, TypeOK

LEMMA RestoreStockTypes ==
    ASSUME TypeInv, NEW h \in Handlers, RestoreStock(h)
    PROVE  TypeInv'
<1>. DEFINE o == target[h]
            L(r) == CHOOSE j \in LineIdx(o) : SourceRow(o, j) = r
            C(r) == [qoh |-> draft[r].qoh + Lines(o)[L(r)].qty,
                     damaged |-> draft[r].damaged - Lines(o)[L(r)].qty]
<1>1. /\ o \in Ops /\ pc[h] = "lock" /\ kind[h] = "REVERSE" /\ Verified(h)
      /\ draft' = [r \in Rows |-> IF r \in SourceRows(o) THEN C(r) ELSE draft[r]]
      /\ pc' = [pc EXCEPT ![h] = "serials"]
      /\ UNCHANGED <<tables, serialDraft, locks, kind, target, need, line>>
  BY DEF RestoreStock, AllLocked, TypeInv, HandlerOK, Active
<1>2. ASSUME NEW r \in Rows, r \in SourceRows(o)
      PROVE  C(r) \in Cells
  <2>1. L(r) \in LineIdx(o) /\ SourceRow(o, L(r)) = r
    BY <1>2 DEF SourceRows
  <2>2. Lines(o)[L(r)].qty \in Nat
    BY <1>1, <2>1, LineTypes
  <2>3. draft[r].damaged >= Lines(o)[L(r)].qty
    BY <1>1, <2>1 DEF Verified
  <2>4. draft[r].qoh \in Nat /\ draft[r].damaged \in Nat
    BY DEF TypeInv, Cells
  <2>. HIDE DEF L
  <2>. QED
    BY <2>2, <2>3, <2>4 DEF Cells
<1>3. draft' \in [Rows -> Cells]
  <2>. HIDE DEF C
  <2>. QED
    BY <1>1, <1>2 DEF TypeInv
<1>4. pc' \in [Handlers -> PCs]
  BY <1>1 DEF TypeInv, TypeOK, PCs
<1>5. \A g \in Handlers : HandlerOK(g)'
  BY <1>1 DEF TypeInv, TypeOK, HandlerOK, Active
<1>. QED
  BY <1>1, <1>3, <1>4, <1>5, DraftTypes DEF TypeInv, TypeOK, locks

LEMMA ReturnStockTypes ==
    ASSUME TypeInv, NEW h \in Handlers, ReturnStock(h)
    PROVE  TypeInv'
<1>. DEFINE o == target[h]
<1>1. /\ o \in Ops /\ pc[h] = "lock" /\ kind[h] = "RETURN"
      /\ pc' = [pc EXCEPT ![h] = "cancel"]
      /\ UNCHANGED <<tables, serialDraft, locks, kind, target, need, line>>
  BY DEF ReturnStock, AllLocked, TypeInv, HandlerOK, Active
<1>2. PICK pick \in [SourceRows(o) -> LineIdx(o)] :
        draft' = [r \in Rows |->
                    IF r \in SourceRows(o)
                    THEN [draft[r] EXCEPT !.qoh = @ + Lines(o)[pick[r]].qty]
                    ELSE draft[r]]
  BY DEF ReturnStock
<1>3. ASSUME NEW r \in Rows, r \in SourceRows(o)
      PROVE  [draft[r] EXCEPT !.qoh = @ + Lines(o)[pick[r]].qty] \in Cells
  <2>1. Lines(o)[pick[r]].qty \in Nat
    BY <1>1, <1>3, LineTypes
  <2>2. draft[r] \in Cells
    BY DEF TypeInv
  <2>. QED
    BY <2>1, <2>2 DEF Cells
<1>4. draft' \in [Rows -> Cells]
  BY <1>2, <1>3 DEF TypeInv
<1>5. pc' \in [Handlers -> PCs]
  BY <1>1 DEF TypeInv, TypeOK, PCs
<1>6. \A g \in Handlers : HandlerOK(g)'
  BY <1>1 DEF TypeInv, TypeOK, HandlerOK, Active
<1>. QED
  BY <1>1, <1>4, <1>5, <1>6, DraftTypes DEF TypeInv, TypeOK, locks

LEMMA CreditLineTypes ==
    ASSUME TypeInv, NEW h \in Handlers, CreditLine(h)
    PROVE  TypeInv'
<1>. DEFINE o == target[h]
            i == line[h]
            d == DestRow(o, i)
<1>1. o \in Ops /\ i \in LineIdx(o)
  BY DEF CreditLine, TypeInv, HandlerOK, Active
<1>2. d \in Rows /\ i \in Nat /\ Lines(o)[i].qty \in Nat
  BY <1>1, LineTypes
<1>3. draft' = [draft EXCEPT ![d].qoh = @ + Lines(o)[i].qty]
  BY DEF CreditLine
<1>4. draft' \in [Rows -> Cells]
  BY <1>2, <1>3 DEF TypeInv, Cells
<1>5. rowLock' \in [Rows -> Handlers \cup {Nobody}]
  BY DEF CreditLine, TypeInv, TypeOK
<1>6. line' \in [Handlers -> Nat \ {0}]
  BY <1>2 DEF CreditLine, TypeInv, TypeOK
<1>7. \A g \in Handlers : HandlerOK(g)'
  BY DEF CreditLine, TypeInv, HandlerOK, Active
<1>8. UNCHANGED <<tables, serialDraft, opLock, serialLock, kind, target, need, pc>>
  BY DEF CreditLine
<1>. QED
  BY <1>4, <1>5, <1>6, <1>7, <1>8, DraftTypes DEF TypeInv, TypeOK

LEMMA SerialLineTypes ==
    ASSUME TypeInv, NEW h \in Handlers, SerialLine(h)
    PROVE  TypeInv'
<1>1. target[h] \in Ops /\ line[h] \in LineIdx(target[h])
  BY DEF SerialLine, TypeInv, HandlerOK, Active
<1>2. line[h] \in Nat
  BY <1>1, LineTypes
<1>3. serialDraft' \in [Serials -> SerialType]
  BY <1>1 DEF SerialLine, TypeInv, TypeOK, SerialType
<1>4. serialLock' \in [Serials -> Handlers \cup {Nobody}]
  BY DEF SerialLine, TypeInv, TypeOK
<1>5. line' \in [Handlers -> Nat \ {0}]
  BY <1>2 DEF SerialLine, TypeInv, TypeOK
<1>6. UNCHANGED <<tables, draft, rowLock, opLock, pc, kind, target, need>>
  BY DEF SerialLine
<1>7. \A g \in Handlers : HandlerOK(g)'
  BY <1>6 DEF TypeInv, HandlerOK, Active
<1>. QED
  BY <1>3, <1>4, <1>5, <1>6, <1>7 DEF TypeInv, TypeOK, tables

(* One step of the system keeps the typing invariant: one case per action. *)
LEMMA NextTypes == TypeInv /\ [Next]_vars => TypeInv'
<1>. SUFFICES ASSUME TypeInv, [Next]_vars PROVE TypeInv'
  OBVIOUS
<1>1. CASE UNCHANGED vars
  BY <1>1 DEF vars, tables, locks, TypeInv, TypeOK, HandlerOK, Active
<1>2. ASSUME NEW h \in Handlers, NEW k \in Kinds, NEW o \in Ops, Begin(h, k, o)
      PROVE  TypeInv'
  BY <1>2, BeginTypes
<1>3. ASSUME NEW h \in Handlers, Step(h)
      PROVE  TypeInv'
  <2>1. CASE LockRow(h)
    BY <2>1, LockRowTypes
  <2>2. CASE \/ Verify(h) \/ Insert(h) \/ ApplyDone(h) \/ SerialsDone(h)
             \/ MarkCancelled(h) \/ ClaimReceipt(h) \/ CreditDone(h)
    BY <2>2, ControlTypes
  <2>3. CASE ApplyLine(h)
    BY <2>3, ApplyLineTypes
  <2>4. CASE RestoreStock(h)
    BY <2>4, RestoreStockTypes
  <2>5. CASE ReturnStock(h)
    BY <2>5, ReturnStockTypes
  <2>6. CASE SerialLine(h)
    BY <2>6, SerialLineTypes
  <2>7. CASE CreditLine(h)
    BY <2>7, CreditLineTypes
  <2>8. CASE Commit(h)
    BY <2>8, CommitTypes
  <2>9. CASE \/ RefuseUncovered(h) \/ RefuseLine(h)
             \/ RefuseDuplicate(h) \/ RefuseReceived(h)
    BY <2>9, RollbackTypes
       DEF RefuseUncovered, RefuseLine, RefuseDuplicate, RefuseReceived
  <2>. QED
    BY <1>3, <2>1, <2>2, <2>3, <2>4, <2>5, <2>6, <2>7, <2>8, <2>9 DEF Step
<1>4. ASSUME NEW h \in Handlers, Fail(h)
      PROVE  TypeInv'
  BY <1>4, RollbackTypes DEF Fail
<1>. QED
  BY <1>1, <1>2, <1>3, <1>4 DEF Next

LEMMA TypeInvariant == Spec => []TypeInv
<1>. QED
  BY InitTypes, NextTypes, PTL DEF Spec

(* Type correctness, for every instance: whatever requests arrive and      *)
(* wherever transactions fail, the tables, the versions in progress and    *)
(* the handlers' states keep their types.                                  *)
THEOREM TypeCorrect == Spec => []TypeOK
<1>1. TypeInv => TypeOK
  BY DEF TypeInv
<1>. QED
  BY <1>1, TypeInvariant, PTL

(* Stock is never oversold, for every instance: no quantity on hand and no *)
(* damaged quantity ever becomes negative, although inventory_stock has no *)
(* CHECK constraint and any number of requests overlap, repeat or fail.    *)
THEOREM NeverNegative == Spec => []NoNegativeStock
<1>1. TypeInv => NoNegativeStock
  BY DEF TypeInv, NoNegativeStock, Cells
<1>. QED
  BY <1>1, TypeInvariant, PTL

-----------------------------------------------------------------------------
(* PullOutCreditedOnce.  A transaction that has reached its operation row  *)
(* holds that row's lock until it ends, so the status a receipt re-read    *)
(* under the lock is still there when it commits; and a pull-out that is   *)
(* DISPATCHED has one more posting than receipts.                          *)

HoldsOp(h) == \/ pc[h] \in {"apply", "credit", "commit"}
              \/ pc[h] = "serials" /\ kind[h] = "CREATE"

OwnsOp(h) == HoldsOp(h) => opLock[target[h]] = h
RightKind(h) ==
    Active(h) => /\ kind[h] = "REVERSE" => Req[target[h]].type = "DAMAGE"
                 /\ kind[h] = "RETURN" => Req[target[h]].type = "CONSUMABLE_ISSUE"
                 /\ kind[h] = "RECEIVE" => status[target[h]] # "NONE"
StillOpen(h) ==
    kind[h] = "RECEIVE" /\ pc[h] \in {"credit", "commit"}
        => status[target[h]] # "RECEIVED"
Balance(o) ==
    Req[o].type = "PULLOUT" =>
        /\ status[o] \in {"NONE", "DISPATCHED", "RECEIVED"}
        /\ status[o] # "DISPATCHED" => tally[o]["RECEIVE"] <= tally[o]["CREATE"]
        /\ status[o] = "DISPATCHED" => tally[o]["RECEIVE"] < tally[o]["CREATE"]

ReceiptInv == /\ \A h \in Handlers : OwnsOp(h) /\ RightKind(h) /\ StillOpen(h)
              /\ \A o \in Ops : Balance(o)

LEMMA InitReceipt == Init => ReceiptInv
<1>. SUFFICES ASSUME Init PROVE ReceiptInv
  OBVIOUS
<1>1. \A h \in Handlers : pc[h] = "idle"
  BY DEF Init
<1>2. \A h \in Handlers : OwnsOp(h) /\ RightKind(h) /\ StillOpen(h)
  BY <1>1 DEF OwnsOp, HoldsOp, RightKind, StillOpen, Active
<1>3. \A o \in Ops : Balance(o)
  BY DEF Init, Balance, Kinds
<1>. QED
  BY <1>2, <1>3 DEF ReceiptInv

LEMMA BeginReceipt ==
    ASSUME TypeInv, ReceiptInv, NEW h \in Handlers, NEW k \in Kinds,
           NEW o \in Ops, Begin(h, k, o)
    PROVE  ReceiptInv'
<1>1. /\ pc' = [pc EXCEPT ![h] = IF k = "RECEIVE" THEN "claim" ELSE "lock"]
      /\ kind' = [kind EXCEPT ![h] = k] /\ target' = [target EXCEPT ![h] = o]
      /\ status' = status /\ tally' = tally /\ opLock' = opLock
  BY DEF Begin, tables, locks
<1>2. /\ k = "REVERSE" => Req[o].type = "DAMAGE"
      /\ k = "RETURN" => Req[o].type = "CONSUMABLE_ISSUE"
      /\ k = "RECEIVE" => status[o] # "NONE"
  BY DEF Begin, Admissible, MayReverse, MayReturn, MayReceive
<1>3. ASSUME NEW g \in Handlers
      PROVE  (OwnsOp(g) /\ RightKind(g) /\ StillOpen(g))'
  <2>1. CASE g = h
    BY <1>1, <1>2, <2>1 DEF TypeInv, TypeOK, OwnsOp, HoldsOp, RightKind, StillOpen
  <2>2. CASE g # h
    BY <1>1, <2>2
       DEF ReceiptInv, TypeInv, TypeOK, OwnsOp, HoldsOp, RightKind, StillOpen, Active
  <2>. QED
    BY <2>1, <2>2
<1>. QED
  BY <1>1, <1>3 DEF ReceiptInv, Balance

(* A step inside a transaction that neither takes nor gives up the lock of *)
(* its operation: the statuses and the tally stay as they are.             *)
LEMMA QuietReceipt ==
    ASSUME TypeInv, ReceiptInv, NEW h \in Handlers,
           \/ LockRow(h) \/ Verify(h) \/ ApplyLine(h) \/ ApplyDone(h)
           \/ RestoreStock(h) \/ ReturnStock(h) \/ SerialLine(h)
           \/ SerialsDone(h) \/ CreditLine(h) \/ CreditDone(h)
    PROVE  ReceiptInv'
<1>1. /\ UNCHANGED <<status, tally, opLock, kind, target>>
      /\ Active(h)
      /\ \/ pc' = pc
         \/ \E p \in PCs :
              /\ pc' = [pc EXCEPT ![h] = p]
              /\ p \in {"apply", "credit", "commit"} => HoldsOp(h)
              /\ p = "serials" /\ kind[h] = "CREATE" => HoldsOp(h)
              /\ kind[h] = "RECEIVE" /\ p \in {"credit", "commit"}
                    => pc[h] \in {"credit", "commit"}
  <2>. HandlerOK(h)
    BY DEF TypeInv
  <2>1. CASE LockRow(h) \/ ApplyLine(h) \/ SerialLine(h) \/ CreditLine(h)
    BY <2>1 DEF LockRow, ApplyLine, SerialLine, CreditLine, tables, locks, Active
  <2>2. CASE Verify(h)
    BY <2>2 DEF Verify, AllLocked, tables, locks, Active, PCs
  <2>3. CASE ApplyDone(h)
    BY <2>3 DEF ApplyDone, HandlerOK, tables, locks, Active, PCs, HoldsOp
  <2>4. CASE RestoreStock(h)
    BY <2>4 DEF RestoreStock, AllLocked, tables, locks, Active, PCs
  <2>5. CASE ReturnStock(h)
    BY <2>5 DEF ReturnStock, AllLocked, tables, locks, Active, PCs
  <2>6. CASE SerialsDone(h)
    BY <2>6 DEF SerialsDone, HandlerOK, tables, locks, Active, PCs, HoldsOp
  <2>7. CASE CreditDone(h)
    BY <2>7 DEF CreditDone, tables, locks, Active, PCs, HoldsOp
  <2>. QED
    BY <2>1, <2>2, <2>3, <2>4, <2>5, <2>6, <2>7
<1>2. ASSUME NEW g \in Handlers
      PROVE  (OwnsOp(g) /\ RightKind(g) /\ StillOpen(g))'
  <2>1. CASE g = h
    BY <1>1, <2>1
       DEF ReceiptInv, TypeInv, TypeOK, OwnsOp, HoldsOp, RightKind, StillOpen, Active
  <2>2. CASE g # h
    BY <1>1, <2>2
       DEF ReceiptInv, TypeInv, TypeOK, OwnsOp, HoldsOp, RightKind, StillOpen, Active
  <2>. QED
    BY <2>1, <2>2
<1>. QED
  BY <1>1, <1>2 DEF ReceiptInv, Balance

(* Taking the lock of the operation row, which nobody held.                *)
LEMMA ClaimReceiptInv ==
    ASSUME TypeInv, ReceiptInv, NEW h \in Handlers,
           Insert(h) \/ MarkCancelled(h) \/ ClaimReceipt(h)
    PROVE  ReceiptInv'
<1>. DEFINE Moves(p) ==
              /\ pc' = [pc EXCEPT ![h] = p]
              /\ p \in PCs \ {"idle", "ok", "error"}
              /\ kind[h] = "RECEIVE" /\ p \in {"credit", "commit"}
                    => status[target[h]] # "RECEIVED"
<1>. HandlerOK(h)
  BY DEF TypeInv
<1>1. /\ UNCHANGED <<status, tally, kind, target>>
      /\ Active(h) /\ target[h] \in Ops
      /\ opLock[target[h]] = Nobody
      /\ opLock' = [opLock EXCEPT ![target[h]] = h]
  BY DEF Insert, MarkCancelled, ClaimReceipt, HandlerOK, tables, Active
<1>2. PICK p : Moves(p)
  <2>1. CASE Insert(h)
    <3>. Moves("apply")
      BY <2>1 DEF Insert, HandlerOK, PCs
    <3>. QED
      OBVIOUS
  <2>2. CASE MarkCancelled(h)
    <3>. Moves("commit")
      BY <2>2 DEF MarkCancelled, HandlerOK, PCs
    <3>. QED
      OBVIOUS
  <2>3. CASE ClaimReceipt(h)
    <3>. Moves("credit")
      BY <2>3 DEF ClaimReceipt, StillReceivable, PCs
    <3>. QED
      OBVIOUS
  <2>. QED
    BY <2>1, <2>2, <2>3
<1>3. ASSUME NEW g \in Handlers
      PROVE  (OwnsOp(g) /\ RightKind(g) /\ StillOpen(g))'
  <2>1. CASE g = h
    <3>1. pc'[g] = p /\ opLock'[target[g]] = g /\ kind' = kind /\ target' = target
          /\ status' = status
      BY <1>1, <1>2, <2>1 DEF TypeInv, TypeOK
    <3>2. RightKind(g)
      BY DEF ReceiptInv
    <3>. QED
      BY <1>1, <1>2, <2>1, <3>1, <3>2 DEF OwnsOp, RightKind, StillOpen, Active
  <2>2. CASE g # h
    <3>1. pc'[g] = pc[g] /\ kind' = kind /\ target' = target /\ status' = status
      BY <1>1, <1>2, <2>2 DEF TypeInv, TypeOK
    <3>2. OwnsOp(g) /\ RightKind(g) /\ StillOpen(g)
      BY DEF ReceiptInv
    <3>3. HoldsOp(g) => target[g] # target[h]
      <4>1. g # Nobody
        BY AbsentAssumption
      <4>. QED
        BY <1>1, <3>2, <4>1 DEF OwnsOp
    <3>4. HoldsOp(g) => opLock'[target[g]] = opLock[target[g]]
      BY <1>1, <3>3 DEF TypeInv, TypeOK
    <3>. QED
      BY <3>1, <3>2, <3>4 DEF OwnsOp, HoldsOp, RightKind, StillOpen, Active
  <2>. QED
    BY <2>1, <2>2
<1>. QED
  BY <1>1, <1>3 DEF ReceiptInv, Balance

(* The locks of the other handlers survive the end of a request.           *)
LEMMA FinishOwns ==
    ASSUME TypeInv, ReceiptInv, NEW h \in Handlers, NEW a \in {"ok", "error"},
           Finish(h, a)
    PROVE  \A g \in Handlers : OwnsOp(g)'
<1>. TAKE g \in Handlers
<1>1. CASE g = h
  BY <1>1 DEF Finish, TypeInv, TypeOK, OwnsOp, HoldsOp
<1>2. CASE g # h
  <2>1. /\ pc'[g] = pc[g] /\ kind'[g] = kind[g] /\ target'[g] = target[g]
    BY <1>2 DEF Finish, TypeInv, TypeOK
  <2>2. HoldsOp(g) => target[g] \in Ops
    BY DEF TypeInv, HandlerOK, HoldsOp, Active
  <2>3. opLock[target[g]] = g /\ target[g] \in Ops => opLock'[target[g]] = g
    BY <1>2 DEF Finish, Freed, TypeInv, TypeOK
  <2>. QED
    BY <2>1, <2>2, <2>3 DEF ReceiptInv, OwnsOp, HoldsOp
<1>. QED
  BY <1>1, <1>2

LEMMA RollbackReceipt ==
    ASSUME TypeInv, ReceiptInv, NEW h \in Handlers, Rollback(h)
    PROVE  ReceiptInv'
<1>1. Finish(h, "error") /\ status' = status /\ tally' = tally
  BY DEF Rollback, tables
<1>2. \A g \in Handlers : OwnsOp(g)'
  BY <1>1, FinishOwns
<1>3. \A g \in Handlers : (RightKind(g) /\ StillOpen(g))'
  BY <1>1 DEF Finish, ReceiptInv, TypeInv, TypeOK, RightKind, StillOpen, Active
<1>. QED
  BY <1>1, <1>2, <1>3 DEF ReceiptInv, Balance

LEMMA CommitReceipt ==
    ASSUME TypeInv, ReceiptInv, NEW h \in Handlers, Commit(h)
    PROVE  ReceiptInv'
<1>. DEFINE o == target[h]
            k == kind[h]
<1>1. /\ o \in Ops /\ k \in Kinds /\ Active(h) /\ pc[h] = "commit"
      /\ Finish(h, "ok")
      /\ status' = [status EXCEPT ![o] = StatusAfter(k, o)]
      /\ tally' = [tally EXCEPT ![o][k] = @ + 1]
  BY DEF Commit, TypeInv, HandlerOK, Active
<1>2. opLock[o] = h
  BY <1>1 DEF ReceiptInv, OwnsOp, HoldsOp
<1>3. \A g \in Handlers : OwnsOp(g)'
  BY <1>1, FinishOwns
<1>4. ASSUME NEW g \in Handlers
      PROVE  (RightKind(g) /\ StillOpen(g))'
  <2>1. CASE g = h
    BY <1>1, <2>1 DEF Finish, TypeInv, TypeOK, RightKind, StillOpen, Active
  <2>2. CASE g # h
    <3>1. pc'[g] = pc[g] /\ kind'[g] = kind[g] /\ target'[g] = target[g]
      BY <1>1, <2>2 DEF Finish, TypeInv, TypeOK
    <3>2. StatusAfter(k, o) # "NONE"
      BY DEF StatusAfter, PostedStatus
    <3>3. Active(g) => target[g] \in Ops
      BY DEF TypeInv, HandlerOK
    <3>4. RightKind(g)'
      BY <1>1, <3>1, <3>2, <3>3 DEF ReceiptInv, RightKind, Active, TypeInv, TypeOK
    <3>5. HoldsOp(g) => target[g] # o
      BY <1>2, <2>2 DEF ReceiptInv, OwnsOp
    <3>6. StillOpen(g)'
      BY <1>1, <3>1, <3>3, <3>5
         DEF ReceiptInv, StillOpen, HoldsOp, Active, TypeInv, TypeOK
    <3>. QED
      BY <3>4, <3>6
  <2>. QED
    BY <2>1, <2>2
<1>5. ASSUME NEW p \in Ops
      PROVE  Balance(p)'
  <2>1. CASE p # o
    BY <1>1, <2>1 DEF ReceiptInv, Balance, TypeInv, TypeOK
  <2>2. CASE p = o /\ Req[o].type = "PULLOUT"
    <3>1. k \in {"CREATE", "RECEIVE"}
      BY <1>1, <2>2 DEF ReceiptInv, RightKind, Kinds
    <3>2. /\ tally[o]["CREATE"] \in Nat /\ tally[o]["RECEIVE"] \in Nat
          /\ tally[o] \in [Kinds -> Nat]
      BY <1>1 DEF TypeInv, TypeOK, Kinds
    <3>3. Balance(o)
      BY <1>1 DEF ReceiptInv
    <3>4. CASE k = "CREATE"
      <4>1. /\ status'[o] = "DISPATCHED"
            /\ tally'[o]["CREATE"] = tally[o]["CREATE"] + 1
            /\ tally'[o]["RECEIVE"] = tally[o]["RECEIVE"]
        BY <1>1, <2>2, <3>2, <3>4
           DEF StatusAfter, PostedStatus, TypeInv, TypeOK, Kinds
      <4>. QED
        BY <2>2, <3>2, <3>3, <4>1 DEF Balance
    <3>5. CASE k = "RECEIVE"
      <4>1. /\ status'[o] = "RECEIVED"
            /\ tally'[o]["CREATE"] = tally[o]["CREATE"]
            /\ tally'[o]["RECEIVE"] = tally[o]["RECEIVE"] + 1
        BY <1>1, <3>2, <3>5 DEF StatusAfter, TypeInv, TypeOK, Kinds
      <4>2. status[o] # "RECEIVED" /\ status[o] # "NONE"
        BY <1>1, <3>5 DEF ReceiptInv, StillOpen, RightKind
      <4>. QED
        BY <2>2, <3>2, <3>3, <4>1, <4>2 DEF Balance
    <3>. QED
      BY <3>1, <3>4, <3>5
  <2>3. CASE p = o /\ Req[o].type # "PULLOUT"
    BY <2>3 DEF Balance
  <2>. QED
    BY <2>1, <2>2, <2>3
<1>. QED
  BY <1>3, <1>4, <1>5 DEF ReceiptInv

LEMMA NextReceipt == TypeInv /\ ReceiptInv /\ [Next]_vars => ReceiptInv'
<1>. SUFFICES ASSUME TypeInv, ReceiptInv, [Next]_vars PROVE ReceiptInv'
  OBVIOUS
<1>1. CASE UNCHANGED vars
  BY <1>1 DEF vars, tables, locks, ReceiptInv, OwnsOp, HoldsOp, RightKind,
              StillOpen, Balance, Active
<1>2. ASSUME NEW h \in Handlers, NEW k \in Kinds, NEW o \in Ops, Begin(h, k, o)
      PROVE  ReceiptInv'
  BY <1>2, BeginReceipt
<1>3. ASSUME NEW h \in Handlers, Step(h)
      PROVE  ReceiptInv'
  <2>1. CASE \/ LockRow(h) \/ Verify(h) \/ ApplyLine(h) \/ ApplyDone(h)
             \/ RestoreStock(h) \/ ReturnStock(h) \/ SerialLine(h)
             \/ SerialsDone(h) \/ CreditLine(h) \/ CreditDone(h)
    BY <2>1, QuietReceipt
  <2>2. CASE Insert(h) \/ MarkCancelled(h) \/ ClaimReceipt(h)
    BY <2>2, ClaimReceiptInv
  <2>3. CASE Commit(h)
    BY <2>3, CommitReceipt
  <2>4. CASE \/ RefuseUncovered(h) \/ RefuseLine(h)
             \/ RefuseDuplicate(h) \/ RefuseReceived(h)
    BY <2>4, RollbackReceipt
       DEF RefuseUncovered, RefuseLine, RefuseDuplicate, RefuseReceived
  <2>. QED
    BY <1>3, <2>1, <2>2, <2>3, <2>4 DEF Step
<1>4. ASSUME NEW h \in Handlers, Fail(h)
      PROVE  ReceiptInv'
  BY <1>4, RollbackReceipt DEF Fail
<1>. QED
  BY <1>1, <1>2, <1>3, <1>4 DEF Next

LEMMA ReceiptInvariant == Spec => []ReceiptInv
<1>. QED
  BY InitReceipt, TypeInvariant, NextReceipt, PTL DEF Spec

(* A pull-out is never credited to its destination more often than it was  *)
(* posted, for every instance: receive requests may race each other and    *)
(* any other request, be repeated, or fail anywhere.                       *)
THEOREM CreditedOnce == Spec => []PullOutCreditedOnce
<1>1. TypeInv /\ ReceiptInv => PullOutCreditedOnce
  <2>. SUFFICES ASSUME TypeInv, ReceiptInv, NEW o \in Ops, Req[o].type = "PULLOUT"
                PROVE  tally[o]["RECEIVE"] <= tally[o]["CREATE"]
    BY DEF PullOutCreditedOnce
  <2>1. tally[o]["RECEIVE"] \in Nat /\ tally[o]["CREATE"] \in Nat
    BY DEF TypeInv, TypeOK, Kinds
  <2>. QED
    BY <2>1 DEF ReceiptInv, Balance
<1>. QED
  BY <1>1, TypeInvariant, ReceiptInvariant, PTL

-----------------------------------------------------------------------------
(***************************************************************************)
(* Locks.  A create, reversal or return that is past its row locks holds   *)
(* every row its body names, and only the holder of a lock changes its own *)
(* version of the row; nothing a handler holds is touched by another.      *)

Acts(h) == \/ \E k \in Kinds, o \in Ops : Begin(h, k, o)
           \/ Step(h)
           \/ Fail(h)

Starting == {"idle", "lock", "insert", "claim", "ok", "error"}
OwnsRows(h) ==
    Active(h) /\ kind[h] # "RECEIVE" =>
        /\ need[h] \subseteq SourceRows(target[h])
        /\ pc[h] # "lock" => need[h] = {}
        /\ \A r \in SourceRows(target[h]) \ need[h] : rowLock[r] = h
InOrder(h) ==
    Active(h) /\ kind[h] \in {"CREATE", "REVERSE"} =>
        \A r \in SourceRows(target[h]) \ need[h], q \in need[h] : r[2] < q[2]
HeldRows(h) ==
    \A r \in Rows : rowLock[r] = h =>
        /\ Active(h)
        /\ kind[h] # "RECEIVE" => r \in SourceRows(target[h]) \ need[h]
LocksInv == \A h \in Handlers :
                /\ OwnsRows(h) /\ InOrder(h) /\ HeldRows(h)
                /\ pc[h] \in Starting => line[h] = 1

LEMMA ActionOfHandler ==
    ASSUME Next PROVE \E h \in Handlers : Acts(h)
  BY DEF Next, Acts

(* The rows of a body.                                                     *)
LEMMA SourceRowTypes ==
    ASSUME NEW o \in Ops
    PROVE  /\ SourceRows(o) \subseteq Rows
           /\ SourceRows(o) # {}
           /\ \A r \in SourceRows(o) : r[1] = Req[o].branch /\ r[2] \in Nat
                                        /\ r = <<Req[o].branch, r[2]>>
<1>1. \A i \in LineIdx(o) : SourceRow(o, i) \in Rows
  BY LineTypes
<1>2. Req[o].lines \in Seq(LineType) /\ Req[o].lines # << >>
  BY ConstantsAssumption
<1>3. 1 \in LineIdx(o)
  BY <1>2 DEF LineIdx
<1>4. \A i \in LineIdx(o) : Req[o].lines[i].product \in Nat
  BY LineTypes, ConstantsAssumption DEF Lines, LineType
<1>5. ASSUME NEW r \in SourceRows(o)
      PROVE  r \in Rows /\ r = <<Req[o].branch, r[2]>> /\ r[1] = Req[o].branch /\ r[2] \in Nat
  BY <1>1, <1>4 DEF SourceRows, SourceRow
<1>6. SourceRows(o) # {}
  BY <1>3 DEF SourceRows
<1>. QED
  BY <1>5, <1>6

(* What another handler does to a handler's state and locks: nothing.      *)
LEMMA OthersStay ==
    ASSUME TypeInv, NEW h \in Handlers, NEW g \in Handlers, g # h, Acts(h)
    PROVE  /\ pc'[g] = pc[g] /\ kind'[g] = kind[g] /\ target'[g] = target[g]
           /\ need'[g] = need[g] /\ line'[g] = line[g]
<1>1. CASE \E k \in Kinds, o \in Ops : Begin(h, k, o)
  BY <1>1 DEF Begin, TypeInv, TypeOK
<1>2. CASE LockRow(h) \/ Verify(h) \/ Insert(h) \/ ApplyLine(h) \/ ApplyDone(h)
  BY <1>2 DEF LockRow, Verify, Insert, ApplyLine, ApplyDone, TypeInv, TypeOK
<1>3. CASE RestoreStock(h) \/ ReturnStock(h) \/ SerialLine(h) \/ SerialsDone(h)
  BY <1>3 DEF RestoreStock, ReturnStock, SerialLine, SerialsDone, TypeInv, TypeOK
<1>4. CASE MarkCancelled(h) \/ ClaimReceipt(h) \/ CreditLine(h) \/ CreditDone(h)
  BY <1>4 DEF MarkCancelled, ClaimReceipt, CreditLine, CreditDone, TypeInv, TypeOK
<1>5. CASE \/ Commit(h) \/ RefuseUncovered(h) \/ RefuseLine(h)
           \/ RefuseDuplicate(h) \/ RefuseReceived(h) \/ Fail(h)
  <2>1. \E a \in {"ok", "error"} : Finish(h, a)
    BY <1>5 DEF Commit, RefuseUncovered, RefuseLine, RefuseDuplicate,
                RefuseReceived, Fail, Rollback
  <2>. QED
    BY <2>1 DEF Finish, TypeInv, TypeOK
<1>. QED
  BY <1>1, <1>2, <1>3, <1>4, <1>5 DEF Acts, Step

LEMMA OthersRows ==
    ASSUME TypeInv, LocksInv, NEW h \in Handlers, NEW g \in Handlers, g # h, Acts(h),
           NEW r \in Rows
    PROVE  /\ rowLock'[r] = g <=> rowLock[r] = g
           /\ rowLock[r] = g => draft'[r] = draft[r]
<1>0. g # Nobody
  BY AbsentAssumption
<1>1. CASE \E k \in Kinds, o \in Ops : Begin(h, k, o)
  BY <1>1 DEF Begin, locks
<1>2. CASE LockRow(h)
  BY <1>0, <1>2 DEF LockRow, TypeInv, TypeOK
<1>3. CASE \/ Verify(h) \/ Insert(h) \/ ApplyDone(h) \/ SerialLine(h)
           \/ SerialsDone(h) \/ MarkCancelled(h) \/ ClaimReceipt(h) \/ CreditDone(h)
  BY <1>3 DEF Verify, Insert, ApplyDone, SerialLine, SerialsDone, MarkCancelled,
              ClaimReceipt, CreditDone, locks
<1>4. CASE ApplyLine(h)
  <2>1. /\ pc[h] = "apply" /\ line[h] \in LineIdx(target[h]) /\ rowLock' = rowLock
        /\ draft' = [draft EXCEPT ![SourceRow(target[h], line[h])] =
                        AfterLine(@, target[h], line[h])]
    BY <1>4 DEF ApplyLine, locks
  <2>2. kind[h] = "CREATE" /\ Active(h)
    BY <2>1 DEF TypeInv, HandlerOK, Active
  <2>3. rowLock[SourceRow(target[h], line[h])] = h
    BY <2>1, <2>2 DEF LocksInv, OwnsRows, SourceRows
  <2>. QED
    BY <2>1, <2>3 DEF TypeInv, TypeOK
<1>5. CASE RestoreStock(h) \/ ReturnStock(h)
  <2>1. /\ pc[h] = "lock" /\ need[h] = {} /\ kind[h] # "RECEIVE" /\ rowLock' = rowLock
        /\ r \notin SourceRows(target[h]) => draft'[r] = draft[r]
    BY <1>5 DEF RestoreStock, ReturnStock, AllLocked, locks
  <2>2. r \in SourceRows(target[h]) => rowLock[r] = h
    BY <2>1 DEF LocksInv, OwnsRows, Active
  <2>. QED
    BY <2>1, <2>2
<1>6. CASE CreditLine(h)
  BY <1>0, <1>6 DEF CreditLine, TypeInv, TypeOK
<1>7. CASE Commit(h)
  BY <1>0, <1>7 DEF Commit, Finish, Freed, TypeInv, TypeOK
<1>8. CASE \/ RefuseUncovered(h) \/ RefuseLine(h)
           \/ RefuseDuplicate(h) \/ RefuseReceived(h) \/ Fail(h)
  <2>1. Rollback(h)
    BY <1>8 DEF RefuseUncovered, RefuseLine, RefuseDuplicate, RefuseReceived, Fail
  <2>. QED
    BY <1>0, <2>1 DEF Rollback, Undone, Overlay, Finish, Freed, TypeInv, TypeOK
<1>. QED
  BY <1>1, <1>2, <1>3, <1>4, <1>5, <1>6, <1>7, <1>8 DEF Acts, Step

LEMMA InitLocks == Init => LocksInv
  BY AbsentAssumption DEF Init, LocksInv, OwnsRows, InOrder, HeldRows, Active

LEMMA OthersLocks ==
    ASSUME TypeInv, LocksInv, NEW h \in Handlers, NEW g \in Handlers, g # h, Acts(h)
    PROVE  /\ (OwnsRows(g) /\ InOrder(g) /\ HeldRows(g))'
           /\ (pc[g] \in Starting => line[g] = 1)'
<1>1. /\ pc'[g] = pc[g] /\ kind'[g] = kind[g] /\ target'[g] = target[g]
      /\ need'[g] = need[g] /\ line'[g] = line[g]
  BY OthersStay
<1>2. \A r \in Rows : rowLock'[r] = g <=> rowLock[r] = g
  BY OthersRows
<1>3. Active(g) => SourceRows(target[g]) \subseteq Rows
  BY SourceRowTypes DEF TypeInv, HandlerOK
<1>4. OwnsRows(g) /\ InOrder(g) /\ HeldRows(g)
  BY DEF LocksInv
<1>5. Active(g)' <=> Active(g)
  BY <1>1 DEF Active
<1>6. OwnsRows(g)'
  BY <1>1, <1>2, <1>3, <1>4, <1>5 DEF OwnsRows
<1>7. InOrder(g)'
  BY <1>1, <1>4, <1>5 DEF InOrder
<1>8. HeldRows(g)'
  BY <1>1, <1>2, <1>4, <1>5 DEF HeldRows
<1>. QED
  BY <1>1, <1>6, <1>7, <1>8 DEF LocksInv

(* A step of the handler itself: it starts, locks a row, goes on or ends.  *)
LEMMA BeginLocks ==
    ASSUME TypeInv, LocksInv, NEW h \in Handlers, NEW k \in Kinds, NEW o \in Ops,
           Begin(h, k, o)
    PROVE  /\ (OwnsRows(h) /\ InOrder(h) /\ HeldRows(h))'
           /\ (pc[h] \in Starting => line[h] = 1)'
<1>1. /\ pc[h] = "idle" /\ pc'[h] = (IF k = "RECEIVE" THEN "claim" ELSE "lock")
      /\ kind'[h] = k /\ target'[h] = o /\ rowLock' = rowLock /\ line' = line
      /\ need'[h] = (IF k = "RECEIVE" THEN {} ELSE SourceRows(o))
  BY DEF Begin, TypeInv, TypeOK, locks
<1>2. \A r \in Rows : rowLock[r] # h
  BY <1>1 DEF LocksInv, HeldRows, Active
<1>3. OwnsRows(h)' /\ InOrder(h)'
  BY <1>1 DEF OwnsRows, InOrder
<1>4. HeldRows(h)'
  BY <1>1, <1>2 DEF HeldRows
<1>. QED
  BY <1>1, <1>3, <1>4 DEF LocksInv, Starting

LEMMA LockRowLocks ==
    ASSUME TypeInv, LocksInv, NEW h \in Handlers, LockRow(h)
    PROVE  /\ (OwnsRows(h) /\ InOrder(h) /\ HeldRows(h))'
           /\ (pc[h] \in Starting => line[h] = 1)'
<1>1. PICK r \in Rows :
          /\ NextRow(h, r) /\ rowLock' = [rowLock EXCEPT ![r] = h]
          /\ need' = [need EXCEPT ![h] = @ \ {r}]
  BY DEF LockRow
<1>2. /\ pc[h] = "lock" /\ UNCHANGED <<pc, kind, target, line>>
  BY DEF LockRow
<1>3. /\ Active(h) /\ target[h] \in Ops /\ kind[h] # "RECEIVE"
      /\ need[h] \subseteq SourceRows(target[h]) /\ r \in need[h]
      /\ need'[h] = need[h] \ {r} /\ Active(h)'
  BY <1>1, <1>2 DEF TypeInv, TypeOK, HandlerOK, Active, LocksInv, OwnsRows, NextRow
<1>4. \A q \in Rows : rowLock'[q] = IF q = r THEN h ELSE rowLock[q]
  BY <1>1 DEF TypeInv, TypeOK
<1>5. SourceRows(target[h]) \subseteq Rows
  BY <1>3, SourceRowTypes
<1>6. OwnsRows(h)'
  BY <1>2, <1>3, <1>4, <1>5 DEF LocksInv, OwnsRows
<1>7. InOrder(h)'
  <2>. SUFFICES ASSUME kind[h] \in {"CREATE", "REVERSE"},
                       NEW q \in SourceRows(target[h]) \ need'[h], NEW p \in need'[h]
                PROVE  q[2] < p[2]
    BY <1>2 DEF InOrder
  <2>1. p \in need[h] /\ p # r
    BY <1>3
  <2>2. CASE q # r
    <3>1. q \in SourceRows(target[h]) \ need[h]
      BY <1>3, <2>2
    <3>. QED
      BY <1>3, <2>1, <3>1 DEF LocksInv, InOrder
  <2>3. CASE q = r
    <3>1. q[2] <= p[2]
      BY <1>1, <1>2, <2>1, <2>3 DEF NextRow
    <3>2. /\ q = <<Req[target[h]].branch, q[2]>> /\ p = <<Req[target[h]].branch, p[2]>>
          /\ q[2] \in Nat /\ p[2] \in Nat
      BY <1>3, <2>1, <2>3, SourceRowTypes
    <3>3. q[2] # p[2]
      BY <2>1, <2>3, <3>2
    <3>. QED
      BY <3>1, <3>2, <3>3
  <2>. QED
    BY <2>2, <2>3
<1>8. HeldRows(h)'
  BY <1>2, <1>3, <1>4 DEF LocksInv, HeldRows
<1>. QED
  BY <1>2, <1>6, <1>7, <1>8 DEF LocksInv

LEMMA GoOnLocks ==
    ASSUME TypeInv, LocksInv, NEW h \in Handlers,
           \/ Verify(h) \/ Insert(h) \/ ApplyLine(h) \/ ApplyDone(h)
           \/ RestoreStock(h) \/ ReturnStock(h) \/ SerialLine(h) \/ SerialsDone(h)
           \/ MarkCancelled(h) \/ ClaimReceipt(h) \/ CreditLine(h) \/ CreditDone(h)
    PROVE  /\ (OwnsRows(h) /\ InOrder(h) /\ HeldRows(h))'
           /\ (pc[h] \in Starting => line[h] = 1)'
<1>1. /\ UNCHANGED <<kind, target, need>>
      /\ Active(h) /\ Active(h)' /\ target[h] \in Ops
      /\ pc[h] = "lock" => kind[h] # "RECEIVE" /\ need[h] = {}
      /\ pc'[h] # "lock"
      /\ pc'[h] \in Starting => pc[h] = "lock" /\ line' = line
  <2>1. ASSUME Verify(h) \/ Insert(h) \/ ApplyLine(h) \/ ApplyDone(h) PROVE <1>1!:
    BY <2>1 DEF Verify, Insert, ApplyLine, ApplyDone, AllLocked, TypeInv, TypeOK,
                HandlerOK, Active, Starting
  <2>2. ASSUME RestoreStock(h) \/ ReturnStock(h) \/ SerialLine(h) \/ SerialsDone(h)
        PROVE  <1>1!:
    BY <2>2 DEF RestoreStock, ReturnStock, SerialLine, SerialsDone, AllLocked, TypeInv,
                TypeOK, HandlerOK, Active, Starting
  <2>3. ASSUME MarkCancelled(h) \/ ClaimReceipt(h) \/ CreditLine(h) \/ CreditDone(h)
        PROVE  <1>1!:
    BY <2>3 DEF MarkCancelled, ClaimReceipt, CreditLine, CreditDone, TypeInv,
                TypeOK, HandlerOK, Active, Starting
  <2>. QED
    BY <2>1, <2>2, <2>3
<1>2. ASSUME NEW r \in Rows
      PROVE  /\ rowLock[r] = h => rowLock'[r] = h
             /\ rowLock'[r] = h => rowLock[r] = h \/ kind[h] = "RECEIVE"
  BY DEF Verify, Insert, ApplyLine, ApplyDone, RestoreStock, ReturnStock, SerialLine,
         SerialsDone, MarkCancelled, ClaimReceipt, CreditLine, CreditDone, locks,
         TypeInv, TypeOK, HandlerOK
<1>3. SourceRows(target[h]) \subseteq Rows
  BY <1>1, SourceRowTypes
<1>4. OwnsRows(h) /\ InOrder(h) /\ HeldRows(h)
  BY DEF LocksInv
<1>5. OwnsRows(h)'
  BY <1>1, <1>2, <1>3, <1>4 DEF OwnsRows
<1>6. InOrder(h)'
  BY <1>1, <1>4 DEF InOrder
<1>7. HeldRows(h)'
  BY <1>1, <1>2, <1>4 DEF HeldRows
<1>8. (pc[h] \in Starting => line[h] = 1)'
  BY <1>1 DEF LocksInv, Starting
<1>. QED
  BY <1>5, <1>6, <1>7, <1>8

LEMMA FinishLocks ==
    ASSUME TypeInv, LocksInv, NEW h \in Handlers, NEW a \in {"ok", "error"}, Finish(h, a)
    PROVE  /\ (OwnsRows(h) /\ InOrder(h) /\ HeldRows(h))'
           /\ (pc[h] \in Starting => line[h] = 1)'
<1>1. ~Active(h)' /\ line'[h] = 1
  BY DEF Finish, Active, TypeInv, TypeOK
<1>2. \A r \in Rows : rowLock'[r] # h
  BY AbsentAssumption DEF Finish, Freed, TypeInv, TypeOK
<1>. QED
  BY <1>1, <1>2 DEF OwnsRows, InOrder, HeldRows

LEMMA NextLocks == TypeInv /\ LocksInv /\ [Next]_vars => LocksInv'
<1>. SUFFICES ASSUME TypeInv, LocksInv, [Next]_vars PROVE LocksInv'
  OBVIOUS
<1>1. CASE UNCHANGED vars
  BY <1>1 DEF vars, tables, locks, LocksInv, OwnsRows, InOrder, HeldRows, Active
<1>2. CASE Next
  <2>1. PICK h \in Handlers : Acts(h)
    BY <1>2, ActionOfHandler
  <2>2. /\ (OwnsRows(h) /\ InOrder(h) /\ HeldRows(h))'
        /\ (pc[h] \in Starting => line[h] = 1)'
    <3>1. CASE \E k \in Kinds, o \in Ops : Begin(h, k, o)
      BY <3>1, BeginLocks
    <3>2. CASE LockRow(h)
      BY <3>2, LockRowLocks
    <3>3. CASE \/ Commit(h) \/ RefuseUncovered(h) \/ RefuseLine(h)
               \/ RefuseDuplicate(h) \/ RefuseReceived(h) \/ Fail(h)
      <4>1. \E a \in {"ok", "error"} : Finish(h, a)
        BY <3>3 DEF Commit, RefuseUncovered, RefuseLine, RefuseDuplicate,
                    RefuseReceived, Fail, Rollback
      <4>. QED
        BY <4>1, FinishLocks
    <3>4. CASE \/ Verify(h) \/ Insert(h) \/ ApplyLine(h) \/ ApplyDone(h)
               \/ RestoreStock(h) \/ ReturnStock(h) \/ SerialLine(h) \/ SerialsDone(h)
               \/ MarkCancelled(h) \/ ClaimReceipt(h) \/ CreditLine(h) \/ CreditDone(h)
      BY <3>4, GoOnLocks
    <3>. QED
      BY <2>1, <3>1, <3>2, <3>3, <3>4 DEF Acts, Step
  <2>3. ASSUME NEW g \in Handlers, g # h
        PROVE  /\ (OwnsRows(g) /\ InOrder(g) /\ HeldRows(g))'
               /\ (pc[g] \in Starting => line[g] = 1)'
    BY <2>1, <2>3, OthersLocks
  <2>. QED
    BY <2>2, <2>3 DEF LocksInv
<1>. QED
  BY <1>1, <1>2

LEMMA LocksAlways == Spec => []LocksInv
  BY InitLocks, TypeInvariant, NextLocks, PTL DEF Spec

-----------------------------------------------------------------------------
(* VerifiedLinesApply.  The rows of a verified body stay as they were but  *)
(* for the lines already written, which are of other products.             *)

Orderly(o) ==
    /\ DistinctProducts(o)
    /\ \A i \in LineIdx(o) : Lines(o)[i].damagedStock => FromDamaged(o, i)
LeftApply(h) ==
    pc[h] \in {"insert", "apply"} /\ Orderly(target[h]) =>
        \A i \in LineIdx(target[h]) :
            i >= line[h] => Applies(draft[SourceRow(target[h], i)], target[h], i)
LeftInv == \A h \in Handlers : LeftApply(h)

LEMMA OthersLeft ==
    ASSUME TypeInv, LocksInv, NEW h \in Handlers, NEW g \in Handlers, g # h, Acts(h),
           LeftApply(g)
    PROVE  LeftApply(g)'
<1>. SUFFICES ASSUME pc'[g] \in {"insert", "apply"}, Orderly(target'[g]),
                     NEW i \in LineIdx(target'[g]), i >= line'[g]
              PROVE  Applies(draft'[SourceRow(target'[g], i)], target'[g], i)
  BY DEF LeftApply
<1>1. pc'[g] = pc[g] /\ target'[g] = target[g] /\ line'[g] = line[g]
  BY OthersStay
<1>. DEFINE r == SourceRow(target[g], i)
<1>2. Active(g) /\ kind[g] = "CREATE" /\ target[g] \in Ops
  BY <1>1 DEF TypeInv, HandlerOK, Active
<1>3. r \in Rows /\ r \in SourceRows(target[g])
  BY <1>1, <1>2, LineTypes DEF SourceRows
<1>4. rowLock[r] = g
  BY <1>1, <1>2, <1>3 DEF LocksInv, OwnsRows
<1>5. draft'[r] = draft[r]
  BY <1>3, <1>4, OthersRows
<1>. QED
  BY <1>1, <1>5 DEF LeftApply

LEMMA VerifyLeft ==
    ASSUME TypeInv, NEW h \in Handlers, Verify(h)
    PROVE  LeftApply(h)'
<1>1. /\ kind[h] = "CREATE" /\ Verified(h) /\ target' = target /\ draft' = draft
      /\ Active(h)
  BY DEF Verify, AllLocked, Active
<1>2. ASSUME Orderly(target[h]), NEW i \in LineIdx(target[h])
      PROVE  Applies(draft[SourceRow(target[h], i)], target[h], i)
  <2>1. Covers(draft[SourceRow(target[h], i)], Lines(target[h])[i])
    BY <1>1 DEF Verified
  <2>2. FromDamaged(target[h], i) <=> Lines(target[h])[i].damagedStock
    BY <1>2 DEF Orderly, FromDamaged, Lines
  <2>. QED
    BY <2>1, <2>2 DEF Covers, Applies
<1>. QED
  BY <1>1, <1>2 DEF LeftApply

LEMMA ApplyLineLeft ==
    ASSUME TypeInv, NEW h \in Handlers, LeftApply(h), ApplyLine(h)
    PROVE  LeftApply(h)'
<1>. DEFINE o == target[h]
            n == line[h]
<1>1. /\ pc[h] = "apply" /\ n \in LineIdx(o) /\ target' = target /\ pc' = pc
      /\ line'[h] = n + 1 /\ o \in Ops
      /\ draft' = [draft EXCEPT ![SourceRow(o, n)] = AfterLine(@, o, n)]
  BY DEF ApplyLine, TypeInv, TypeOK, HandlerOK, Active
<1>2. ASSUME Orderly(o), NEW i \in LineIdx(o), i >= n + 1
      PROVE  Applies(draft'[SourceRow(o, i)], o, i)
  <2>1. i # n /\ i >= n
    BY <1>1, <1>2, LineTypes
  <2>2. SourceRow(o, i) # SourceRow(o, n)
    BY <1>1, <1>2, <2>1 DEF Orderly, DistinctProducts, SourceRow, Lines
  <2>3. draft'[SourceRow(o, i)] = draft[SourceRow(o, i)]
    BY <1>1, <1>2, <2>2, LineTypes DEF TypeInv, TypeOK
  <2>. QED
    BY <1>1, <1>2, <2>1, <2>3 DEF LeftApply
<1>. QED
  BY <1>1, <1>2 DEF LeftApply

LEMMA OwnLeft ==
    ASSUME TypeInv, NEW h \in Handlers, LeftApply(h), Acts(h)
    PROVE  LeftApply(h)'
<1>1. CASE Verify(h)
  BY <1>1, VerifyLeft
<1>2. CASE ApplyLine(h)
  BY <1>2, ApplyLineLeft
<1>3. CASE Insert(h)
  <2>1. pc[h] = "insert" /\ UNCHANGED <<draft, target, line>>
    BY <1>3 DEF Insert
  <2>. QED
    BY <2>1 DEF LeftApply
<1>4. CASE \/ \E k \in Kinds, o \in Ops : Begin(h, k, o)
           \/ LockRow(h) \/ ApplyDone(h)
           \/ RestoreStock(h) \/ ReturnStock(h) \/ SerialLine(h) \/ SerialsDone(h)
           \/ MarkCancelled(h) \/ ClaimReceipt(h) \/ CreditLine(h) \/ CreditDone(h)
  <2>1. pc'[h] \notin {"insert", "apply"}
    BY <1>4 DEF Begin, LockRow, ApplyDone, RestoreStock, ReturnStock, SerialLine,
                SerialsDone, MarkCancelled, ClaimReceipt, CreditLine, CreditDone,
                TypeInv, TypeOK
  <2>. QED
    BY <2>1 DEF LeftApply
<1>5. CASE \/ Commit(h) \/ RefuseUncovered(h) \/ RefuseLine(h)
           \/ RefuseDuplicate(h) \/ RefuseReceived(h) \/ Fail(h)
  <2>1. \E a \in {"ok", "error"} : Finish(h, a)
    BY <1>5 DEF Commit, RefuseUncovered, RefuseLine, RefuseDuplicate,
                RefuseReceived, Fail, Rollback
  <2>2. pc'[h] \notin {"insert", "apply"}
    BY <2>1 DEF Finish, TypeInv, TypeOK
  <2>. QED
    BY <2>2 DEF LeftApply
<1>. QED
  BY <1>1, <1>2, <1>3, <1>4, <1>5 DEF Acts, Step

LEMMA NextLeft == TypeInv /\ LocksInv /\ LeftInv /\ [Next]_vars => LeftInv'
<1>. SUFFICES ASSUME TypeInv, LocksInv, LeftInv, [Next]_vars, NEW g \in Handlers
              PROVE  LeftApply(g)'
  BY DEF LeftInv
<1>1. LeftApply(g)
  BY DEF LeftInv
<1>2. CASE UNCHANGED vars
  BY <1>1, <1>2 DEF vars, LeftApply
<1>3. CASE Next
  <2>1. PICK h \in Handlers : Acts(h)
    BY <1>3, ActionOfHandler
  <2>. QED
    BY <1>1, <2>1, OwnLeft, OthersLeft
<1>. QED
  BY <1>2, <1>3

LEMMA LeftAlways == Spec => []LeftInv
<1>1. Init => LeftInv
  BY DEF Init, LeftInv, LeftApply
<1>. QED
  BY <1>1, TypeInvariant, LocksAlways, NextLeft, PTL DEF Spec

(* Once a create has verified its locked rows, none of the guarded UPDATEs *)
(* of its lines can fail, whatever the other requests do meanwhile: the    *)
(* row locks keep what was verified true until each line is written.       *)
THEOREM VerifiedLinesHold == Spec => []VerifiedLinesApply
<1>1. LeftInv => VerifiedLinesApply
  BY DEF LeftInv, LeftApply, Orderly, VerifiedLinesApply
<1>. QED
  BY <1>1, LeftAlways, PTL

-----------------------------------------------------------------------------
(* QuarantineAttributed.  A serial row is changed by a damage create, to   *)
(* quarantined under its name, or by the reversal of its operation; and a  *)
(* create and a reversal of one operation exclude each other by the stock  *)
(* rows they hold, so none is quarantined behind a reversal's back.        *)

Marked(o) == [status |-> "DAMAGED", source |-> o]
Unmarked == [status |-> "IN_STOCK", source |-> NoOp]
Names(o, s) == \E i \in LineIdx(o) : Lines(o)[i].serial = s
MarksFor(h, s) ==
    /\ kind[h] = "CREATE" /\ pc[h] \in {"serials", "commit"}
    /\ Req[target[h]].type = "DAMAGE"
    /\ serialDraft[s] = Marked(target[h])
UnmarksFor(h, s) ==
    /\ kind[h] = "REVERSE" /\ pc[h] \in {"serials", "cancel", "commit"}
    /\ serialDraft[s] = Unmarked
HoldsSerials(h) ==
    \A s \in Serials :
        serialLock[s] = h => Names(target[h], s) /\ (MarksFor(h, s) \/ UnmarksFor(h, s))
DamageOnly(h) ==
    pc[h] = "serials" /\ kind[h] = "CREATE" => Req[target[h]].type = "DAMAGE"
Cleared(h) ==
    kind[h] = "REVERSE" /\ pc[h] \in {"serials", "cancel", "commit"} =>
        \A i \in LineIdx(target[h]) :
            (pc[h] = "serials" => i < line[h]) =>
                \A s \in Serials :
                    Lines(target[h])[i].serial = s =>
                        SerialView(h, s) # Marked(target[h])
Attributed(s) ==
    serial[s].status = "DAMAGED" =>
        LET o == serial[s].source
        IN  /\ o \in Ops /\ Req[o].type = "DAMAGE" /\ Names(o, s)
            /\ status[o] \notin {"NONE", "CANCELLED"}
SerialsInv == /\ \A h \in Handlers : HoldsSerials(h) /\ DamageOnly(h) /\ Cleared(h)
              /\ \A s \in Serials : Attributed(s)

(* Two handlers past their row locks do not work on one operation.         *)
LEMMA RowsExclude ==
    ASSUME TypeInv, LocksInv, NEW h \in Handlers, NEW g \in Handlers, g # h,
           pc[h] \in {"insert", "apply", "serials", "cancel", "commit"},
           pc[g] \in {"insert", "apply", "serials", "cancel", "commit"},
           kind[h] # "RECEIVE", kind[g] # "RECEIVE"
    PROVE  target[h] # target[g]
<1>1. SUFFICES ASSUME target[h] = target[g] PROVE FALSE
  OBVIOUS
<1>2. Active(h) /\ Active(g)
  BY DEF Active
<1>3. target[h] \in Ops
  BY <1>2 DEF TypeInv, HandlerOK
<1>4. PICK r \in SourceRows(target[h]) : TRUE
  BY <1>3, SourceRowTypes
<1>5. need[h] = {} /\ need[g] = {}
  BY <1>2 DEF LocksInv, OwnsRows
<1>6. rowLock[r] = h /\ rowLock[r] = g
  BY <1>1, <1>2, <1>4, <1>5 DEF LocksInv, OwnsRows
<1>. QED
  BY <1>6

LEMMA OthersSerials ==
    ASSUME TypeInv, NEW h \in Handlers, NEW g \in Handlers, g # h, Acts(h),
           NEW s \in Serials
    PROVE  /\ serialLock'[s] = g <=> serialLock[s] = g
           /\ serialLock[s] = g => serialDraft'[s] = serialDraft[s]
<1>0. g # Nobody
  BY AbsentAssumption
<1>1. CASE \E k \in Kinds, o \in Ops : Begin(h, k, o)
  BY <1>1 DEF Begin, locks
<1>2. CASE \/ LockRow(h) \/ Verify(h) \/ Insert(h) \/ ApplyLine(h) \/ ApplyDone(h)
           \/ RestoreStock(h) \/ ReturnStock(h) \/ SerialsDone(h)
           \/ MarkCancelled(h) \/ ClaimReceipt(h) \/ CreditLine(h) \/ CreditDone(h)
  BY <1>2 DEF LockRow, Verify, Insert, ApplyLine, ApplyDone, RestoreStock, ReturnStock,
              SerialsDone, MarkCancelled, ClaimReceipt, CreditLine, CreditDone, locks
<1>3. CASE SerialLine(h)
  BY <1>0, <1>3 DEF SerialLine
<1>4. CASE Commit(h)
  BY <1>0, <1>4 DEF Commit, Finish, Freed, TypeInv, TypeOK
<1>5. CASE \/ RefuseUncovered(h) \/ RefuseLine(h)
           \/ RefuseDuplicate(h) \/ RefuseReceived(h) \/ Fail(h)
  <2>1. Rollback(h)
    BY <1>5 DEF RefuseUncovered, RefuseLine, RefuseDuplicate, RefuseReceived, Fail
  <2>. QED
    BY <1>0, <2>1 DEF Rollback, Undone, Overlay, Finish, Freed, TypeInv, TypeOK
<1>. QED
  BY <1>1, <1>2, <1>3, <1>4, <1>5 DEF Acts, Step

(* Only a commit changes the tables.                                       *)
LEMMA TablesCommitted ==
    ASSUME TypeInv, NEW h \in Handlers, Acts(h)
    PROVE  UNCHANGED tables \/ Commit(h)
<1>1. CASE \E k \in Kinds, o \in Ops : Begin(h, k, o)
  BY <1>1 DEF Begin
<1>2. CASE \/ LockRow(h) \/ Verify(h) \/ Insert(h) \/ ApplyLine(h) \/ ApplyDone(h)
           \/ RestoreStock(h) \/ ReturnStock(h) \/ SerialLine(h) \/ SerialsDone(h)
           \/ MarkCancelled(h) \/ ClaimReceipt(h) \/ CreditLine(h) \/ CreditDone(h)
  BY <1>2 DEF LockRow, Verify, Insert, ApplyLine, ApplyDone, RestoreStock, ReturnStock,
              SerialLine, SerialsDone, MarkCancelled, ClaimReceipt, CreditLine,
              CreditDone
<1>5. CASE \/ RefuseUncovered(h) \/ RefuseLine(h)
           \/ RefuseDuplicate(h) \/ RefuseReceived(h) \/ Fail(h)
  BY <1>5 DEF RefuseUncovered, RefuseLine, RefuseDuplicate, RefuseReceived, Fail,
              Rollback
<1>. QED
  BY <1>1, <1>2, <1>5 DEF Acts, Step

(* What a commit writes into a serial row.                                 *)
LEMMA CommitSerial ==
    ASSUME TypeInv, SerialsInv, NEW h \in Handlers, Commit(h), NEW s \in Serials
    PROVE  \/ serialLock[s] # h /\ serial'[s] = serial[s]
           \/ /\ serialLock[s] = h /\ kind[h] = "CREATE" /\ serial'[s] = Marked(target[h])
              /\ Req[target[h]].type = "DAMAGE" /\ Names(target[h], s)
           \/ serialLock[s] = h /\ kind[h] = "REVERSE" /\ serial'[s] = Unmarked
<1>1. serial'[s] = IF serialLock[s] = h THEN serialDraft[s] ELSE serial[s]
  BY DEF Commit, Overlay, TypeInv, TypeOK
<1>. QED
  BY <1>1 DEF SerialsInv, HoldsSerials, MarksFor, UnmarksFor

LEMMA CommitAttributed ==
    ASSUME TypeInv, ReceiptInv, SerialsInv, NEW h \in Handlers, Commit(h),
           NEW s \in Serials
    PROVE  Attributed(s)'
<1>. DEFINE o == target[h]
            k == kind[h]
<1>1. /\ o \in Ops /\ k \in Kinds /\ pc[h] = "commit" /\ Active(h)
      /\ status' = [status EXCEPT ![o] = StatusAfter(k, o)]
  BY DEF Commit, TypeInv, HandlerOK, Active
<1>2. status'[o] = StatusAfter(k, o) /\ \A p \in Ops \ {o} : status'[p] = status[p]
  BY <1>1 DEF TypeInv, TypeOK
<1>3. CASE serialLock[s] # h /\ serial'[s] = serial[s]
  <2>. SUFFICES ASSUME serial[s].status = "DAMAGED" PROVE Attributed(s)'
    BY <1>3 DEF Attributed
  <2>. DEFINE p == serial[s].source
  <2>1. /\ p \in Ops /\ Req[p].type = "DAMAGE" /\ Names(p, s)
        /\ status[p] \notin {"NONE", "CANCELLED"}
    BY DEF SerialsInv, Attributed
  <2>2. serial[s] = Marked(p)
    BY DEF Marked, TypeInv, TypeOK, SerialType
  <2>3. p = o => k \in {"CREATE", "RECEIVE"}
    <3>1. ASSUME p = o, k = "REVERSE" PROVE FALSE
      <4>1. PICK i \in LineIdx(o) : Lines(o)[i].serial = s
        BY <2>1, <3>1 DEF Names
      <4>2. SerialView(h, s) # Marked(o)
        BY <1>1, <3>1, <4>1 DEF SerialsInv, Cleared
      <4>. QED
        BY <1>3, <2>2, <3>1, <4>2 DEF SerialView
    <3>2. ASSUME p = o, k = "RETURN" PROVE FALSE
      BY <1>1, <2>1, <3>2 DEF ReceiptInv, RightKind
    <3>. QED
      BY <1>1, <3>1, <3>2 DEF Kinds
  <2>4. status'[p] \notin {"NONE", "CANCELLED"}
    BY <1>2, <2>1, <2>3 DEF StatusAfter, PostedStatus
  <2>. QED
    BY <1>3, <2>1, <2>4 DEF Attributed, Names
<1>4. CASE /\ k = "CREATE" /\ serial'[s] = Marked(o)
           /\ Req[o].type = "DAMAGE" /\ Names(o, s)
  <2>1. status'[o] = "LOGGED"
    BY <1>2, <1>4 DEF StatusAfter, PostedStatus
  <2>. QED
    BY <1>1, <1>4, <2>1 DEF Attributed, Marked, Names
<1>5. CASE serial'[s] = Unmarked
  BY <1>5 DEF Attributed, Unmarked
<1>. QED
  BY <1>3, <1>4, <1>5, CommitSerial

LEMMA OthersMarks ==
    ASSUME TypeInv, LocksInv, SerialsInv, NEW h \in Handlers, NEW g \in Handlers, g # h,
           Acts(h)
    PROVE  (HoldsSerials(g) /\ DamageOnly(g) /\ Cleared(g))'
<1>1. /\ pc'[g] = pc[g] /\ kind'[g] = kind[g] /\ target'[g] = target[g]
      /\ line'[g] = line[g]
  BY OthersStay
<1>2. \A s \in Serials : /\ serialLock'[s] = g <=> serialLock[s] = g
                         /\ serialLock[s] = g => serialDraft'[s] = serialDraft[s]
  BY OthersSerials
<1>3. HoldsSerials(g) /\ DamageOnly(g) /\ Cleared(g)
  BY DEF SerialsInv
<1>4. HoldsSerials(g)'
  BY <1>1, <1>2, <1>3 DEF HoldsSerials, MarksFor, UnmarksFor, Names
<1>5. DamageOnly(g)'
  BY <1>1, <1>3 DEF DamageOnly
<1>6. ASSUME kind[g] = "REVERSE", pc[g] \in {"serials", "cancel", "commit"},
             NEW s \in Serials, SerialView(g, s) # Marked(target[g])
      PROVE  SerialView(g, s)' # Marked(target[g])
  <2>1. CASE serialLock[s] = g
    BY <1>2, <1>6, <2>1 DEF SerialView
  <2>2. CASE serialLock[s] # g /\ serial'[s] = serial[s]
    BY <1>2, <1>6, <2>2 DEF SerialView
  <2>3. CASE serialLock[s] # g /\ Commit(h)
    <3>1. pc[h] = "commit" /\ target[h] \in Ops
      BY <2>3 DEF Commit, TypeInv, HandlerOK, Active
    <3>2. kind[h] = "CREATE" => target[h] # target[g]
      BY <1>6, <3>1, RowsExclude
    <3>3. Active(g) /\ target[g] \in Ops
      BY <1>6 DEF TypeInv, HandlerOK, Active
    <3>4. serial[s] # Marked(target[g])
      BY <1>6, <2>3 DEF SerialView
    <3>5. /\ \A p \in Ops : p # target[g] => Marked(p) # Marked(target[g])
          /\ Unmarked # Marked(target[g])
      BY DEF Marked, Unmarked
    <3>6. serial'[s] # Marked(target[g])
      BY <2>3, <3>1, <3>2, <3>4, <3>5, CommitSerial
    <3>. QED
      BY <1>2, <2>3, <3>6 DEF SerialView
  <2>. QED
    BY <2>1, <2>2, <2>3, TablesCommitted DEF tables
<1>7. Cleared(g)'
  BY <1>1, <1>3, <1>6 DEF Cleared
<1>. QED
  BY <1>4, <1>5, <1>7

(* The serial rows a statement matches are named by its operation: by the  *)
(* line, or by the create that quarantined them.                           *)
LEMMA MatchingNamed ==
    ASSUME TypeInv, SerialsInv, NEW h \in Handlers,
           pc[h] = "serials", line[h] \in LineIdx(target[h]), NEW s \in Matching(h)
    PROVE  s \in Serials /\ Names(target[h], s)
<1>. DEFINE o == target[h]
            n == line[h]
<1>1. o \in Ops /\ kind[h] \in {"CREATE", "REVERSE"} /\ n \in LineIdx(o)
  BY DEF TypeInv, TypeOK, HandlerOK, Active
<1>2. HoldsSerials(h)
  BY DEF SerialsInv
<1>3. s \in NamedSerials(h)
  BY DEF Matching
<1>4. CASE Lines(o)[n].serial # NoSerial
  <2>1. s = Lines(o)[n].serial
    BY <1>3, <1>4 DEF NamedSerials
  <2>2. Lines(o)[n].serial \in Serials
    BY <1>1, <1>4, LineTypes DEF LineType
  <2>. QED
    BY <1>1, <2>1, <2>2 DEF Names
<1>5. CASE Lines(o)[n].serial = NoSerial
  <2>1. kind[h] = "REVERSE" /\ s \in Serials
    BY <1>1, <1>3, <1>5 DEF NamedSerials
  <2>2. SerialView(h, s) = Marked(o)
    BY <2>1 DEF Matching, Marked
  <2>3. serialLock[s] # h
    BY <1>1, <1>2, <2>1, <2>2 DEF HoldsSerials, MarksFor, UnmarksFor, SerialView,
                                  Marked, Unmarked
  <2>4. serial[s] = Marked(o)
    BY <2>2, <2>3 DEF SerialView
  <2>. QED
    BY <2>1, <2>4 DEF SerialsInv, Attributed, Marked
<1>. QED
  BY <1>4, <1>5

LEMMA SerialLineMarks ==
    ASSUME TypeInv, SerialsInv, NEW h \in Handlers, SerialLine(h)
    PROVE  (HoldsSerials(h) /\ DamageOnly(h) /\ Cleared(h))'
<1>. DEFINE o == target[h]
            n == line[h]
<1>1. /\ pc[h] = "serials" /\ n \in LineIdx(o) /\ UNCHANGED <<pc, kind, target, serial>>
      /\ line'[h] = n + 1 /\ o \in Ops /\ kind[h] \in {"CREATE", "REVERSE"}
      /\ \A s \in Matching(h) : serialLock[s] \in {Nobody, h}
  BY DEF SerialLine, tables, TypeInv, TypeOK, HandlerOK, Active
<1>2. ASSUME NEW s \in Serials
      PROVE  /\ serialLock'[s] = IF s \in Matching(h) THEN h ELSE serialLock[s]
             /\ serialDraft'[s] = IF s \in Matching(h)
                                  THEN IF kind[h] = "CREATE" THEN Marked(o) ELSE Unmarked
                                  ELSE serialDraft[s]
  BY DEF SerialLine, Marked, Unmarked
<1>3. HoldsSerials(h) /\ DamageOnly(h) /\ Cleared(h)
  BY DEF SerialsInv
<1>4. ASSUME NEW s \in Matching(h)
      PROVE  s \in Serials /\ Names(o, s)
  BY <1>1, MatchingNamed
<1>5. HoldsSerials(h)'
  <2>. SUFFICES ASSUME NEW s \in Serials, serialLock'[s] = h
                PROVE  Names(o, s) /\ (MarksFor(h, s) \/ UnmarksFor(h, s))'
    BY <1>1 DEF HoldsSerials, Names
  <2>1. CASE s \in Matching(h)
    BY <1>1, <1>2, <1>3, <1>4, <2>1 DEF MarksFor, UnmarksFor, DamageOnly
  <2>2. CASE s \notin Matching(h)
    <3>1. serialLock[s] = h /\ serialDraft'[s] = serialDraft[s]
      BY <1>2, <2>2
    <3>. QED
      BY <1>1, <1>3, <3>1 DEF HoldsSerials, MarksFor, UnmarksFor
  <2>. QED
    BY <2>1, <2>2
<1>6. DamageOnly(h)'
  BY <1>1, <1>3 DEF DamageOnly
<1>7. Cleared(h)'
  <2>. SUFFICES ASSUME kind[h] = "REVERSE", NEW i \in LineIdx(o), i < n + 1,
                       NEW s \in Serials, Lines(o)[i].serial = s
                PROVE  SerialView(h, s)' # Marked(o)
    BY <1>1 DEF Cleared
  <2>1. CASE s \in Matching(h)
    BY <1>2, <2>1 DEF SerialView, Marked, Unmarked
  <2>2. CASE s \notin Matching(h)
    <3>1. SerialView(h, s)' = SerialView(h, s)
      BY <1>1, <1>2, <2>2 DEF SerialView
    <3>2. CASE i < n
      BY <1>1, <1>3, <3>1, <3>2 DEF Cleared
    <3>3. CASE i = n
      <4>1. s # NoSerial
        BY AbsentAssumption
      <4>2. s \in NamedSerials(h)
        BY <3>3, <4>1 DEF NamedSerials
      <4>. QED
        BY <2>2, <3>1, <4>2 DEF Matching, Marked
    <3>4. i \in Nat /\ n \in Nat
      BY <1>1, LineTypes
    <3>. QED
      BY <3>2, <3>3, <3>4
  <2>. QED
    BY <2>1, <2>2
<1>. QED
  BY <1>5, <1>6, <1>7

(* The other steps of the handler itself.                                  *)
LEMMA OwnMarks ==
    ASSUME TypeInv, LocksInv, SerialsInv, NEW h \in Handlers, Acts(h)
    PROVE  (HoldsSerials(h) /\ DamageOnly(h) /\ Cleared(h))'
<1>0. HoldsSerials(h) /\ DamageOnly(h) /\ Cleared(h)
  BY DEF SerialsInv
<1>1. CASE SerialLine(h)
  BY <1>1, SerialLineMarks
<1>2. CASE \/ \E k \in Kinds, o \in Ops : Begin(h, k, o)
           \/ LockRow(h) \/ Verify(h) \/ Insert(h) \/ ApplyLine(h) \/ ReturnStock(h)
           \/ ClaimReceipt(h) \/ CreditLine(h) \/ CreditDone(h)
  <2>1. /\ pc[h] \notin {"serials", "cancel", "commit"}
        /\ serialLock' = serialLock /\ pc'[h] # "serials"
        /\ kind'[h] = "REVERSE" => pc'[h] \notin {"cancel", "commit"}
    BY <1>2 DEF Begin, LockRow, Verify, Insert, ApplyLine, ReturnStock, AllLocked,
                ClaimReceipt, CreditLine, CreditDone, locks, TypeInv, TypeOK, HandlerOK
  <2>2. \A s \in Serials : serialLock[s] # h
    BY <1>0, <2>1 DEF HoldsSerials, MarksFor, UnmarksFor
  <2>. QED
    BY <2>1, <2>2 DEF HoldsSerials, DamageOnly, Cleared
<1>3. CASE ApplyDone(h) \/ RestoreStock(h)
  <2>1. /\ pc[h] \in {"apply", "lock"} /\ serialLock' = serialLock
        /\ UNCHANGED <<kind, target>>
        /\ pc'[h] \in {"serials", "commit"}
        /\ pc[h] = "apply" => kind[h] = "CREATE"
        /\ pc[h] = "lock" => kind[h] = "REVERSE" /\ line'[h] = 1 /\ pc'[h] = "serials"
        /\ kind[h] = "CREATE" /\ pc'[h] = "serials" => Req[target[h]].type = "DAMAGE"
        /\ target[h] \in Ops
    BY <1>3 DEF ApplyDone, RestoreStock, AllLocked, locks, TypeInv, TypeOK, HandlerOK,
                Active, LocksInv, Starting
  <2>2. \A s \in Serials : serialLock[s] # h
    BY <1>0, <2>1 DEF HoldsSerials, MarksFor, UnmarksFor
  <2>3. Cleared(h)'
    <3>1. \A i \in LineIdx(target[h]) : ~(i < 1)
      BY <2>1, LineTypes
    <3>. QED
      BY <2>1, <3>1 DEF Cleared
  <2>. QED
    BY <2>1, <2>2, <2>3 DEF HoldsSerials, DamageOnly
<1>4. CASE SerialsDone(h)
  <2>1. /\ pc[h] = "serials" /\ line[h] \notin LineIdx(target[h]) /\ line[h] \in Nat \ {0}
        /\ UNCHANGED <<serialLock, serialDraft, serial, kind, target>>
        /\ pc'[h] = IF kind[h] = "CREATE" THEN "commit" ELSE "cancel"
        /\ target[h] \in Ops
    BY <1>4 DEF SerialsDone, locks, tables, TypeInv, TypeOK, HandlerOK, Active
  <2>2. \A i \in LineIdx(target[h]) : i < line[h]
    <3>1. Req[target[h]].lines \in Seq(LineType)
      BY <2>1, ConstantsAssumption
    <3>2. LineIdx(target[h]) = 1..Len(Req[target[h]].lines)
          /\ Len(Req[target[h]].lines) \in Nat
      BY <3>1 DEF LineIdx
    <3>. QED
      BY <2>1, <3>2
  <2>3. Cleared(h)'
    BY <1>0, <2>1, <2>2 DEF Cleared, SerialView
  <2>4. HoldsSerials(h)'
    BY <1>0, <2>1 DEF HoldsSerials, MarksFor, UnmarksFor, Names
  <2>. QED
    BY <2>1, <2>3, <2>4 DEF DamageOnly
<1>5. CASE MarkCancelled(h)
  <2>1. /\ pc[h] = "cancel" /\ pc'[h] = "commit"
        /\ UNCHANGED <<serialLock, serialDraft, serial, kind, target>>
    BY <1>5 DEF MarkCancelled, tables, TypeInv, TypeOK
  <2>. QED
    BY <1>0, <2>1 DEF HoldsSerials, DamageOnly, Cleared, SerialView, MarksFor, UnmarksFor,
                      Names
<1>6. CASE \/ Commit(h) \/ RefuseUncovered(h) \/ RefuseLine(h)
           \/ RefuseDuplicate(h) \/ RefuseReceived(h) \/ Fail(h)
  <2>1. \E a \in {"ok", "error"} : Finish(h, a)
    BY <1>6 DEF Commit, RefuseUncovered, RefuseLine, RefuseDuplicate,
                RefuseReceived, Fail, Rollback
  <2>2. pc'[h] \in {"ok", "error"} /\ \A s \in Serials : serialLock'[s] # h
    BY <2>1, AbsentAssumption DEF Finish, Freed, TypeInv, TypeOK
  <2>. QED
    BY <2>2 DEF HoldsSerials, DamageOnly, Cleared
<1>. QED
  BY <1>1, <1>2, <1>3, <1>4, <1>5, <1>6 DEF Acts, Step

LEMMA InitSerials == Init => SerialsInv
<1>. SUFFICES ASSUME Init PROVE SerialsInv
  OBVIOUS
<1>1. ASSUME NEW h \in Handlers PROVE HoldsSerials(h) /\ DamageOnly(h) /\ Cleared(h)
  BY AbsentAssumption DEF Init, HoldsSerials, DamageOnly, Cleared
<1>2. ASSUME NEW s \in Serials PROVE Attributed(s)
  BY DEF Init, Attributed
<1>. QED
  BY <1>1, <1>2 DEF SerialsInv

LEMMA NextSerials ==
    TypeInv /\ LocksInv /\ ReceiptInv /\ SerialsInv /\ [Next]_vars => SerialsInv'
<1>. SUFFICES ASSUME TypeInv, LocksInv, ReceiptInv, SerialsInv, [Next]_vars
              PROVE  SerialsInv'
  OBVIOUS
<1>1. CASE UNCHANGED vars
  BY <1>1 DEF vars, tables, locks, SerialsInv, HoldsSerials, DamageOnly, Cleared,
              Attributed, MarksFor, UnmarksFor, Names, SerialView
<1>2. CASE Next
  <2>1. PICK h \in Handlers : Acts(h)
    BY <1>2, ActionOfHandler
  <2>2. ASSUME NEW g \in Handlers
        PROVE  (HoldsSerials(g) /\ DamageOnly(g) /\ Cleared(g))'
    BY <2>1, OwnMarks, OthersMarks
  <2>3. ASSUME NEW s \in Serials PROVE Attributed(s)'
    <3>1. CASE Commit(h)
      BY <3>1, CommitAttributed
    <3>2. CASE UNCHANGED <<serial, status>>
      BY <3>2 DEF SerialsInv, Attributed, Names
    <3>. QED
      BY <2>1, <3>1, <3>2, TablesCommitted DEF tables
  <2>. QED
    BY <2>2, <2>3 DEF SerialsInv
<1>. QED
  BY <1>1, <1>2

LEMMA SerialsAlways == Spec => []SerialsInv
  BY InitSerials, TypeInvariant, LocksAlways, ReceiptInvariant, NextSerials, PTL DEF Spec

(* A quarantined serial belongs to a damage operation that is in force:    *)
(* whatever requests overlap, repeat or fail, none stays quarantined under *)
(* an operation that was reversed or never posted, where no reversal would *)
(* find it again.                                                          *)
THEOREM QuarantineKeepsItsDamage == Spec => []QuarantineAttributed
<1>1. SerialsInv => QuarantineAttributed
  BY DEF SerialsInv, Attributed, QuarantineAttributed
<1>. QED
  BY <1>1, SerialsAlways, PTL

-----------------------------------------------------------------------------
(* OrderedWritersNeverDeadlock.  Who waits for an operation row or for a   *)
(* serial already holds its stock rows, which keep every other writer of   *)
(* that operation or unit away; so writers only ever wait for stock rows,  *)
(* each for a later one than it holds, and a finite set of them has a last.*)

(* A unit is of one product at one branch: whatever lines name it are of   *)
(* one stock row.  The handlers do not check this.                         *)
SerialsOfOneRow ==
    \A o, p \in Ops : \A i \in LineIdx(o), j \in LineIdx(p) :
        Lines(o)[i].serial = Lines(p)[j].serial /\ Lines(o)[i].serial # NoSerial
            => SourceRow(o, i) = SourceRow(p, j)

HeldOps(h) ==
    \A o \in Ops : opLock[o] = h =>
        target[h] = o /\ HoldsOp(h)
OpsInv == \A h \in Handlers : HeldOps(h)

LEMMA OpsStep ==
    ASSUME TypeInv, OpsInv, NEW h \in Handlers, Acts(h), NEW g \in Handlers
    PROVE  HeldOps(g)'
<1>0. g # Nobody /\ HeldOps(g) /\ HeldOps(h)
  BY AbsentAssumption DEF OpsInv
<1>1. CASE \E k \in Kinds, o \in Ops : Begin(h, k, o)
  <2>1. /\ pc[h] = "idle" /\ opLock' = opLock
        /\ \A f \in Handlers : f # h =>
              pc'[f] = pc[f] /\ kind'[f] = kind[f] /\ target'[f] = target[f]
    BY <1>1 DEF Begin, locks, TypeInv, TypeOK
  <2>2. \A o \in Ops : opLock[o] # h
    BY <1>0, <2>1 DEF HeldOps, HoldsOp
  <2>. QED
    BY <1>0, <2>1, <2>2 DEF HeldOps, HoldsOp
<1>2. CASE \/ LockRow(h) \/ Verify(h) \/ ApplyLine(h) \/ ApplyDone(h)
           \/ RestoreStock(h) \/ ReturnStock(h)
  <2>1. /\ UNCHANGED <<opLock, kind, target>>
        /\ \A f \in Handlers : f # h => pc'[f] = pc[f]
        /\ HoldsOp(h) => HoldsOp(h)'
    BY <1>2 DEF LockRow, Verify, ApplyLine, ApplyDone, RestoreStock, ReturnStock,
                AllLocked, locks, HoldsOp, TypeInv, TypeOK, HandlerOK
  <2>. QED
    BY <1>0, <2>1 DEF HeldOps, HoldsOp
<1>3. CASE Insert(h) \/ MarkCancelled(h) \/ ClaimReceipt(h)
  <2>1. /\ pc'[h] \in {"apply", "commit", "credit"} /\ UNCHANGED <<kind, target>>
        /\ opLock' = [opLock EXCEPT ![target[h]] = h]
        /\ \A f \in Handlers : f # h => pc'[f] = pc[f]
    BY <1>3 DEF Insert, MarkCancelled, ClaimReceipt, TypeInv, TypeOK
  <2>2. \A o \in Ops : opLock'[o] = IF o = target[h] THEN h ELSE opLock[o]
    BY <2>1 DEF TypeInv, TypeOK
  <2>3. pc[h] \notin {"apply", "serials", "credit", "commit"}
    BY <1>3 DEF Insert, MarkCancelled, ClaimReceipt
  <2>. QED
    BY <1>0, <2>1, <2>2, <2>3 DEF HeldOps, HoldsOp
<1>4. CASE SerialLine(h) \/ SerialsDone(h) \/ CreditLine(h) \/ CreditDone(h)
  <2>1. /\ UNCHANGED <<opLock, kind, target>>
        /\ \A f \in Handlers : f # h => pc'[f] = pc[f]
        /\ HoldsOp(h) => HoldsOp(h)'
    BY <1>4 DEF SerialLine, SerialsDone, CreditLine, CreditDone, locks, TypeInv, TypeOK,
                HoldsOp
  <2>. QED
    BY <1>0, <2>1 DEF HeldOps, HoldsOp
<1>5. CASE \/ Commit(h) \/ RefuseUncovered(h) \/ RefuseLine(h)
           \/ RefuseDuplicate(h) \/ RefuseReceived(h) \/ Fail(h)
  <2>1. \E a \in {"ok", "error"} : Finish(h, a)
    BY <1>5 DEF Commit, RefuseUncovered, RefuseLine, RefuseDuplicate,
                RefuseReceived, Fail, Rollback
  <2>. QED
    BY <1>0, <2>1 DEF Finish, Freed, HeldOps, HoldsOp, TypeInv, TypeOK
<1>. QED
  BY <1>1, <1>2, <1>3, <1>4, <1>5 DEF Acts, Step

LEMMA NextOps == TypeInv /\ OpsInv /\ [Next]_vars => OpsInv'
<1>. SUFFICES ASSUME TypeInv, OpsInv, [Next]_vars, NEW g \in Handlers PROVE HeldOps(g)'
  BY DEF OpsInv
<1>1. CASE UNCHANGED vars
  BY <1>1 DEF vars, locks, OpsInv, HeldOps, HoldsOp
<1>2. CASE Next
  BY <1>2, ActionOfHandler, OpsStep
<1>. QED
  BY <1>1, <1>2

LEMMA OpsAlways == Spec => []OpsInv
<1>1. Init => OpsInv
  BY AbsentAssumption DEF Init, OpsInv, HeldOps
<1>. QED
  BY <1>1, TypeInvariant, NextOps, PTL DEF Spec

(* A family of finite sets has a set that is minimal in it.                *)
LEMMA MinimalSet ==
    ASSUME NEW S, IsFiniteSet(S), NEW Z \in SUBSET SUBSET S, Z # {}
    PROVE  \E t \in Z : \A x \in t : t \ {x} \notin Z
<1>. DEFINE sizes == {Cardinality(t) : t \in Z}
<1>1. \A t \in SUBSET S : IsFiniteSet(t) /\ Cardinality(t) \in Nat
  BY FS_Subset, FS_CardinalityType
<1>2. sizes \in SUBSET Nat /\ sizes # {}
  BY <1>1
<1>3. PICK n \in sizes : \A m \in sizes : ~ (<<m, n>> \in OpToRel(<, Nat))
  <2>. HIDE DEF sizes
  <2>. QED
    BY <1>2, NatLessThanWellFounded, WFMin
<1>4. \A m \in sizes : ~ (m < n)
  BY <1>2, <1>3 DEF OpToRel
<1>5. PICK t \in Z : Cardinality(t) = n
  OBVIOUS
<1>6. \A x \in t : Cardinality(t \ {x}) < Cardinality(t)
  BY <1>1, FS_RemoveElement
<1>. QED
  BY <1>4, <1>5, <1>6

(* In a finite set not every element has a larger one.                     *)
LEMMA NoClimb ==
    ASSUME NEW C, IsFiniteSet(C), C # {}, NEW w, \A g \in C : w[g] \in Nat
    PROVE  \E g \in C : \A x \in C : ~ (w[g] < w[x])
<1>. DEFINE Climbs(D) == \A g \in D : \E x \in D : w[g] < w[x]
            Z == {D \in SUBSET C : D # {} /\ Climbs(D)}
<1>. SUFFICES ASSUME Climbs(C) PROVE FALSE
  OBVIOUS
<1>1. Z # {} /\ Z \in SUBSET SUBSET C
  OBVIOUS
<1>2. PICK D \in Z : \A g \in D : D \ {g} \notin Z
  <2>. HIDE DEF Z
  <2>. QED
    BY <1>1, MinimalSet
<1>3. PICK g \in D : TRUE
  OBVIOUS
<1>4. PICK x \in D : w[g] < w[x]
  BY <1>3
<1>5. D \ {g} # {}
  BY <1>4
<1>6. ASSUME NEW y \in D \ {g}
      PROVE  \E z \in D \ {g} : w[y] < w[z]
  <2>1. PICK z \in D : w[y] < w[z]
    OBVIOUS
  <2>2. CASE z # g
    BY <2>1, <2>2
  <2>3. CASE z = g
    <3>1. x # g /\ w[y] < w[x]
      BY <1>4, <2>1, <2>3
    <3>. QED
      BY <3>1
  <2>. QED
    BY <2>2, <2>3
<1>. QED
  BY <1>2, <1>3, <1>5, <1>6

(* In a set of writers each of which waits for another of the set, all     *)
(* wait for stock rows.                                                    *)
Writers == {h \in Handlers : kind[h] \in {"CREATE", "REVERSE"}}

LEMMA WritersWaitForRows ==
    ASSUME SerialsOfOneRow, TypeInv, LocksInv, SerialsInv, OpsInv,
           NEW C \in SUBSET Writers, NEW g \in C, NEW x \in C, x \in WaitsFor(g)
    PROVE  pc[g] = "lock" /\ \E r \in need[g] : NextRow(g, r) /\ rowLock[r] = x
<1>1. /\ g \in Handlers /\ x \in Handlers /\ x # g /\ x # Nobody
      /\ kind[g] \in {"CREATE", "REVERSE"} /\ kind[x] \in {"CREATE", "REVERSE"}
  BY DEF Writers, WaitsFor
<1>2. CASE pc[g] = "lock"
  BY <1>1, <1>2 DEF WaitsFor
<1>3. CASE pc[g] \in {"insert", "cancel", "claim"}
  <2>1. opLock[target[g]] = x /\ target[g] \in Ops
    BY <1>1, <1>3 DEF WaitsFor, TypeInv, HandlerOK, Active
  <2>2. target[x] = target[g] /\ HoldsOp(x)
    BY <1>1, <2>1 DEF OpsInv, HeldOps
  <2>3. /\ pc[x] \in {"insert", "apply", "serials", "cancel", "commit"}
        /\ pc[g] \in {"insert", "apply", "serials", "cancel", "commit"}
    BY <1>1, <1>3, <2>2 DEF HoldsOp, TypeInv, HandlerOK
  <2>. QED
    BY <1>1, <2>2, <2>3, RowsExclude
<1>4. CASE pc[g] = "serials"
  <2>1. line[g] \in LineIdx(target[g]) /\ \E s \in Matching(g) : serialLock[s] = x
    BY <1>1, <1>4 DEF WaitsFor
  <2>2. PICK s \in Matching(g) : serialLock[s] = x
    BY <2>1
  <2>3. s \in Serials /\ Names(target[g], s)
    BY <1>1, <1>4, <2>1, MatchingNamed
  <2>4. Names(target[x], s) /\ pc[x] \in {"serials", "cancel", "commit"}
    BY <1>1, <2>2, <2>3 DEF SerialsInv, HoldsSerials, MarksFor, UnmarksFor
  <2>5. Active(g) /\ Active(x) /\ target[g] \in Ops /\ target[x] \in Ops
    BY <1>1, <1>4, <2>4 DEF TypeInv, HandlerOK, Active
  <2>6. PICK i \in LineIdx(target[g]) : Lines(target[g])[i].serial = s
    BY <2>3 DEF Names
  <2>7. PICK j \in LineIdx(target[x]) : Lines(target[x])[j].serial = s
    BY <2>4 DEF Names
  <2>8. s # NoSerial
    BY <2>3, AbsentAssumption
  <2>9. SourceRow(target[g], i) = SourceRow(target[x], j)
    BY <2>5, <2>6, <2>7, <2>8 DEF SerialsOfOneRow
  <2>10. rowLock[SourceRow(target[g], i)] = g
    BY <1>1, <1>4, <2>5, <2>6 DEF LocksInv, OwnsRows, SourceRows
  <2>11. rowLock[SourceRow(target[x], j)] = x
    BY <1>1, <2>4, <2>5, <2>7 DEF LocksInv, OwnsRows, SourceRows
  <2>. QED
    BY <1>1, <2>9, <2>10, <2>11
<1>5. CASE pc[g] = "credit"
  BY <1>1, <1>5 DEF TypeInv, HandlerOK
<1>6. CASE pc[g] \notin {"lock", "insert", "cancel", "claim", "serials", "credit"}
  BY <1>6 DEF WaitsFor
<1>. QED
  BY <1>2, <1>3, <1>4, <1>5, <1>6

(* The product a writer waits for.                                         *)
Awaited(g) == CHOOSE n \in Nat : \E r \in need[g] : NextRow(g, r) /\ r[2] = n

LEMMA AwaitedProduct ==
    ASSUME TypeInv, LocksInv, NEW g \in Writers, pc[g] = "lock",
           NEW r \in need[g], NextRow(g, r)
    PROVE  Awaited(g) \in Nat /\ Awaited(g) = r[2]
<1>1. /\ g \in Handlers /\ kind[g] \in {"CREATE", "REVERSE"} /\ target[g] \in Ops
      /\ need[g] \subseteq SourceRows(target[g])
  BY DEF Writers, TypeInv, HandlerOK, Active, LocksInv, OwnsRows
<1>2. \A q \in need[g] : q[2] \in Nat
  BY <1>1, SourceRowTypes
<1>3. \A q \in need[g] : NextRow(g, q) => q[2] = r[2]
  BY <1>1, <1>2 DEF NextRow
<1>. QED
  BY <1>2, <1>3 DEF Awaited

(* Along a wait the awaited product grows.                                 *)
LEMMA AwaitedGrows ==
    ASSUME TypeInv, LocksInv, NEW g \in Writers, NEW x \in Writers,
           pc[g] = "lock", pc[x] = "lock",
           NEW r \in need[g], NextRow(g, r), rowLock[r] = x,
           NEW q \in need[x], NextRow(x, q)
    PROVE  /\ Awaited(g) \in Nat /\ Awaited(x) \in Nat
           /\ Awaited(g) < Awaited(x)
<1>1. /\ x \in Handlers /\ Active(x) /\ kind[x] \in {"CREATE", "REVERSE"}
      /\ need[g] \subseteq Rows
  BY DEF Writers, Active, TypeInv, TypeOK
<1>2. r \in SourceRows(target[x]) \ need[x]
  BY <1>1 DEF LocksInv, HeldRows
<1>3. r[2] < q[2]
  BY <1>1, <1>2 DEF LocksInv, InOrder
<1>. QED
  BY <1>3, AwaitedProduct

LEMMA WritersProgress ==
    ASSUME IsFiniteSet(Handlers), SerialsOfOneRow, TypeInv, LocksInv, SerialsInv, OpsInv,
           NEW C \in SUBSET Writers
    PROVE  ~Deadlocked(C)
<1>. SUFFICES ASSUME Deadlocked(C) PROVE FALSE
  OBVIOUS
<1>. DEFINE w == [g \in C |-> Awaited(g)]
<1>1. IsFiniteSet(C) /\ C # {}
  BY FS_Subset DEF Writers, Deadlocked
<1>2. ASSUME NEW g \in C
      PROVE  /\ pc[g] = "lock"
             /\ \E r \in need[g] : NextRow(g, r) /\ rowLock[r] \in C
  <2>1. PICK x \in C : x \in WaitsFor(g)
    BY DEF Deadlocked
  <2>. QED
    BY <2>1, WritersWaitForRows
<1>3. ASSUME NEW g \in C
      PROVE  /\ Awaited(g) \in Nat
             /\ \E x \in C : Awaited(g) < Awaited(x)
  <2>1. PICK r \in need[g] : NextRow(g, r) /\ rowLock[r] \in C
    BY <1>2
  <2>2. PICK x \in C : rowLock[r] = x
    BY <2>1
  <2>3. PICK q \in need[x] : NextRow(x, q)
    BY <1>2
  <2>4. pc[g] = "lock" /\ pc[x] = "lock"
    BY <1>2
  <2>. QED
    BY <2>1, <2>2, <2>3, <2>4, AwaitedGrows
<1>4. \A g \in C : w[g] \in Nat
  BY <1>3
<1>5. PICK g \in C : \A x \in C : ~ (w[g] < w[x])
  <2>. HIDE DEF w
  <2>. QED
    BY <1>1, <1>4, NoClimb
<1>. QED
  BY <1>3, <1>5

(* Creates and damage reversals never deadlock among themselves, however   *)
(* many there are and whatever else runs: locking stock rows in product    *)
(* order is enough.  A serial number must belong to one product at one     *)
(* branch: the statements on serials take their locks in the order of the  *)
(* body, and are safe because the stock row of the unit is locked first.   *)
THEOREM WritersNeverDeadlock ==
    ASSUME IsFiniteSet(Handlers), SerialsOfOneRow
    PROVE  Spec => []OrderedWritersNeverDeadlock
<1>1. TypeInv /\ LocksInv /\ SerialsInv /\ OpsInv => OrderedWritersNeverDeadlock
  BY WritersProgress DEF OrderedWritersNeverDeadlock, Writers
<1>. QED
  BY <1>1, TypeInvariant, LocksAlways, SerialsAlways, OpsAlways, PTL

-----------------------------------------------------------------------------
(* Sums over finite sets.  SumFunctionOnSet is a recursive function that   *)
(* removes the element CHOOSE picks; what it is and that the order does    *)
(* not matter is shown on a smallest counterexample each time.             *)

Picked(s) == CHOOSE x \in s : TRUE
Unrolled(f, g, s) == IF s = {} THEN 0 ELSE f[Picked(s)] + g[s \ {Picked(s)}]
(* g sums f over every subset of S.                                        *)
Sums(f, g, S) == g = [s \in SUBSET S |-> Unrolled(f, g, s)]

LEMMA SumChosen ==
    ASSUME NEW f, NEW S PROVE SumFunctionOnSet(f, S) = (CHOOSE g : Sums(f, g, S))[S]
  BY DEF SumFunctionOnSet, FoldFunctionOnSet, MapThenFoldSet, Sums, Unrolled, Picked

LEMMA SumsAgree ==
    ASSUME NEW S, IsFiniteSet(S), NEW T, NEW f, NEW g, Sums(f, g, S), NEW e, Sums(f, e, T),
           NEW U \in SUBSET S, U \subseteq T
    PROVE  g[U] = e[U]
<1>. DEFINE Z == {s \in SUBSET U : g[s] # e[s]}
<1>1. ASSUME Z # {} PROVE FALSE
  <2>1. IsFiniteSet(U)
    BY FS_Subset
  <2>2. PICK t \in Z : \A x \in t : t \ {x} \notin Z
    BY <1>1, <2>1, MinimalSet
  <2>3. g[t] = Unrolled(f, g, t) /\ e[t] = Unrolled(f, e, t)
    BY DEF Sums
  <2>4. t # {}
    BY <2>3 DEF Unrolled
  <2>5. Picked(t) \in t
    BY <2>4 DEF Picked
  <2>6. g[t \ {Picked(t)}] = e[t \ {Picked(t)}]
    BY <2>2, <2>5
  <2>. QED
    BY <2>3, <2>6 DEF Unrolled
<1>. QED
  BY <1>1

LEMMA SumsRestrict ==
    ASSUME NEW f, NEW g, NEW S, Sums(f, g, S), NEW U \in SUBSET S
    PROVE  Sums(f, [s \in SUBSET U |-> g[s]], U)
<1>. DEFINE e == [s \in SUBSET U |-> g[s]]
<1>1. ASSUME NEW s \in SUBSET U PROVE Unrolled(f, g, s) = Unrolled(f, e, s)
  BY DEF Unrolled
<1>2. ASSUME NEW s \in SUBSET U PROVE g[s] = Unrolled(f, g, s)
  BY DEF Sums
<1>. QED
  BY <1>1, <1>2 DEF Sums

(* Where a sum exists it is the value of every function that sums.         *)
LEMMA SumValue ==
    ASSUME NEW f, NEW g, NEW S, IsFiniteSet(S), Sums(f, g, S), NEW U \in SUBSET S
    PROVE  SumFunctionOnSet(f, U) = g[U]
<1>1. IsFiniteSet(U)
  BY FS_Subset
<1>2. \E e : Sums(f, e, U)
  BY SumsRestrict
<1>. DEFINE c == CHOOSE e : Sums(f, e, U)
<1>3. Sums(f, c, U)
  BY <1>2
<1>4. c[U] = g[U]
  <2>. HIDE DEF c
  <2>. QED
    BY <1>1, <1>3, SumsAgree
<1>. QED
  BY <1>4, SumChosen

LEMMA SumsExist == ASSUME NEW f, NEW S, IsFiniteSet(S) PROVE \E g : Sums(f, g, S)
<1>. DEFINE Z == {s \in SUBSET S : ~ \E g : Sums(f, g, s)}
<1>1. ASSUME Z # {} PROVE FALSE
  <2>1. PICK t \in Z : \A x \in t : t \ {x} \notin Z
    BY <1>1, MinimalSet
  <2>2. IsFiniteSet(t)
    BY FS_Subset
  <2>. DEFINE v == [s \in SUBSET t |-> SumFunctionOnSet(f, s)]
              g == [v EXCEPT ![t] = Unrolled(f, v, t)]
  <2>3. ASSUME NEW s \in SUBSET t, s # t PROVE v[s] = Unrolled(f, v, s)
    <3>1. PICK x \in t : s \subseteq t \ {x}
      BY <2>3
    <3>2. PICK e : Sums(f, e, t \ {x})
      BY <2>1
    <3>3. IsFiniteSet(t \ {x})
      BY <2>2, FS_RemoveElement
    <3>4. \A u \in SUBSET (t \ {x}) : v[u] = e[u]
      BY <3>2, <3>3, SumValue
    <3>5. e[s] = Unrolled(f, e, s)
      BY <3>1, <3>2 DEF Sums
    <3>6. Unrolled(f, e, s) = Unrolled(f, v, s)
      BY <3>1, <3>4 DEF Unrolled
    <3>. QED
      BY <3>1, <3>4, <3>5, <3>6
  <2>4. ASSUME NEW s \in SUBSET t PROVE Unrolled(f, v, s) = Unrolled(f, g, s)
    <3>1. CASE s = {}
      BY <3>1 DEF Unrolled
    <3>2. CASE s # {}
      <4>1. Picked(s) \in s
        BY <3>2 DEF Picked
      <4>2. s \ {Picked(s)} # t
        BY <4>1
      <4>. QED
        BY <4>2 DEF Unrolled
    <3>. QED
      BY <3>1, <3>2
  <2>5. Sums(f, g, t)
    BY <2>3, <2>4 DEF Sums
  <2>. QED
    BY <2>5
<1>. QED
  BY <1>1

LEMMA SumStep ==
    ASSUME NEW f, NEW S, IsFiniteSet(S)
    PROVE  /\ SumFunctionOnSet(f, {}) = 0
           /\ S # {} => /\ Picked(S) \in S
                        /\ SumFunctionOnSet(f, S) =
                             f[Picked(S)] + SumFunctionOnSet(f, S \ {Picked(S)})
<1>1. PICK g : Sums(f, g, S)
  BY SumsExist
<1>2. \A s \in SUBSET S : SumFunctionOnSet(f, s) = g[s]
  BY <1>1, SumValue
<1>3. \A s \in SUBSET S : g[s] = Unrolled(f, g, s)
  BY <1>1 DEF Sums
<1>. QED
  BY <1>2, <1>3 DEF Unrolled, Picked

LEMMA SumType ==
    ASSUME NEW S, IsFiniteSet(S), NEW f, \A x \in S : f[x] \in Int
    PROVE  SumFunctionOnSet(f, S) \in Int
<1>. DEFINE Z == {s \in SUBSET S : SumFunctionOnSet(f, s) \notin Int}
<1>1. ASSUME Z # {} PROVE FALSE
  <2>1. PICK t \in Z : \A x \in t : t \ {x} \notin Z
    BY <1>1, MinimalSet
  <2>2. IsFiniteSet(t)
    BY FS_Subset
  <2>3. CASE t = {}
    <3>1. SumFunctionOnSet(f, {}) = 0
      BY SumStep
    <3>. QED
      BY <2>1, <2>3, <3>1
  <2>4. CASE t # {}
    <3>1. /\ Picked(t) \in t
          /\ SumFunctionOnSet(f, t) = f[Picked(t)] + SumFunctionOnSet(f, t \ {Picked(t)})
      BY <2>2, <2>4, SumStep
    <3>2. f[Picked(t)] \in Int /\ SumFunctionOnSet(f, t \ {Picked(t)}) \in Int
      BY <2>1, <3>1
    <3>. QED
      BY <2>1, <3>1, <3>2
  <2>. QED
    BY <2>3, <2>4
<1>. QED
  BY <1>1

(* Any element of a set can be the one that is summed first.               *)
LEMMA SumRemove ==
    ASSUME NEW S, IsFiniteSet(S), NEW f, \A x \in S : f[x] \in Int, NEW x \in S
    PROVE  SumFunctionOnSet(f, S) = f[x] + SumFunctionOnSet(f, S \ {x})
<1>. DEFINE Sum(s) == SumFunctionOnSet(f, s)
            Z == {s \in SUBSET S : \E y \in s : Sum(s) # f[y] + Sum(s \ {y})}
<1>1. ASSUME Z # {} PROVE FALSE
  <2>1. PICK t \in Z : \A y \in t : t \ {y} \notin Z
    BY <1>1, MinimalSet
  <2>2. PICK y \in t : Sum(t) # f[y] + Sum(t \ {y})
    BY <2>1
  <2>3. \A s \in SUBSET t : IsFiniteSet(s) /\ Sum(s) \in Int
    <3>1. ASSUME NEW s \in SUBSET t PROVE IsFiniteSet(s) /\ Sum(s) \in Int
      BY FS_Subset, SumType
    <3>. QED
      BY <3>1
  <2>. DEFINE z == Picked(t)
  <2>4. z \in t /\ Sum(t) = f[z] + Sum(t \ {z})
    BY <2>3, SumStep
  <2>5. z # y
    BY <2>2, <2>4
  <2>6. y \in t \ {z} /\ z \in t \ {y} /\ (t \ {z}) \ {y} = (t \ {y}) \ {z}
    BY <2>4, <2>5
  <2>7. Sum(t \ {z}) = f[y] + Sum((t \ {z}) \ {y}) /\ Sum(t \ {y}) = f[z] + Sum((t \ {y}) \ {z})
    <3>. HIDE DEF Sum, z
    <3>. QED
      BY <2>1, <2>4, <2>6
  <2>8. f[y] \in Int /\ f[z] \in Int /\ Sum((t \ {z}) \ {y}) \in Int
    BY <2>3, <2>4
  <2>9. \A a, b, c \in Int : a + (b + c) = b + (a + c)
    OBVIOUS
  <2>. HIDE DEF Sum, z
  <2>10. Sum(t) = f[z] + (f[y] + Sum((t \ {z}) \ {y}))
    BY <2>4, <2>7
  <2>11. f[y] + Sum(t \ {y}) = f[y] + (f[z] + Sum((t \ {z}) \ {y}))
    BY <2>6, <2>7
  <2>. QED
    BY <2>2, <2>8, <2>9, <2>10, <2>11
<1>. QED
  BY <1>1

LEMMA SumAdd ==
    ASSUME NEW S, IsFiniteSet(S), NEW f, NEW x, x \notin S, \A y \in S \cup {x} : f[y] \in Int
    PROVE  SumFunctionOnSet(f, S \cup {x}) = f[x] + SumFunctionOnSet(f, S)
<1>1. IsFiniteSet(S \cup {x}) /\ (S \cup {x}) \ {x} = S
  BY FS_AddElement
<1>2. SumFunctionOnSet(f, S \cup {x}) = f[x] + SumFunctionOnSet(f, (S \cup {x}) \ {x})
  BY <1>1, SumRemove
<1>. QED
  BY <1>1, <1>2

(* A sum whose function changes in one place.                              *)
LEMMA SumChange ==
    ASSUME NEW S, IsFiniteSet(S), NEW x \in S, NEW f, NEW g,
           \A y \in S : f[y] \in Int /\ g[y] \in Int,
           \A y \in S \ {x} : g[y] = f[y]
    PROVE  SumFunctionOnSet(g, S) = SumFunctionOnSet(f, S) - f[x] + g[x]
<1>. DEFINE T == S \ {x}
<1>1. IsFiniteSet(T)
  BY FS_RemoveElement
<1>2. PICK e : Sums(f, e, T)
  BY <1>1, SumsExist
<1>3. \A s \in SUBSET T : Unrolled(f, e, s) = Unrolled(g, e, s)
  <2>1. ASSUME NEW s \in SUBSET T PROVE Unrolled(f, e, s) = Unrolled(g, e, s)
    <3>1. s # {} => Picked(s) \in s
      BY DEF Picked
    <3>. QED
      BY <3>1 DEF Unrolled
  <2>. QED
    BY <2>1
<1>4. Sums(g, e, T)
  BY <1>2, <1>3 DEF Sums
<1>5. SumFunctionOnSet(f, T) = e[T] /\ SumFunctionOnSet(g, T) = e[T]
  BY <1>1, <1>2, <1>4, SumValue
<1>6. /\ SumFunctionOnSet(f, S) = f[x] + SumFunctionOnSet(f, T)
      /\ SumFunctionOnSet(g, S) = g[x] + SumFunctionOnSet(g, T)
  BY SumRemove
<1>7. SumFunctionOnSet(f, T) \in Int
  BY <1>1, SumType
<1>. QED
  BY <1>5, <1>6, <1>7

LEMMA SumZero ==
    ASSUME NEW S, IsFiniteSet(S), NEW f, \A x \in S : f[x] = 0
    PROVE  SumFunctionOnSet(f, S) = 0
<1>. DEFINE Z == {s \in SUBSET S : SumFunctionOnSet(f, s) # 0}
<1>1. ASSUME Z # {} PROVE FALSE
  <2>1. PICK t \in Z : \A x \in t : t \ {x} \notin Z
    BY <1>1, MinimalSet
  <2>2. IsFiniteSet(t)
    BY FS_Subset
  <2>3. t # {}
    BY <2>2, SumStep
  <2>4. /\ Picked(t) \in t
        /\ SumFunctionOnSet(f, t) = f[Picked(t)] + SumFunctionOnSet(f, t \ {Picked(t)})
    BY <2>2, <2>3, SumStep
  <2>5. f[Picked(t)] = 0 /\ SumFunctionOnSet(f, t \ {Picked(t)}) = 0
    BY <2>1, <2>4
  <2>. QED
    BY <2>1, <2>4, <2>5
<1>. QED
  BY <1>1

(* Terms that agree have the same sum, opposite terms the opposite sum.    *)
LEMMA SumSame ==
    ASSUME NEW S, IsFiniteSet(S), NEW f, NEW g, \A x \in S : g[x] = f[x]
    PROVE  SumFunctionOnSet(g, S) = SumFunctionOnSet(f, S)
<1>1. PICK e : Sums(f, e, S)
  BY SumsExist
<1>2. \A s \in SUBSET S : Unrolled(f, e, s) = Unrolled(g, e, s)
  <2>1. ASSUME NEW s \in SUBSET S PROVE Unrolled(f, e, s) = Unrolled(g, e, s)
    <3>1. s # {} => Picked(s) \in s
      BY DEF Picked
    <3>. QED
      BY <3>1 DEF Unrolled
  <2>. QED
    BY <2>1
<1>3. Sums(g, e, S)
  BY <1>1, <1>2 DEF Sums
<1>. QED
  BY <1>1, <1>3, SumValue

LEMMA SumOpposite ==
    ASSUME NEW S, IsFiniteSet(S), NEW f, NEW g,
           \A x \in S : f[x] \in Int /\ g[x] = -f[x]
    PROVE  SumFunctionOnSet(g, S) = -SumFunctionOnSet(f, S)
<1>. DEFINE Z == {s \in SUBSET S : SumFunctionOnSet(g, s) # -SumFunctionOnSet(f, s)}
<1>1. ASSUME Z # {} PROVE FALSE
  <2>1. PICK t \in Z : \A x \in t : t \ {x} \notin Z
    BY <1>1, MinimalSet
  <2>2. IsFiniteSet(t)
    BY FS_Subset
  <2>3. t # {}
    <3>1. SumFunctionOnSet(f, {}) = 0 /\ SumFunctionOnSet(g, {}) = 0
      BY FS_EmptySet, SumStep
    <3>. QED
      BY <2>1, <3>1
  <2>4. /\ Picked(t) \in t
        /\ SumFunctionOnSet(f, t) = f[Picked(t)] + SumFunctionOnSet(f, t \ {Picked(t)})
        /\ SumFunctionOnSet(g, t) = g[Picked(t)] + SumFunctionOnSet(g, t \ {Picked(t)})
    BY <2>2, <2>3, SumStep
  <2>5. SumFunctionOnSet(g, t \ {Picked(t)}) = -SumFunctionOnSet(f, t \ {Picked(t)})
    BY <2>1, <2>4
  <2>6. IsFiniteSet(t \ {Picked(t)}) /\ \A x \in t \ {Picked(t)} : f[x] \in Int
    BY <2>2, FS_RemoveElement
  <2>7. SumFunctionOnSet(f, t \ {Picked(t)}) \in Int
    BY <2>6, SumType
  <2>8. f[Picked(t)] \in Int /\ g[Picked(t)] = -f[Picked(t)]
    BY <2>4
  <2>9. SumFunctionOnSet(g, t) # -SumFunctionOnSet(f, t)
    BY <2>1
  <2>. QED
    BY <2>4, <2>5, <2>7, <2>8, <2>9
<1>. QED
  BY <1>1

(* The sum over two disjoint sets.                                         *)
LEMMA SumUnion ==
    ASSUME NEW A, NEW B, IsFiniteSet(A), IsFiniteSet(B), A \cap B = {},
           NEW f, \A x \in A \cup B : f[x] \in Int
    PROVE  SumFunctionOnSet(f, A \cup B) = SumFunctionOnSet(f, A) + SumFunctionOnSet(f, B)
<1>. DEFINE Sum(s) == SumFunctionOnSet(f, s)
            Z == {s \in SUBSET B : Sum(A \cup s) # Sum(A) + Sum(s)}
<1>1. ASSUME Z # {} PROVE FALSE
  <2>1. PICK t \in Z : \A x \in t : t \ {x} \notin Z
    BY <1>1, MinimalSet
  <2>2. IsFiniteSet(t)
    BY FS_Subset
  <2>3. Sum(A) \in Int /\ Sum(t) \in Int
    BY <2>2, SumType
  <2>4. PICK x \in t : TRUE
    <3>1. Sum({}) = 0
      BY SumStep
    <3>2. t # {}
      <4>1. A \cup {} = A
        OBVIOUS
      <4>2. t = {} => Sum(A \cup t) = Sum(A) /\ Sum(t) = 0
        BY <3>1, <4>1
      <4>. HIDE DEF Sum
      <4>. QED
        BY <2>1, <2>3, <4>2
    <3>. QED
      BY <3>2
  <2>5. /\ IsFiniteSet(A \cup t) /\ x \in A \cup t /\ (A \cup t) \ {x} = A \cup (t \ {x})
        /\ \A y \in A \cup t : f[y] \in Int
    BY <2>2, <2>4, FS_Union
  <2>6. Sum(A \cup t) = f[x] + Sum((A \cup t) \ {x})
    BY <2>5, SumRemove
  <2>7. Sum(t) = f[x] + Sum(t \ {x})
    BY <2>2, <2>4, <2>5, SumRemove
  <2>8. IsFiniteSet(t \ {x}) /\ Sum(t \ {x}) \in Int /\ f[x] \in Int
    BY <2>2, <2>4, <2>5, FS_RemoveElement, SumType
  <2>9. Sum(A \cup (t \ {x})) = Sum(A) + Sum(t \ {x})
    BY <2>1, <2>4
  <2>10. Sum(A \cup t) # Sum(A) + Sum(t)
    BY <2>1
  <2>. HIDE DEF Sum
  <2>11. Sum(A \cup t) = f[x] + (Sum(A) + Sum(t \ {x}))
    BY <2>5, <2>6, <2>9
  <2>12. \A a, b, c \in Int : a + (b + c) = b + (a + c)
    OBVIOUS
  <2>. QED
    BY <2>3, <2>7, <2>8, <2>10, <2>11, <2>12
<1>. QED
  BY <1>1

(* The sum over a set that m pairs with another, term by term.             *)
LEMMA SumImage ==
    ASSUME NEW S, IsFiniteSet(S), NEW N, NEW m \in Bijection(S, N), NEW f, NEW g,
           \A x \in S : f[x] \in Int /\ g[m[x]] = f[x]
    PROVE  IsFiniteSet(N) /\ SumFunctionOnSet(g, N) = SumFunctionOnSet(f, S)
<1>. /\ \A x, y \in S : m[x] = m[y] => x = y
     /\ \A x \in S : m[x] \in N
     /\ \A y \in N : \E x \in S : m[x] = y
  BY DEF Bijection, Injection, Surjection, IsInjective
<1>0. \A s \in SUBSET S : IsFiniteSet(s) /\ IsFiniteSet({m[x] : x \in s})
  <2>1. ASSUME NEW s \in SUBSET S PROVE IsFiniteSet(s) /\ IsFiniteSet({m[x] : x \in s})
    <3>1. IsFiniteSet(s)
      BY FS_Subset
    <3>2. [x \in s |-> m[x]] \in Surjection(s, {m[x] : x \in s})
      BY DEF Surjection
    <3>. QED
      BY <3>1, <3>2, FS_Surjection
  <2>. QED
    BY <2>1
<1>. DEFINE Images(s) == {m[x] : x \in s}
            Z == {s \in SUBSET S : SumFunctionOnSet(g, Images(s)) # SumFunctionOnSet(f, s)}
<1>1. ASSUME Z # {} PROVE FALSE
  <2>1. PICK t \in Z : \A x \in t : t \ {x} \notin Z
    BY <1>1, MinimalSet
  <2>2. IsFiniteSet(t) /\ IsFiniteSet(Images(t))
    BY <1>0
  <2>3. PICK x \in t : TRUE
    <3>1. Images({}) = {}
      OBVIOUS
    <3>2. SumFunctionOnSet(g, {}) = 0 /\ SumFunctionOnSet(f, {}) = 0
      BY FS_EmptySet, SumStep
    <3>. QED
      BY <2>1, <3>1, <3>2
  <2>4. Images(t) \ {m[x]} = Images(t \ {x}) /\ m[x] \in Images(t)
    BY <2>3
  <2>5. /\ \A y \in Images(t) : g[y] \in Int
        /\ \A y \in t : f[y] \in Int
    OBVIOUS
  <2>6. SumFunctionOnSet(g, Images(t)) = g[m[x]] + SumFunctionOnSet(g, Images(t) \ {m[x]})
    <3>. HIDE DEF Images
    <3>. QED
      BY <2>2, <2>4, <2>5, SumRemove
  <2>7. SumFunctionOnSet(f, t) = f[x] + SumFunctionOnSet(f, t \ {x})
    BY <2>2, <2>3, <2>5, SumRemove
  <2>8. SumFunctionOnSet(g, Images(t \ {x})) = SumFunctionOnSet(f, t \ {x})
    BY <2>1, <2>3
  <2>9. g[m[x]] = f[x]
    BY <2>3
  <2>10. SumFunctionOnSet(g, Images(t)) # SumFunctionOnSet(f, t)
    BY <2>1
  <2>. HIDE DEF Images
  <2>. QED
    BY <2>4, <2>6, <2>7, <2>8, <2>9, <2>10
<1>2. N = Images(S)
  OBVIOUS
<1>3. SumFunctionOnSet(g, Images(S)) = SumFunctionOnSet(f, S)
  BY <1>1
<1>4. IsFiniteSet(Images(S))
  BY <1>0
<1>. HIDE DEF Images
<1>. QED
  BY <1>2, <1>3, <1>4

(* A sum with one term that is not zero.                                   *)
LEMMA SumSingle ==
    ASSUME NEW S, IsFiniteSet(S), NEW x \in S, NEW f, f[x] \in Int,
           \A y \in S \ {x} : f[y] = 0
    PROVE  SumFunctionOnSet(f, S) = f[x]
<1>1. IsFiniteSet(S \ {x}) /\ \A y \in S : f[y] \in Int
  BY FS_RemoveElement
<1>2. SumFunctionOnSet(f, S) = f[x] + SumFunctionOnSet(f, S \ {x})
  BY <1>1, SumRemove
<1>3. SumFunctionOnSet(f, S \ {x}) = 0
  BY <1>1, SumZero
<1>. QED
  BY <1>2, <1>3

LEMMA BookSum == ASSUME NEW f PROVE Book!SumFunction(f) = SumFunctionOnSet(f, DOMAIN f)
  BY DEF Book!SumFunction, Book!SumFunctionOnSet, Book!FoldFunctionOnSet, SumFunctionOnSet, FoldFunctionOnSet, MapThenFoldSet, Book!MapThenFoldSet

-----------------------------------------------------------------------------
(* The books.  Where the clients do what the user interface does, an       *)
(* operation has one request open at a time, which finds it as the request *)
(* needs it.                                                               *)

Solo == \A g, h \in Handlers : Active(g) /\ Active(h) /\ g # h => target[g] # target[h]
Statuses(o) == CASE Req[o].type = "PULLOUT" -> {"NONE", "DISPATCHED", "RECEIVED"}
                 [] Req[o].type = "STOCK_OUT" -> {"NONE", "LOGGED"}
                 [] OTHER -> {"NONE", "LOGGED", "CANCELLED"}
Ready(k, o) ==
    /\ k = "CREATE" => status[o] = "NONE"
    /\ k = "REVERSE" => Req[o].type = "DAMAGE" /\ status[o] = "LOGGED"
    /\ k = "RETURN" => Req[o].type = "CONSUMABLE_ISSUE" /\ status[o] = "LOGGED"
    /\ k = "RECEIVE" => Req[o].type = "PULLOUT" /\ status[o] = "DISPATCHED"
StatusInv == /\ Solo
             /\ \A o \in Ops : status[o] \in Statuses(o)
             /\ \A h \in Handlers : Active(h) => Ready(kind[h], target[h])

(* A request that was under way stays what it is until it ends.            *)
LEMMA Continues ==
    ASSUME TypeInv, NEW h \in Handlers, Acts(h), Active(h)'
    PROVE  \/ \E k \in Kinds, o \in Ops : Begin(h, k, o)
           \/ Active(h) /\ kind'[h] = kind[h] /\ target'[h] = target[h] /\ ~Commit(h)
<1>1. CASE LockRow(h) \/ Verify(h) \/ Insert(h) \/ ApplyLine(h) \/ ApplyDone(h)
  BY <1>1 DEF LockRow, Verify, Insert, ApplyLine, ApplyDone, AllLocked, Active, Commit
<1>2. CASE RestoreStock(h) \/ ReturnStock(h) \/ SerialLine(h) \/ SerialsDone(h)
  BY <1>2 DEF RestoreStock, ReturnStock, SerialLine, SerialsDone, AllLocked, Active, Commit
<1>3. CASE MarkCancelled(h) \/ ClaimReceipt(h) \/ CreditLine(h) \/ CreditDone(h)
  BY <1>3 DEF MarkCancelled, ClaimReceipt, CreditLine, CreditDone, Active, Commit
<1>4. CASE \/ Commit(h) \/ RefuseUncovered(h) \/ RefuseLine(h)
           \/ RefuseDuplicate(h) \/ RefuseReceived(h) \/ Fail(h)
  <2>1. \E a \in {"ok", "error"} : Finish(h, a)
    BY <1>4 DEF Commit, RefuseUncovered, RefuseLine, RefuseDuplicate,
                RefuseReceived, Fail, Rollback
  <2>. QED
    BY <2>1 DEF Finish, Active, TypeInv, TypeOK
<1>. QED
  BY <1>1, <1>2, <1>3, <1>4 DEF Acts, Step

LEMMA BeginReady ==
    ASSUME TypeInv, StatusInv, Lapses = {}, NEW h \in Handlers, NEW k \in Kinds,
           NEW o \in Ops, Begin(h, k, o)
    PROVE  /\ Ready(k, o)
           /\ \A g \in Handlers : Active(g) => target[g] # o
           /\ kind'[h] = k /\ target'[h] = o /\ UNCHANGED tables
<1>1. /\ Admissible(k, o) /\ status[o] \in Statuses(o)
      /\ \A g \in Handlers : Active(g) => target[g] # o
      /\ kind'[h] = k /\ target'[h] = o /\ UNCHANGED tables
  BY DEF Begin, StatusInv, TypeInv, TypeOK
<1>2. Ready(k, o)
  BY <1>1, ConstantsAssumption DEF Admissible, MayCreate, MayReverse, MayReturn,
     MayReceive, Ready, Statuses, Kinds
<1>. QED
  BY <1>1, <1>2

LEMMA CommitStatus ==
    ASSUME TypeInv, NEW h \in Handlers, Commit(h)
    PROVE  /\ Active(h) /\ target[h] \in Ops /\ kind[h] \in Kinds
           /\ status'[target[h]] = StatusAfter(kind[h], target[h])
           /\ \A p \in Ops \ {target[h]} : status'[p] = status[p]
  BY DEF Commit, TypeInv, TypeOK, HandlerOK, Active

LEMMA NextStatus == ASSUME Lapses = {} PROVE TypeInv /\ StatusInv /\ [Next]_vars => StatusInv'
<1>. SUFFICES ASSUME TypeInv, StatusInv, [Next]_vars PROVE StatusInv'
  OBVIOUS
<1>1. CASE UNCHANGED vars
  BY <1>1 DEF vars, tables, StatusInv, Solo, Active, Ready
<1>2. CASE Next
  <2>1. PICK h \in Handlers : Acts(h)
    BY <1>2, ActionOfHandler
  <2>2. \A g \in Handlers \ {h} :
            Active(g)' = Active(g) /\ kind'[g] = kind[g] /\ target'[g] = target[g]
    BY <2>1, OthersStay DEF Active
  <2>3. Solo'
    <3>. SUFFICES ASSUME NEW g \in Handlers, g # h, Active(g), Active(h)'
                  PROVE  target'[h] # target[g]
      BY <2>2 DEF Solo, StatusInv
    <3>. QED
      BY <2>1, Continues, BeginReady DEF StatusInv, Solo
  <2>4. \A o \in Ops : status'[o] \in Statuses(o)
    <3>1. CASE UNCHANGED tables
      BY <3>1 DEF StatusInv, tables
    <3>2. CASE Commit(h)
      <4>. DEFINE o == target[h]
      <4>1. /\ o \in Ops /\ Ready(kind[h], o) /\ kind[h] \in Kinds
            /\ Req[o].type \in OpTypes /\ \A p \in Ops \ {o} : status'[p] = status[p]
            /\ status'[o] = StatusAfter(kind[h], o)
        BY <3>2, CommitStatus, ConstantsAssumption DEF StatusInv
      <4>2. status'[o] \in Statuses(o)
        BY <4>1 DEF Ready, StatusAfter, PostedStatus, Statuses, Kinds, OpTypes
      <4>. QED
        BY <4>1, <4>2 DEF StatusInv
    <3>. QED
      BY <2>1, <3>1, <3>2, TablesCommitted
  <2>5. ASSUME NEW g \in Handlers, Active(g)' PROVE Ready(kind[g], target[g])'
    <3>1. CASE \E k \in Kinds, o \in Ops : Begin(h, k, o)
      <4>1. PICK k \in Kinds, o \in Ops : Begin(h, k, o)
        BY <3>1
      <4>2. Ready(k, o) /\ kind'[h] = k /\ target'[h] = o /\ status' = status
        BY <4>1, BeginReady DEF tables
      <4>. QED
        BY <2>2, <2>5, <4>2 DEF Ready, StatusInv
    <3>2. CASE ~ \E k \in Kinds, o \in Ops : Begin(h, k, o)
      <4>1. Active(g) /\ kind'[g] = kind[g] /\ target'[g] = target[g] /\ (g = h => ~Commit(h))
        BY <2>1, <2>2, <2>5, <3>2, Continues
      <4>2. CASE UNCHANGED tables
        BY <4>1, <4>2 DEF tables, StatusInv, Ready
      <4>3. CASE Commit(h)
        <5>1. target[g] # target[h] /\ target[g] \in Ops
          BY <4>1, <4>3, CommitStatus DEF StatusInv, Solo, TypeInv, HandlerOK
        <5>2. status'[target[g]] = status[target[g]]
          BY <4>3, <5>1, CommitStatus
        <5>. QED
          BY <4>1, <5>2 DEF StatusInv, Ready
      <4>. QED
        BY <2>1, <4>2, <4>3, TablesCommitted
    <3>. QED
      BY <3>1, <3>2
  <2>. QED
    BY <2>3, <2>4, <2>5 DEF StatusInv, Statuses
<1>. QED
  BY <1>1, <1>2

LEMMA StatusAlways == ASSUME Lapses = {} PROVE Spec => []StatusInv
<1>1. Init => StatusInv
  BY DEF Init, StatusInv, Solo, Statuses, Active
<1>2. TypeInv /\ StatusInv /\ [Next]_vars => StatusInv'
  BY NextStatus
<1>. QED
  BY <1>1, <1>2, TypeInvariant, PTL DEF Spec

-----------------------------------------------------------------------------
(* What the lines of a body say of a row.                                  *)

LEMMA LinesFinite ==
    ASSUME NEW o \in Ops
    PROVE  /\ LineIdx(o) = 1..Len(Lines(o)) /\ Len(Lines(o)) \in Nat
           /\ IsFiniteSet(LineIdx(o))
<1>1. Lines(o) \in Seq(LineType)
  BY ConstantsAssumption DEF Lines
<1>2. LineIdx(o) = 1..Len(Lines(o)) /\ Len(Lines(o)) \in Nat
  BY <1>1 DEF LineIdx, Lines
<1>. QED
  BY <1>2, FS_Interval

LEMMA LineTerms ==
    ASSUME NEW o \in Ops, NEW r \in Rows
    PROVE  /\ \A i \in LineIdx(o) :
                 /\ Book!UsableLines(o, r)[i] =
                        IF SourceRow(o, i) = r /\ ~FromDamaged(o, i) THEN Lines(o)[i].qty ELSE 0
                 /\ Book!DamagedLines(o, r)[i] =
                        IF SourceRow(o, i) = r /\ FromDamaged(o, i) THEN Lines(o)[i].qty ELSE 0
                 /\ Book!ArrivingLines(o, r)[i] =
                        IF DestRow(o, i) = r THEN Lines(o)[i].qty ELSE 0
                 /\ Book!UsableLines(o, r)[i] \in Int
                 /\ Book!DamagedLines(o, r)[i] \in Int
                 /\ Book!ArrivingLines(o, r)[i] \in Int
           /\ DOMAIN Book!UsableLines(o, r) = LineIdx(o)
           /\ DOMAIN Book!DamagedLines(o, r) = LineIdx(o)
           /\ DOMAIN Book!ArrivingLines(o, r) = LineIdx(o)
<1>1. ASSUME NEW i \in LineIdx(o)
      PROVE  /\ Book!UsableLines(o, r)[i] =
                    IF SourceRow(o, i) = r /\ ~FromDamaged(o, i) THEN Lines(o)[i].qty ELSE 0
             /\ Book!DamagedLines(o, r)[i] =
                    IF SourceRow(o, i) = r /\ FromDamaged(o, i) THEN Lines(o)[i].qty ELSE 0
             /\ Book!ArrivingLines(o, r)[i] =
                    IF DestRow(o, i) = r THEN Lines(o)[i].qty ELSE 0
             /\ Lines(o)[i].qty \in Int
  <2>1. Lines(o)[i].qty \in Int
    BY LineTypes
  <2>2. /\ i \in DOMAIN Req[o].lines /\ Lines(o)[i] = Req[o].lines[i]
        /\ SourceRow(o, i) = <<Req[o].branch, Req[o].lines[i].product>>
        /\ DestRow(o, i) = <<Req[o].dest, Req[o].lines[i].product>>
        /\ FromDamaged(o, i) <=> Book!OfDamaged(o, Req[o].lines[i])
    BY DEF LineIdx, Lines, SourceRow, DestRow, FromDamaged, Book!OfDamaged
  <2>3. Book!UsableLines(o, r)[i] =
            IF SourceRow(o, i) = r /\ ~FromDamaged(o, i) THEN Lines(o)[i].qty ELSE 0
    BY <2>2 DEF Book!UsableLines
  <2>4. Book!DamagedLines(o, r)[i] =
            IF SourceRow(o, i) = r /\ FromDamaged(o, i) THEN Lines(o)[i].qty ELSE 0
    BY <2>2 DEF Book!DamagedLines
  <2>5. Book!ArrivingLines(o, r)[i] = IF DestRow(o, i) = r THEN Lines(o)[i].qty ELSE 0
    BY <2>2 DEF Book!ArrivingLines
  <2>. QED
    BY <2>1, <2>3, <2>4, <2>5
<1>2. ASSUME NEW i \in LineIdx(o)
      PROVE  /\ Book!UsableLines(o, r)[i] \in Int
             /\ Book!DamagedLines(o, r)[i] \in Int
             /\ Book!ArrivingLines(o, r)[i] \in Int
  BY <1>1
<1>. QED
  BY <1>1, <1>2 DEF LineIdx, Book!UsableLines, Book!DamagedLines, Book!ArrivingLines

(* The book's amounts of an operation are the sums over its lines.         *)
LEMMA BookAmounts ==
    ASSUME NEW o \in Ops, NEW r \in Rows
    PROVE  /\ Book!Usable(o, r) = SumFunctionOnSet(Book!UsableLines(o, r), LineIdx(o))
           /\ Book!FromPool(o, r) = SumFunctionOnSet(Book!DamagedLines(o, r), LineIdx(o))
           /\ Book!Arriving(o, r) = SumFunctionOnSet(Book!ArrivingLines(o, r), LineIdx(o))
           /\ Book!Usable(o, r) \in Int /\ Book!FromPool(o, r) \in Int
           /\ Book!Arriving(o, r) \in Int /\ Book!ToPool(o, r) \in Int
           /\ Req[o].type # "PULLOUT" => Book!FromPool(o, r) = 0
<1>1. /\ Book!Usable(o, r) = SumFunctionOnSet(Book!UsableLines(o, r), LineIdx(o))
      /\ Book!FromPool(o, r) = SumFunctionOnSet(Book!DamagedLines(o, r), LineIdx(o))
      /\ Book!Arriving(o, r) = SumFunctionOnSet(Book!ArrivingLines(o, r), LineIdx(o))
  BY LineTerms, BookSum DEF Book!Usable, Book!FromPool, Book!Arriving
<1>2. /\ Book!Usable(o, r) \in Int /\ Book!FromPool(o, r) \in Int
      /\ Book!Arriving(o, r) \in Int
  BY <1>1, LineTerms, LinesFinite, SumType
<1>3. Book!ToPool(o, r) \in Int
  BY <1>2 DEF Book!ToPool
<1>4. ASSUME Req[o].type # "PULLOUT" PROVE Book!FromPool(o, r) = 0
  <2>1. \A i \in LineIdx(o) : Book!DamagedLines(o, r)[i] = 0
    BY <1>4, LineTerms DEF FromDamaged
  <2>. QED
    BY <1>1, <2>1, LinesFinite, SumZero
<1>. QED
  BY <1>1, <1>2, <1>3, <1>4

(* The lines whose statements a transaction has executed, and what they    *)
(* have moved in a row.                                                    *)
Applied(h) ==
    CASE pc[h] \in {"apply", "credit"} -> {i \in LineIdx(target[h]) : i < line[h]}
      [] pc[h] \in {"serials", "cancel", "commit"} -> LineIdx(target[h])
      [] OTHER -> {}
UsableSoFar(h, r) == SumFunctionOnSet(Book!UsableLines(target[h], r), Applied(h))
PoolSoFar(h, r) == SumFunctionOnSet(Book!DamagedLines(target[h], r), Applied(h))
ArrivedSoFar(h, r) == SumFunctionOnSet(Book!ArrivingLines(target[h], r), Applied(h))

Nothing == [qoh |-> 0, damaged |-> 0]
Moved(h, r) ==
    CASE kind[h] = "CREATE" ->
            [qoh |-> -UsableSoFar(h, r),
             damaged |-> (IF Req[target[h]].type = "DAMAGE" THEN UsableSoFar(h, r) ELSE 0)
                            - PoolSoFar(h, r)]
      [] kind[h] = "REVERSE" ->
            [qoh |-> UsableSoFar(h, r), damaged |-> -UsableSoFar(h, r)]
      [] kind[h] = "RETURN" -> [qoh |-> UsableSoFar(h, r), damaged |-> 0]
      [] kind[h] = "RECEIVE" -> [qoh |-> ArrivedSoFar(h, r), damaged |-> 0]
      [] OTHER -> Nothing
Shifted(cell, m) == [qoh |-> cell.qoh + m.qoh, damaged |-> cell.damaged + m.damaged]

(* The version of a row that a handler holds differs from the table by     *)
(* what its statements have moved; they have moved nothing elsewhere.      *)
Drafted(h) ==
    \A r \in Rows : IF rowLock[r] = h THEN draft[r] = Shifted(stock[r], Moved(h, r))
                                      ELSE Moved(h, r) = Nothing
Undrafted == \A r \in Rows : rowLock[r] = Nobody => draft[r] = stock[r]
DraftInv == Undrafted /\ \A h \in Handlers : Drafted(h)

LEMMA NothingMoved ==
    ASSUME NEW h, NEW r, Applied(h) = {} PROVE Moved(h, r) = Nothing
<1>1. UsableSoFar(h, r) = 0 /\ PoolSoFar(h, r) = 0 /\ ArrivedSoFar(h, r) = 0
  BY FS_EmptySet, SumStep DEF UsableSoFar, PoolSoFar, ArrivedSoFar
<1>. QED
  BY <1>1 DEF Moved, Nothing

LEMMA SoFarTypes ==
    ASSUME TypeInv, NEW h \in Handlers, Active(h), NEW r \in Rows
    PROVE  /\ target[h] \in Ops /\ Applied(h) \subseteq LineIdx(target[h])
           /\ IsFiniteSet(Applied(h))
           /\ UsableSoFar(h, r) \in Int /\ PoolSoFar(h, r) \in Int
           /\ ArrivedSoFar(h, r) \in Int
<1>1. target[h] \in Ops
  BY DEF TypeInv, HandlerOK
<1>2. Applied(h) \subseteq LineIdx(target[h])
  BY DEF Applied
<1>3. IsFiniteSet(Applied(h))
  BY <1>1, <1>2, LinesFinite, FS_Subset
<1>4. \A i \in Applied(h) : /\ Book!UsableLines(target[h], r)[i] \in Int
                            /\ Book!DamagedLines(target[h], r)[i] \in Int
                            /\ Book!ArrivingLines(target[h], r)[i] \in Int
  BY <1>1, <1>2, LineTerms
<1>5. UsableSoFar(h, r) \in Int
  BY <1>3, <1>4, SumType DEF UsableSoFar
<1>6. PoolSoFar(h, r) \in Int
  BY <1>3, <1>4, SumType DEF PoolSoFar
<1>7. ArrivedSoFar(h, r) \in Int
  BY <1>3, <1>4, SumType DEF ArrivedSoFar
<1>. QED
  BY <1>1, <1>2, <1>3, <1>5, <1>6, <1>7

(* A row that the handler of a step does not hold keeps its versions; one  *)
(* that it gives back has one version only.                                *)
LEMMA FreeRows ==
    ASSUME TypeInv, LocksInv, NEW h \in Handlers, Acts(h), NEW r \in Rows,
           rowLock'[r] # h
    PROVE  /\ rowLock[r] # h => /\ rowLock'[r] = rowLock[r]
                                /\ draft'[r] = draft[r] /\ stock'[r] = stock[r]
           /\ rowLock[r] = h => rowLock'[r] = Nobody /\ draft'[r] = stock'[r]
<1>1. CASE \E k \in Kinds, o \in Ops : Begin(h, k, o)
  BY <1>1 DEF Begin, locks, tables
<1>2. CASE LockRow(h)
  BY <1>2 DEF LockRow, TypeInv, TypeOK, tables
<1>3. CASE \/ Verify(h) \/ Insert(h) \/ ApplyDone(h) \/ SerialLine(h)
           \/ SerialsDone(h) \/ MarkCancelled(h) \/ ClaimReceipt(h) \/ CreditDone(h)
  BY <1>3 DEF Verify, Insert, ApplyDone, SerialLine, SerialsDone, MarkCancelled,
              ClaimReceipt, CreditDone, locks, tables
<1>4. CASE ApplyLine(h)
  <2>1. /\ pc[h] = "apply" /\ line[h] \in LineIdx(target[h]) /\ rowLock' = rowLock
        /\ draft' = [draft EXCEPT ![SourceRow(target[h], line[h])] =
                        AfterLine(@, target[h], line[h])]
        /\ stock' = stock
    BY <1>4 DEF ApplyLine, locks, tables
  <2>2. kind[h] = "CREATE" /\ Active(h)
    BY <2>1 DEF TypeInv, HandlerOK, Active
  <2>3. rowLock[SourceRow(target[h], line[h])] = h
    BY <2>1, <2>2 DEF LocksInv, OwnsRows, SourceRows
  <2>. QED
    BY <2>1, <2>3 DEF TypeInv, TypeOK
<1>5. CASE RestoreStock(h) \/ ReturnStock(h)
  <2>1. /\ pc[h] = "lock" /\ need[h] = {} /\ kind[h] # "RECEIVE" /\ rowLock' = rowLock
        /\ r \notin SourceRows(target[h]) => draft'[r] = draft[r]
        /\ stock' = stock
    BY <1>5 DEF RestoreStock, ReturnStock, AllLocked, locks, tables
  <2>2. r \in SourceRows(target[h]) => rowLock[r] = h
    BY <2>1 DEF LocksInv, OwnsRows, Active
  <2>. QED
    BY <2>1, <2>2
<1>6. CASE CreditLine(h)
  BY <1>6 DEF CreditLine, TypeInv, TypeOK, tables
<1>7. CASE Commit(h)
  BY <1>7 DEF Commit, Overlay, Finish, Freed, TypeInv, TypeOK
<1>8. CASE \/ RefuseUncovered(h) \/ RefuseLine(h)
           \/ RefuseDuplicate(h) \/ RefuseReceived(h) \/ Fail(h)
  <2>1. Rollback(h)
    BY <1>8 DEF RefuseUncovered, RefuseLine, RefuseDuplicate, RefuseReceived, Fail
  <2>. QED
    BY <2>1 DEF Rollback, Undone, Overlay, Finish, Freed, TypeInv, TypeOK, tables
<1>. QED
  BY <1>1, <1>2, <1>3, <1>4, <1>5, <1>6, <1>7, <1>8 DEF Acts, Step

LEMMA NextUndrafted ==
    ASSUME TypeInv, LocksInv, DraftInv, NEW h \in Handlers, Acts(h)
    PROVE  Undrafted'
<1>. SUFFICES ASSUME NEW r \in Rows, rowLock'[r] = Nobody PROVE draft'[r] = stock'[r]
  BY DEF Undrafted
<1>1. rowLock'[r] # h
  BY AbsentAssumption
<1>. QED
  BY <1>1, FreeRows DEF DraftInv, Undrafted

LEMMA MovedSame ==
    ASSUME NEW h, NEW r, Applied(h)' = Applied(h), kind'[h] = kind[h],
           target'[h] = target[h]
    PROVE  Moved(h, r)' = Moved(h, r)
  BY DEF Moved, UsableSoFar, PoolSoFar, ArrivedSoFar, Nothing

LEMMA OthersDrafted ==
    ASSUME TypeInv, LocksInv, DraftInv, NEW h \in Handlers, Acts(h),
           NEW g \in Handlers, g # h
    PROVE  Drafted(g)'
<1>0. pc'[g] = pc[g] /\ kind'[g] = kind[g] /\ target'[g] = target[g] /\ line'[g] = line[g]
  BY OthersStay
<1>1. Applied(g)' = Applied(g)
  BY <1>0 DEF Applied
<1>. SUFFICES ASSUME NEW r \in Rows
              PROVE  IF rowLock'[r] = g THEN draft'[r] = Shifted(stock'[r], Moved(g, r)')
                                        ELSE Moved(g, r)' = Nothing
  BY DEF Drafted, Shifted, Nothing
<1>2. Moved(g, r)' = Moved(g, r)
  BY <1>0, <1>1, MovedSame
<1>3. rowLock'[r] = g <=> rowLock[r] = g
  BY OthersRows
<1>4. rowLock[r] = g => draft'[r] = draft[r] /\ stock'[r] = stock[r]
  BY <1>3, FreeRows
<1>. QED
  BY <1>2, <1>3, <1>4 DEF DraftInv, Drafted

(* Steps that move nothing.                                                *)
LEMMA EarlyDrafted ==
    ASSUME TypeInv, LocksInv, DraftInv, NEW h \in Handlers,
           \/ \E k \in Kinds, o \in Ops : Begin(h, k, o)
           \/ LockRow(h) \/ Verify(h) \/ Insert(h) \/ ClaimReceipt(h)
    PROVE  Drafted(h)'
<1>1. /\ UNCHANGED <<stock, draft>> /\ line' = line
      /\ pc[h] \in {"idle", "lock", "insert", "claim"}
      /\ pc'[h] \in {"lock", "insert", "claim", "apply", "credit"}
      /\ \A r \in Rows : rowLock'[r] = h => rowLock[r] = h \/ rowLock[r] = Nobody
  BY DEF Begin, LockRow, Verify, Insert, ClaimReceipt, AllLocked, locks, tables, TypeInv,
         TypeOK
<1>2. line[h] = 1
  BY <1>1 DEF LocksInv, Starting
<1>3. Applied(h) = {}
  BY <1>1 DEF Applied
<1>4. pc'[h] \in {"apply", "credit"} => target'[h] \in Ops
  BY <1>1 DEF Begin, LockRow, Verify, Insert, ClaimReceipt, AllLocked, TypeInv, TypeOK,
         HandlerOK, Active
<1>5. Applied(h)' = {}
  <2>1. CASE pc'[h] \in {"apply", "credit"}
    <3>1. LineIdx(target'[h]) \subseteq Nat \ {0}
      BY <1>4, <2>1, LineTypes
    <3>. QED
      BY <1>1, <1>2, <2>1, <3>1 DEF Applied
  <2>2. CASE pc'[h] \notin {"apply", "credit"}
    BY <1>1, <2>2 DEF Applied
  <2>. QED
    BY <2>1, <2>2
<1>. SUFFICES ASSUME NEW r \in Rows
              PROVE  IF rowLock'[r] = h THEN draft'[r] = Shifted(stock'[r], Moved(h, r)')
                                        ELSE Moved(h, r)' = Nothing
  BY DEF Drafted, Shifted, Nothing
<1>6. Moved(h, r) = Nothing
  BY <1>3, NothingMoved
<1>7. Moved(h, r)' = Nothing
  <2>1. UsableSoFar(h, r)' = 0 /\ PoolSoFar(h, r)' = 0 /\ ArrivedSoFar(h, r)' = 0
    BY <1>5, FS_EmptySet, SumStep DEF UsableSoFar, PoolSoFar, ArrivedSoFar
  <2>. QED
    BY <2>1 DEF Moved, Nothing
<1>8. rowLock'[r] = h => draft[r] = stock[r] \/ draft[r] = Shifted(stock[r], Nothing)
  BY <1>1, <1>6 DEF DraftInv, Drafted, Undrafted
<1>9. Shifted(stock[r], Nothing) = stock[r]
  BY DEF Shifted, Nothing, TypeInv, Cells
<1>. QED
  BY <1>1, <1>7, <1>8, <1>9

LEMMA QuietDrafted ==
    ASSUME TypeInv, LocksInv, DraftInv, NEW h \in Handlers,
           \/ ApplyDone(h) \/ CreditDone(h) \/ SerialLine(h) \/ SerialsDone(h)
           \/ MarkCancelled(h)
    PROVE  Drafted(h)'
<1>1. /\ UNCHANGED <<stock, draft, rowLock, kind, target>> /\ target[h] \in Ops
      /\ line[h] \in Nat \ {0}
  BY DEF ApplyDone, CreditDone, SerialLine, SerialsDone, MarkCancelled, locks, tables,
         TypeInv, TypeOK, HandlerOK, Active
<1>2. Applied(h)' = Applied(h)
  <2>1. CASE ApplyDone(h) \/ CreditDone(h)
    <3>1. /\ pc[h] \in {"apply", "credit"} /\ pc'[h] \in {"serials", "commit"}
          /\ line[h] \notin LineIdx(target[h])
      BY <2>1 DEF ApplyDone, CreditDone, TypeInv, TypeOK
    <3>2. \A i \in LineIdx(target[h]) : i < line[h]
      BY <1>1, <3>1, LinesFinite
    <3>. QED
      BY <1>1, <3>1, <3>2 DEF Applied
  <2>2. CASE SerialLine(h) \/ SerialsDone(h) \/ MarkCancelled(h)
    <3>1. /\ pc[h] \in {"serials", "cancel"} /\ pc'[h] \in {"serials", "cancel", "commit"}
      BY <2>2 DEF SerialLine, SerialsDone, MarkCancelled, TypeInv, TypeOK
    <3>. QED
      BY <1>1, <3>1 DEF Applied
  <2>. QED
    BY <2>1, <2>2
<1>3. \A r \in Rows : Moved(h, r)' = Moved(h, r)
  BY <1>1, <1>2, MovedSame
<1>. QED
  BY <1>1, <1>3 DEF DraftInv, Drafted, Shifted, Nothing

(* One more line: what it moves is added to what was moved.                *)
LEMMA NextLineSum ==
    ASSUME TypeInv, NEW h \in Handlers, pc[h] \in {"apply", "credit"},
           line[h] \in LineIdx(target[h]), pc'[h] = pc[h], target'[h] = target[h],
           line'[h] = line[h] + 1, NEW r \in Rows
    PROVE  /\ UsableSoFar(h, r)' = Book!UsableLines(target[h], r)[line[h]] + UsableSoFar(h, r)
           /\ PoolSoFar(h, r)' = Book!DamagedLines(target[h], r)[line[h]] + PoolSoFar(h, r)
           /\ ArrivedSoFar(h, r)' = Book!ArrivingLines(target[h], r)[line[h]] + ArrivedSoFar(h, r)
<1>. DEFINE o == target[h]
            i == line[h]
<1>1. o \in Ops /\ i \in LineIdx(o) /\ LineIdx(o) \subseteq Nat
  BY LineTypes DEF TypeInv, HandlerOK, Active
<1>2. Applied(h) = {j \in LineIdx(o) : j < i} /\ Applied(h)' = {j \in LineIdx(o) : j < i + 1}
  BY DEF Applied
<1>3. Applied(h)' = Applied(h) \cup {i} /\ i \notin Applied(h)
  BY <1>1, <1>2
<1>4. IsFiniteSet(Applied(h)) /\ Applied(h) \cup {i} \subseteq LineIdx(o)
  BY <1>1, <1>2, SoFarTypes DEF Active
<1>5. \A j \in Applied(h) \cup {i} : /\ Book!UsableLines(o, r)[j] \in Int
                                    /\ Book!DamagedLines(o, r)[j] \in Int
                                    /\ Book!ArrivingLines(o, r)[j] \in Int
  BY <1>1, <1>4, LineTerms
<1>6. UsableSoFar(h, r)' = SumFunctionOnSet(Book!UsableLines(o, r), Applied(h) \cup {i})
  BY <1>3 DEF UsableSoFar
<1>7. PoolSoFar(h, r)' = SumFunctionOnSet(Book!DamagedLines(o, r), Applied(h) \cup {i})
  BY <1>3 DEF PoolSoFar
<1>8. ArrivedSoFar(h, r)' = SumFunctionOnSet(Book!ArrivingLines(o, r), Applied(h) \cup {i})
  BY <1>3 DEF ArrivedSoFar
<1>9. UsableSoFar(h, r)' = Book!UsableLines(o, r)[i] + UsableSoFar(h, r)
  BY <1>3, <1>4, <1>5, <1>6, SumAdd DEF UsableSoFar
<1>10. PoolSoFar(h, r)' = Book!DamagedLines(o, r)[i] + PoolSoFar(h, r)
  BY <1>3, <1>4, <1>5, <1>7, SumAdd DEF PoolSoFar
<1>11. ArrivedSoFar(h, r)' = Book!ArrivingLines(o, r)[i] + ArrivedSoFar(h, r)
  BY <1>3, <1>4, <1>5, <1>8, SumAdd DEF ArrivedSoFar
<1>. QED
  BY <1>9, <1>10, <1>11

LEMMA ApplyLineDrafted ==
    ASSUME TypeInv, LocksInv, DraftInv, NEW h \in Handlers, ApplyLine(h)
    PROVE  Drafted(h)'
<1>. DEFINE o == target[h]
            i == line[h]
<1>1. /\ pc[h] = "apply" /\ i \in LineIdx(o) /\ Active(h) /\ o \in Ops /\ kind[h] = "CREATE"
      /\ UNCHANGED <<pc, kind, target, stock, rowLock>> /\ line'[h] = i + 1
      /\ draft' = [draft EXCEPT ![SourceRow(o, i)] = AfterLine(@, o, i)]
  BY DEF ApplyLine, locks, tables, TypeInv, TypeOK, HandlerOK, Active
<1>2. rowLock[SourceRow(o, i)] = h
  BY <1>1 DEF LocksInv, OwnsRows, SourceRows
<1>. SUFFICES ASSUME NEW r \in Rows
              PROVE  IF rowLock'[r] = h THEN draft'[r] = Shifted(stock'[r], Moved(h, r)')
                                        ELSE Moved(h, r)' = Nothing
  BY DEF Drafted, Shifted, Nothing
<1>. DEFINE u == Book!UsableLines(o, r)[i]
            p == Book!DamagedLines(o, r)[i]
<1>3. /\ UsableSoFar(h, r)' = u + UsableSoFar(h, r)
      /\ PoolSoFar(h, r)' = p + PoolSoFar(h, r)
  BY <1>1, NextLineSum
<1>4. /\ u = IF SourceRow(o, i) = r /\ ~FromDamaged(o, i) THEN Lines(o)[i].qty ELSE 0
      /\ p = IF SourceRow(o, i) = r /\ FromDamaged(o, i) THEN Lines(o)[i].qty ELSE 0
      /\ u \in Int /\ p \in Int
  BY <1>1, LineTerms
<1>5. UsableSoFar(h, r) \in Int /\ PoolSoFar(h, r) \in Int
  BY <1>1, SoFarTypes
<1>6. /\ Moved(h, r).qoh = -UsableSoFar(h, r)
      /\ Moved(h, r).damaged =
            (IF Req[o].type = "DAMAGE" THEN UsableSoFar(h, r) ELSE 0) - PoolSoFar(h, r)
      /\ Moved(h, r)' = [qoh |-> -UsableSoFar(h, r)',
             damaged |-> (IF Req[o].type = "DAMAGE" THEN UsableSoFar(h, r)' ELSE 0)
                            - PoolSoFar(h, r)']
  BY <1>1 DEF Moved
<1>. HIDE DEF u, p
<1>7. CASE r # SourceRow(o, i)
  <2>1. Moved(h, r)' = Moved(h, r)
    BY <1>1, <1>3, <1>4, <1>5, <1>7 DEF Moved
  <2>2. draft'[r] = draft[r]
    BY <1>1, <1>7 DEF TypeInv, TypeOK
  <2>. QED
    BY <1>1, <2>1, <2>2 DEF DraftInv, Drafted
<1>8. CASE r = SourceRow(o, i)
  <2>1. draft'[r] = AfterLine(draft[r], o, i)
    BY <1>1, <1>8 DEF TypeInv, TypeOK
  <2>2. draft[r] = Shifted(stock[r], Moved(h, r)) /\ rowLock[r] = h
    BY <1>2, <1>8 DEF DraftInv, Drafted
  <2>3. stock[r].qoh \in Int /\ stock[r].damaged \in Int /\ Lines(o)[i].qty \in Int
    BY <1>1, LineTypes DEF TypeInv, TypeOK
  <2>4. /\ draft[r].qoh = stock[r].qoh - UsableSoFar(h, r)
        /\ draft[r].damaged = stock[r].damaged
             + ((IF Req[o].type = "DAMAGE" THEN UsableSoFar(h, r) ELSE 0) - PoolSoFar(h, r))
        /\ draft[r] = [qoh |-> draft[r].qoh, damaged |-> draft[r].damaged]
    BY <1>5, <1>6, <2>2, <2>3 DEF Shifted
  <2>5. CASE Req[o].type = "DAMAGE"
    <3>1. ~FromDamaged(o, i)
      BY <2>5 DEF FromDamaged
    <3>2. draft'[r] = [qoh |-> draft[r].qoh - u, damaged |-> draft[r].damaged + u] /\ p = 0
      BY <1>4, <1>8, <2>1, <2>5, <3>1 DEF AfterLine
    <3>. QED
      BY <1>1, <1>3, <1>4, <1>5, <1>6, <2>2, <2>3, <2>4, <2>5, <3>2 DEF Shifted
  <2>6. CASE Req[o].type # "DAMAGE" /\ FromDamaged(o, i)
    <3>1. draft'[r] = [qoh |-> draft[r].qoh, damaged |-> draft[r].damaged - p] /\ u = 0
      BY <1>4, <1>8, <2>1, <2>4, <2>6 DEF AfterLine
    <3>. QED
      BY <1>1, <1>3, <1>4, <1>5, <1>6, <2>2, <2>3, <2>4, <2>6, <3>1 DEF Shifted
  <2>7. CASE Req[o].type # "DAMAGE" /\ ~FromDamaged(o, i)
    <3>1. draft'[r] = [qoh |-> draft[r].qoh - u, damaged |-> draft[r].damaged] /\ p = 0
      BY <1>4, <1>8, <2>1, <2>4, <2>7 DEF AfterLine
    <3>. QED
      BY <1>1, <1>3, <1>4, <1>5, <1>6, <2>2, <2>3, <2>4, <2>7, <3>1 DEF Shifted
  <2>. QED
    BY <2>5, <2>6, <2>7
<1>. QED
  BY <1>7, <1>8

LEMMA CreditLineDrafted ==
    ASSUME TypeInv, LocksInv, DraftInv, NEW h \in Handlers, CreditLine(h)
    PROVE  Drafted(h)'
<1>. DEFINE o == target[h]
            i == line[h]
<1>1. /\ pc[h] = "credit" /\ i \in LineIdx(o) /\ Active(h) /\ o \in Ops /\ kind[h] = "RECEIVE"
      /\ UNCHANGED <<pc, kind, target, stock>> /\ line'[h] = i + 1
      /\ rowLock[DestRow(o, i)] \in {Nobody, h}
      /\ rowLock' = [rowLock EXCEPT ![DestRow(o, i)] = h]
      /\ draft' = [draft EXCEPT ![DestRow(o, i)].qoh = @ + Lines(o)[i].qty]
  BY DEF CreditLine, tables, TypeInv, TypeOK, HandlerOK, Active
<1>. SUFFICES ASSUME NEW r \in Rows
              PROVE  IF rowLock'[r] = h THEN draft'[r] = Shifted(stock'[r], Moved(h, r)')
                                        ELSE Moved(h, r)' = Nothing
  BY DEF Drafted, Shifted, Nothing
<1>. DEFINE a == Book!ArrivingLines(o, r)[i]
<1>2. ArrivedSoFar(h, r)' = a + ArrivedSoFar(h, r)
  BY <1>1, NextLineSum
<1>3. a = (IF DestRow(o, i) = r THEN Lines(o)[i].qty ELSE 0) /\ a \in Int
  BY <1>1, LineTerms
<1>4. ArrivedSoFar(h, r) \in Int
  BY <1>1, SoFarTypes
<1>5. /\ Moved(h, r) = [qoh |-> ArrivedSoFar(h, r), damaged |-> 0]
      /\ Moved(h, r)' = [qoh |-> ArrivedSoFar(h, r)', damaged |-> 0]
  BY <1>1 DEF Moved
<1>. HIDE DEF a
<1>6. CASE r # DestRow(o, i)
  <2>1. Moved(h, r)' = Moved(h, r)
    BY <1>2, <1>3, <1>4, <1>5, <1>6
  <2>2. draft'[r] = draft[r] /\ rowLock'[r] = rowLock[r]
    BY <1>1, <1>6 DEF TypeInv, TypeOK
  <2>. QED
    BY <1>1, <2>1, <2>2 DEF DraftInv, Drafted
<1>7. CASE r = DestRow(o, i)
  <2>1. draft'[r] = [draft[r] EXCEPT !.qoh = @ + a] /\ rowLock'[r] = h
    BY <1>1, <1>3, <1>7 DEF TypeInv, TypeOK
  <2>2. stock[r].qoh \in Int /\ stock[r].damaged \in Int
        /\ stock[r] = [qoh |-> stock[r].qoh, damaged |-> stock[r].damaged]
    BY DEF TypeInv, TypeOK
  <2>3. draft[r] = Shifted(stock[r], Moved(h, r))
    <3>1. CASE rowLock[r] = h
      BY <3>1 DEF DraftInv, Drafted
    <3>2. CASE rowLock[r] = Nobody
      <4>1. draft[r] = stock[r] /\ Moved(h, r) = Nothing
        BY <3>2, AbsentAssumption DEF DraftInv, Drafted, Undrafted
      <4>. QED
        BY <2>2, <4>1 DEF Shifted, Nothing
    <3>. QED
      BY <1>1, <1>7, <3>1, <3>2
  <2>4. draft[r] = [qoh |-> stock[r].qoh + ArrivedSoFar(h, r), damaged |-> stock[r].damaged]
    BY <1>4, <1>5, <2>2, <2>3 DEF Shifted
  <2>. QED
    BY <1>1, <1>2, <1>3, <1>4, <1>5, <2>1, <2>2, <2>4 DEF Shifted
<1>. QED
  BY <1>6, <1>7

(* A batched statement moves all the lines of a body at once, one to each  *)
(* row where products are named once.                                      *)
LEMMA WholeBody ==
    ASSUME NEW o \in Ops, NEW r \in Rows, DistinctProducts(o), Req[o].type # "PULLOUT"
    PROVE  /\ \A i \in LineIdx(o) : SourceRow(o, i) = r =>
                  Book!Usable(o, r) = Lines(o)[i].qty
           /\ r \notin SourceRows(o) => Book!Usable(o, r) = 0
<1>1. \A i \in LineIdx(o) : ~FromDamaged(o, i)
  BY DEF FromDamaged
<1>2. ASSUME NEW i \in LineIdx(o), SourceRow(o, i) = r
      PROVE  Book!Usable(o, r) = Lines(o)[i].qty
  <2>1. ASSUME NEW j \in LineIdx(o) \ {i} PROVE SourceRow(o, j) # r
    BY <1>2 DEF DistinctProducts, SourceRow, Lines
  <2>2. \A j \in LineIdx(o) \ {i} : Book!UsableLines(o, r)[j] = 0
    BY <2>1, LineTerms
  <2>3. Book!UsableLines(o, r)[i] = Lines(o)[i].qty /\ Book!UsableLines(o, r)[i] \in Int
    BY <1>1, <1>2, LineTerms
  <2>4. SumFunctionOnSet(Book!UsableLines(o, r), LineIdx(o)) = Book!UsableLines(o, r)[i]
    BY <2>2, <2>3, LinesFinite, SumSingle
  <2>. QED
    BY <2>3, <2>4, BookAmounts
<1>3. ASSUME r \notin SourceRows(o) PROVE Book!Usable(o, r) = 0
  <2>1. \A j \in LineIdx(o) : SourceRow(o, j) # r
    BY <1>3 DEF SourceRows
  <2>2. \A j \in LineIdx(o) : Book!UsableLines(o, r)[j] = 0
    BY <2>1, LineTerms
  <2>. QED
    BY <2>2, BookAmounts, LinesFinite, SumZero
<1>. QED
  BY <1>2, <1>3

LEMMA BatchDrafted ==
    ASSUME TypeInv, LocksInv, StatusInv, DraftInv, NEW h \in Handlers,
           \A o \in Ops : Req[o].type = "CONSUMABLE_ISSUE" => DistinctProducts(o),
           RestoreStock(h) \/ ReturnStock(h)
    PROVE  Drafted(h)'
<1>. DEFINE o == target[h]
<1>1. /\ pc[h] = "lock" /\ need[h] = {} /\ Active(h) /\ o \in Ops
      /\ UNCHANGED <<kind, target, stock, rowLock>> /\ pc'[h] \in {"serials", "cancel"}
      /\ RestoreStock(h) => kind[h] = "REVERSE"
      /\ ReturnStock(h) => kind[h] = "RETURN"
  BY DEF RestoreStock, ReturnStock, AllLocked, locks, tables, TypeInv, TypeOK, HandlerOK,
         Active
<1>2. DistinctProducts(o) /\ Req[o].type # "PULLOUT"
  BY <1>1 DEF StatusInv, Ready, RestoreStock
<1>3. Applied(h) = {} /\ Applied(h)' = LineIdx(o)
  BY <1>1 DEF Applied
<1>4. \A r \in Rows : rowLock[r] = h <=> r \in SourceRows(o)
  BY <1>1, SourceRowTypes DEF LocksInv, OwnsRows, HeldRows
<1>. SUFFICES ASSUME NEW r \in Rows
              PROVE  IF rowLock'[r] = h THEN draft'[r] = Shifted(stock'[r], Moved(h, r)')
                                        ELSE Moved(h, r)' = Nothing
  BY DEF Drafted, Shifted, Nothing
<1>5. UsableSoFar(h, r)' = Book!Usable(o, r)
  BY <1>1, <1>3, BookAmounts DEF UsableSoFar
<1>6. Moved(h, r)' = IF kind[h] = "REVERSE"
                     THEN [qoh |-> UsableSoFar(h, r)', damaged |-> -UsableSoFar(h, r)']
                     ELSE [qoh |-> UsableSoFar(h, r)', damaged |-> 0]
  BY <1>1 DEF Moved
<1>7. CASE r \notin SourceRows(o)
  <2>1. Book!Usable(o, r) = 0
    BY <1>1, <1>2, <1>7, WholeBody
  <2>. QED
    BY <1>1, <1>4, <1>5, <1>6, <1>7, <2>1 DEF Nothing
<1>8. CASE r \in SourceRows(o)
  <2>1. draft[r] = stock[r] /\ stock[r].qoh \in Int /\ stock[r].damaged \in Int
        /\ stock[r] = [qoh |-> stock[r].qoh, damaged |-> stock[r].damaged]
    <3>1. Moved(h, r) = Nothing
      BY <1>3, NothingMoved
    <3>2. draft[r] = Shifted(stock[r], Nothing)
      BY <1>4, <1>8, <3>1 DEF DraftInv, Drafted
    <3>. QED
      BY <3>2 DEF Shifted, Nothing, TypeInv, TypeOK
  <2>2. CASE RestoreStock(h)
    <3>. DEFINE i == CHOOSE j \in LineIdx(o) : SourceRow(o, j) = r
    <3>1. i \in LineIdx(o) /\ SourceRow(o, i) = r
      BY <1>8 DEF SourceRows
    <3>2. draft'[r] = [qoh |-> draft[r].qoh + Lines(o)[i].qty,
                       damaged |-> draft[r].damaged - Lines(o)[i].qty]
      BY <1>8, <2>2 DEF RestoreStock
    <3>. HIDE DEF i
    <3>3. Book!Usable(o, r) = Lines(o)[i].qty /\ Lines(o)[i].qty \in Int
      BY <1>1, <1>2, <3>1, WholeBody, LineTypes
    <3>. QED
      BY <1>1, <1>4, <1>5, <1>6, <1>8, <2>1, <2>2, <3>2, <3>3 DEF Shifted
  <2>3. CASE ReturnStock(h)
    <3>1. PICK pick \in [SourceRows(o) -> LineIdx(o)] :
              /\ \A q \in SourceRows(o) : SourceRow(o, pick[q]) = q
              /\ draft' = [q \in Rows |->
                    IF q \in SourceRows(o)
                    THEN [draft[q] EXCEPT !.qoh = @ + Lines(o)[pick[q]].qty]
                    ELSE draft[q]]
      BY <2>3 DEF ReturnStock
    <3>2. PICK i \in LineIdx(o) : i = pick[r]
      BY <1>8, <3>1
    <3>3. SourceRow(o, i) = r /\ draft'[r] = [draft[r] EXCEPT !.qoh = @ + Lines(o)[i].qty]
      BY <1>8, <3>1, <3>2
    <3>4. Book!Usable(o, r) = Lines(o)[i].qty /\ Lines(o)[i].qty \in Int
      BY <1>1, <1>2, <3>3, WholeBody, LineTypes
    <3>5. draft'[r] = [qoh |-> stock[r].qoh + Lines(o)[i].qty, damaged |-> stock[r].damaged]
      BY <2>1, <3>3, <3>4
    <3>6. Moved(h, r)' = [qoh |-> Lines(o)[i].qty, damaged |-> 0]
      BY <1>1, <1>5, <1>6, <2>3, <3>4
    <3>. QED
      BY <1>1, <1>4, <1>8, <2>1, <3>4, <3>5, <3>6 DEF Shifted
  <2>. QED
    BY <1>1, <2>2, <2>3
<1>. QED
  BY <1>7, <1>8

LEMMA EndDrafted ==
    ASSUME TypeInv, NEW h \in Handlers, NEW a \in {"ok", "error"}, Finish(h, a)
    PROVE  Drafted(h)'
<1>1. pc'[h] \in {"ok", "error"} /\ \A r \in Rows : rowLock'[r] # h
  BY AbsentAssumption DEF Finish, Freed, TypeInv, TypeOK
<1>2. Applied(h)' = {}
  BY <1>1 DEF Applied
<1>3. ASSUME NEW r \in Rows PROVE Moved(h, r)' = Nothing
  <2>1. UsableSoFar(h, r)' = 0 /\ PoolSoFar(h, r)' = 0 /\ ArrivedSoFar(h, r)' = 0
    BY <1>2, FS_EmptySet, SumStep DEF UsableSoFar, PoolSoFar, ArrivedSoFar
  <2>. QED
    BY <2>1 DEF Moved, Nothing
<1>. QED
  BY <1>1, <1>3 DEF Drafted, Nothing

LEMMA OwnDrafted ==
    ASSUME TypeInv, LocksInv, StatusInv, DraftInv, NEW h \in Handlers,
           \A o \in Ops : Req[o].type = "CONSUMABLE_ISSUE" => DistinctProducts(o),
           Acts(h)
    PROVE  Drafted(h)'
<1>1. CASE \/ \E k \in Kinds, o \in Ops : Begin(h, k, o)
           \/ LockRow(h) \/ Verify(h) \/ Insert(h) \/ ClaimReceipt(h)
  BY <1>1, EarlyDrafted
<1>2. CASE \/ ApplyDone(h) \/ CreditDone(h) \/ SerialLine(h) \/ SerialsDone(h)
           \/ MarkCancelled(h)
  BY <1>2, QuietDrafted
<1>3. CASE ApplyLine(h)
  BY <1>3, ApplyLineDrafted
<1>4. CASE CreditLine(h)
  BY <1>4, CreditLineDrafted
<1>5. CASE RestoreStock(h) \/ ReturnStock(h)
  BY <1>5, BatchDrafted
<1>6. CASE \/ Commit(h) \/ RefuseUncovered(h) \/ RefuseLine(h)
           \/ RefuseDuplicate(h) \/ RefuseReceived(h) \/ Fail(h)
  <2>1. \E a \in {"ok", "error"} : Finish(h, a)
    BY <1>6 DEF Commit, RefuseUncovered, RefuseLine, RefuseDuplicate,
                RefuseReceived, Fail, Rollback
  <2>. QED
    BY <2>1, EndDrafted
<1>. QED
  BY <1>1, <1>2, <1>3, <1>4, <1>5, <1>6 DEF Acts, Step

LEMMA DraftAlways ==
    ASSUME Lapses = {},
           \A o \in Ops : Req[o].type = "CONSUMABLE_ISSUE" => DistinctProducts(o)
    PROVE  Spec => []DraftInv
<1>1. Init => DraftInv
  <2>. SUFFICES ASSUME Init PROVE DraftInv
    OBVIOUS
  <2>1. Undrafted
    BY DEF Init, Undrafted
  <2>2. ASSUME NEW h \in Handlers PROVE Drafted(h)
    <3>1. Applied(h) = {} /\ \A r \in Rows : rowLock[r] # h
      BY AbsentAssumption DEF Init, Applied
    <3>. QED
      BY <3>1, NothingMoved DEF Drafted
  <2>. QED
    BY <2>1, <2>2 DEF DraftInv
<1>2. TypeInv /\ LocksInv /\ StatusInv /\ DraftInv /\ [Next]_vars => DraftInv'
  <2>. SUFFICES ASSUME TypeInv, LocksInv, StatusInv, DraftInv, [Next]_vars
                PROVE  DraftInv'
    OBVIOUS
  <2>1. CASE UNCHANGED vars
    <3>1. UNCHANGED <<stock, draft, rowLock, pc, kind, target, line>>
      BY <2>1 DEF vars, tables, locks
    <3>2. \A h \in Handlers : \A r \in Rows : Moved(h, r)' = Moved(h, r)
      BY <3>1 DEF Moved, UsableSoFar, PoolSoFar, ArrivedSoFar, Applied, Nothing
    <3>. QED
      BY <3>1, <3>2 DEF DraftInv, Undrafted, Drafted, Shifted, Nothing
  <2>2. CASE Next
    <3>1. PICK h \in Handlers : Acts(h)
      BY <2>2, ActionOfHandler
    <3>2. Undrafted'
      BY <3>1, NextUndrafted
    <3>3. \A g \in Handlers : Drafted(g)'
      BY <3>1, OwnDrafted, OthersDrafted
    <3>. QED
      BY <3>2, <3>3 DEF DraftInv
  <2>. QED
    BY <2>1, <2>2
<1>. QED
  BY <1>1, <1>2, TypeInvariant, LocksAlways, StatusAlways, PTL DEF Spec

-----------------------------------------------------------------------------
(* A commit makes a request's whole effect in one step.                    *)

Effect(k, o, r) ==
    CASE k = "CREATE" -> [qoh |-> -Book!Usable(o, r),
                          damaged |-> Book!ToPool(o, r) - Book!FromPool(o, r)]
      [] k = "RECEIVE" -> [qoh |-> Book!Arriving(o, r), damaged |-> 0]
      [] OTHER -> [qoh |-> Book!Usable(o, r), damaged |-> -Book!ToPool(o, r)]

LEMMA CommitEffect ==
    ASSUME TypeInv, StatusInv, DraftInv, NEW h \in Handlers, Commit(h), NEW r \in Rows
    PROVE  stock'[r] = Shifted(stock[r], Effect(kind[h], target[h], r))
<1>. DEFINE o == target[h]
<1>1. /\ pc[h] = "commit" /\ Active(h) /\ o \in Ops /\ kind[h] \in Kinds
      /\ Ready(kind[h], o) /\ Applied(h) = LineIdx(o)
  BY DEF Commit, TypeInv, HandlerOK, Active, StatusInv, Applied
<1>2. /\ UsableSoFar(h, r) = Book!Usable(o, r) /\ PoolSoFar(h, r) = Book!FromPool(o, r)
      /\ ArrivedSoFar(h, r) = Book!Arriving(o, r)
  BY <1>1, BookAmounts DEF UsableSoFar, PoolSoFar, ArrivedSoFar
<1>3. Book!Usable(o, r) \in Int /\ Book!FromPool(o, r) \in Int
  BY <1>1, BookAmounts
<1>4. Moved(h, r) = Effect(kind[h], o, r)
  <2>1. CASE kind[h] = "CREATE"
    BY <1>2, <2>1 DEF Moved, Effect, Book!ToPool
  <2>2. CASE kind[h] = "RECEIVE"
    BY <1>2, <2>2 DEF Moved, Effect
  <2>3. CASE kind[h] = "REVERSE"
    BY <1>1, <1>2, <2>3 DEF Moved, Effect, Book!ToPool, Ready
  <2>4. CASE kind[h] = "RETURN"
    <3>1. Book!ToPool(o, r) = 0
      BY <1>1, <2>4 DEF Book!ToPool, Ready
    <3>. QED
      BY <1>2, <2>4, <3>1 DEF Moved, Effect
  <2>. QED
    BY <1>1, <2>1, <2>2, <2>3, <2>4 DEF Kinds
<1>5. CASE rowLock[r] = h
  <2>1. stock'[r] = draft[r]
    BY <1>5 DEF Commit, Overlay, TypeInv, TypeOK
  <2>. QED
    BY <1>4, <1>5, <2>1 DEF DraftInv, Drafted
<1>6. CASE rowLock[r] # h
  <2>1. stock'[r] = stock[r]
    BY <1>6 DEF Commit, Overlay, TypeInv, TypeOK
  <2>2. Effect(kind[h], o, r) = Nothing
    BY <1>4, <1>6 DEF DraftInv, Drafted
  <2>3. Shifted(stock[r], Nothing) = stock[r]
    BY DEF Shifted, Nothing, TypeInv, Cells
  <2>. QED
    BY <2>1, <2>2, <2>3
<1>. QED
  BY <1>5, <1>6

-----------------------------------------------------------------------------
(* What a commit changes in the sums over the operations.                  *)

LEMMA OpTerms ==
    ASSUME NEW r \in Rows, NEW o \in Ops
    PROVE  /\ Taken(r)[o] = (IF Live(o) THEN Book!Usable(o, r) ELSE 0)
           /\ Damaged(r)[o] = (IF Live(o) THEN Book!ToPool(o, r) ELSE 0)
           /\ Released(r)[o] = (IF Live(o) THEN Book!FromPool(o, r) ELSE 0)
           /\ Delivered(r)[o] = (IF status[o] = "RECEIVED" THEN Book!Arriving(o, r) ELSE 0)
           /\ (Taken(r)')[o] = (IF Live(o)' THEN Book!Usable(o, r) ELSE 0)
           /\ (Damaged(r)')[o] = (IF Live(o)' THEN Book!ToPool(o, r) ELSE 0)
           /\ (Released(r)')[o] = (IF Live(o)' THEN Book!FromPool(o, r) ELSE 0)
           /\ (Delivered(r)')[o] = (IF status'[o] = "RECEIVED" THEN Book!Arriving(o, r) ELSE 0)
           /\ Taken(r)[o] \in Int /\ Damaged(r)[o] \in Int
           /\ Released(r)[o] \in Int /\ Delivered(r)[o] \in Int
           /\ (Taken(r)')[o] \in Int /\ (Damaged(r)')[o] \in Int
           /\ (Released(r)')[o] \in Int /\ (Delivered(r)')[o] \in Int
<1>1. /\ Book!Usable(o, r) \in Int /\ Book!ToPool(o, r) \in Int
      /\ Book!FromPool(o, r) \in Int /\ Book!Arriving(o, r) \in Int
  BY BookAmounts
<1>2. /\ Taken(r)[o] = (IF Live(o) THEN Book!Usable(o, r) ELSE 0)
      /\ Damaged(r)[o] = (IF Live(o) THEN Book!ToPool(o, r) ELSE 0)
      /\ Released(r)[o] = (IF Live(o) THEN Book!FromPool(o, r) ELSE 0)
      /\ Delivered(r)[o] = (IF status[o] = "RECEIVED" THEN Book!Arriving(o, r) ELSE 0)
  BY DEF Taken, Damaged, Released, Delivered
<1>3. /\ (Taken(r)')[o] = (IF Live(o)' THEN Book!Usable(o, r) ELSE 0)
      /\ (Damaged(r)')[o] = (IF Live(o)' THEN Book!ToPool(o, r) ELSE 0)
      /\ (Released(r)')[o] = (IF Live(o)' THEN Book!FromPool(o, r) ELSE 0)
      /\ (Delivered(r)')[o] = (IF status'[o] = "RECEIVED" THEN Book!Arriving(o, r) ELSE 0)
  BY DEF Taken, Damaged, Released, Delivered, Live
<1>. QED
  BY <1>1, <1>2, <1>3

(* The sums are over the operations, and finite.                           *)
LEMMA OpSums ==
    ASSUME IsFiniteSet(Ops), NEW r \in Rows
    PROVE  /\ SumFunction(Taken(r)) = SumFunctionOnSet(Taken(r), Ops)
           /\ SumFunction(Damaged(r)) = SumFunctionOnSet(Damaged(r), Ops)
           /\ SumFunction(Released(r)) = SumFunctionOnSet(Released(r), Ops)
           /\ SumFunction(Delivered(r)) = SumFunctionOnSet(Delivered(r), Ops)
           /\ SumFunction(Taken(r)') = SumFunctionOnSet(Taken(r)', Ops)
           /\ SumFunction(Damaged(r)') = SumFunctionOnSet(Damaged(r)', Ops)
           /\ SumFunction(Released(r)') = SumFunctionOnSet(Released(r)', Ops)
           /\ SumFunction(Delivered(r)') = SumFunctionOnSet(Delivered(r)', Ops)
           /\ SumFunction(Taken(r)) \in Int /\ SumFunction(Damaged(r)) \in Int
           /\ SumFunction(Released(r)) \in Int /\ SumFunction(Delivered(r)) \in Int
<1>1. /\ DOMAIN Taken(r) = Ops /\ DOMAIN Damaged(r) = Ops /\ DOMAIN Released(r) = Ops
      /\ DOMAIN Delivered(r) = Ops /\ DOMAIN (Taken(r)') = Ops
      /\ DOMAIN (Damaged(r)') = Ops /\ DOMAIN (Released(r)') = Ops
      /\ DOMAIN (Delivered(r)') = Ops
  BY DEF Taken, Damaged, Released, Delivered
<1>2. /\ SumFunction(Taken(r)) = SumFunctionOnSet(Taken(r), Ops)
      /\ SumFunction(Damaged(r)) = SumFunctionOnSet(Damaged(r), Ops)
      /\ SumFunction(Released(r)) = SumFunctionOnSet(Released(r), Ops)
      /\ SumFunction(Delivered(r)) = SumFunctionOnSet(Delivered(r), Ops)
      /\ SumFunction(Taken(r)') = SumFunctionOnSet(Taken(r)', Ops)
      /\ SumFunction(Damaged(r)') = SumFunctionOnSet(Damaged(r)', Ops)
      /\ SumFunction(Released(r)') = SumFunctionOnSet(Released(r)', Ops)
      /\ SumFunction(Delivered(r)') = SumFunctionOnSet(Delivered(r)', Ops)
  BY <1>1 DEF SumFunction
<1>3. \A o \in Ops : /\ Taken(r)[o] \in Int /\ Damaged(r)[o] \in Int
                     /\ Released(r)[o] \in Int /\ Delivered(r)[o] \in Int
  BY OpTerms
<1>4. SumFunctionOnSet(Taken(r), Ops) \in Int
  BY <1>3, SumType
<1>5. SumFunctionOnSet(Damaged(r), Ops) \in Int
  BY <1>3, SumType
<1>6. SumFunctionOnSet(Released(r), Ops) \in Int
  BY <1>3, SumType
<1>7. SumFunctionOnSet(Delivered(r), Ops) \in Int
  BY <1>3, SumType
<1>. QED
  BY <1>2, <1>4, <1>5, <1>6, <1>7

LEMMA OpChange ==
    ASSUME IsFiniteSet(Ops), NEW r \in Rows, NEW o \in Ops,
           \A p \in Ops \ {o} : status'[p] = status[p]
    PROVE  /\ SumFunction(Taken(r)') = SumFunction(Taken(r)) - Taken(r)[o] + (Taken(r)')[o]
           /\ SumFunction(Damaged(r)')
                  = SumFunction(Damaged(r)) - Damaged(r)[o] + (Damaged(r)')[o]
           /\ SumFunction(Released(r)')
                  = SumFunction(Released(r)) - Released(r)[o] + (Released(r)')[o]
           /\ SumFunction(Delivered(r)')
                  = SumFunction(Delivered(r)) - Delivered(r)[o] + (Delivered(r)')[o]
<1>1. \A p \in Ops : /\ Taken(r)[p] \in Int /\ Damaged(r)[p] \in Int
                     /\ Released(r)[p] \in Int /\ Delivered(r)[p] \in Int
                     /\ (Taken(r)')[p] \in Int /\ (Damaged(r)')[p] \in Int
                     /\ (Released(r)')[p] \in Int /\ (Delivered(r)')[p] \in Int
  BY OpTerms
<1>2. ASSUME NEW p \in Ops \ {o}
      PROVE  /\ (Taken(r)')[p] = Taken(r)[p] /\ (Damaged(r)')[p] = Damaged(r)[p]
             /\ (Released(r)')[p] = Released(r)[p] /\ (Delivered(r)')[p] = Delivered(r)[p]
  BY OpTerms DEF Live
<1>3. SumFunctionOnSet(Taken(r)', Ops)
          = SumFunctionOnSet(Taken(r), Ops) - Taken(r)[o] + (Taken(r)')[o]
  BY <1>1, <1>2, SumChange
<1>4. SumFunctionOnSet(Damaged(r)', Ops)
          = SumFunctionOnSet(Damaged(r), Ops) - Damaged(r)[o] + (Damaged(r)')[o]
  BY <1>1, <1>2, SumChange
<1>5. SumFunctionOnSet(Released(r)', Ops)
          = SumFunctionOnSet(Released(r), Ops) - Released(r)[o] + (Released(r)')[o]
  BY <1>1, <1>2, SumChange
<1>6. SumFunctionOnSet(Delivered(r)', Ops)
          = SumFunctionOnSet(Delivered(r), Ops) - Delivered(r)[o] + (Delivered(r)')[o]
  BY <1>1, <1>2, SumChange
<1>. QED
  BY <1>3, <1>4, <1>5, <1>6, OpSums

(* The first two lines of StockMatchesOperations are kept by a commit.     *)
StockFollows(r) ==
    /\ stock[r].qoh = InitStock[r].qoh - SumFunction(Taken(r)) + SumFunction(Delivered(r))
    /\ stock[r].damaged = InitStock[r].damaged + SumFunction(Damaged(r))
                                               - SumFunction(Released(r))

LEMMA CommitFollows ==
    ASSUME IsFiniteSet(Ops), TypeInv, StatusInv, DraftInv, NEW h \in Handlers, Commit(h),
           NEW r \in Rows, StockFollows(r)
    PROVE  StockFollows(r)'
<1>. DEFINE k == kind[h]
<1>0. PICK o \in Ops : o = target[h]
  BY CommitStatus
<1>1. /\ k \in Kinds /\ Ready(k, o) /\ status'[o] = StatusAfter(k, o)
      /\ \A p \in Ops \ {o} : status'[p] = status[p]
  BY <1>0, CommitStatus DEF StatusInv
<1>2. stock'[r] = Shifted(stock[r], Effect(k, o, r))
  BY <1>0, CommitEffect
<1>3. /\ stock[r].qoh \in Int /\ stock[r].damaged \in Int
      /\ InitStock[r].qoh \in Int /\ InitStock[r].damaged \in Int
  BY ConstantsAssumption DEF TypeInv, TypeOK, Cells
<1>4. /\ Book!Usable(o, r) \in Int /\ Book!ToPool(o, r) \in Int
      /\ Book!FromPool(o, r) \in Int /\ Book!Arriving(o, r) \in Int
      /\ Req[o].type # "PULLOUT" => Book!FromPool(o, r) = 0
  BY <1>1, BookAmounts
<1>5. /\ SumFunction(Taken(r)) \in Int /\ SumFunction(Damaged(r)) \in Int
      /\ SumFunction(Released(r)) \in Int /\ SumFunction(Delivered(r)) \in Int
  BY OpSums
<1>6. /\ SumFunction(Taken(r)') = SumFunction(Taken(r))
            - (IF Live(o) THEN Book!Usable(o, r) ELSE 0)
            + (IF Live(o)' THEN Book!Usable(o, r) ELSE 0)
      /\ SumFunction(Damaged(r)') = SumFunction(Damaged(r))
            - (IF Live(o) THEN Book!ToPool(o, r) ELSE 0)
            + (IF Live(o)' THEN Book!ToPool(o, r) ELSE 0)
      /\ SumFunction(Released(r)') = SumFunction(Released(r))
            - (IF Live(o) THEN Book!FromPool(o, r) ELSE 0)
            + (IF Live(o)' THEN Book!FromPool(o, r) ELSE 0)
      /\ SumFunction(Delivered(r)') = SumFunction(Delivered(r))
            - (IF status[o] = "RECEIVED" THEN Book!Arriving(o, r) ELSE 0)
            + (IF status'[o] = "RECEIVED" THEN Book!Arriving(o, r) ELSE 0)
  <2>1. /\ SumFunction(Taken(r)') = SumFunction(Taken(r)) - Taken(r)[o] + (Taken(r)')[o]
        /\ SumFunction(Damaged(r)')
               = SumFunction(Damaged(r)) - Damaged(r)[o] + (Damaged(r)')[o]
        /\ SumFunction(Released(r)')
               = SumFunction(Released(r)) - Released(r)[o] + (Released(r)')[o]
        /\ SumFunction(Delivered(r)')
               = SumFunction(Delivered(r)) - Delivered(r)[o] + (Delivered(r)')[o]
    BY <1>1, OpChange
  <2>2. /\ Taken(r)[o] = (IF Live(o) THEN Book!Usable(o, r) ELSE 0)
        /\ Damaged(r)[o] = (IF Live(o) THEN Book!ToPool(o, r) ELSE 0)
        /\ Released(r)[o] = (IF Live(o) THEN Book!FromPool(o, r) ELSE 0)
        /\ Delivered(r)[o] = (IF status[o] = "RECEIVED" THEN Book!Arriving(o, r) ELSE 0)
        /\ (Taken(r)')[o] = (IF Live(o)' THEN Book!Usable(o, r) ELSE 0)
        /\ (Damaged(r)')[o] = (IF Live(o)' THEN Book!ToPool(o, r) ELSE 0)
        /\ (Released(r)')[o] = (IF Live(o)' THEN Book!FromPool(o, r) ELSE 0)
        /\ (Delivered(r)')[o] = (IF status'[o] = "RECEIVED" THEN Book!Arriving(o, r) ELSE 0)
    BY <1>1, OpTerms
  <2>. QED
    BY <2>1, <2>2
<1>7. /\ stock'[r].qoh = stock[r].qoh + Effect(k, o, r).qoh
      /\ stock'[r].damaged = stock[r].damaged + Effect(k, o, r).damaged
  BY <1>2 DEF Shifted
<1>8. CASE k = "CREATE"
  <2>1. /\ ~Live(o) /\ Live(o)' /\ status[o] # "RECEIVED" /\ status'[o] # "RECEIVED"
    BY <1>1, <1>8 DEF Ready, Live, StatusAfter, PostedStatus
  <2>2. /\ Effect(k, o, r).qoh = -Book!Usable(o, r)
        /\ Effect(k, o, r).damaged = Book!ToPool(o, r) - Book!FromPool(o, r)
    BY <1>8 DEF Effect
  <2>. QED
    BY <1>3, <1>4, <1>5, <1>6, <1>7, <2>1, <2>2 DEF StockFollows
<1>9. CASE k = "RECEIVE"
  <2>1. Live(o) /\ Live(o)' /\ status[o] # "RECEIVED" /\ status'[o] = "RECEIVED"
    BY <1>1, <1>9 DEF Ready, Live, StatusAfter
  <2>2. Effect(k, o, r).qoh = Book!Arriving(o, r) /\ Effect(k, o, r).damaged = 0
    BY <1>9 DEF Effect
  <2>. QED
    BY <1>3, <1>4, <1>5, <1>6, <1>7, <2>1, <2>2 DEF StockFollows
<1>10. CASE k \in {"REVERSE", "RETURN"}
  <2>1. /\ Live(o) /\ ~Live(o)' /\ status[o] # "RECEIVED" /\ status'[o] # "RECEIVED"
        /\ Req[o].type # "PULLOUT"
    BY <1>1, <1>10 DEF Ready, Live, StatusAfter
  <2>2. /\ Effect(k, o, r).qoh = Book!Usable(o, r)
        /\ Effect(k, o, r).damaged = -Book!ToPool(o, r)
    BY <1>10 DEF Effect
  <2>. QED
    BY <1>3, <1>4, <1>5, <1>6, <1>7, <2>1, <2>2 DEF StockFollows
<1>. QED
  BY <1>1, <1>8, <1>9, <1>10 DEF Kinds

-----------------------------------------------------------------------------
(* The movement ledger.  Each commit adds rows of a kind that its          *)
(* operation has none of yet; a reversal that commits has one line of each *)
(* product, so that no row of it is skipped.                               *)

Distinctly(h) == kind[h] = "REVERSE" /\ pc[h] \in {"serials", "cancel", "commit"}
                     => DistinctProducts(target[h])
LedgerRowOK(x) ==
    /\ x.op \in Ops /\ x.qty \in Int /\ x.kind \in {"CREATE", "REVERSE", "RETURN"}
    /\ x.kind = "CREATE" => status[x.op] # "NONE"
    /\ x.kind \in {"REVERSE", "RETURN"} => status[x.op] = "CANCELLED"
LedgerInv == /\ IsFiniteSet(ledger)
             /\ \A x \in ledger : LedgerRowOK(x)
             /\ \A h \in Handlers : Distinctly(h)

Quantities(L, r) == [x \in L |-> IF x.row = r THEN x.qty ELSE 0]
LineQuantities(o, I, q, r) == [i \in I |-> IF SourceRow(o, i) = r THEN q[i] ELSE 0]

NewRows(o, k, I, q) == {LedgerRow(o, k, i, q[i]) : i \in I}

LEMMA MoreRows ==
    ASSUME NEW o \in Ops, NEW k, NEW I \in SUBSET LineIdx(o), NEW q \in [I -> Int],
           NEW r \in Rows, NEW L, IsFiniteSet(L), \A x \in L : x.qty \in Int,
           NEW N, N = NewRows(o, k, I, q), L \cap N = {}
    PROVE  /\ IsFiniteSet(L \cup N)
           /\ SumFunction(Quantities(L \cup N, r)) =
                SumFunction(Quantities(L, r))
                    + SumFunctionOnSet(LineQuantities(o, I, q, r), I)
<1>. DEFINE m == [i \in I |-> LedgerRow(o, k, i, q[i])]
            f == LineQuantities(o, I, q, r)
            g == Quantities(L \cup N, r)
<1>1. IsFiniteSet(I)
  BY LinesFinite, FS_Subset
<1>2. N = {m[i] : i \in I}
  BY DEF NewRows
<1>3. m \in Bijection(I, N)
  <2>1. \A i \in I : m[i].line = i
    BY DEF LedgerRow
  <2>2. m \in [I -> N]
    BY <1>2
  <2>. HIDE DEF m
  <2>. QED
    BY <1>2, <2>1, <2>2 DEF Bijection, Injection, Surjection, IsInjective
<1>4. ASSUME NEW i \in I PROVE f[i] \in Int /\ g[m[i]] = f[i]
  <2>1. m[i] \in N /\ m[i].row = SourceRow(o, i) /\ m[i].qty = q[i]
    BY <1>2 DEF LedgerRow
  <2>2. g[m[i]] = IF m[i].row = r THEN m[i].qty ELSE 0
    <3>. HIDE DEF m
    <3>. QED
      BY <2>1 DEF Quantities
  <2>3. f[i] = IF SourceRow(o, i) = r THEN q[i] ELSE 0
    BY DEF LineQuantities
  <2>. HIDE DEF m, f, g
  <2>. QED
    BY <2>1, <2>2, <2>3
<1>5. IsFiniteSet(N) /\ SumFunctionOnSet(g, N) = SumFunctionOnSet(f, I)
  <2>. HIDE DEF m, f, g
  <2>1. \A i \in I : f[i] \in Int /\ g[m[i]] = f[i]
    BY <1>4
  <2>. QED
    BY <1>1, <1>3, <2>1, SumImage
<1>6. IsFiniteSet(L \cup N)
  BY <1>5, FS_Union
<1>7. \A x \in L \cup N : g[x] \in Int
  <2>1. ASSUME NEW x \in L PROVE g[x] \in Int
    BY DEF Quantities
  <2>2. ASSUME NEW x \in N PROVE g[x] \in Int
    <3>1. PICK i \in I : x = m[i]
      BY <1>2
    <3>. HIDE DEF m, f, g
    <3>. QED
      BY <1>4, <3>1
  <2>. QED
    BY <2>1, <2>2
<1>8. SumFunctionOnSet(g, L \cup N) = SumFunctionOnSet(g, L) + SumFunctionOnSet(g, N)
  <2>. HIDE DEF g
  <2>. QED
    BY <1>5, <1>7, SumUnion
<1>9. SumFunctionOnSet(g, L) = SumFunctionOnSet(Quantities(L, r), L)
  <2>1. \A x \in L : g[x] = Quantities(L, r)[x]
    BY DEF Quantities
  <2>. HIDE DEF g
  <2>. QED
    BY <2>1, SumSame
<1>10. /\ SumFunction(Quantities(L \cup N, r)) = SumFunctionOnSet(g, L \cup N)
       /\ SumFunction(Quantities(L, r)) = SumFunctionOnSet(Quantities(L, r), L)
  BY DEF SumFunction, Quantities
<1>. HIDE DEF f, g
<1>11. SumFunction(Quantities(L \cup N, r))
          = SumFunction(Quantities(L, r)) + SumFunctionOnSet(f, I)
  BY <1>5, <1>8, <1>9, <1>10
<1>. QED
  BY <1>6, <1>11 DEF f

(* Lines that come from the damaged pool move no usable stock.             *)
LEMMA UsableOnly ==
    ASSUME NEW o \in Ops, NEW r \in Rows
    PROVE  Book!Usable(o, r) =
              SumFunctionOnSet(Book!UsableLines(o, r), {i \in LineIdx(o) : ~FromDamaged(o, i)})
<1>. DEFINE A == {i \in LineIdx(o) : ~FromDamaged(o, i)}
            B == {i \in LineIdx(o) : FromDamaged(o, i)}
            u == Book!UsableLines(o, r)
<1>1. IsFiniteSet(A) /\ IsFiniteSet(B) /\ A \cup B = LineIdx(o) /\ A \cap B = {}
  BY LinesFinite, FS_Subset
<1>2. \A i \in LineIdx(o) : u[i] \in Int
  BY LineTerms
<1>3. \A i \in B : u[i] = 0
  BY LineTerms
<1>. HIDE DEF A, B, u
<1>4. SumFunctionOnSet(u, LineIdx(o)) = SumFunctionOnSet(u, A) + SumFunctionOnSet(u, B)
  BY <1>1, <1>2, SumUnion
<1>5. SumFunctionOnSet(u, B) = 0 /\ SumFunctionOnSet(u, A) \in Int
  BY <1>1, <1>2, <1>3, SumZero, SumType
<1>6. Book!Usable(o, r) = SumFunctionOnSet(u, LineIdx(o))
  BY BookAmounts DEF u
<1>7. Book!Usable(o, r) = SumFunctionOnSet(u, A)
  BY <1>4, <1>5, <1>6
<1>. QED
  BY <1>7 DEF A, u

(* What a commit adds to the ledger sums to what it does to usable stock.  *)
Ledgered(k, o, r) == CASE k = "CREATE" -> -Book!Usable(o, r)
                       [] k = "RECEIVE" -> 0
                       [] OTHER -> Book!Usable(o, r)
LEMMA LedgerGrows ==
    ASSUME NEW o \in Ops, NEW k \in Kinds, NEW r \in Rows, NEW L, IsFiniteSet(L),
           \A x \in L : x.qty \in Int, L \cap LedgerRows(k, o) = {},
           k \in {"REVERSE", "RETURN"} => DistinctProducts(o) /\ Req[o].type # "PULLOUT"
    PROVE  /\ IsFiniteSet(L \cup LedgerRows(k, o))
           /\ SumFunction(Quantities(L \cup LedgerRows(k, o), r)) =
                SumFunction(Quantities(L, r)) + Ledgered(k, o, r)
<1>1. \A i \in LineIdx(o) : Lines(o)[i].qty \in Int
  BY LineTypes
<1>2. CASE k = "CREATE"
  <2>. DEFINE I == {j \in LineIdx(o) : ~FromDamaged(o, j)}
              q == [i \in I |-> -Lines(o)[i].qty]
              u == Book!UsableLines(o, r)
  <2>1. q \in [I -> Int]
    BY <1>1
  <2>2. LedgerRows(k, o) = NewRows(o, k, I, q)
    BY <1>2 DEF LedgerRows, NewRows
  <2>3. IsFiniteSet(I)
    BY LinesFinite, FS_Subset
  <2>4. \A i \in I : u[i] \in Int /\ LineQuantities(o, I, q, r)[i] = -u[i]
    <3>1. ASSUME NEW i \in I PROVE u[i] \in Int /\ LineQuantities(o, I, q, r)[i] = -u[i]
      <4>1. /\ u[i] = IF SourceRow(o, i) = r THEN Lines(o)[i].qty ELSE 0
            /\ u[i] \in Int
        BY LineTerms
      <4>2. LineQuantities(o, I, q, r)[i] = IF SourceRow(o, i) = r THEN -Lines(o)[i].qty ELSE 0
        BY DEF LineQuantities
      <4>. HIDE DEF u
      <4>. QED
        BY <1>1, <4>1, <4>2
    <3>. QED
      BY <3>1
  <2>5. SumFunctionOnSet(LineQuantities(o, I, q, r), I) = -SumFunctionOnSet(u, I)
    <3>. HIDE DEF u, q, I
    <3>. QED
      BY <2>3, <2>4, SumOpposite
  <2>6. SumFunctionOnSet(u, I) = Book!Usable(o, r)
    BY UsableOnly
  <2>7. /\ IsFiniteSet(L \cup LedgerRows(k, o))
        /\ SumFunction(Quantities(L \cup LedgerRows(k, o), r)) =
              SumFunction(Quantities(L, r)) + SumFunctionOnSet(LineQuantities(o, I, q, r), I)
    <3>1. I \in SUBSET LineIdx(o)
      OBVIOUS
    <3>. HIDE DEF I, q
    <3>. QED
      BY <2>1, <2>2, <3>1, MoreRows
  <2>8. Ledgered(k, o, r) = -Book!Usable(o, r)
    BY <1>2 DEF Ledgered
  <2>. HIDE DEF u, q, I
  <2>. QED
    BY <2>5, <2>6, <2>7, <2>8
<1>3. CASE k \in {"REVERSE", "RETURN"}
  <2>. DEFINE I == LineIdx(o)
              q == [i \in I |-> Lines(o)[i].qty]
              u == Book!UsableLines(o, r)
  <2>1. q \in [I -> Int]
    BY <1>1
  <2>2. \A i \in LineIdx(o) : IsFirst(o, i)
    <3>1. ASSUME NEW i \in LineIdx(o), NEW j \in 1..(i - 1)
          PROVE  Lines(o)[j].product # Lines(o)[i].product
      <4>1. j \in LineIdx(o) /\ j # i
        BY LinesFinite
      <4>. QED
        BY <1>3, <4>1 DEF DistinctProducts
    <3>. QED
      BY <3>1 DEF IsFirst
  <2>3. LedgerRows(k, o) = NewRows(o, k, I, q)
    <3>1. LedgerRows(k, o) = {LedgerRow(o, k, i, Lines(o)[i].qty) :
                                  i \in {j \in LineIdx(o) : IsFirst(o, j)}}
      BY <1>3 DEF LedgerRows
    <3>2. {j \in LineIdx(o) : IsFirst(o, j)} = I
      BY <2>2
    <3>. QED
      BY <3>1, <3>2 DEF NewRows
  <2>4. IsFiniteSet(I)
    BY LinesFinite
  <2>5. \A i \in I : LineQuantities(o, I, q, r)[i] = u[i]
    <3>1. ASSUME NEW i \in I PROVE LineQuantities(o, I, q, r)[i] = u[i]
      <4>1. u[i] = IF SourceRow(o, i) = r THEN Lines(o)[i].qty ELSE 0
        BY <1>3, LineTerms DEF FromDamaged
      <4>2. LineQuantities(o, I, q, r)[i] = IF SourceRow(o, i) = r THEN Lines(o)[i].qty ELSE 0
        BY DEF LineQuantities
      <4>. QED
        BY <4>1, <4>2
    <3>. QED
      BY <3>1
  <2>6. SumFunctionOnSet(LineQuantities(o, I, q, r), I) = SumFunctionOnSet(u, I)
    <3>. HIDE DEF u, q, I
    <3>. QED
      BY <2>4, <2>5, SumSame
  <2>7. SumFunctionOnSet(u, I) = Book!Usable(o, r)
    BY BookAmounts
  <2>8. /\ IsFiniteSet(L \cup LedgerRows(k, o))
        /\ SumFunction(Quantities(L \cup LedgerRows(k, o), r)) =
              SumFunction(Quantities(L, r)) + SumFunctionOnSet(LineQuantities(o, I, q, r), I)
    <3>1. I \in SUBSET LineIdx(o)
      OBVIOUS
    <3>. HIDE DEF I, q
    <3>. QED
      BY <2>1, <2>3, <3>1, MoreRows
  <2>9. Ledgered(k, o, r) = Book!Usable(o, r)
    BY <1>3 DEF Ledgered
  <2>. HIDE DEF u, q, I
  <2>. QED
    BY <2>6, <2>7, <2>8, <2>9
<1>4. CASE k = "RECEIVE"
  <2>1. LedgerRows(k, o) = {} /\ Ledgered(k, o, r) = 0
    BY <1>4 DEF LedgerRows, Ledgered
  <2>2. L \cup LedgerRows(k, o) = L
    BY <2>1
  <2>3. SumFunction(Quantities(L, r)) \in Int
    <3>1. \A x \in L : Quantities(L, r)[x] \in Int
      BY DEF Quantities
    <3>2. SumFunctionOnSet(Quantities(L, r), L) \in Int
      BY <3>1, SumType
    <3>. QED
      BY <3>2 DEF SumFunction, Quantities
  <2>. QED
    BY <2>1, <2>2, <2>3
<1>. QED
  BY <1>2, <1>3, <1>4 DEF Kinds

LEMMA OthersDistinctly ==
    ASSUME TypeInv, LedgerInv, NEW h \in Handlers, Acts(h), NEW g \in Handlers
    PROVE  Distinctly(g)'
<1>0. Distinctly(g)
  BY DEF LedgerInv
<1>1. CASE g # h
  <2>1. pc'[g] = pc[g] /\ kind'[g] = kind[g] /\ target'[g] = target[g]
    BY <1>1, OthersStay
  <2>. QED
    BY <1>0, <2>1 DEF Distinctly
<1>2. CASE g = h
  <2>1. CASE \/ \E k \in Kinds, o \in Ops : Begin(h, k, o)
             \/ LockRow(h) \/ Verify(h) \/ Insert(h) \/ ApplyLine(h) \/ ApplyDone(h)
             \/ ReturnStock(h) \/ ClaimReceipt(h) \/ CreditLine(h) \/ CreditDone(h)
    <3>1. kind'[h] = "REVERSE" => pc'[h] \notin {"serials", "cancel", "commit"}
      BY <2>1 DEF Begin, LockRow, Verify, Insert, ApplyLine, ApplyDone, ReturnStock,
                  ClaimReceipt, CreditLine, CreditDone, AllLocked, TypeInv, TypeOK,
                  HandlerOK
    <3>. QED
      BY <1>2, <3>1 DEF Distinctly
  <2>2. CASE RestoreStock(h)
    BY <1>2, <2>2 DEF RestoreStock, Distinctly
  <2>3. CASE SerialLine(h) \/ SerialsDone(h) \/ MarkCancelled(h)
    <3>1. kind' = kind /\ target' = target /\ pc[h] \in {"serials", "cancel"}
      BY <2>3 DEF SerialLine, SerialsDone, MarkCancelled
    <3>. QED
      BY <1>0, <1>2, <3>1 DEF Distinctly
  <2>4. CASE \/ Commit(h) \/ RefuseUncovered(h) \/ RefuseLine(h)
             \/ RefuseDuplicate(h) \/ RefuseReceived(h) \/ Fail(h)
    <3>1. \E a \in {"ok", "error"} : Finish(h, a)
      BY <2>4 DEF Commit, RefuseUncovered, RefuseLine, RefuseDuplicate,
                  RefuseReceived, Fail, Rollback
    <3>2. pc'[h] \in {"ok", "error"}
      BY <3>1 DEF Finish, TypeInv, TypeOK
    <3>. QED
      BY <1>2, <3>2 DEF Distinctly
  <2>. QED
    BY <2>1, <2>2, <2>3, <2>4 DEF Acts, Step
<1>. QED
  BY <1>1, <1>2

(* The commit's rows are new and of the right types.                       *)
LEMMA CommitLedger ==
    ASSUME TypeInv, StatusInv, LedgerInv, NEW h \in Handlers, Commit(h), NEW r \in Rows,
           \A o \in Ops : Req[o].type = "CONSUMABLE_ISSUE" => DistinctProducts(o)
    PROVE  /\ IsFiniteSet(ledger')
           /\ \A x \in ledger' : LedgerRowOK(x)'
           /\ SumFunction(Logged(r)') =
                SumFunction(Logged(r)) + Ledgered(kind[h], target[h], r)
<1>. DEFINE k == kind[h]
<1>0. PICK o \in Ops : o = target[h]
  BY CommitStatus
<1>1. /\ k \in Kinds /\ Ready(k, o) /\ status'[o] = StatusAfter(k, o)
      /\ \A p \in Ops \ {o} : status'[p] = status[p]
  BY <1>0, CommitStatus DEF StatusInv
<1>2. ledger' = ledger \cup LedgerRows(k, o) /\ pc[h] = "commit"
  BY <1>0 DEF Commit
<1>3. k \in {"REVERSE", "RETURN"} => DistinctProducts(o) /\ Req[o].type # "PULLOUT"
  BY <1>0, <1>1, <1>2 DEF LedgerInv, Distinctly, Ready
<1>4. ASSUME NEW x \in LedgerRows(k, o)
      PROVE  /\ x.op = o /\ x.kind = k /\ x.qty \in Int
             /\ k \in {"CREATE", "REVERSE", "RETURN"}
  <2>1. CASE k = "CREATE"
    <3>1. PICK i \in LineIdx(o) : x = LedgerRow(o, k, i, -Lines(o)[i].qty)
      BY <2>1 DEF LedgerRows
    <3>2. Lines(o)[i].qty \in Int
      BY LineTypes
    <3>. QED
      BY <2>1, <3>1, <3>2 DEF LedgerRow
  <2>2. CASE k \in {"REVERSE", "RETURN"}
    <3>1. PICK i \in LineIdx(o) : x = LedgerRow(o, k, i, Lines(o)[i].qty)
      BY <2>2 DEF LedgerRows
    <3>2. Lines(o)[i].qty \in Int
      BY LineTypes
    <3>. QED
      BY <2>2, <3>1, <3>2 DEF LedgerRow
  <2>3. CASE k = "RECEIVE"
    BY <2>3 DEF LedgerRows
  <2>. QED
    BY <1>1, <2>1, <2>2, <2>3 DEF Kinds
<1>5. ledger \cap LedgerRows(k, o) = {}
  <2>1. ASSUME NEW x \in ledger, x \in LedgerRows(k, o) PROVE FALSE
    <3>1. x.op = o /\ x.kind = k
      BY <1>4, <2>1
    <3>. QED
      BY <1>1, <1>4, <2>1, <3>1 DEF LedgerInv, LedgerRowOK, Ready
  <2>. QED
    BY <2>1
<1>6. IsFiniteSet(ledger) /\ \A x \in ledger : x.qty \in Int
  BY DEF LedgerInv, LedgerRowOK
<1>7. /\ IsFiniteSet(ledger \cup LedgerRows(k, o))
      /\ SumFunction(Quantities(ledger \cup LedgerRows(k, o), r)) =
            SumFunction(Quantities(ledger, r)) + Ledgered(k, o, r)
  BY <1>1, <1>3, <1>5, <1>6, LedgerGrows
<1>8. Logged(r) = Quantities(ledger, r) /\ Logged(r)' = Quantities(ledger', r)
  BY DEF Logged, Quantities
<1>9. ASSUME NEW x \in ledger' PROVE LedgerRowOK(x)'
  <2>1. CASE x \in LedgerRows(k, o)
    <3>1. x.op = o /\ x.kind = k /\ x.qty \in Int /\ k \in {"CREATE", "REVERSE", "RETURN"}
      BY <1>4, <2>1
    <3>. QED
      BY <1>1, <3>1 DEF LedgerRowOK, StatusAfter, PostedStatus
  <2>2. CASE x \in ledger
    <3>1. LedgerRowOK(x)
      BY <2>2 DEF LedgerInv
    <3>2. CASE x.op # o
      BY <1>1, <3>1, <3>2 DEF LedgerRowOK
    <3>3. CASE x.op = o
      <4>1. status'[o] # "NONE"
        BY <1>1 DEF StatusAfter, PostedStatus
      <4>2. status[o] = "CANCELLED" => FALSE
        BY <1>1 DEF Ready, Kinds, StatusInv
      <4>3. x.kind = "CREATE"
        BY <3>1, <3>3, <4>2 DEF LedgerRowOK
      <4>. QED
        BY <3>1, <3>3, <4>1, <4>3 DEF LedgerRowOK
    <3>. QED
      BY <3>2, <3>3
  <2>. QED
    BY <1>2, <2>1, <2>2
<1>. QED
  BY <1>0, <1>2, <1>7, <1>8, <1>9

-----------------------------------------------------------------------------
(* StockMatchesOperations.                                                 *)

BooksInv == LedgerInv /\ StockMatchesOperations

LEMMA BooksAlways ==
    ASSUME IsFiniteSet(Ops), Lapses = {},
           \A o \in Ops : Req[o].type = "CONSUMABLE_ISSUE" => DistinctProducts(o)
    PROVE  Spec => []BooksInv
<1>1. Init => BooksInv
  <2>. SUFFICES ASSUME Init PROVE BooksInv
    OBVIOUS
  <2>1. LedgerInv
    <3>1. ledger = {} /\ \A h \in Handlers : pc[h] = "idle"
      BY DEF Init
    <3>. QED
      BY <3>1, FS_EmptySet DEF LedgerInv, Distinctly
  <2>2. ASSUME NEW r \in Rows
        PROVE  /\ StockFollows(r)
               /\ stock[r].qoh = InitStock[r].qoh + SumFunction(Logged(r))
                                                  + SumFunction(Delivered(r))
    <3>1. \A o \in Ops : /\ Taken(r)[o] = 0 /\ Damaged(r)[o] = 0
                         /\ Released(r)[o] = 0 /\ Delivered(r)[o] = 0
      BY DEF Init, Live, Taken, Damaged, Released, Delivered
    <3>2. /\ SumFunctionOnSet(Taken(r), Ops) = 0 /\ SumFunctionOnSet(Damaged(r), Ops) = 0
          /\ SumFunctionOnSet(Released(r), Ops) = 0
          /\ SumFunctionOnSet(Delivered(r), Ops) = 0
      BY <3>1, SumZero
    <3>3. /\ SumFunction(Taken(r)) = 0 /\ SumFunction(Damaged(r)) = 0
          /\ SumFunction(Released(r)) = 0 /\ SumFunction(Delivered(r)) = 0
      BY <3>2, OpSums
    <3>4. SumFunction(Logged(r)) = 0
      <4>1. DOMAIN Logged(r) = {}
        BY DEF Init, Logged
      <4>2. SumFunction(Logged(r)) = SumFunctionOnSet(Logged(r), {})
        BY <4>1 DEF SumFunction
      <4>. QED
        BY <4>2, FS_EmptySet, SumStep
    <3>5. stock[r] = InitStock[r] /\ InitStock[r].qoh \in Int /\ InitStock[r].damaged \in Int
      BY ConstantsAssumption DEF Init, Cells
    <3>. QED
      BY <3>3, <3>4, <3>5 DEF StockFollows
  <2>. QED
    BY <2>1, <2>2 DEF BooksInv, StockMatchesOperations, StockFollows
<1>2. TypeInv /\ StatusInv /\ DraftInv /\ BooksInv /\ [Next]_vars => BooksInv'
  <2>. SUFFICES ASSUME TypeInv, StatusInv, DraftInv, BooksInv, [Next]_vars
                PROVE  BooksInv'
    OBVIOUS
  <2>0. ASSUME UNCHANGED tables
        PROVE  /\ StockMatchesOperations'
               /\ IsFiniteSet(ledger') /\ \A x \in ledger' : LedgerRowOK(x)'
    <3>1. \A r \in Rows : /\ Taken(r)' = Taken(r) /\ Damaged(r)' = Damaged(r)
                          /\ Released(r)' = Released(r) /\ Delivered(r)' = Delivered(r)
                          /\ Logged(r)' = Logged(r)
      BY <2>0 DEF tables, Taken, Damaged, Released, Delivered, Logged, Live
    <3>2. StockMatchesOperations'
      BY <2>0, <3>1 DEF tables, BooksInv, StockMatchesOperations
    <3>. QED
      BY <2>0, <3>2 DEF tables, BooksInv, LedgerInv, LedgerRowOK
  <2>1. CASE UNCHANGED vars
    <3>1. \A h \in Handlers : Distinctly(h)'
      BY <2>1 DEF vars, BooksInv, LedgerInv, Distinctly
    <3>2. UNCHANGED tables
      BY <2>1 DEF vars
    <3>. QED
      BY <2>0, <3>1, <3>2 DEF BooksInv, LedgerInv
  <2>2. CASE Next
    <3>1. PICK h \in Handlers : Acts(h)
      BY <2>2, ActionOfHandler
    <3>2. \A g \in Handlers : Distinctly(g)'
      BY <3>1, OthersDistinctly DEF BooksInv
    <3>3. CASE UNCHANGED tables
      BY <2>0, <3>2, <3>3 DEF BooksInv, LedgerInv
    <3>4. CASE Commit(h)
      <4>1. ASSUME NEW r \in Rows
            PROVE  /\ StockFollows(r)'
                   /\ (stock[r].qoh = InitStock[r].qoh + SumFunction(Logged(r))
                                                       + SumFunction(Delivered(r)))'
        <5>0. StockFollows(r)
          BY DEF BooksInv, StockMatchesOperations, StockFollows
        <5>1. StockFollows(r)'
          BY <3>4, <5>0, CommitFollows
        <5>2. SumFunction(Logged(r)') =
                  SumFunction(Logged(r)) + Ledgered(kind[h], target[h], r)
          BY <3>4, CommitLedger DEF BooksInv
        <5>3. stock[r].qoh = InitStock[r].qoh + SumFunction(Logged(r))
                                              + SumFunction(Delivered(r))
          BY DEF BooksInv, StockMatchesOperations
        <5>4. SumFunction(Logged(r)) \in Int /\ SumFunction(Delivered(r)) \in Int
          <6>1. \A x \in ledger : Logged(r)[x] \in Int
            BY DEF BooksInv, LedgerInv, LedgerRowOK, Logged
          <6>2. SumFunctionOnSet(Logged(r), ledger) \in Int
            BY <6>1, SumType DEF BooksInv, LedgerInv
          <6>3. SumFunction(Logged(r)) = SumFunctionOnSet(Logged(r), ledger)
            BY DEF SumFunction, Logged
          <6>. QED
            BY <6>2, <6>3, OpSums
        <5>5. PICK o \in Ops : o = target[h]
          BY <3>4, CommitStatus
        <5>6. /\ kind[h] \in Kinds /\ Ready(kind[h], o)
              /\ status'[o] = StatusAfter(kind[h], o)
              /\ \A p \in Ops \ {o} : status'[p] = status[p]
          BY <3>4, <5>5, CommitStatus DEF StatusInv
        <5>7. stock'[r].qoh = stock[r].qoh + Effect(kind[h], o, r).qoh
          <6>1. stock'[r] = Shifted(stock[r], Effect(kind[h], o, r))
            BY <3>4, <5>5, CommitEffect
          <6>. QED
            BY <6>1 DEF Shifted
        <5>8. SumFunction(Delivered(r)') = SumFunction(Delivered(r))
                  - (IF status[o] = "RECEIVED" THEN Book!Arriving(o, r) ELSE 0)
                  + (IF status'[o] = "RECEIVED" THEN Book!Arriving(o, r) ELSE 0)
          <6>1. SumFunction(Delivered(r)') =
                    SumFunction(Delivered(r)) - Delivered(r)[o] + (Delivered(r)')[o]
            BY <5>6, OpChange
          <6>. QED
            BY <6>1, OpTerms
        <5>9. /\ Book!Usable(o, r) \in Int /\ Book!Arriving(o, r) \in Int
              /\ InitStock[r].qoh \in Int
          BY BookAmounts, ConstantsAssumption DEF Cells
        <5>10. stock'[r].qoh = InitStock[r].qoh + SumFunction(Logged(r)')
                                                + SumFunction(Delivered(r)')
          <6>1. CASE kind[h] = "CREATE"
            <7>1. /\ status[o] # "RECEIVED" /\ status'[o] # "RECEIVED"
                  /\ Effect(kind[h], o, r).qoh = -Book!Usable(o, r)
                  /\ Ledgered(kind[h], o, r) = -Book!Usable(o, r)
              BY <5>6, <6>1 DEF Ready, StatusAfter, PostedStatus, Effect, Ledgered
            <7>. QED
              BY <5>2, <5>3, <5>4, <5>5, <5>7, <5>8, <5>9, <7>1
          <6>2. CASE kind[h] = "RECEIVE"
            <7>1. /\ status[o] # "RECEIVED" /\ status'[o] = "RECEIVED"
                  /\ Effect(kind[h], o, r).qoh = Book!Arriving(o, r)
                  /\ Ledgered(kind[h], o, r) = 0
              BY <5>6, <6>2 DEF Ready, StatusAfter, Effect, Ledgered
            <7>. QED
              BY <5>2, <5>3, <5>4, <5>5, <5>7, <5>8, <5>9, <7>1
          <6>3. CASE kind[h] \in {"REVERSE", "RETURN"}
            <7>1. /\ status[o] # "RECEIVED" /\ status'[o] # "RECEIVED"
                  /\ Effect(kind[h], o, r).qoh = Book!Usable(o, r)
                  /\ Ledgered(kind[h], o, r) = Book!Usable(o, r)
              BY <5>6, <6>3 DEF Ready, StatusAfter, Effect, Ledgered
            <7>. QED
              BY <5>2, <5>3, <5>4, <5>5, <5>7, <5>8, <5>9, <7>1
          <6>. QED
            BY <5>6, <6>1, <6>2, <6>3 DEF Kinds
        <5>. QED
          BY <5>1, <5>10
      <4>2. StockMatchesOperations'
        BY <4>1 DEF StockMatchesOperations, StockFollows
      <4>3. IsFiniteSet(ledger') /\ \A x \in ledger' : LedgerRowOK(x)'
        <5>1. CASE Rows # {}
          BY <3>4, <5>1, CommitLedger DEF BooksInv
        <5>2. CASE Rows = {}
          <6>1. target[h] \in Ops
            BY <3>4, CommitStatus
          <6>. QED
            BY <5>2, <6>1, SourceRowTypes
        <5>. QED
          BY <5>1, <5>2
      <4>. QED
        BY <3>2, <4>2, <4>3 DEF BooksInv, LedgerInv
    <3>. QED
      BY <3>1, <3>3, <3>4, TablesCommitted
  <2>. QED
    BY <2>1, <2>2
<1>3. Spec => []StatusInv /\ []DraftInv
  BY StatusAlways, DraftAlways
<1>. QED
  BY <1>1, <1>2, <1>3, TypeInvariant, PTL DEF Spec

-----------------------------------------------------------------------------
(* What the theorems say of StockMatchesOperations and ImplementsBook.     *)

(* Where the clients keep to one request per operation and consumable      *)
(* issues name a product once, stock is always what the operations in      *)
(* force and received amount to, and the movement ledger tells the rest:   *)
(* however the requests' statements interleave and whichever of them fail, *)
(* status and stock change together or not at all.                         *)
THEOREM StockFollowsOperations ==
    ASSUME Lapses = {}, IsFiniteSet(Ops),
           \A o \in Ops : Req[o].type = "CONSUMABLE_ISSUE" => DistinctProducts(o)
    PROVE  Spec => []StockMatchesOperations
<1>1. BooksInv => StockMatchesOperations
  BY DEF BooksInv
<1>2. Spec => []BooksInv
  BY BooksAlways
<1>. QED
  BY <1>1, <1>2, PTL

(* Moving the book's rows is what a commit's effect on each row says.      *)
LEMMA EffectMoves ==
    ASSUME TypeInv, TypeInv', NEW u \in [Rows -> Int], NEW d \in [Rows -> Int],
           \A r \in Rows : /\ stock'[r].qoh = stock[r].qoh + u[r]
                           /\ stock'[r].damaged = stock[r].damaged + d[r]
    PROVE  Book!Move(u, d)
<1>1. stock' \in [Rows -> Cells]
  BY DEF TypeInv
<1>2. ASSUME NEW r \in Rows
      PROVE  /\ stock'[r] = [qoh |-> stock[r].qoh + u[r],
                             damaged |-> stock[r].damaged + d[r]]
             /\ stock'[r].qoh >= 0 /\ stock'[r].damaged >= 0
  <2>1. /\ stock'[r] = [qoh |-> stock'[r].qoh, damaged |-> stock'[r].damaged]
        /\ stock'[r].qoh \in Nat /\ stock'[r].damaged \in Nat
    BY <1>1 DEF Cells
  <2>. QED
    BY <2>1
<1>3. Book!Rows = Rows
  BY DEF Book!Rows, Rows
<1>. QED
  BY <1>1, <1>2, <1>3 DEF Book!Move

LEMMA CommitIsBooked ==
    ASSUME TypeInv, TypeInv', StatusInv, DraftInv, NEW h \in Handlers, Commit(h)
    PROVE  Book!Next
<1>. DEFINE k == kind[h]
<1>0. PICK o \in Ops : o = target[h]
  BY CommitStatus
<1>1. /\ k \in Kinds /\ Ready(k, o) /\ status' = [status EXCEPT ![o] = StatusAfter(k, o)]
      /\ Book!Rows = Rows
  BY <1>0, CommitStatus DEF StatusInv, Commit, Book!Rows, Rows
<1>2. ASSUME NEW r \in Rows
      PROVE  /\ stock'[r].qoh = stock[r].qoh + Effect(k, o, r).qoh
             /\ stock'[r].damaged = stock[r].damaged + Effect(k, o, r).damaged
  <2>1. stock'[r] = Shifted(stock[r], Effect(k, o, r))
    BY <1>0, CommitEffect
  <2>. QED
    BY <2>1 DEF Shifted
<1>3. \A r \in Rows : /\ Book!Usable(o, r) \in Int /\ Book!ToPool(o, r) \in Int
                      /\ Book!FromPool(o, r) \in Int /\ Book!Arriving(o, r) \in Int
  BY BookAmounts
<1>4. CASE k = "CREATE"
  <2>. DEFINE u == [r \in Rows |-> -Book!Usable(o, r)]
              d == [r \in Rows |-> Book!ToPool(o, r) - Book!FromPool(o, r)]
  <2>1. u \in [Rows -> Int] /\ d \in [Rows -> Int]
    BY <1>3
  <2>2. \A r \in Rows : /\ stock'[r].qoh = stock[r].qoh + u[r]
                        /\ stock'[r].damaged = stock[r].damaged + d[r]
    BY <1>2, <1>4 DEF Effect
  <2>3. Book!Move(u, d)
    <3>. HIDE DEF u, d
    <3>. QED
      BY <2>1, <2>2, EffectMoves
  <2>4. status[o] = "NONE" /\ StatusAfter(k, o) = PostedStatus(o)
    BY <1>1, <1>4 DEF Ready, StatusAfter
  <2>5. Book!Post(o)
    BY <1>1, <2>3, <2>4 DEF Book!Post, PostedStatus
  <2>. QED
    BY <2>5 DEF Book!Next
<1>5. CASE k \in {"REVERSE", "RETURN"}
  <2>. DEFINE u == [r \in Rows |-> Book!Usable(o, r)]
              d == [r \in Rows |-> -Book!ToPool(o, r)]
  <2>1. u \in [Rows -> Int] /\ d \in [Rows -> Int]
    BY <1>3
  <2>2. \A r \in Rows : /\ stock'[r].qoh = stock[r].qoh + u[r]
                        /\ stock'[r].damaged = stock[r].damaged + d[r]
    BY <1>2, <1>5 DEF Effect
  <2>3. Book!Move(u, d)
    <3>. HIDE DEF u, d
    <3>. QED
      BY <2>1, <2>2, EffectMoves
  <2>4. /\ status[o] = "LOGGED" /\ StatusAfter(k, o) = "CANCELLED"
        /\ Req[o].type \in {"DAMAGE", "CONSUMABLE_ISSUE"}
    BY <1>1, <1>5 DEF Ready, StatusAfter
  <2>5. Book!Undo(o)
    BY <1>1, <2>3, <2>4 DEF Book!Undo
  <2>. QED
    BY <2>5 DEF Book!Next
<1>6. CASE k = "RECEIVE"
  <2>. DEFINE u == [r \in Rows |-> Book!Arriving(o, r)]
              d == [r \in Rows |-> 0]
  <2>1. u \in [Rows -> Int] /\ d \in [Rows -> Int]
    BY <1>3
  <2>2. \A r \in Rows : /\ stock'[r].qoh = stock[r].qoh + u[r]
                        /\ stock'[r].damaged = stock[r].damaged + d[r]
    BY <1>2, <1>6 DEF Effect
  <2>3. Book!Move(u, d)
    <3>. HIDE DEF u, d
    <3>. QED
      BY <2>1, <2>2, EffectMoves
  <2>4. status[o] = "DISPATCHED" /\ StatusAfter(k, o) = "RECEIVED"
    BY <1>1, <1>6 DEF Ready, StatusAfter
  <2>5. Book!Receive(o)
    BY <1>1, <2>3, <2>4 DEF Book!Receive
  <2>. QED
    BY <2>5 DEF Book!Next
<1>. QED
  BY <1>1, <1>4, <1>5, <1>6 DEF Kinds

(* The engine implements the book: every request appears to post, undo or  *)
(* receive its operation whole at the instant of its commit, covered by    *)
(* stock, and every other step of it, rollback and crash included, leaves  *)
(* the book alone.                                                         *)
THEOREM OperationsImplementBook ==
    ASSUME Lapses = {},
           \A o \in Ops : Req[o].type = "CONSUMABLE_ISSUE" => DistinctProducts(o)
    PROVE  Spec => ImplementsBook
<1>1. Init => Book!Init
  BY DEF Init, Book!Init
<1>2. ASSUME TypeInv, TypeInv', StatusInv, DraftInv, [Next]_vars
      PROVE  [Book!Next]_<<stock, status>>
  <2>1. CASE UNCHANGED vars
    BY <2>1 DEF vars, tables
  <2>2. CASE Next
    <3>1. PICK h \in Handlers : Acts(h)
      BY <2>2, ActionOfHandler
    <3>2. CASE UNCHANGED tables
      BY <3>2 DEF tables
    <3>3. CASE Commit(h)
      BY <1>2, <3>3, CommitIsBooked
    <3>. QED
      BY <1>2, <3>1, <3>2, <3>3, TablesCommitted
  <2>. QED
    BY <1>2, <2>1, <2>2
<1>3. Spec => []StatusInv /\ []DraftInv
  BY StatusAlways, DraftAlways
<1>. QED
  BY <1>1, <1>2, <1>3, TypeInvariant, PTL DEF Spec, ImplementsBook, Book!Spec

-----------------------------------------------------------------------------
(* The damage register.  An operation that names a product once has one    *)
(* row in it for each line, live while the operation is in force.          *)

Records(o) == {RegisterRow(o, i) : i \in LineIdx(o)}
RegisterRowOK(d) ==
    /\ d.op \in Ops /\ Req[d.op].type = "DAMAGE" /\ d.qty \in Int
    /\ status[d.op] # "NONE"
RegisterInv ==
    /\ IsFiniteSet(register)
    /\ \A d \in register : RegisterRowOK(d)
    /\ \A o \in Ops : Req[o].type = "DAMAGE" /\ Live(o) =>
            {d \in register : d.op = o} = Records(o)

RegisterQty(R, r) == [d \in R |-> IF d.live /\ d.row = r THEN d.qty ELSE 0]

LEMMA RecordsSum ==
    ASSUME NEW o \in Ops, Req[o].type = "DAMAGE", DistinctProducts(o), NEW r \in Rows,
           NEW g, \A d \in Records(o) : g[d] = IF d.live /\ d.row = r THEN d.qty ELSE 0
    PROVE  /\ IsFiniteSet(Records(o))
           /\ SumFunctionOnSet(g, Records(o)) = Book!ToPool(o, r)
           /\ \A d \in Records(o) : d.op = o /\ d.qty \in Int /\ d.live
<1>. DEFINE m == [i \in LineIdx(o) |-> RegisterRow(o, i)]
            u == Book!UsableLines(o, r)
<1>1. Records(o) = {m[i] : i \in LineIdx(o)}
  BY DEF Records
<1>2. \A i \in LineIdx(o) : /\ m[i].op = o /\ m[i].row = SourceRow(o, i)
                            /\ m[i].qty = Lines(o)[i].qty /\ m[i].live
                            /\ Lines(o)[i].qty \in Int
  BY LineTypes DEF RegisterRow
<1>3. m \in Bijection(LineIdx(o), Records(o))
  <2>1. m \in [LineIdx(o) -> Records(o)]
    BY <1>1
  <2>2. ASSUME NEW i \in LineIdx(o), NEW j \in LineIdx(o), m[i] = m[j] PROVE i = j
    <3>1. SourceRow(o, i) = SourceRow(o, j)
      BY <1>2, <2>2
    <3>. QED
      BY <3>1 DEF SourceRow, DistinctProducts, Lines
  <2>. HIDE DEF m
  <2>. QED
    BY <1>1, <2>1, <2>2 DEF Bijection, Injection, Surjection, IsInjective
<1>4. ASSUME NEW i \in LineIdx(o) PROVE u[i] \in Int /\ g[m[i]] = u[i]
  <2>1. u[i] = (IF SourceRow(o, i) = r THEN Lines(o)[i].qty ELSE 0) /\ u[i] \in Int
    BY LineTerms DEF FromDamaged
  <2>2. m[i] \in Records(o)
    BY <1>1
  <2>3. g[m[i]] = IF m[i].live /\ m[i].row = r THEN m[i].qty ELSE 0
    <3>. HIDE DEF m
    <3>. QED
      BY <2>2
  <2>. HIDE DEF m, u
  <2>. QED
    BY <1>2, <2>1, <2>3
<1>5. IsFiniteSet(Records(o)) /\ SumFunctionOnSet(g, Records(o)) = SumFunctionOnSet(u, LineIdx(o))
  <2>1. \A i \in LineIdx(o) : u[i] \in Int /\ g[m[i]] = u[i]
    BY <1>4
  <2>2. IsFiniteSet(LineIdx(o))
    BY LinesFinite
  <2>. HIDE DEF m, u
  <2>. QED
    BY <1>3, <2>1, <2>2, SumImage
<1>6. Book!ToPool(o, r) = SumFunctionOnSet(u, LineIdx(o))
  BY BookAmounts DEF Book!ToPool
<1>7. \A d \in Records(o) : d.op = o /\ d.qty \in Int /\ d.live
  <2>. HIDE DEF m
  <2>. QED
    BY <1>1, <1>2
<1>. QED
  BY <1>5, <1>6, <1>7

LEMMA RegisterType ==
    ASSUME NEW R, IsFiniteSet(R), \A d \in R : d.qty \in Int, NEW r
    PROVE  /\ SumFunction(RegisterQty(R, r)) = SumFunctionOnSet(RegisterQty(R, r), R)
           /\ SumFunction(RegisterQty(R, r)) \in Int
           /\ \A d \in R : RegisterQty(R, r)[d] \in Int
<1>1. \A d \in R : RegisterQty(R, r)[d] \in Int
  BY DEF RegisterQty
<1>2. SumFunctionOnSet(RegisterQty(R, r), R) \in Int
  BY <1>1, SumType
<1>3. SumFunction(RegisterQty(R, r)) = SumFunctionOnSet(RegisterQty(R, r), R)
  BY DEF SumFunction, RegisterQty
<1>. QED
  BY <1>1, <1>2, <1>3

(* A damage operation's rows are all new when it is posted.                *)
LEMMA PostedRecords ==
    ASSUME NEW o \in Ops, Req[o].type = "DAMAGE", DistinctProducts(o),
           NEW R, IsFiniteSet(R), \A d \in R : d.qty \in Int /\ d.op # o, NEW r \in Rows
    PROVE  /\ WithDamageRecords(R, o) = R \cup Records(o)
           /\ IsFiniteSet(R \cup Records(o))
           /\ SumFunction(RegisterQty(R \cup Records(o), r)) =
                SumFunction(RegisterQty(R, r)) + Book!ToPool(o, r)
<1>. DEFINE T == R \cup Records(o)
            g == RegisterQty(T, r)
<1>1. WithDamageRecords(R, o) = T
  <2>1. \A i \in LineIdx(o) : IsFirst(o, i)
    <3>1. ASSUME NEW i \in LineIdx(o), NEW j \in 1..(i - 1)
          PROVE  Lines(o)[j].product # Lines(o)[i].product
      <4>1. j \in LineIdx(o) /\ j # i
        BY LinesFinite
      <4>. QED
        BY <4>1 DEF DistinctProducts
    <3>. QED
      BY <3>1 DEF IsFirst
  <2>2. {j \in LineIdx(o) : /\ IsFirst(o, j)
                            /\ \A d \in R : d.op # o \/ d.row # SourceRow(o, j)} = LineIdx(o)
    BY <2>1
  <2>. QED
    BY <2>2 DEF WithDamageRecords, Records
<1>2. \A d \in T : g[d] = IF d.live /\ d.row = r THEN d.qty ELSE 0
  BY DEF RegisterQty
<1>3. /\ IsFiniteSet(Records(o)) /\ SumFunctionOnSet(g, Records(o)) = Book!ToPool(o, r)
      /\ \A d \in Records(o) : d.op = o /\ d.qty \in Int /\ d.live
  <2>1. \A d \in Records(o) : g[d] = IF d.live /\ d.row = r THEN d.qty ELSE 0
    BY <1>2
  <2>. HIDE DEF g
  <2>. QED
    BY <2>1, RecordsSum
<1>4. IsFiniteSet(T) /\ R \cap Records(o) = {} /\ \A d \in T : d.qty \in Int
  BY <1>3, FS_Union
<1>5. /\ SumFunction(g) = SumFunctionOnSet(g, T) /\ \A d \in T : g[d] \in Int
      /\ SumFunction(RegisterQty(R, r)) = SumFunctionOnSet(RegisterQty(R, r), R)
  <2>. HIDE DEF T
  <2>. QED
    BY <1>4, RegisterType
<1>6. SumFunctionOnSet(g, R) = SumFunctionOnSet(RegisterQty(R, r), R)
  <2>1. \A d \in R : g[d] = RegisterQty(R, r)[d]
    BY <1>2 DEF RegisterQty
  <2>. HIDE DEF g
  <2>. QED
    BY <2>1, SumSame
<1>7. SumFunctionOnSet(g, T) = SumFunctionOnSet(g, R) + SumFunctionOnSet(g, Records(o))
  <2>. HIDE DEF g
  <2>. QED
    BY <1>3, <1>4, <1>5, SumUnion
<1>. QED
  BY <1>1, <1>3, <1>4, <1>5, <1>6, <1>7

(* A reversal cancels its operation's rows and no others.                  *)
LEMMA CancelledRecords ==
    ASSUME NEW o \in Ops, Req[o].type = "DAMAGE", DistinctProducts(o),
           NEW R, IsFiniteSet(R), \A d \in R : d.qty \in Int,
           {d \in R : d.op = o} = Records(o), NEW r \in Rows
    PROVE  /\ IsFiniteSet(CancelDamageRecords(R, o))
           /\ SumFunction(RegisterQty(CancelDamageRecords(R, o), r)) =
                SumFunction(RegisterQty(R, r)) - Book!ToPool(o, r)
           /\ \A d \in CancelDamageRecords(R, o) : d.op = o => d.qty \in Int
           /\ \A p \in Ops \ {o} : {d \in CancelDamageRecords(R, o) : d.op = p} =
                                        {d \in R : d.op = p}
           /\ \A d \in CancelDamageRecords(R, o) : d \in R \/ d.op = o
<1>. DEFINE C == CancelDamageRecords(R, o)
            B == {d \in R : d.op # o}
            A == {[d EXCEPT !.live = FALSE] : d \in Records(o)}
            f == RegisterQty(R, r)
            g == RegisterQty(C, r)
<1>1. R = B \cup Records(o) /\ B \cap Records(o) = {}
  OBVIOUS
<1>2. /\ IsFiniteSet(Records(o)) /\ SumFunctionOnSet(f, Records(o)) = Book!ToPool(o, r)
      /\ \A d \in Records(o) : d.op = o /\ d.qty \in Int /\ d.live
  <2>1. \A d \in Records(o) : f[d] = IF d.live /\ d.row = r THEN d.qty ELSE 0
    BY <1>1 DEF RegisterQty
  <2>. HIDE DEF f
  <2>. QED
    BY <2>1, RecordsSum
<1>3. ASSUME NEW d \in A PROVE d.op = o /\ d.qty \in Int /\ ~d.live
  <2>1. PICK i \in LineIdx(o) : d = [RegisterRow(o, i) EXCEPT !.live = FALSE]
    BY DEF Records
  <2>2. d = [op |-> o, row |-> SourceRow(o, i), qty |-> Lines(o)[i].qty, live |-> FALSE]
    BY <2>1 DEF RegisterRow
  <2>. QED
    BY <2>2, LineTypes
<1>4. C = B \cup A
  <2>1. C = {IF d.op = o THEN [d EXCEPT !.live = FALSE] ELSE d : d \in R}
    BY DEF CancelDamageRecords
  <2>2. \A d \in B : d.op # o
    OBVIOUS
  <2>3. \A d \in Records(o) : d.op = o
    BY <1>2
  <2>. HIDE DEF C, B
  <2>. QED
    BY <1>1, <2>1, <2>2, <2>3
<1>5. IsFiniteSet(B) /\ IsFiniteSet(A) /\ IsFiniteSet(C)
  <2>1. IsFiniteSet(B)
    BY FS_Subset
  <2>2. IsFiniteSet(A)
    <3>. DEFINE m == [d \in Records(o) |-> [d EXCEPT !.live = FALSE]]
    <3>1. m \in [Records(o) -> A] /\ \A d \in A : \E e \in Records(o) : m[e] = d
      OBVIOUS
    <3>2. m \in Surjection(Records(o), A)
      <4>. HIDE DEF m, A
      <4>. QED
        BY <3>1 DEF Surjection
    <3>. QED
      BY <1>2, <3>2, FS_Surjection
  <2>. HIDE DEF A, B, C
  <2>. QED
    BY <1>4, <2>1, <2>2, FS_Union
<1>6. A \cap B = {} /\ \A d \in C : d.qty \in Int
  BY <1>3, <1>4
<1>7. /\ SumFunction(g) = SumFunctionOnSet(g, C) /\ \A d \in C : g[d] \in Int
      /\ SumFunction(f) = SumFunctionOnSet(f, R) /\ \A d \in R : f[d] \in Int
  <2>. HIDE DEF C
  <2>. QED
    BY <1>5, <1>6, RegisterType
<1>8. SumFunctionOnSet(g, B) = SumFunctionOnSet(f, B)
  <2>1. \A d \in B : g[d] = f[d]
    BY <1>4 DEF RegisterQty
  <2>. HIDE DEF g, f, B
  <2>. QED
    BY <1>5, <2>1, SumSame
<1>9. SumFunctionOnSet(g, A) = 0
  <2>1. \A d \in A : g[d] = 0
    BY <1>3, <1>4 DEF RegisterQty
  <2>. HIDE DEF g, A
  <2>. QED
    BY <1>5, <2>1, SumZero
<1>10. SumFunctionOnSet(g, C) = SumFunctionOnSet(g, B) + SumFunctionOnSet(g, A)
  <2>1. B \cap A = {}
    BY <1>6
  <2>. HIDE DEF g, A, B, C
  <2>. QED
    BY <1>4, <1>5, <1>7, <2>1, SumUnion
<1>11. SumFunctionOnSet(f, R) = SumFunctionOnSet(f, B) + SumFunctionOnSet(f, Records(o))
  <2>. HIDE DEF f, B
  <2>. QED
    BY <1>1, <1>2, <1>5, <1>7, SumUnion
<1>12. SumFunctionOnSet(f, B) \in Int /\ Book!ToPool(o, r) \in Int
  <2>1. \A d \in B : f[d] \in Int
    BY <1>7
  <2>. HIDE DEF f, B
  <2>. QED
    BY <1>5, <2>1, SumType, BookAmounts
<1>13. SumFunction(g) = SumFunction(f) - Book!ToPool(o, r)
  <2>. HIDE DEF f, g, A, B, C
  <2>. QED
    BY <1>2, <1>7, <1>8, <1>9, <1>10, <1>11, <1>12
<1>14. \A p \in Ops \ {o} : {d \in C : d.op = p} = {d \in R : d.op = p}
  <2>1. \A d \in A : d.op = o
    BY <1>3
  <2>. HIDE DEF A, C
  <2>. QED
    BY <1>4, <2>1
<1>15. \A d \in C : d \in R \/ d.op = o
  BY <1>3, <1>4
<1>. QED
  BY <1>5, <1>6, <1>13, <1>14, <1>15

-----------------------------------------------------------------------------
RegisterFollows(r) == SumFunction(Registered(r)) = SumFunction(Damaged(r))

LEMMA CommitRegister ==
    ASSUME IsFiniteSet(Ops), TypeInv, StatusInv, RegisterInv, NEW h \in Handlers, Commit(h),
           \A o \in Ops : Req[o].type = "DAMAGE" => DistinctProducts(o)
    PROVE  /\ RegisterInv'
           /\ \A r \in Rows : RegisterFollows(r) => RegisterFollows(r)'
<1>. DEFINE k == kind[h]
<1>0. PICK o \in Ops : o = target[h]
  BY CommitStatus
<1>1. /\ k \in Kinds /\ Ready(k, o) /\ status'[o] = StatusAfter(k, o)
      /\ \A p \in Ops \ {o} : status'[p] = status[p]
      /\ register' = RegisterAfter(k, o)
  BY <1>0, CommitStatus DEF StatusInv, Commit
<1>2. IsFiniteSet(register) /\ \A d \in register : d.qty \in Int /\ RegisterRowOK(d)
  BY DEF RegisterInv, RegisterRowOK
<1>3. ASSUME NEW r \in Rows
      PROVE  /\ SumFunction(Damaged(r)') = SumFunction(Damaged(r))
                    - (IF Live(o) THEN Book!ToPool(o, r) ELSE 0)
                    + (IF Live(o)' THEN Book!ToPool(o, r) ELSE 0)
             /\ Registered(r) = RegisterQty(register, r)
             /\ Registered(r)' = RegisterQty(register', r)
             /\ SumFunction(Damaged(r)) \in Int /\ Book!ToPool(o, r) \in Int
             /\ SumFunction(RegisterQty(register, r)) \in Int
  <2>1. SumFunction(Damaged(r)') = SumFunction(Damaged(r)) - Damaged(r)[o] + (Damaged(r)')[o]
    BY <1>1, OpChange
  <2>2. /\ Damaged(r)[o] = (IF Live(o) THEN Book!ToPool(o, r) ELSE 0)
        /\ (Damaged(r)')[o] = (IF Live(o)' THEN Book!ToPool(o, r) ELSE 0)
    BY OpTerms
  <2>3. Registered(r) = RegisterQty(register, r) /\ Registered(r)' = RegisterQty(register', r)
    BY DEF Registered, RegisterQty
  <2>4. SumFunction(Damaged(r)) \in Int /\ Book!ToPool(o, r) \in Int
    BY OpSums, BookAmounts
  <2>5. SumFunction(RegisterQty(register, r)) \in Int
    BY <1>2, RegisterType
  <2>. QED
    BY <2>1, <2>2, <2>3, <2>4, <2>5
<1>4. CASE k = "CREATE" /\ Req[o].type = "DAMAGE"
  <2>1. /\ DistinctProducts(o) /\ ~Live(o) /\ Live(o)' /\ status[o] = "NONE"
        /\ status'[o] = "LOGGED" /\ register' = WithDamageRecords(register, o)
    BY <1>1, <1>4 DEF Ready, StatusAfter, PostedStatus, Live, RegisterAfter
  <2>2. \A d \in register : d.qty \in Int /\ d.op # o
    BY <1>2, <2>1 DEF RegisterRowOK
  <2>3. ASSUME NEW r \in Rows
        PROVE  /\ register' = register \cup Records(o) /\ IsFiniteSet(register')
               /\ SumFunction(RegisterQty(register', r)) =
                    SumFunction(RegisterQty(register, r)) + Book!ToPool(o, r)
    <3>1. /\ WithDamageRecords(register, o) = register \cup Records(o)
          /\ IsFiniteSet(register \cup Records(o))
          /\ SumFunction(RegisterQty(register \cup Records(o), r)) =
                SumFunction(RegisterQty(register, r)) + Book!ToPool(o, r)
      BY <1>2, <1>4, <2>1, <2>2, PostedRecords
    <3>. QED
      BY <2>1, <3>1
  <2>4. \A d \in Records(o) : d.op = o /\ d.qty \in Int /\ d.live
    <3>1. ASSUME NEW d \in Records(o) PROVE d.op = o /\ d.qty \in Int /\ d.live
      <4>1. PICK i \in LineIdx(o) : d = RegisterRow(o, i)
        BY DEF Records
      <4>. QED
        BY <4>1, LineTypes DEF RegisterRow
    <3>. QED
      BY <3>1
  <2>5. PICK t \in Rows : TRUE
    BY SourceRowTypes
  <2>6. register' = register \cup Records(o) /\ IsFiniteSet(register')
    BY <2>3, <2>5
  <2>7. \A d \in register' : RegisterRowOK(d)'
    <3>1. ASSUME NEW d \in register PROVE RegisterRowOK(d)'
      BY <1>1, <1>2, <2>2, <3>1 DEF RegisterRowOK
    <3>2. ASSUME NEW d \in Records(o) PROVE RegisterRowOK(d)'
      BY <1>4, <2>1, <2>4 DEF RegisterRowOK
    <3>. QED
      BY <2>6, <3>1, <3>2
  <2>8. ASSUME NEW p \in Ops, Req[p].type = "DAMAGE", Live(p)'
        PROVE  {d \in register' : d.op = p} = Records(p)
    <3>1. CASE p = o
      BY <2>2, <2>4, <2>6, <3>1
    <3>2. CASE p # o
      <4>1. Live(p)
        BY <1>1, <2>8, <3>2 DEF Live
      <4>2. {d \in register : d.op = p} = Records(p)
        BY <2>8, <4>1 DEF RegisterInv
      <4>3. {d \in register' : d.op = p} = {d \in register : d.op = p}
        BY <2>4, <2>6, <3>2
      <4>. QED
        BY <4>2, <4>3
    <3>. QED
      BY <3>1, <3>2
  <2>9. RegisterInv'
    BY <2>6, <2>7, <2>8 DEF RegisterInv, Records
  <2>10. ASSUME NEW r \in Rows, RegisterFollows(r) PROVE RegisterFollows(r)'
    <3>1. SumFunction(Damaged(r)') = SumFunction(Damaged(r)) + Book!ToPool(o, r)
      BY <1>3, <2>1
    <3>. QED
      BY <1>3, <2>3, <2>10, <3>1 DEF RegisterFollows
  <2>. QED
    BY <2>9, <2>10
<1>5. CASE k = "REVERSE"
  <2>1. /\ Req[o].type = "DAMAGE" /\ DistinctProducts(o) /\ Live(o) /\ ~Live(o)'
        /\ status'[o] = "CANCELLED" /\ register' = CancelDamageRecords(register, o)
    BY <1>1, <1>5 DEF Ready, StatusAfter, Live, RegisterAfter
  <2>2. {d \in register : d.op = o} = Records(o)
    BY <2>1 DEF RegisterInv
  <2>3. ASSUME NEW r \in Rows
        PROVE  /\ IsFiniteSet(register')
               /\ SumFunction(RegisterQty(register', r)) =
                    SumFunction(RegisterQty(register, r)) - Book!ToPool(o, r)
               /\ \A d \in register' : d.op = o => d.qty \in Int
               /\ \A p \in Ops \ {o} : {d \in register' : d.op = p} = {d \in register : d.op = p}
               /\ \A d \in register' : d \in register \/ d.op = o
    BY <1>2, <2>1, <2>2, CancelledRecords
  <2>4. PICK t \in Rows : TRUE
    BY SourceRowTypes
  <2>5. /\ IsFiniteSet(register') /\ \A d \in register' : d.op = o => d.qty \in Int
        /\ \A p \in Ops \ {o} : {d \in register' : d.op = p} = {d \in register : d.op = p}
        /\ \A d \in register' : d \in register \/ d.op = o
    BY <2>3, <2>4
  <2>6. \A d \in register' : RegisterRowOK(d)'
    <3>1. ASSUME NEW d \in register', d.op = o PROVE RegisterRowOK(d)'
      BY <2>1, <2>5, <3>1 DEF RegisterRowOK
    <3>2. ASSUME NEW d \in register', d.op # o PROVE RegisterRowOK(d)'
      BY <1>1, <1>2, <2>5, <3>2 DEF RegisterRowOK
    <3>. QED
      BY <3>1, <3>2
  <2>7. ASSUME NEW p \in Ops, Req[p].type = "DAMAGE", Live(p)'
        PROVE  {d \in register' : d.op = p} = Records(p)
    <3>1. p # o /\ Live(p)
      BY <1>1, <2>1, <2>7 DEF Live
    <3>. QED
      BY <2>5, <2>7, <3>1 DEF RegisterInv
  <2>8. RegisterInv'
    BY <2>5, <2>6, <2>7 DEF RegisterInv, Records
  <2>9. ASSUME NEW s \in Rows, RegisterFollows(s) PROVE RegisterFollows(s)'
    <3>1. SumFunction(Damaged(s)') = SumFunction(Damaged(s)) - Book!ToPool(o, s)
      BY <1>3, <2>1
    <3>. QED
      BY <1>3, <2>3, <2>9, <3>1 DEF RegisterFollows
  <2>. QED
    BY <2>8, <2>9
<1>6. CASE k # "REVERSE" /\ Req[o].type # "DAMAGE"
  <2>1. register' = register
    BY <1>1, <1>6 DEF RegisterAfter
  <2>2. \A d \in register : RegisterRowOK(d)'
    <3>1. ASSUME NEW d \in register PROVE RegisterRowOK(d)'
      <4>1. RegisterRowOK(d)
        BY <1>2
      <4>. QED
        BY <1>1, <1>6, <4>1 DEF RegisterRowOK
    <3>. QED
      BY <3>1
  <2>3. ASSUME NEW p \in Ops, Req[p].type = "DAMAGE", Live(p)'
        PROVE  {d \in register : d.op = p} = Records(p)
    <3>1. Live(p)
      BY <1>1, <1>6, <2>3 DEF Live
    <3>. QED
      BY <2>3, <3>1 DEF RegisterInv
  <2>4. RegisterInv'
    BY <1>2, <2>1, <2>2, <2>3 DEF RegisterInv, Records
  <2>5. ASSUME NEW r \in Rows, RegisterFollows(r) PROVE RegisterFollows(r)'
    <3>1. Book!ToPool(o, r) = 0
      BY <1>6 DEF Book!ToPool
    <3>2. SumFunction(Damaged(r)') = SumFunction(Damaged(r))
      BY <1>3, <3>1
    <3>. QED
      BY <1>3, <2>1, <2>5, <3>2 DEF RegisterFollows
  <2>. QED
    BY <2>4, <2>5
<1>7. \/ k = "CREATE" /\ Req[o].type = "DAMAGE"
      \/ k = "REVERSE"
      \/ k # "REVERSE" /\ Req[o].type # "DAMAGE"
  BY <1>1 DEF Ready, Kinds
<1>. QED
  BY <1>4, <1>5, <1>6, <1>7

LEMMA RegisterAlways ==
    ASSUME Lapses = {}, IsFiniteSet(Ops),
           \A o \in Ops : Req[o].type = "DAMAGE" => DistinctProducts(o)
    PROVE  Spec => [](RegisterInv /\ \A r \in Rows : RegisterFollows(r))
<1>. DEFINE Inv == RegisterInv /\ \A r \in Rows : RegisterFollows(r)
<1>1. Init => Inv
  <2>. SUFFICES ASSUME Init PROVE Inv
    OBVIOUS
  <2>1. register = {} /\ \A o \in Ops : status[o] = "NONE"
    BY DEF Init
  <2>2. RegisterInv
    BY <2>1, FS_EmptySet DEF RegisterInv, Live
  <2>3. ASSUME NEW r \in Rows PROVE RegisterFollows(r)
    <3>1. SumFunctionOnSet(Registered(r), {}) = 0
      BY FS_EmptySet, SumStep
    <3>2. SumFunction(Registered(r)) = SumFunctionOnSet(Registered(r), {})
      BY <2>1 DEF SumFunction, Registered
    <3>3. \A o \in Ops : Damaged(r)[o] = 0
      BY <2>1, OpTerms DEF Live
    <3>4. SumFunctionOnSet(Damaged(r), Ops) = 0
      BY <3>3, SumZero
    <3>. QED
      BY <3>1, <3>2, <3>4, OpSums DEF RegisterFollows
  <2>. QED
    BY <2>2, <2>3
<1>2. TypeInv /\ StatusInv /\ Inv /\ [Next]_vars => Inv'
  <2>. SUFFICES ASSUME TypeInv, StatusInv, Inv, [Next]_vars PROVE Inv'
    OBVIOUS
  <2>1. CASE UNCHANGED tables
    BY <2>1 DEF tables, RegisterInv, RegisterRowOK, Live, RegisterFollows, Registered, Damaged
  <2>2. ASSUME NEW h \in Handlers, Commit(h) PROVE Inv'
    BY <2>2, CommitRegister
  <2>3. CASE UNCHANGED vars
    BY <2>1, <2>3 DEF vars
  <2>4. CASE Next
    <3>1. PICK h \in Handlers : Acts(h)
      BY <2>4, ActionOfHandler
    <3>. QED
      BY <2>1, <2>2, <3>1, TablesCommitted
  <2>. QED
    BY <2>3, <2>4
<1>3. Spec => []StatusInv
  BY StatusAlways
<1>. QED
  BY <1>1, <1>2, <1>3, TypeInvariant, PTL DEF Spec

-----------------------------------------------------------------------------
(* The serials of damage operations in force.  Where no two damage         *)
(* operations that are in force or being worked on name one serial, a      *)
(* create finds the serials of its lines in stock, and holds them until it *)
(* commits.                                                                *)

InPlay(o) == /\ Req[o].type = "DAMAGE"
             /\ Live(o) \/ \E h \in Handlers : Active(h) /\ target[h] = o
SerialsApart ==
    \A o, p \in Ops : \A s \in Serials :
        (InPlay(o) /\ InPlay(p) /\ Names(o, s) /\ Names(p, s)) => o = p
Caught(h) ==
    /\ kind[h] = "CREATE" /\ Req[target[h]].type = "DAMAGE"
    /\ pc[h] \in {"serials", "commit"}
    => \A i \in LineIdx(target[h]) :
          (pc[h] = "serials" => i < line[h]) =>
              \A s \in Serials : Lines(target[h])[i].serial = s => serialLock[s] = h
Kept(o) == Req[o].type = "DAMAGE" /\ Live(o) =>
               \A s \in Serials : Names(o, s) => serial[s] = Marked(o)
CaughtInv == (\A h \in Handlers : Caught(h)) /\ \A o \in Ops : Kept(o)

LEMMA SerialLineCatches ==
    ASSUME TypeInv, StatusInv, SerialsInv, CaughtInv, SerialsApart,
           NEW h \in Handlers, SerialLine(h)
    PROVE  Caught(h)'
<1>. DEFINE o == target[h]
            n == line[h]
<1>1. /\ pc[h] = "serials" /\ n \in LineIdx(o) /\ UNCHANGED <<pc, kind, target>>
      /\ line'[h] = n + 1 /\ o \in Ops /\ n \in Nat
      /\ serialLock' = [s \in Serials |->
                          IF s \in Matching(h) THEN h ELSE serialLock[s]]
  BY DEF SerialLine, TypeInv, TypeOK, HandlerOK, Active
<1>2. SUFFICES ASSUME kind[h] = "CREATE", Req[o].type = "DAMAGE",
                      NEW i \in LineIdx(o), i < n + 1,
                      NEW s \in Serials, Lines(o)[i].serial = s
               PROVE  serialLock'[s] = h
  BY <1>1 DEF Caught
<1>3. CASE i < n
  <2>1. serialLock[s] = h
    BY <1>1, <1>2, <1>3 DEF CaughtInv, Caught
  <2>. QED
    BY <1>1, <2>1
<1>4. CASE i = n
  <2>1. s \in NamedSerials(h)
    BY <1>2, <1>4, AbsentAssumption DEF NamedSerials
  <2>2. CASE serialLock[s] = h
    BY <1>1, <2>2
  <2>3. CASE serialLock[s] # h
    <3>1. SerialView(h, s) = serial[s]
      BY <2>3 DEF SerialView
    <3>2. serial[s].status # "DAMAGED"
      <4>0. Active(h)
        BY <1>1 DEF Active
      <4>1. SUFFICES ASSUME serial[s].status = "DAMAGED" PROVE FALSE
        OBVIOUS
      <4>2. PICK p \in Ops : /\ Req[p].type = "DAMAGE" /\ Names(p, s)
                             /\ status[p] \notin {"NONE", "CANCELLED"}
        BY <4>1 DEF SerialsInv, Attributed
      <4>3. Names(o, s)
        BY <1>2 DEF Names
      <4>4. p = o
        BY <1>1, <1>2, <4>0, <4>2, <4>3 DEF SerialsApart, InPlay, Live
      <4>5. status[o] = "NONE"
        BY <1>1, <1>2, <4>0 DEF StatusInv, Ready
      <4>. QED
        BY <4>2, <4>4, <4>5
    <3>3. serial[s].status = "IN_STOCK"
      BY <3>2 DEF TypeInv, TypeOK, SerialType
    <3>4. s \in Matching(h)
      BY <1>2, <2>1, <3>1, <3>3 DEF Matching
    <3>. QED
      BY <1>1, <3>4
  <2>. QED
    BY <2>2, <2>3
<1>5. i \in Nat
  BY <1>1, LineTypes
<1>. QED
  BY <1>1, <1>2, <1>3, <1>4, <1>5

LEMMA StepCatches ==
    ASSUME TypeInv, StatusInv, SerialsInv, CaughtInv, SerialsApart,
           NEW h \in Handlers, Acts(h), NEW g \in Handlers
    PROVE  Caught(g)'
<1>0. Caught(g)
  BY DEF CaughtInv
<1>1. CASE g # h
  <2>1. /\ pc'[g] = pc[g] /\ kind'[g] = kind[g] /\ target'[g] = target[g]
        /\ line'[g] = line[g]
    BY <1>1, OthersStay
  <2>2. \A s \in Serials : serialLock[s] = g => serialLock'[s] = g
    BY <1>1, OthersSerials
  <2>. QED
    BY <1>0, <2>1, <2>2 DEF Caught
<1>2. CASE g = h
  <2>1. CASE SerialLine(h)
    BY <1>2, <2>1, SerialLineCatches
  <2>2. CASE \/ \E k \in Kinds, o \in Ops : Begin(h, k, o)
             \/ LockRow(h) \/ Verify(h) \/ Insert(h) \/ ApplyLine(h)
             \/ ReturnStock(h) \/ RestoreStock(h) \/ MarkCancelled(h)
             \/ ClaimReceipt(h) \/ CreditLine(h) \/ CreditDone(h)
    <3>1. kind'[h] = "CREATE" => pc'[h] \notin {"serials", "commit"}
      BY <2>2 DEF Begin, LockRow, Verify, Insert, ApplyLine, ReturnStock, RestoreStock,
                  MarkCancelled, ClaimReceipt, CreditLine, CreditDone, AllLocked,
                  TypeInv, TypeOK, HandlerOK
    <3>. QED
      BY <1>2, <3>1 DEF Caught
  <2>3. CASE ApplyDone(h)
    <3>1. /\ pc[h] = "apply" /\ target' = target /\ line'[h] = 1 /\ target[h] \in Ops
          /\ pc'[h] = IF Req[target[h]].type = "DAMAGE" THEN "serials" ELSE "commit"
      BY <2>3 DEF ApplyDone, TypeInv, TypeOK, HandlerOK, Active
    <3>2. \A i \in LineIdx(target[h]) : ~(i < 1)
      BY <3>1, LineTypes
    <3>. QED
      BY <1>2, <3>1, <3>2 DEF Caught
  <2>4. CASE SerialsDone(h)
    <3>1. /\ pc[h] = "serials" /\ line[h] \notin LineIdx(target[h]) /\ line[h] \in Nat \ {0}
          /\ UNCHANGED <<serialLock, kind, target>> /\ target[h] \in Ops
      BY <2>4 DEF SerialsDone, locks, TypeInv, TypeOK, HandlerOK, Active
    <3>2. \A i \in LineIdx(target[h]) : i < line[h]
      <4>1. LineIdx(target[h]) = 1..Len(Lines(target[h])) /\ Len(Lines(target[h])) \in Nat
        BY <3>1, LinesFinite
      <4>. QED
        BY <3>1, <4>1
    <3>. QED
      BY <1>0, <1>2, <3>1, <3>2 DEF Caught
  <2>5. CASE \/ Commit(h) \/ RefuseUncovered(h) \/ RefuseLine(h)
             \/ RefuseDuplicate(h) \/ RefuseReceived(h) \/ Fail(h)
    <3>1. \E a \in {"ok", "error"} : Finish(h, a)
      BY <2>5 DEF Commit, RefuseUncovered, RefuseLine, RefuseDuplicate,
                  RefuseReceived, Fail, Rollback
    <3>2. pc'[h] \in {"ok", "error"}
      BY <3>1 DEF Finish, TypeInv, TypeOK
    <3>. QED
      BY <1>2, <3>2 DEF Caught
  <2>. QED
    BY <2>1, <2>2, <2>3, <2>4, <2>5 DEF Acts, Step
<1>. QED
  BY <1>1, <1>2

(* A commit quarantines all the serials of its create, and touches no      *)
(* serial of another damage operation.                                     *)
LEMMA CommitKeeps ==
    ASSUME TypeInv, StatusInv, SerialsInv, CaughtInv, SerialsApart,
           NEW h \in Handlers, Commit(h), NEW p \in Ops
    PROVE  Kept(p)'
<1>. DEFINE k == kind[h]
<1>0. PICK o \in Ops : o = target[h]
  BY CommitStatus
<1>1. /\ k \in Kinds /\ Ready(k, o) /\ status'[o] = StatusAfter(k, o)
      /\ \A q \in Ops \ {o} : status'[q] = status[q]
      /\ pc[h] = "commit" /\ Active(h)
  BY <1>0, CommitStatus DEF StatusInv, Commit
<1>2. SUFFICES ASSUME Req[p].type = "DAMAGE", Live(p)', NEW s \in Serials, Names(p, s)
               PROVE  serial'[s] = Marked(p)
  BY DEF Kept, Names, Marked
<1>3. CASE p = o
  <2>1. k = "CREATE"
    BY <1>1, <1>2, <1>3 DEF Ready, StatusAfter, Live, Kinds
  <2>2. PICK i \in LineIdx(o) : Lines(o)[i].serial = s
    BY <1>2, <1>3 DEF Names
  <2>3. serialLock[s] = h
    BY <1>0, <1>1, <1>2, <1>3, <2>1, <2>2 DEF CaughtInv, Caught
  <2>. QED
    BY <1>0, <1>3, <2>1, <2>3, CommitSerial
<1>4. CASE p # o
  <2>1. Live(p)
    BY <1>1, <1>2, <1>4 DEF Live
  <2>2. serial[s] = Marked(p)
    BY <1>2, <2>1 DEF CaughtInv, Kept
  <2>3. serialLock[s] # h
    <3>1. SUFFICES ASSUME serialLock[s] = h PROVE FALSE
      OBVIOUS
    <3>2. Names(o, s) /\ (MarksFor(h, s) \/ UnmarksFor(h, s))
      BY <1>0, <3>1 DEF SerialsInv, HoldsSerials
    <3>3. Req[o].type = "DAMAGE"
      BY <1>0, <1>1, <3>2 DEF MarksFor, UnmarksFor, Ready
    <3>. QED
      BY <1>0, <1>1, <1>2, <1>4, <2>1, <3>2, <3>3 DEF SerialsApart, InPlay
  <2>. QED
    BY <2>2, <2>3, CommitSerial
<1>. QED
  BY <1>3, <1>4

LEMMA CaughtAlways ==
    ASSUME Lapses = {} PROVE Spec /\ []SerialsApart => []CaughtInv
<1>1. Init => CaughtInv
  BY DEF Init, CaughtInv, Caught, Kept, Live
<1>2. TypeInv /\ StatusInv /\ SerialsInv /\ SerialsApart /\ CaughtInv /\ [Next]_vars
          => CaughtInv'
  <2>. SUFFICES ASSUME TypeInv, StatusInv, SerialsInv, SerialsApart, CaughtInv, [Next]_vars
                PROVE  CaughtInv'
    OBVIOUS
  <2>1. CASE UNCHANGED vars
    BY <2>1 DEF vars, tables, locks, CaughtInv, Caught, Kept, Live, Names, Marked
  <2>2. CASE Next
    <3>1. PICK h \in Handlers : Acts(h)
      BY <2>2, ActionOfHandler
    <3>2. \A g \in Handlers : Caught(g)'
      BY <3>1, StepCatches
    <3>3. ASSUME NEW p \in Ops PROVE Kept(p)'
      <4>1. CASE Commit(h)
        BY <4>1, CommitKeeps
      <4>2. CASE UNCHANGED tables
        BY <4>2 DEF tables, CaughtInv, Kept, Live, Names, Marked
      <4>. QED
        BY <3>1, <4>1, <4>2, TablesCommitted
    <3>. QED
      BY <3>2, <3>3 DEF CaughtInv
  <2>. QED
    BY <2>1, <2>2
<1>3. Spec => []StatusInv
  BY StatusAlways
<1>. QED
  BY <1>1, <1>2, <1>3, TypeInvariant, SerialsAlways, PTL DEF Spec

(* Where damage operations name a product once, and none is posted for a   *)
(* serial that another in force or under way names (the dialog takes       *)
(* serials in stock), the live rows of the damage register always add up   *)
(* to what the damage operations in force moved into the pool, and every   *)
(* serial they name is quarantined under their name, so that their         *)
(* reversals find it.                                                      *)
THEOREM RegisterFollowsDamage ==
    ASSUME Lapses = {}, IsFiniteSet(Ops),
           \A o \in Ops : Req[o].type = "DAMAGE" => DistinctProducts(o)
    PROVE  Spec /\ []SerialsApart => []RegisterReflectsStock
<1>1. ASSUME TypeInv, \A r \in Rows : RegisterFollows(r), CaughtInv
      PROVE  RegisterReflectsStock
  <2>1. ASSUME NEW o \in Ops, Req[o].type = "DAMAGE", Live(o) PROVE Quarantined(o)
    <3>1. ASSUME NEW i \in LineIdx(o), Lines(o)[i].serial # NoSerial
          PROVE  serial[Lines(o)[i].serial] = [status |-> "DAMAGED", source |-> o]
      <4>1. Lines(o)[i].serial \in Serials
        BY <3>1, LineTypes DEF LineType
      <4>2. Names(o, Lines(o)[i].serial)
        BY DEF Names
      <4>. QED
        BY <1>1, <2>1, <4>1, <4>2 DEF CaughtInv, Kept, Marked
    <3>. QED
      BY <3>1 DEF Quarantined
  <2>. QED
    BY <1>1, <2>1 DEF RegisterReflectsStock, RegisterFollows
<1>2. Spec => [](RegisterInv /\ \A r \in Rows : RegisterFollows(r))
  BY RegisterAlways
<1>3. Spec /\ []SerialsApart => []CaughtInv
  BY CaughtAlways
<1>. QED
  BY <1>1, <1>2, <1>3, TypeInvariant, PTL
=============================================================================
