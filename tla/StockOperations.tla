-------------------------- MODULE StockOperations --------------------------
(***************************************************************************)
(* The stock-operations engine of the server                               *)
(* (server/src/controllers/inventory.controller.ts, models/inventory.repo  *)
(* .ts, services/damage.service.ts): posting a DAMAGE, PULLOUT, STOCK_OUT  *)
(* or CONSUMABLE_ISSUE operation, reversing a damage record, returning a   *)
(* consumable issue and receiving a pull-out, each as one HTTP request     *)
(* whose handler runs a PostgreSQL READ COMMITTED transaction.             *)
(*                                                                         *)
(* A request is a member of Handlers and runs once.  A table row has its   *)
(* committed value (stock, serial) and, while some transaction holds the   *)
(* row lock, that transaction's own version (draft, serialDraft); COMMIT   *)
(* publishes the versions it holds, ROLLBACK drops them.                   *)
(***************************************************************************)
EXTENDS Integers, FiniteSets, Sequences

CONSTANTS
    Branches,       \* branches and warehouses
    Products,       \* product ids: numbers, since rows are locked in id order
    Ops,            \* ids of stock_operations rows
    Serials,        \* serial_log rows
    Handlers,       \* one per HTTP request
    Req,            \* what the body of each operation's POST says
    InitStock,      \* inventory_stock when the system starts
    Lapses,         \* what clients do that the user interface does not:
                    \*   "OVERLAP" two requests open on one operation,
                    \*   "RESEND"  a create with an id already posted,
                    \*   "MISUSE"  receiving an operation that is no pull-out
    NoOp, NoSerial, Nobody

OpTypes == {"DAMAGE", "PULLOUT", "STOCK_OUT", "CONSUMABLE_ISSUE"}
Kinds == {"CREATE", "REVERSE", "RETURN", "RECEIVE"}
Rows == Branches \X Products
Cells == [qoh : Nat, damaged : Nat]
LineType == [product : Products, qty : Nat \ {0}, damagedStock : BOOLEAN,
             serial : Serials \cup {NoSerial}]
OpStatus == {"NONE", "LOGGED", "DISPATCHED", "RECEIVED", "CANCELLED"}
SerialType == [status : {"IN_STOCK", "DAMAGED"}, source : Ops \cup {NoOp}]

ASSUME ConstantsAssumption ==
    /\ Products \subseteq Nat
    /\ Req \in [Ops -> [type : OpTypes, branch : Branches, dest : Branches,
                        lines : Seq(LineType)]]
    /\ \A o \in Ops : Req[o].lines # << >>
    /\ InitStock \in [Rows -> Cells]
    /\ Lapses \subseteq {"OVERLAP", "RESEND", "MISUSE"}

ASSUME AbsentAssumption ==
    NoOp \notin Ops /\ NoSerial \notin Serials /\ Nobody \notin Handlers

VARIABLES
    stock,          \* inventory_stock, committed
    status,         \* stock_operations.status, committed
    ledger,         \* transaction_logs rows written by this engine
    register,       \* damage_records rows
    serial,         \* serial_log, committed
    tally,          \* history: committed transactions per operation and kind
    draft,          \* the lock holder's version of a stock row
    serialDraft,    \* the lock holder's version of a serial_log row
    rowLock, opLock, serialLock,    \* who holds each row lock
    pc, kind, target,   \* where a handler is, what it does, on which operation
    need, line          \* rows it has still to lock, line it is working on

tables == <<stock, status, ledger, register, serial, tally>>
locks == <<rowLock, opLock, serialLock>>
vars == <<tables, draft, serialDraft, locks, pc, kind, target, need, line>>

Active(h) == pc[h] \notin {"idle", "ok", "error"}

-----------------------------------------------------------------------------
(* What the body of an operation says.                                     *)

Lines(o) == Req[o].lines
LineIdx(o) == DOMAIN Req[o].lines
SourceRow(o, i) == <<Req[o].branch, Req[o].lines[i].product>>
DestRow(o, i) == <<Req[o].dest, Req[o].lines[i].product>>
SourceRows(o) == {SourceRow(o, i) : i \in LineIdx(o)}
FromDamaged(o, i) == Req[o].type = "PULLOUT" /\ Req[o].lines[i].damagedStock
DistinctProducts(o) ==
    \A i, j \in LineIdx(o) : Lines(o)[i].product = Lines(o)[j].product => i = j

(* Definitions named ...Mutant are faulty variants of the definition that  *)
(* follows; nothing here uses them.  PROJECT.json pairs each with a        *)
(* property that must then fail.                                           *)

(* Re-verification of one line against its locked row: chosen by the       *)
(* line's condition, whatever the operation type, and line by line.        *)
CoversMutant(cell, l) == TRUE
Covers(cell, l) == IF l.damagedStock THEN cell.damaged >= l.qty
                                     ELSE cell.qoh >= l.qty

(* The guarded UPDATE of one line: its WHERE clause and its SET clause.    *)
Applies(cell, o, i) == IF FromDamaged(o, i) THEN cell.damaged >= Lines(o)[i].qty
                                            ELSE cell.qoh >= Lines(o)[i].qty
AfterLine(cell, o, i) ==
    LET q == Lines(o)[i].qty
    IN  CASE Req[o].type = "DAMAGE" ->
                [qoh |-> cell.qoh - q, damaged |-> cell.damaged + q]
          [] FromDamaged(o, i) -> [cell EXCEPT !.damaged = @ - q]
          [] OTHER -> [cell EXCEPT !.qoh = @ - q]

PostedStatus(o) == IF Req[o].type = "PULLOUT" THEN "DISPATCHED" ELSE "LOGGED"

(* Ledger rows.  ON CONFLICT (id) DO NOTHING: a row whose id is already    *)
(* there is skipped, and of two equal ids in one statement the first wins. *)
LedgerRow(o, k, i, q) ==
    [op |-> o, kind |-> k, line |-> i, row |-> SourceRow(o, i), qty |-> q]
IsFirst(o, i) == \A j \in 1..(i - 1) : Lines(o)[j].product # Lines(o)[i].product
LedgerRows(k, o) ==
    CASE k = "CREATE" ->
            {LedgerRow(o, k, i, -Lines(o)[i].qty) :
                i \in {j \in LineIdx(o) : ~FromDamaged(o, j)}}
      [] k \in {"REVERSE", "RETURN"} ->
            {LedgerRow(o, k, i, Lines(o)[i].qty) :
                i \in {j \in LineIdx(o) : IsFirst(o, j)}}
      [] OTHER -> {}

(* damage_records rows: id dmr-<op>-<product>, ON CONFLICT (id) DO NOTHING.*)
RegisterRow(o, i) == [op |-> o, row |-> SourceRow(o, i),
                      qty |-> Lines(o)[i].qty, live |-> TRUE]
WithDamageRecords(reg, o) ==
    reg \cup {RegisterRow(o, i) :
                i \in {j \in LineIdx(o) :
                          /\ IsFirst(o, j)
                          /\ \A d \in reg : d.op # o \/ d.row # SourceRow(o, j)}}
CancelDamageRecords(reg, o) ==
    {IF d.op = o THEN [d EXCEPT !.live = FALSE] ELSE d : d \in reg}

-----------------------------------------------------------------------------
Init ==
    /\ stock = InitStock
    /\ draft = InitStock
    /\ status = [o \in Ops |-> "NONE"]
    /\ ledger = {}
    /\ register = {}
    /\ serial = [s \in Serials |-> [status |-> "IN_STOCK", source |-> NoOp]]
    /\ serialDraft = serial
    /\ tally = [o \in Ops |-> [k \in Kinds |-> 0]]
    /\ rowLock = [r \in Rows |-> Nobody]
    /\ opLock = [o \in Ops |-> Nobody]
    /\ serialLock = [s \in Serials |-> Nobody]
    /\ pc = [h \in Handlers |-> "idle"]
    /\ kind = [h \in Handlers |-> "NONE"]
    /\ target = [h \in Handlers |-> NoOp]
    /\ need = [h \in Handlers |-> {}]
    /\ line = [h \in Handlers |-> 1]

(* The checks a handler makes with plain reads before BEGIN: type and      *)
(* status of the operation.  The mirror pre-flights only refuse requests   *)
(* (400), which here is a request that never starts.                       *)
MayCreate(o) == "RESEND" \in Lapses \/ status[o] = "NONE"
MayReverse(o) == /\ Req[o].type = "DAMAGE"
                 /\ status[o] \notin {"NONE", "CANCELLED"}
MayReturnMutant(o) == Req[o].type = "CONSUMABLE_ISSUE" /\ status[o] # "NONE"
MayReturn(o) == /\ Req[o].type = "CONSUMABLE_ISSUE"
                /\ status[o] \notin {"NONE", "CANCELLED"}
MayReceive(o) == /\ status[o] \notin {"NONE", "RECEIVED"}
                 /\ "MISUSE" \in Lapses \/ Req[o].type = "PULLOUT"

Admissible(k, o) == CASE k = "CREATE" -> MayCreate(o)
                      [] k = "REVERSE" -> MayReverse(o)
                      [] k = "RETURN" -> MayReturn(o)
                      [] k = "RECEIVE" -> MayReceive(o)

Begin(h, k, o) ==
    /\ pc[h] = "idle"
    /\ Admissible(k, o)
    /\ "OVERLAP" \in Lapses \/ \A g \in Handlers : Active(g) => target[g] # o
    /\ pc' = [pc EXCEPT ![h] = IF k = "RECEIVE" THEN "claim" ELSE "lock"]
    /\ kind' = [kind EXCEPT ![h] = k]
    /\ target' = [target EXCEPT ![h] = o]
    /\ need' = [need EXCEPT ![h] = IF k = "RECEIVE" THEN {} ELSE SourceRows(o)]
    /\ UNCHANGED <<tables, draft, serialDraft, locks, line>>

(* SELECT ... FOR UPDATE takes the rows in product order; the batched      *)
(* UPDATE of a consumable return takes them in whatever order its join     *)
(* produces.                                                               *)
NextRowMutant(h, r) == r \in need[h]
NextRow(h, r) == /\ r \in need[h]
                 /\ kind[h] # "RETURN" => \A s \in need[h] : r[2] <= s[2]

LockRow(h) ==
    \E r \in Rows :
        /\ pc[h] = "lock"
        /\ NextRow(h, r)
        /\ rowLock[r] = Nobody
        /\ rowLock' = [rowLock EXCEPT ![r] = h]
        /\ need' = [need EXCEPT ![h] = @ \ {r}]
        /\ UNCHANGED <<tables, draft, serialDraft, opLock, serialLock,
                       pc, kind, target, line>>

AllLocked(h) == pc[h] = "lock" /\ need[h] = {}

(* Availability from the locked rows: what the create handler and the      *)
(* damage reversal re-verify before they write.                            *)
Verified(h) ==
    LET o == target[h]
    IN  \A i \in LineIdx(o) :
            IF kind[h] = "CREATE"
            THEN Covers(draft[SourceRow(o, i)], Lines(o)[i])
            ELSE draft[SourceRow(o, i)].damaged >= Lines(o)[i].qty

Verify(h) ==
    /\ AllLocked(h)
    /\ kind[h] = "CREATE"
    /\ Verified(h)
    /\ pc' = [pc EXCEPT ![h] = "insert"]
    /\ UNCHANGED <<tables, draft, serialDraft, locks, kind, target, need, line>>

(* INSERT INTO stock_operations ... ON CONFLICT (id) DO UPDATE.            *)
Insert(h) ==
    /\ pc[h] = "insert"
    /\ opLock[target[h]] = Nobody
    /\ opLock' = [opLock EXCEPT ![target[h]] = h]
    /\ pc' = [pc EXCEPT ![h] = "apply"]
    /\ UNCHANGED <<tables, draft, serialDraft, rowLock, serialLock,
                   kind, target, need, line>>

(* One guarded UPDATE per line, in the order of the body.                  *)
ApplyLine(h) ==
    LET o == target[h]
        i == line[h]
    IN  /\ pc[h] = "apply"
        /\ i \in LineIdx(o)
        /\ Applies(draft[SourceRow(o, i)], o, i)
        /\ draft' = [draft EXCEPT ![SourceRow(o, i)] = AfterLine(@, o, i)]
        /\ line' = [line EXCEPT ![h] = i + 1]
        /\ UNCHANGED <<tables, serialDraft, locks, pc, kind, target, need>>

ApplyDone(h) ==
    /\ pc[h] = "apply"
    /\ line[h] \notin LineIdx(target[h])
    /\ pc' = [pc EXCEPT ![h] =
                IF Req[target[h]].type = "DAMAGE" THEN "serials" ELSE "commit"]
    /\ line' = [line EXCEPT ![h] = 1]
    /\ UNCHANGED <<tables, draft, serialDraft, locks, kind, target, need>>

(* The batched UPDATE of a damage reversal.  An UPDATE ... FROM changes a  *)
(* row once however many deltas name it, so a body with two lines of one   *)
(* product updates fewer rows than it has lines and is refused.            *)
RestoreStock(h) ==
    LET o == target[h]
    IN  /\ AllLocked(h)
        /\ kind[h] = "REVERSE"
        /\ Verified(h)
        /\ DistinctProducts(o)
        /\ draft' = [r \in Rows |->
                IF r \in SourceRows(o)
                THEN LET i == CHOOSE j \in LineIdx(o) : SourceRow(o, j) = r
                     IN  [qoh |-> draft[r].qoh + Lines(o)[i].qty,
                          damaged |-> draft[r].damaged - Lines(o)[i].qty]
                ELSE draft[r]]
        /\ pc' = [pc EXCEPT ![h] = "serials"]
        /\ UNCHANGED <<tables, serialDraft, locks, kind, target, need, line>>

(* The batched UPDATE of a consumable return: no guard, and one of the     *)
(* deltas of each product.                                                 *)
ReturnStock(h) ==
    LET o == target[h]
    IN  /\ AllLocked(h)
        /\ kind[h] = "RETURN"
        /\ \E pick \in [SourceRows(o) -> LineIdx(o)] :
              /\ \A r \in SourceRows(o) : SourceRow(o, pick[r]) = r
              /\ draft' = [r \in Rows |->
                    IF r \in SourceRows(o)
                    THEN [draft[r] EXCEPT !.qoh = @ + Lines(o)[pick[r]].qty]
                    ELSE draft[r]]
        /\ pc' = [pc EXCEPT ![h] = "cancel"]
        /\ UNCHANGED <<tables, serialDraft, locks, kind, target, need, line>>

(* Serial rows a statement of h would change for the line it is at: the    *)
(* DAMAGE create quarantines the line's serial while it is IN_STOCK, the   *)
(* reversal restores DAMAGED rows attributed to the operation (all of them *)
(* when the line names no serial).  A matching row locked by another       *)
(* transaction is waited for and matched again.                            *)
SerialView(h, s) == IF serialLock[s] = h THEN serialDraft[s] ELSE serial[s]
NamedSerialsMutant(h) ==
    LET s == Lines(target[h])[line[h]].serial
    IN  IF s # NoSerial /\ kind[h] = "CREATE" THEN {s} ELSE {}
NamedSerials(h) ==
    LET s == Lines(target[h])[line[h]].serial
    IN  IF s # NoSerial THEN {s}
        ELSE IF kind[h] = "REVERSE" THEN Serials ELSE {}
Matching(h) ==
    {s \in NamedSerials(h) :
        IF kind[h] = "CREATE"
        THEN SerialView(h, s).status = "IN_STOCK"
        ELSE SerialView(h, s) = [status |-> "DAMAGED", source |-> target[h]]}

SerialLine(h) ==
    /\ pc[h] = "serials"
    /\ line[h] \in LineIdx(target[h])
    /\ \A s \in Matching(h) : serialLock[s] \in {Nobody, h}
    /\ serialLock' = [s \in Serials |->
                        IF s \in Matching(h) THEN h ELSE serialLock[s]]
    /\ serialDraft' = [s \in Serials |->
            IF s \in Matching(h)
            THEN IF kind[h] = "CREATE"
                 THEN [status |-> "DAMAGED", source |-> target[h]]
                 ELSE [status |-> "IN_STOCK", source |-> NoOp]
            ELSE serialDraft[s]]
    /\ line' = [line EXCEPT ![h] = @ + 1]
    /\ UNCHANGED <<tables, draft, rowLock, opLock, pc, kind, target, need>>

SerialsDone(h) ==
    /\ pc[h] = "serials"
    /\ line[h] \notin LineIdx(target[h])
    /\ pc' = [pc EXCEPT ![h] = IF kind[h] = "CREATE" THEN "commit" ELSE "cancel"]
    /\ line' = [line EXCEPT ![h] = 1]
    /\ UNCHANGED <<tables, draft, serialDraft, locks, kind, target, need>>

(* UPDATE stock_operations SET status = 'CANCELLED' WHERE id = ...: it     *)
(* waits for the row lock and then writes whatever the status now is.      *)
MarkCancelled(h) ==
    /\ pc[h] = "cancel"
    /\ opLock[target[h]] = Nobody
    /\ opLock' = [opLock EXCEPT ![target[h]] = h]
    /\ pc' = [pc EXCEPT ![h] = "commit"]
    /\ UNCHANGED <<tables, draft, serialDraft, rowLock, serialLock,
                   kind, target, need, line>>

(* Receiving a pull-out: SELECT ... FOR UPDATE of the operation, status    *)
(* re-checked under the lock, then one upsert per line at the destination. *)
StillReceivableMutant(o) == TRUE
StillReceivable(o) == status[o] # "RECEIVED"

ClaimReceipt(h) ==
    /\ pc[h] = "claim"
    /\ opLock[target[h]] = Nobody
    /\ StillReceivable(target[h])
    /\ opLock' = [opLock EXCEPT ![target[h]] = h]
    /\ pc' = [pc EXCEPT ![h] = "credit"]
    /\ UNCHANGED <<tables, draft, serialDraft, rowLock, serialLock,
                   kind, target, need, line>>

CreditLine(h) ==
    LET o == target[h]
        i == line[h]
    IN  /\ pc[h] = "credit"
        /\ i \in LineIdx(o)
        /\ rowLock[DestRow(o, i)] \in {Nobody, h}
        /\ rowLock' = [rowLock EXCEPT ![DestRow(o, i)] = h]
        /\ draft' = [draft EXCEPT ![DestRow(o, i)].qoh = @ + Lines(o)[i].qty]
        /\ line' = [line EXCEPT ![h] = i + 1]
        /\ UNCHANGED <<tables, serialDraft, opLock, serialLock,
                       pc, kind, target, need>>

CreditDone(h) ==
    /\ pc[h] = "credit"
    /\ line[h] \notin LineIdx(target[h])
    /\ pc' = [pc EXCEPT ![h] = "commit"]
    /\ line' = [line EXCEPT ![h] = 1]
    /\ UNCHANGED <<tables, draft, serialDraft, locks, kind, target, need>>

-----------------------------------------------------------------------------
(* The end of a request: locks are released and the answer is sent.  A row *)
(* h holds takes the value "top" on COMMIT (the draft becomes the          *)
(* committed row) and on ROLLBACK (the other way round).                   *)
FreedMutant(lock, h) == lock
Freed(lock, h) ==
    [x \in DOMAIN lock |-> IF lock[x] = h THEN Nobody ELSE lock[x]]
Overlay(base, top, lock, h) ==
    [x \in DOMAIN base |-> IF lock[x] = h THEN top[x] ELSE base[x]]
UndoneMutant(version, committed, lock, h) == version
Undone(version, committed, lock, h) == Overlay(version, committed, lock, h)

Finish(h, answer) ==
    /\ pc' = [pc EXCEPT ![h] = answer]
    /\ kind' = [kind EXCEPT ![h] = "NONE"]
    /\ target' = [target EXCEPT ![h] = NoOp]
    /\ need' = [need EXCEPT ![h] = {}]
    /\ line' = [line EXCEPT ![h] = 1]
    /\ rowLock' = Freed(rowLock, h)
    /\ opLock' = Freed(opLock, h)
    /\ serialLock' = Freed(serialLock, h)

StatusAfter(k, o) == CASE k = "CREATE" -> PostedStatus(o)
                       [] k = "RECEIVE" -> "RECEIVED"
                       [] OTHER -> "CANCELLED"
RegisterAfterMutant(k, o) ==
    IF k = "CREATE" /\ Req[o].type = "DAMAGE"
    THEN WithDamageRecords(register, o) ELSE register
RegisterAfter(k, o) ==
    CASE k = "CREATE" /\ Req[o].type = "DAMAGE" -> WithDamageRecords(register, o)
      [] k = "REVERSE" -> CancelDamageRecords(register, o)
      [] OTHER -> register

Commit(h) ==
    LET o == target[h]
        k == kind[h]
    IN  /\ pc[h] = "commit"
        /\ stock' = Overlay(stock, draft, rowLock, h)
        /\ serial' = Overlay(serial, serialDraft, serialLock, h)
        /\ status' = [status EXCEPT ![o] = StatusAfter(k, o)]
        /\ ledger' = ledger \cup LedgerRows(k, o)
        /\ register' = RegisterAfter(k, o)
        /\ tally' = [tally EXCEPT ![o][k] = @ + 1]
        /\ Finish(h, "ok")
        /\ UNCHANGED <<draft, serialDraft>>

Rollback(h) ==
    /\ draft' = Undone(draft, stock, rowLock, h)
    /\ serialDraft' = Undone(serialDraft, serial, serialLock, h)
    /\ Finish(h, "error")
    /\ UNCHANGED tables

(* The handler throws: a line is not covered by its locked row, a guarded  *)
(* UPDATE changed no row, a reversal names a product twice, the operation  *)
(* was received meanwhile.                                                 *)
RefuseUncovered(h) == /\ AllLocked(h)
                      /\ kind[h] \in {"CREATE", "REVERSE"}
                      /\ ~Verified(h)
                      /\ Rollback(h)
RefuseLine(h) == /\ pc[h] = "apply"
                 /\ line[h] \in LineIdx(target[h])
                 /\ ~Applies(draft[SourceRow(target[h], line[h])], target[h], line[h])
                 /\ Rollback(h)
RefuseDuplicate(h) == /\ AllLocked(h)
                      /\ kind[h] = "REVERSE"
                      /\ Verified(h)
                      /\ ~DistinctProducts(target[h])
                      /\ Rollback(h)
RefuseReceived(h) == /\ pc[h] = "claim"
                     /\ opLock[target[h]] = Nobody
                     /\ ~StillReceivable(target[h])
                     /\ Rollback(h)

(* The transaction ends from outside the handler's code at any point: the  *)
(* connection or the process is lost, or the database picks it to break a  *)
(* deadlock.                                                               *)
Fail(h) == Active(h) /\ Rollback(h)

Step(h) ==
    \/ LockRow(h) \/ Verify(h) \/ Insert(h) \/ ApplyLine(h) \/ ApplyDone(h)
    \/ RestoreStock(h) \/ ReturnStock(h) \/ SerialLine(h) \/ SerialsDone(h)
    \/ MarkCancelled(h) \/ ClaimReceipt(h) \/ CreditLine(h) \/ CreditDone(h)
    \/ Commit(h)
    \/ RefuseUncovered(h) \/ RefuseLine(h) \/ RefuseDuplicate(h) \/ RefuseReceived(h)

Next ==
    \E h \in Handlers :
        \/ \E k \in Kinds, o \in Ops : Begin(h, k, o)
        \/ Step(h)
        \/ Fail(h)

Spec == Init /\ [][Next]_vars

-----------------------------------------------------------------------------
(* Which transactions a handler is waiting for, and sets of handlers none  *)
(* of which can move before another of the set does.  PostgreSQL detects   *)
(* such a set and rolls one of its members back.                           *)

WaitsFor(h) ==
    LET o == target[h]
        rows == {r \in need[h] : NextRow(h, r)}
        owners == CASE pc[h] = "lock" ->
                          IF \E r \in rows : rowLock[r] = Nobody
                          THEN {} ELSE {rowLock[r] : r \in rows}
                    [] pc[h] \in {"insert", "cancel", "claim"} -> {opLock[o]}
                    [] pc[h] = "serials" /\ line[h] \in LineIdx(o) ->
                          {serialLock[s] : s \in Matching(h)}
                    [] pc[h] = "credit" /\ line[h] \in LineIdx(o) ->
                          {rowLock[DestRow(o, line[h])]}
                    [] OTHER -> {}
    IN  owners \ {Nobody, h}
Deadlocked(C) == C # {} /\ \A g \in C : WaitsFor(g) \cap C # {}
DeadlockVictim(h) ==
    Fail(h) /\ \E C \in SUBSET Handlers : h \in C /\ Deadlocked(C)

(* Fairness: a handler that can take its next step takes it (the event     *)
(* loop and the database keep running), and the database's deadlock check  *)
(* ends some member of a deadlock.  Other failures are never forced.       *)
Fairness == \A h \in Handlers : WF_vars(Step(h)) /\ WF_vars(DeadlockVictim(h))
FairSpec == Spec /\ Fairness

-----------------------------------------------------------------------------
(* Properties.                                                             *)

PCs == {"idle", "lock", "insert", "apply", "serials", "cancel", "claim",
        "credit", "commit", "ok", "error"}

(* The types of the tables, of the versions in progress and of the         *)
(* handlers' states.  Quantities are only integers here: the columns have  *)
(* no CHECK constraint.                                                    *)
TypeOK ==
    /\ stock \in [Rows -> [qoh : Int, damaged : Int]]
    /\ draft \in [Rows -> [qoh : Int, damaged : Int]]
    /\ status \in [Ops -> OpStatus]
    /\ serial \in [Serials -> SerialType]
    /\ serialDraft \in [Serials -> SerialType]
    /\ tally \in [Ops -> [Kinds -> Nat]]
    /\ rowLock \in [Rows -> Handlers \cup {Nobody}]
    /\ opLock \in [Ops -> Handlers \cup {Nobody}]
    /\ serialLock \in [Serials -> Handlers \cup {Nobody}]
    /\ pc \in [Handlers -> PCs]
    /\ kind \in [Handlers -> Kinds \cup {"NONE"}]
    /\ target \in [Handlers -> Ops \cup {NoOp}]
    /\ need \in [Handlers -> SUBSET Rows]
    /\ line \in [Handlers -> Nat \ {0}]

(* No committed quantity is ever negative, whatever requests overlap: the  *)
(* integrity script reports any such row, and inventory_stock has no CHECK *)
(* constraint, so only the locks and the guarded UPDATEs prevent it.       *)
NoNegativeStock == \A r \in Rows : stock[r].qoh >= 0 /\ stock[r].damaged >= 0

(* Once a create has re-verified its locked rows, none of its remaining    *)
(* guarded UPDATEs can fail: what it verified stays true until it writes,  *)
(* as the handler's comment says ("from here on the locked rows cannot     *)
(* change until commit").  For bodies that name each product once.         *)
VerifiedLinesApply ==
    \A h \in Handlers :
        pc[h] \in {"insert", "apply"} =>
            LET o == target[h]
            IN  (/\ DistinctProducts(o)
                 /\ \A i \in LineIdx(o) : Lines(o)[i].damagedStock => FromDamaged(o, i))
                => \A i \in LineIdx(o) :
                      i >= line[h] => Applies(draft[SourceRow(o, i)], o, i)

(* A pull-out is credited to its destination at most once for each time it *)
(* was posted, however many receive requests race, and whatever else is    *)
(* sent about it: the handler re-reads the status under the row lock.      *)
PullOutCreditedOnce ==
    \A o \in Ops : Req[o].type = "PULLOUT" =>
        tally[o]["RECEIVE"] <= tally[o]["CREATE"]

(* A quarantined serial always points at a damage operation that exists    *)
(* and has not been reversed, so that it can still be restored: reversal   *)
(* frees exactly the serials its own operation holds.                      *)
QuarantineAttributed ==
    \A s \in Serials :
        serial[s].status = "DAMAGED" =>
            LET o == serial[s].source
            IN  o \in Ops /\ Req[o].type = "DAMAGE"
                          /\ status[o] \notin {"NONE", "CANCELLED"}

(* Transactions that lock stock rows in product order (every create and    *)
(* every damage reversal) never deadlock among themselves.                 *)
OrderedWritersNeverDeadlock ==
    \A C \in SUBSET {h \in Handlers : kind[h] \in {"CREATE", "REVERSE"}} :
        ~Deadlocked(C)

(* Every request that starts is answered.                                  *)
EveryRequestAnswered == \A h \in Handlers : Active(h) ~> ~Active(h)
=============================================================================
