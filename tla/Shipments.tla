------------------------------ MODULE Shipments ------------------------------
(***************************************************************************)
(* Inter-branch transfers (server/src/controllers/shipments.controller.ts, *)
(* models/shipments.repo.ts) together with the operational cache they are  *)
(* checked against (state/runtimeState.ts, middleware/cacheRefreshHook.ts).*)
(*                                                                         *)
(* The server keeps a mirror of the shipments table: an array of objects.  *)
(* A handler looks its shipment up in the mirror, decides on what the      *)
(* object says, awaits, changes the object and runs a transaction whose    *)
(* parameters it reads from the object at the time.  A refresh reads the   *)
(* table and replaces every object of the mirror, so the object a handler  *)
(* holds may no longer be the mirror's.                                    *)
(*                                                                         *)
(* One product and one item per shipment: transfers of different products  *)
(* meet only in the shipment row and in the mirror, which are modelled.    *)
(***************************************************************************)
EXTENDS Integers, FiniteSets

CONSTANTS
    Branches,
    Shipments,
    Handlers,       \* one per HTTP request
    Route,          \* [from, to, qty] of each shipment
    Receipts,       \* quantities a receiver may report, per shipment
    InitStock,      \* quantity on hand of each branch when the system starts
    Objects,        \* object identities of the mirror: enough for each handler to
                    \* hold one, the mirror another, and one to be free
    Mishaps,        \* what clients and connections do on a bad day:
                    \*   "OVERLAP" two requests open on one shipment
                    \*   "RESEND"  a dispatch sent again under the same id
                    \*   "GHOST"   a request on a shipment not in the table
                    \*   "REPEAT"  a receipt or cancellation of a shipment
                    \*             the table shows as no longer in transit
                    \*   "STALE"   a cache refresh that fails
    NoShipment, Nobody

Kinds == {"DISPATCH", "RECEIVE", "CANCEL", "UNDO"}
Statuses == {"NONE", "IN_TRANSIT", "RECEIVED", "DISCREPANCY", "CANCELLED"}
(* What the table, or a mirror object, says of a shipment.  "NONE": there  *)
(* is no such row, the mirror has no such entry.                           *)
Records == [status : Statuses, received : Nat]
Absent == [status |-> "NONE", received |-> 0]
InTransit == [status |-> "IN_TRANSIT", received |-> 0]
ReceiptDone == {"RECEIVED", "DISCREPANCY"}

ASSUME ShipmentsAssumption ==
    /\ Route \in [Shipments -> [from : Branches, to : Branches, qty : Nat \ {0}]]
    /\ \A s \in Shipments : Route[s].from # Route[s].to
    /\ Receipts \in [Shipments -> SUBSET Nat]
    /\ InitStock \in [Branches -> Nat]
    /\ Objects # {}
    /\ \A used \in [Handlers -> Objects], m \in Objects :
          \E x \in Objects : x # m /\ \A h \in Handlers : x # used[h]
    /\ Mishaps \subseteq {"OVERLAP", "RESEND", "GHOST", "REPEAT", "STALE"}
    /\ NoShipment \notin Shipments /\ Nobody \notin Handlers

VARIABLES
    row,        \* shipments table, committed
    stock,      \* inventory_stock of the product, committed
    tally,      \* history: committed transactions per shipment and kind
    sent,       \* history: shipments some client has dispatched
    rowDraft, stockDraft,       \* the lock holders' versions
    shipLock, stockLock,        \* who holds each row lock
    heap,       \* per shipment, the objects of the mirror, past and present
    mirror,     \* per shipment, which of them the mirror has now
    snapshot,   \* what the running cache refresh has read
    refresher,  \* whose refresh is running
    placed,     \* whether it is done with this table
    fresh,      \* history: since a refresh last replaced the mirror, no
                \* request and no later refresh has failed
    pc, kind, target,
    object,     \* the mirror object a handler holds
    carry,      \* what the receiver reports, then what statements will write
    exists      \* DISPATCH: the handler found the shipment already there

tables == <<row, stock, tally>>
drafts == <<rowDraft, stockDraft>>
locks == <<shipLock, stockLock>>
cache == <<heap, mirror>>
refresh == <<snapshot, refresher, placed, fresh>>
request == <<kind, target, object, exists>>
vars == <<tables, sent, drafts, locks, cache, refresh, pc, request, carry>>

(* Definitions named ...Mutant are faulty variants of the definition that  *)
(* follows; nothing here uses them.                                        *)

Active(h) == pc[h] \notin {"idle", "ok", "error"}
Held(h) == heap[target[h]][object[h]]
From(h) == Route[target[h]].from
To(h) == Route[target[h]].to
Qty(h) == Route[target[h]].qty
AtLeastZero(n) == IF n < 0 THEN 0 ELSE n

-----------------------------------------------------------------------------
(* Objects of the mirror.  NewObject is one that neither the mirror nor a  *)
(* handler that may still use it refers to.                                *)

FirstObject == CHOOSE x \in Objects : TRUE
InUse(s) == {object[g] : g \in {f \in Handlers :
                target[f] = s /\ pc[f] \notin {"probe", "refresh"}}}
NewObject(s) == CHOOSE x \in Objects : x \notin InUse(s) \cup {mirror[s]}

Init ==
    /\ row = [s \in Shipments |-> Absent]
    /\ rowDraft = row
    /\ stock = [b \in Branches |-> [qoh |-> InitStock[b], incoming |-> 0]]
    /\ stockDraft = stock
    /\ tally = [s \in Shipments |-> [k \in Kinds |-> 0]]
    /\ sent = {}
    /\ shipLock = [s \in Shipments |-> Nobody]
    /\ stockLock = [b \in Branches |-> Nobody]
    /\ heap = [s \in Shipments |-> [x \in Objects |-> Absent]]
    /\ mirror = [s \in Shipments |-> FirstObject]
    /\ snapshot = row
    /\ refresher = Nobody
    /\ placed = FALSE
    /\ fresh = FALSE
    /\ pc = [h \in Handlers |-> "idle"]
    /\ kind = [h \in Handlers |-> "NONE"]
    /\ target = [h \in Handlers |-> NoShipment]
    /\ object = [h \in Handlers |-> FirstObject]
    /\ carry = [h \in Handlers |-> Absent]
    /\ exists = [h \in Handlers |-> FALSE]

-----------------------------------------------------------------------------
(* The start of a request: what clients send on a good day, and the check  *)
(* the handler makes on the mirror object before its first await.  A       *)
(* request that fails the check is answered 4xx: here it does not start.   *)

Expected(k, s) ==
    /\ "OVERLAP" \in Mishaps \/ \A g \in Handlers : Active(g) => target[g] # s
    /\ k = "DISPATCH" => "RESEND" \in Mishaps \/ s \notin sent
    /\ k # "DISPATCH" => "GHOST" \in Mishaps \/ row[s].status # "NONE"
    /\ k \in {"RECEIVE", "CANCEL"} =>
          "REPEAT" \in Mishaps \/ row[s].status \in {"NONE", "IN_TRANSIT"}

Admissible(k, mirrored) ==
    CASE k = "DISPATCH" -> TRUE
      [] k \in {"RECEIVE", "CANCEL"} -> mirrored \in {"IN_TRANSIT", "DISCREPANCY"}
      [] k = "UNDO" -> mirrored \in ReceiptDone

Begin(h, k, s) ==
    /\ pc[h] = "idle"
    /\ Expected(k, s)
    /\ Admissible(k, heap[s][mirror[s]].status)
    /\ pc' = [pc EXCEPT ![h] = CASE k = "DISPATCH" -> "probe"
                                 [] k = "RECEIVE" -> "dated"
                                 [] OTHER -> "claim"]
    /\ kind' = [kind EXCEPT ![h] = k]
    /\ target' = [target EXCEPT ![h] = s]
    /\ object' = [object EXCEPT ![h] = mirror[s]]
    /\ exists' = [exists EXCEPT ![h] = heap[s][mirror[s]].status # "NONE"]
    /\ sent' = IF k = "DISPATCH" THEN sent \cup {s} ELSE sent
    /\ \E r \in (IF k = "RECEIVE" THEN Receipts[s] ELSE {0}) :
          carry' = [carry EXCEPT ![h].received = r]
    /\ UNCHANGED <<tables, drafts, locks, cache, refresh>>

(* Dispatch: SELECT of the shipment outside the transaction; when it       *)
(* answers, the new shipment goes into the mirror.                         *)
Probe(h) ==
    LET s == target[h]
        x == NewObject(s)
    IN  /\ pc[h] = "probe"
        /\ exists' = [exists EXCEPT ![h] = @ \/ row[s].status # "NONE"]
        /\ heap' = [heap EXCEPT ![s][x] = InTransit]
        /\ mirror' = [mirror EXCEPT ![s] = x]
        /\ object' = [object EXCEPT ![h] = x]
        /\ pc' = [pc EXCEPT ![h] = "begin"]
        /\ UNCHANGED <<tables, sent, drafts, locks, refresh, kind, target, carry>>

(* Receive: after the await of the BS date the handler writes the receipt  *)
(* into the object it holds.                                               *)
Mark(h) ==
    LET r == carry[h].received
    IN  /\ pc[h] = "dated"
        /\ heap' = [heap EXCEPT ![target[h]][object[h]] =
                [status |-> IF r < Qty(h) THEN "DISCREPANCY" ELSE "RECEIVED",
                 received |-> r]]
        /\ pc' = [pc EXCEPT ![h] = "begin"]
        /\ UNCHANGED <<tables, sent, drafts, locks, mirror, refresh, request, carry>>

(* BEGIN has returned: the first statement is sent, with what the object   *)
(* says now.                                                               *)
Send(h) ==
    /\ pc[h] = "begin"
    /\ carry' = [carry EXCEPT ![h] = Held(h)]
    /\ pc' = [pc EXCEPT ![h] = "write"]
    /\ UNCHANGED <<tables, sent, drafts, locks, cache, refresh, request>>

-----------------------------------------------------------------------------
(* Statements.  Each waits for the lock of the row it changes.             *)

Free(lock, x, h) == lock[x] \in {Nobody, h}
ChangeShipment(h, rec) ==
    /\ Free(shipLock, target[h], h)
    /\ shipLock' = [shipLock EXCEPT ![target[h]] = h]
    /\ rowDraft' = [rowDraft EXCEPT ![target[h]] = rec]
ChangeStock(h, b, dq, di) ==
    /\ Free(stockLock, b, h)
    /\ stockLock' = [stockLock EXCEPT ![b] = h]
    /\ stockDraft' = [stockDraft EXCEPT
            ![b] = [qoh |-> @.qoh + dq, incoming |-> AtLeastZero(@.incoming + di)]]

(* Dispatch: INSERT ... ON CONFLICT DO UPDATE, then the guarded deduction  *)
(* at the source and the reservation at the destination, both only for a   *)
(* shipment that was not there.                                            *)
Upsert(h) ==
    /\ pc[h] = "write"
    /\ kind[h] = "DISPATCH"
    /\ ChangeShipment(h, carry[h])
    /\ pc' = [pc EXCEPT ![h] = IF exists[h] THEN "commit" ELSE "deduct"]
    /\ UNCHANGED <<tables, sent, stockDraft, stockLock, cache, refresh, request, carry>>

EnoughMutant(b, n) == TRUE
Enough(b, n) == stockDraft[b].qoh >= n

Deduct(h) ==
    /\ pc[h] = "deduct"
    /\ Enough(From(h), Qty(h))
    /\ ChangeStock(h, From(h), -Qty(h), 0)
    /\ pc' = [pc EXCEPT ![h] = "reserve"]
    /\ UNCHANGED <<tables, sent, rowDraft, shipLock, cache, refresh, request, carry>>

Reserve(h) ==
    /\ pc[h] = "reserve"
    /\ ChangeStock(h, To(h), 0, Qty(h))
    /\ pc' = [pc EXCEPT ![h] = "commit"]
    /\ UNCHANGED <<tables, sent, rowDraft, shipLock, cache, refresh, request, carry>>

(* Receive: an UPDATE by id that no status guards and that changes nothing *)
(* when there is no such row, then the upsert of the destination's stock   *)
(* with what the object says by then.                                      *)
Update(h) ==
    /\ pc[h] = "write"
    /\ kind[h] = "RECEIVE"
    /\ IF row[target[h]].status = "NONE"
       THEN UNCHANGED <<rowDraft, shipLock>>
       ELSE ChangeShipment(h, carry[h])
    /\ carry' = [carry EXCEPT ![h] = Held(h)]
    /\ pc' = [pc EXCEPT ![h] = "credit"]
    /\ UNCHANGED <<tables, sent, stockDraft, stockLock, cache, refresh, request>>

Credit(h) ==
    /\ pc[h] = "credit"
    /\ ChangeStock(h, To(h), carry[h].received, -carry[h].received)
    /\ pc' = [pc EXCEPT ![h] = "commit"]
    /\ UNCHANGED <<tables, sent, rowDraft, shipLock, cache, refresh, request, carry>>

(* Cancel and cancel-receive: SELECT ... FOR UPDATE, the status checked    *)
(* again in the locked row.                                                *)
ClaimableMutant(k, status) == status # "NONE"
Claimable(k, status) ==
    IF k = "CANCEL" THEN status \in {"IN_TRANSIT", "DISCREPANCY"}
                    ELSE status \in ReceiptDone

Claim(h) ==
    LET s == target[h]
    IN  /\ pc[h] = "claim"
        /\ Claimable(kind[h], row[s].status)
        /\ ChangeShipment(h, [row[s] EXCEPT !.status =
                IF kind[h] = "CANCEL" THEN "CANCELLED" ELSE "IN_TRANSIT"])
        /\ pc' = [pc EXCEPT ![h] = IF kind[h] = "CANCEL" THEN "restore" ELSE "undo"]
        /\ UNCHANGED <<tables, sent, stockDraft, stockLock, cache, refresh,
                       request, carry>>

Restore(h) ==
    /\ pc[h] = "restore"
    /\ ChangeStock(h, From(h), Qty(h), 0)
    /\ pc' = [pc EXCEPT ![h] = "release"]
    /\ UNCHANGED <<tables, sent, rowDraft, shipLock, cache, refresh, request, carry>>

Release(h) ==
    /\ pc[h] = "release"
    /\ ChangeStock(h, To(h), 0, -Qty(h))
    /\ pc' = [pc EXCEPT ![h] = "commit"]
    /\ UNCHANGED <<tables, sent, rowDraft, shipLock, cache, refresh, request, carry>>

(* Cancel-receive: the guarded UPDATE takes back what the locked row says  *)
(* was received; nothing is sent for a receipt of zero.                    *)
UndoMutant(h) ==
    LET received == rowDraft[target[h]].received
        r == IF received = 0 THEN Qty(h) ELSE received
    IN  /\ pc[h] = "undo"
        /\ Enough(To(h), r) /\ ChangeStock(h, To(h), -r, r)
        /\ pc' = [pc EXCEPT ![h] = "commit"]
        /\ UNCHANGED <<tables, sent, rowDraft, shipLock, cache, refresh,
                       request, carry>>
Undo(h) ==
    LET r == rowDraft[target[h]].received
    IN  /\ pc[h] = "undo"
        /\ IF r = 0 THEN UNCHANGED <<stockDraft, stockLock>>
           ELSE Enough(To(h), r) /\ ChangeStock(h, To(h), -r, r)
        /\ pc' = [pc EXCEPT ![h] = "commit"]
        /\ UNCHANGED <<tables, sent, rowDraft, shipLock, cache, refresh,
                       request, carry>>

-----------------------------------------------------------------------------
(* The end of the transaction.                                             *)

Freed(lock, h) == [x \in DOMAIN lock |-> IF lock[x] = h THEN Nobody ELSE lock[x]]
Overlay(base, top, lock, h) ==
    [x \in DOMAIN base |-> IF lock[x] = h THEN top[x] ELSE base[x]]
ReleaseLocks(h) == shipLock' = Freed(shipLock, h) /\ stockLock' = Freed(stockLock, h)
Forget(h) ==
    /\ kind' = [kind EXCEPT ![h] = "NONE"]
    /\ target' = [target EXCEPT ![h] = NoShipment]
    /\ object' = [object EXCEPT ![h] = FirstObject]
    /\ exists' = [exists EXCEPT ![h] = FALSE]
    /\ carry' = [carry EXCEPT ![h] = Absent]

(* COMMIT.  The handlers of cancel and cancel-receive then write the new   *)
(* status into the object they hold.                                       *)
Commit(h) ==
    LET s == target[h]
    IN  /\ pc[h] = "commit"
        /\ row' = Overlay(row, rowDraft, shipLock, h)
        /\ stock' = Overlay(stock, stockDraft, stockLock, h)
        /\ tally' = [tally EXCEPT ![s][kind[h]] = @ + 1]
        /\ ReleaseLocks(h)
        /\ heap' = CASE kind[h] = "CANCEL" ->
                            [heap EXCEPT ![s][object[h]].status = "CANCELLED"]
                     [] kind[h] = "UNDO" ->
                            [heap EXCEPT ![s][object[h]].status = "IN_TRANSIT"]
                     [] OTHER -> heap
        /\ pc' = [pc EXCEPT ![h] = "refresh"]
        /\ UNCHANGED <<sent, drafts, mirror, refresh, request, carry>>

(* ROLLBACK and a 500: the mirror keeps what the handler wrote into it, and*)
(* no refresh follows.                                                     *)
RollbackMutant(h) ==
    /\ ReleaseLocks(h)
    /\ pc' = [pc EXCEPT ![h] = "error"]
    /\ fresh' = FALSE
    /\ Forget(h)
    /\ UNCHANGED <<tables, drafts, sent, cache, snapshot, refresher, placed>>
Rollback(h) ==
    /\ rowDraft' = Overlay(rowDraft, row, shipLock, h)
    /\ stockDraft' = Overlay(stockDraft, stock, stockLock, h)
    /\ ReleaseLocks(h)
    /\ pc' = [pc EXCEPT ![h] = "error"]
    /\ fresh' = FALSE
    /\ Forget(h)
    /\ UNCHANGED <<tables, sent, cache, snapshot, refresher, placed>>

RefuseShort(h) == /\ pc[h] = "deduct"
                  /\ Free(stockLock, From(h), h)
                  /\ ~Enough(From(h), Qty(h))
                  /\ Rollback(h)
RefuseClaim(h) == /\ pc[h] = "claim"
                  /\ row[target[h]].status = "NONE" \/ Free(shipLock, target[h], h)
                  /\ ~Claimable(kind[h], row[target[h]].status)
                  /\ Rollback(h)
RefuseOverdraw(h) == /\ pc[h] = "undo"
                     /\ Free(stockLock, To(h), h)
                     /\ ~Enough(To(h), rowDraft[target[h]].received)
                     /\ Rollback(h)
(* The BS date is missing, the connection is lost, or the database picks   *)
(* the transaction to break a deadlock.                                    *)
Fail(h) == Active(h) /\ pc[h] # "refresh" /\ Rollback(h)

-----------------------------------------------------------------------------
(* The cache refresh of a successful answer.  refreshChain lets one run at *)
(* a time.  It reads the shipments and replaces the mirror's; other tables *)
(* follow, and only then is the answer sent.  Meanwhile other requests may *)
(* begin, write into the new mirror and fail.                              *)

StartRefresh(h) ==
    /\ pc[h] = "refresh"
    /\ refresher = Nobody
    /\ refresher' = h
    /\ placed' = FALSE
    /\ snapshot' = row
    /\ UNCHANGED <<tables, sent, drafts, locks, cache, fresh, pc, request, carry>>

Refreshing(h) == pc[h] = "refresh" /\ refresher = h /\ ~placed
Placed(success) ==
    /\ placed' = TRUE
    /\ fresh' = success
    /\ UNCHANGED <<tables, sent, drafts, locks, snapshot, refresher, pc, request, carry>>

(* Every object of the mirror is a new one; those no handler still uses    *)
(* are dropped.                                                            *)
ApplyRefreshMutant(h) ==
    LET s == target[h]
    IN  /\ Refreshing(h)
        /\ mirror' = [mirror EXCEPT ![s] = NewObject(s)]
        /\ heap' = [heap EXCEPT ![s][NewObject(s)] = snapshot[s]]
        /\ Placed(TRUE)
ApplyRefresh(h) ==
    /\ Refreshing(h)
    /\ mirror' = [s \in Shipments |-> NewObject(s)]
    /\ heap' = [s \in Shipments |-> [x \in Objects |->
                    CASE x = NewObject(s) -> snapshot[s]
                      [] x \in InUse(s) -> heap[s][x]
                      [] OTHER -> Absent]]
    /\ Placed(TRUE)

(* The refresh fails, altogether or for this table: the failure is         *)
(* swallowed.                                                              *)
SkipRefresh(h) ==
    /\ "STALE" \in Mishaps
    /\ Refreshing(h)
    /\ Placed(FALSE)
    /\ UNCHANGED cache

(* The refresh has ended: the answer is sent.                              *)
AnswerMutant(h) ==
    /\ pc[h] = "refresh"
    /\ refresher = h /\ placed
    /\ pc' = [pc EXCEPT ![h] = "ok"]
    /\ Forget(h)
    /\ UNCHANGED <<tables, sent, drafts, locks, cache, refresh>>
Answer(h) ==
    /\ pc[h] = "refresh"
    /\ refresher = h /\ placed
    /\ refresher' = Nobody
    /\ pc' = [pc EXCEPT ![h] = "ok"]
    /\ Forget(h)
    /\ UNCHANGED <<tables, sent, drafts, locks, cache, snapshot, placed, fresh>>

Step(h) ==
    \/ Probe(h) \/ Mark(h) \/ Send(h) \/ Upsert(h) \/ Deduct(h) \/ Reserve(h)
    \/ Update(h) \/ Credit(h) \/ Claim(h) \/ Restore(h) \/ Release(h) \/ Undo(h)
    \/ Commit(h) \/ RefuseShort(h) \/ RefuseClaim(h) \/ RefuseOverdraw(h)
    \/ StartRefresh(h) \/ ApplyRefresh(h) \/ SkipRefresh(h) \/ Answer(h)

Next ==
    \E h \in Handlers :
        \/ \E k \in Kinds, s \in Shipments : Begin(h, k, s)
        \/ Step(h)
        \/ Fail(h)

Spec == Init /\ [][Next]_vars

-----------------------------------------------------------------------------
(* Who a handler waits for, and sets of handlers none of which can move    *)
(* before another of the set does: PostgreSQL rolls a member back.         *)

WaitsFor(h) ==
    LET owner == CASE pc[h] \in {"write", "claim"} -> shipLock[target[h]]
                   [] pc[h] \in {"deduct", "restore"} -> stockLock[From(h)]
                   [] pc[h] \in {"reserve", "credit", "release", "undo"} ->
                          stockLock[To(h)]
                   [] OTHER -> Nobody
    IN  {owner} \ {Nobody, h}
Deadlocked(C) == C # {} /\ \A g \in C : WaitsFor(g) \cap C # {}
DeadlockVictim(h) ==
    Fail(h) /\ \E C \in SUBSET Handlers : h \in C /\ Deadlocked(C)

(* Fairness: a handler that can take its next step takes it (the event     *)
(* loop and the database keep running), and the database ends some member  *)
(* of every deadlock.  Other failures are never forced.                    *)
Fairness == \A h \in Handlers : WF_vars(Step(h)) /\ WF_vars(DeadlockVictim(h))
FairSpec == Spec /\ Fairness

-----------------------------------------------------------------------------
(* Properties.                                                             *)

PCs == {"idle", "probe", "dated", "begin", "write", "deduct", "reserve", "credit",
        "claim", "restore", "release", "undo", "commit", "refresh", "ok", "error"}

(* The types of the tables, the mirror and the handlers' states.           *)
TypeOK ==
    /\ row \in [Shipments -> Records]
    /\ rowDraft \in [Shipments -> Records]
    /\ stock \in [Branches -> [qoh : Int, incoming : Nat]]
    /\ stockDraft \in [Branches -> [qoh : Int, incoming : Nat]]
    /\ tally \in [Shipments -> [Kinds -> Nat]]
    /\ sent \subseteq Shipments
    /\ shipLock \in [Shipments -> Handlers \cup {Nobody}]
    /\ stockLock \in [Branches -> Handlers \cup {Nobody}]
    /\ heap \in [Shipments -> [Objects -> Records]]
    /\ mirror \in [Shipments -> Objects]
    /\ snapshot \in [Shipments -> Records]
    /\ refresher \in Handlers \cup {Nobody}
    /\ placed \in BOOLEAN
    /\ fresh \in BOOLEAN
    /\ pc \in [Handlers -> PCs]
    /\ kind \in [Handlers -> Kinds \cup {"NONE"}]
    /\ target \in [Handlers -> Shipments \cup {NoShipment}]
    /\ object \in [Handlers -> Objects]
    /\ carry \in [Handlers -> Records]
    /\ exists \in [Handlers -> BOOLEAN]

(* No branch is ever overdrawn, by competing dispatches or by undoing a    *)
(* receipt whose goods have since been sent on, whatever goes wrong.       *)
NoOverdraft == \A b \in Branches : stock[b].qoh >= 0

(* A receipt is undone at most once for each time the shipment was         *)
(* received, however receipts, cancellations and undos overlap or repeat:  *)
(* cancel-receive re-reads the status under the row lock.  (A dispatch     *)
(* sent twice can post the row as received: it writes what the mirror      *)
(* object says by then.)                                                   *)
UndoneOnlyIfReceived ==
    \A s \in Shipments : tally[s]["UNDO"] <= tally[s]["RECEIVE"]

(* When no request is open, the mirror says what the table says, unless    *)
(* the last refresh to touch it failed or a request has failed since it    *)
(* replaced it: no earlier snapshot, no write to an object by a request    *)
(* that failed before, and no commit during a refresh is left behind.      *)
QuietMirrorIsFresh ==
    fresh /\ (\A h \in Handlers : ~Active(h))
        => \A s \in Shipments : heap[s][mirror[s]] = row[s]

(* Every request that starts is answered.                                  *)
EveryRequestAnswered == \A h \in Handlers : Active(h) ~> ~Active(h)
=============================================================================
