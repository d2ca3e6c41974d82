----------------------------- MODULE Deployments -----------------------------
(***************************************************************************)
(* Units in the field: fixed assets deployed from stock, and devices on    *)
(* customers' records (post_assets, patch_status, post_customerDevices,    *)
(* patch_status2 and post_exchange of inventory.controller.ts).  Both take *)
(* units of one product from one branch's stock; a unit is a serial.       *)
(*                                                                         *)
(* What a handler decides before its transaction it reads in the mirror.   *)
(* A transaction is one step: it holds the lock of the stock row or of the *)
(* one device row it changes.  A successful request ends with a refresh of *)
(* the mirror; a request that fails leaves in the mirror what it wrote.    *)
(*                                                                         *)
(* A refresh reads its tables in one step, and in another puts the arrays  *)
(* in place and answers.  The code takes the tables one after the other,   *)
(* as Shipments does with its own; here a decision is about one unit, two  *)
(* requests on one unit meet only under "OVERLAP", and of a unit without   *)
(* an open request every read says the same (but for a device that a       *)
(* restock closes, which counts as before).                                *)
(***************************************************************************)
EXTENDS Integers, FiniteSets, FiniteSetsExt

CONSTANTS
    Assets, Units, Handlers,
    UnitOf,         \* per asset, the unit it is made of
    FromStock,      \* assets created by a deployment; others are registered
    InitStock,
    Requests,       \* the kinds of request clients send
    Mishaps,        \* "OVERLAP" two requests open on one unit,
                    \* "AGAIN"   an asset that came back is deployed again,
                    \* "BREAK"   the connection is lost after a transaction,
                    \* "MISS"    a refresh reads some of the tables, or none,
                    \* "SHELVED" a record that carries an asset's tag was
                    \*           posted again as being in stock
    NoTarget, Nobody

ASSUME DeploymentsAssumption ==
    /\ UnitOf \in [Assets -> Units] /\ FromStock \subseteq Assets
    /\ InitStock \in Nat
    /\ IsFiniteSet(Assets) /\ IsFiniteSet(Units)
    /\ Assets \cap Units = {} /\ NoTarget \notin Assets \cup Units
    /\ Units \cap {"NONE", "ASSIGNED", "ACTIVE", "IN_STOCK", "RENTAL",
                   "ROUTER_COLLECTED"} = {}
    /\ Nobody \notin Handlers
    /\ Mishaps \subseteq {"OVERLAP", "AGAIN", "BREAK", "MISS", "SHELVED"}

VARIABLES
    asset,      \* fixed_assets: status
    posted,     \* transaction_logs: <<asset, "OUT">> and <<asset, "BACK">>
    device,     \* customer_device_records: status
    count,      \* customer_records.assigned_devices_count, one customer
    stock,      \* quantity_on_hand
    serial,     \* serial_log: status
    swapped,    \* history: devices that came as replacements
    mirror,     \* the cached [asset, posted, device]
    snapshot,   \* what the running refresh has read
    refresher,  \* whose refresh is running
    pc, kind, target,
    arg,        \* what the request asks for
    seen        \* what the handler has read before its transaction

tables == <<asset, posted, device, count, stock, serial, swapped>>
refresh == <<snapshot, refresher>>
request == <<kind, target, arg, seen>>
vars == <<tables, mirror, refresh, pc, request>>

(* Definitions named ...Mutant are faulty variants of the definition that  *)
(* follows; nothing here uses them.                                        *)

Active(h) == pc[h] # "idle"
Assigned(st) == st \notin {"NONE", "IN_STOCK"}
Out(a) == <<a, "OUT">> \in posted /\ <<a, "BACK">> \notin posted
Rows == [asset |-> asset, posted |-> posted, device |-> device]

Empty == [asset |-> [a \in Assets |-> "NONE"], posted |-> {},
          device |-> [u \in Units |-> "NONE"]]

Init ==
    /\ asset = [a \in Assets |-> "NONE"]
    /\ posted = {}
    /\ device = [u \in Units |-> "NONE"]
    /\ count = 0
    /\ stock = InitStock
    /\ serial = [u \in Units |-> "IN_STOCK"]
    /\ swapped = {}
    /\ mirror = Empty
    /\ snapshot = Empty
    /\ refresher = Nobody
    /\ pc = [h \in Handlers |-> "idle"]
    /\ kind = [h \in Handlers |-> "NONE"]
    /\ target = [h \in Handlers |-> NoTarget]
    /\ arg = [h \in Handlers |-> "NONE"]
    /\ seen = [h \in Handlers |-> "NONE"]

-----------------------------------------------------------------------------
(* The start of a request, up to its first await.                          *)

Touches(t) == IF t \in Assets THEN {UnitOf[t]} ELSE {t}
Busy(u) == \E g \in Handlers : Active(g) /\ u \in Touches(target[g]) \cup {arg[g]}
Open(h, k, t, x, first) ==
    /\ pc[h] = "idle"
    /\ k \in Requests
    /\ "OVERLAP" \notin Mishaps => \A u \in Touches(t) \cup ({x} \cap Units) : ~Busy(u)
    /\ pc' = [pc EXCEPT ![h] = first]
    /\ kind' = [kind EXCEPT ![h] = k]
    /\ target' = [target EXCEPT ![h] = t]
    /\ arg' = [arg EXCEPT ![h] = x]
    /\ seen' = [seen EXCEPT ![h] = "NONE"]
    /\ UNCHANGED refresh
(* A write to the mirror before the first await.                           *)
Cached(field, t, st) == mirror' = [mirror EXCEPT ![field][t] = st]

(* A new asset, created deployed, and in the mirror from here on.  Nobody  *)
(* asks the register of serials: the form compares with what it loaded     *)
(* when it was opened and posts one serial for every unit of a line, so    *)
(* several assets may be made of one.                                      *)
StartDeploy(h, a) ==
    /\ a \in FromStock
    /\ asset[a] = "NONE" /\ \A g \in Handlers : target[g] # a
    /\ Open(h, "DEPLOY", a, "ASSIGNED", "deploy")
    /\ Cached("asset", a, "ASSIGNED")
    /\ UNCHANGED tables

(* An asset registered without touching stock.                             *)
StartRegister(h, a) ==
    /\ a \notin FromStock
    /\ asset[a] = "NONE" /\ \A g \in Handlers : target[g] # a
    /\ Open(h, "DEPLOY", a, "ACTIVE", "save")
    /\ Cached("asset", a, "ACTIVE")
    /\ UNCHANGED tables

(* shouldRestockOnUnassign: the ledger of the mirror shows that the unit   *)
(* left stock and has not come back.  An asset that the mirror no longer   *)
(* has in the field, after a request that failed, is only set.             *)
RestockDueMutant(a) == <<a, "BACK">> \notin mirror.posted
RestockDue(a) == <<a, "OUT">> \in mirror.posted /\ <<a, "BACK">> \notin mirror.posted
StartUnassign(h, a) ==
    /\ "ASSIGNED" \in {mirror.asset[a], asset[a]}
    /\ Open(h, "UNASSIGN", a, "ACTIVE",
            IF mirror.asset[a] = "ASSIGNED" /\ RestockDue(a) THEN "restock" ELSE "set")
    /\ Cached("asset", a, "ACTIVE")
    /\ UNCHANGED tables
(* The same handler, moving an asset that is not deployed into the field.  *)
StartReassign(h, a) ==
    /\ mirror.asset[a] = "ACTIVE"
    /\ "AGAIN" \notin Mishaps => a \notin FromStock
    /\ Open(h, "REASSIGN", a, "ASSIGNED", "set")
    /\ Cached("asset", a, "ASSIGNED")
    /\ UNCHANGED tables

(* A device record: a new one, with a customer as the forms post it, also  *)
(* for a unit that has just been deployed to that customer, or one posted  *)
(* again with its id.                                                      *)
StartAssign(h, u) ==
    /\ mirror.device[u] = "NONE"
    /\ Open(h, "ASSIGN", u, "RENTAL", "check")
    /\ UNCHANGED <<tables, mirror>>
StartRepost(h, u, st) ==
    /\ device[u] \in {"IN_STOCK", "RENTAL"} /\ u \notin swapped
    /\ Open(h, "REPOST", u, st, "check")
    /\ UNCHANGED <<tables, mirror>>
StartCollect(h, u) ==
    /\ device[u] = "RENTAL"
    /\ Open(h, "COLLECT", u, "ROUTER_COLLECTED", "collect")
    /\ IF mirror.device[u] = "NONE" THEN UNCHANGED mirror
       ELSE Cached("device", u, "ROUTER_COLLECTED")
    /\ UNCHANGED tables
StartExchange(h, u, v) ==
    /\ device[u] = "RENTAL" /\ device[v] = "NONE" /\ u # v
    /\ Open(h, "EXCHANGE", u, v, "look")
    /\ UNCHANGED <<tables, mirror>>

-----------------------------------------------------------------------------
(* The end of a request.                                                   *)

Finish(h) ==
    /\ pc' = [pc EXCEPT ![h] = "idle"]
    /\ kind' = [kind EXCEPT ![h] = "NONE"]
    /\ target' = [target EXCEPT ![h] = NoTarget]
    /\ arg' = [arg EXCEPT ![h] = "NONE"]
    /\ seen' = [seen EXCEPT ![h] = "NONE"]
Proceed(h, p) == pc' = [pc EXCEPT ![h] = p] /\ UNCHANGED <<request, refresh>>
(* A success: only the refresh that precedes the answer is left.           *)
Answer(h) ==
    /\ pc' = [pc EXCEPT ![h] = "refresh"]
    /\ kind' = [kind EXCEPT ![h] = "NONE"]
    /\ arg' = [arg EXCEPT ![h] = "NONE"]
    /\ seen' = [seen EXCEPT ![h] = "NONE"]
    /\ UNCHANGED <<target, refresh>>

(* An error answer: a refusal, a ROLLBACK, a connection lost.  No refresh. *)
Fail(h) ==
    /\ Active(h) /\ pc[h] # "refresh"
    /\ "BREAK" \notin Mishaps => pc[h] \notin {"save", "set"}
    /\ Finish(h)
    /\ UNCHANGED <<tables, mirror, refresh>>

StartRefresh(h) ==
    /\ pc[h] = "refresh" /\ refresher = Nobody
    /\ refresher' = h
    /\ snapshot' = Rows
    /\ UNCHANGED <<tables, mirror, pc, request>>
(* The arrays whose query failed keep what they had; a refresh that cannot *)
(* run at all keeps them all.  The answer is given either way.             *)
Loads == {"asset", "posted", "device"}
ApplyRefresh(h) ==
    /\ pc[h] = "refresh" /\ refresher = h
    /\ refresher' = Nobody
    /\ \E failed \in SUBSET Loads :
          /\ "MISS" \notin Mishaps => failed = {}
          /\ mirror' = [asset |-> IF "asset" \in failed THEN mirror.asset ELSE snapshot.asset,
                        posted |-> IF "posted" \in failed THEN mirror.posted ELSE snapshot.posted,
                        device |-> IF "device" \in failed THEN mirror.device ELSE snapshot.device]
    /\ snapshot' = Empty
    /\ Finish(h)
    /\ UNCHANGED tables

-----------------------------------------------------------------------------
(* Assets.                                                                 *)

(* The stock row is locked and read again; the serial is flipped if the    *)
(* register still has it in stock.                                         *)
DeployMutant(h) ==
    LET a == target[h]
    IN  /\ pc[h] = "deploy"
        /\ stock' = stock - 1
        /\ posted' = posted \cup {<<a, "OUT">>}
        /\ serial' = [serial EXCEPT ![UnitOf[a]] = "ASSIGNED"]
        /\ Proceed(h, "save")
        /\ UNCHANGED <<asset, device, count, swapped, mirror>>
Deploy(h) ==
    LET a == target[h]
    IN  /\ pc[h] = "deploy" /\ stock >= 1
        /\ stock' = stock - 1
        /\ posted' = posted \cup {<<a, "OUT">>}
        /\ serial' = [serial EXCEPT ![UnitOf[a]] = "ASSIGNED"]
        /\ Proceed(h, "save")
        /\ UNCHANGED <<asset, device, count, swapped, mirror>>
(* The ledger row goes into the mirror, the asset into its table.          *)
Save(h) ==
    LET a == target[h]
    IN  /\ pc[h] = "save"
        /\ asset' = [asset EXCEPT ![a] = arg[h]]
        /\ mirror' = IF a \in FromStock THEN [mirror EXCEPT !.posted = @ \cup {<<a, "OUT">>}]
                                        ELSE mirror
        /\ Answer(h)
        /\ UNCHANGED <<posted, device, count, stock, serial, swapped>>

(* Back to stock: the unit, its ledger row (ON CONFLICT DO NOTHING), its   *)
(* serial, and the device record whose notes carry the asset's tag, if any *)
(* does: it need not be under the asset's serial.                          *)
CloseTagged ==
    \/ device' = device
    \/ \E u \in Units :
          /\ \/ device[u] = "RENTAL"
             \/ "SHELVED" \in Mishaps /\ device[u] = "IN_STOCK"
          /\ device' = [device EXCEPT ![u] = "ROUTER_COLLECTED"]
RestockMutant(h) ==
    LET a == target[h]
    IN  /\ pc[h] = "restock"
        /\ stock' = stock + 1
        /\ posted' = posted \cup {<<a, "BACK">>}
        /\ serial' = [serial EXCEPT ![UnitOf[a]] = "IN_STOCK"]
        /\ CloseTagged
        /\ Proceed(h, "restock")
        /\ UNCHANGED <<asset, count, swapped, mirror>>
Restock(h) ==
    LET a == target[h]
    IN  /\ pc[h] = "restock"
        /\ stock' = stock + 1
        /\ posted' = posted \cup {<<a, "BACK">>}
        /\ serial' = [serial EXCEPT ![UnitOf[a]] = "IN_STOCK"]
        /\ CloseTagged
        /\ seen' = [seen EXCEPT ![h] = "BACK"]
        /\ pc' = [pc EXCEPT ![h] = "set"]
        /\ UNCHANGED <<asset, count, swapped, mirror, refresh, kind, target, arg>>
SetAssignment(h) ==
    LET a == target[h]
    IN  /\ pc[h] = "set"
        /\ asset' = IF asset[a] = "NONE" THEN asset ELSE [asset EXCEPT ![a] = arg[h]]
        /\ mirror' = IF seen[h] = "BACK"
                     THEN [mirror EXCEPT !.posted = @ \cup {<<a, "BACK">>}] ELSE mirror
        /\ Answer(h)
        /\ UNCHANGED <<posted, device, count, stock, serial, swapped>>

-----------------------------------------------------------------------------
(* Devices.                                                                *)

(* The duplicate check in the table, then the status of a record posted    *)
(* again, from the mirror if it is there.                                  *)
Check(h) ==
    LET u == target[h]
    IN  /\ pc[h] = "check"
        /\ kind[h] = "ASSIGN" => device[u] = "NONE"
        /\ seen' = [seen EXCEPT ![h] =
              IF kind[h] = "ASSIGN" THEN "NONE"
              ELSE IF mirror.device[u] # "NONE" THEN mirror.device[u] ELSE device[u]]
        /\ pc' = [pc EXCEPT ![h] = "assign"]
        /\ UNCHANGED <<tables, mirror, refresh, kind, target, arg>>

Delta(h) == (IF Assigned(arg[h]) THEN 1 ELSE 0) - (IF Assigned(seen[h]) THEN 1 ELSE 0)
AtLeastZero(n) == IF n < 0 THEN 0 ELSE n
(* The serial has one record (a unique index), and stock a unit to give.   *)
Admit(h) ==
    /\ kind[h] = "ASSIGN" => device[target[h]] = "NONE"
    /\ Delta(h) > 0 => stock >= 1
AssignMutant(h) ==
    LET u == target[h]
    IN  /\ pc[h] = "assign" /\ Admit(h)
        /\ stock' = stock - Delta(h)
        /\ device' = [device EXCEPT ![u] = arg[h]]
        /\ mirror' = [mirror EXCEPT !.device[u] = arg[h]]
        /\ Answer(h)
        /\ UNCHANGED <<asset, posted, count, serial, swapped>>
Assign(h) ==
    LET u == target[h]
    IN  /\ pc[h] = "assign" /\ Admit(h)
        /\ stock' = stock - Delta(h)
        /\ device' = [device EXCEPT ![u] = arg[h]]
        /\ count' = AtLeastZero(count + Delta(h))
        /\ mirror' = [mirror EXCEPT !.device[u] = arg[h]]
        /\ Answer(h)
        /\ UNCHANGED <<asset, posted, serial, swapped>>

(* One UPDATE by id, whatever the status was; stock stays as it is.        *)
Collect(h) ==
    LET u == target[h]
    IN  /\ pc[h] = "collect"
        /\ device' = IF device[u] = "NONE" THEN device
                     ELSE [device EXCEPT ![u] = "ROUTER_COLLECTED"]
        /\ Answer(h)
        /\ UNCHANGED <<asset, posted, count, stock, serial, swapped, mirror>>

(* The old record is read; both records go into the mirror at once.        *)
Look(h) ==
    /\ pc[h] = "look"
    /\ mirror' = [mirror EXCEPT !.device =
                    [@ EXCEPT ![target[h]] = "EXCHANGED", ![arg[h]] = "RENTAL"]]
    /\ Proceed(h, "exchange")
    /\ UNCHANGED tables
Exchange(h) ==
    /\ pc[h] = "exchange" /\ device[arg[h]] = "NONE"
    /\ device' = [device EXCEPT ![target[h]] = "EXCHANGED", ![arg[h]] = "RENTAL"]
    /\ swapped' = swapped \cup {arg[h]}
    /\ Answer(h)
    /\ UNCHANGED <<asset, posted, count, stock, serial, mirror>>

DeploymentStart(h) ==
    \/ \E a \in Assets :
          StartDeploy(h, a) \/ StartRegister(h, a) \/ StartUnassign(h, a) \/ StartReassign(h, a)
    \/ \E u \in Units :
          \/ StartAssign(h, u) \/ StartCollect(h, u)
          \/ \E st \in {"IN_STOCK", "RENTAL"} : StartRepost(h, u, st)
          \/ \E v \in Units : StartExchange(h, u, v)
DeploymentWork(h) ==
    \/ Deploy(h) \/ Save(h) \/ Restock(h) \/ SetAssignment(h)
    \/ Check(h) \/ Assign(h) \/ Collect(h) \/ Look(h) \/ Exchange(h)
    \/ Fail(h)

Next ==
    \E h \in Handlers :
        \/ DeploymentStart(h) \/ DeploymentWork(h)
        \/ StartRefresh(h) \/ ApplyRefresh(h)
Spec == Init /\ [][Next]_vars

-----------------------------------------------------------------------------
(* Properties.                                                             *)

Kinds == {"DEPLOY", "UNASSIGN", "REASSIGN", "ASSIGN", "REPOST", "COLLECT",
          "EXCHANGE"}
PCs == {"idle", "deploy", "save", "restock", "set", "check", "assign", "collect",
        "look", "exchange", "refresh"}
DeviceStatuses == {"NONE", "IN_STOCK", "RENTAL", "ROUTER_COLLECTED", "EXCHANGED"}
Cache == [asset : [Assets -> {"NONE", "ASSIGNED", "ACTIVE"}],
          posted : SUBSET (Assets \X {"OUT", "BACK"}),
          device : [Units -> DeviceStatuses]]

TableTypes ==
    /\ Rows \in Cache /\ mirror \in Cache /\ snapshot \in Cache
    /\ count \in Nat /\ stock \in Int
    /\ serial \in [Units -> {"IN_STOCK", "ASSIGNED"}]
    /\ swapped \subseteq Units
    /\ refresher \in Handlers \cup {Nobody}
    /\ seen \in [Handlers -> {"NONE", "BACK"} \cup DeviceStatuses]
Args == {"NONE", "ASSIGNED", "ACTIVE"} \cup DeviceStatuses \cup Units

(* Deployments and device records never take a unit that stock does not    *)
(* have: the mirror's figure, checked first, may be old, requests race for *)
(* the last unit and an audit may write a smaller one in between, so each  *)
(* deduction is guarded in its statement or under the lock of the row.     *)
NoNegativeStock == stock >= 0

Taken == {u \in Units : Assigned(device[u]) /\ u \notin swapped}
OutAssets == {a \in Assets : Out(a)}

(* The customer's device count is that of the records, for the same        *)
(* reasons (post_exchange and patch_status2 leave it alone).               *)
CountMatchesDevices == count = Cardinality(Taken)

(* An asset that its table shows in the field has its unit deducted, or a  *)
(* request on it is still open; one registered without stock never         *)
(* restocks a unit it did not take ("non-stock assets ... never            *)
(* double-restore", inventory.controller.ts).  A serial that the register  *)
(* has in the field belongs to an asset that is out.  The converse fails:  *)
(* of two assets of one serial the first to come back frees it.            *)
FieldAssetsAreOut ==
    /\ \A a \in Assets :
          /\ a \in FromStock /\ asset[a] = "ASSIGNED"
                => Out(a) \/ \E h \in Handlers : target[h] = a
          /\ <<a, "BACK">> \in posted => <<a, "OUT">> \in posted
    /\ \A u \in Units :
          serial[u] = "ASSIGNED" => \E a \in OutAssets : UnitOf[a] = u
=============================================================================
