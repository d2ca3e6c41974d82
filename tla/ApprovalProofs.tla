---------------------------- MODULE ApprovalProofs ----------------------------
(***************************************************************************)
(* Theorems about Deployments and Approvals together, for every set of     *)
(* assets, units, applications and handlers: the types, stock that never   *)
(* goes negative, applications that are executed at most once, assets in   *)
(* the field whose unit is deducted, and the counts that explain stock.    *)
(***************************************************************************)
EXTENDS Approvals, FiniteSetTheorems, TLAPS

(* What a handler works on at each point.                                  *)
Working(h) ==
    /\ pc[h] \in {"deploy", "restock", "save", "set"} =>
          target[h] \in Assets /\ arg[h] \in {"ASSIGNED", "ACTIVE"}
    /\ pc[h] \in {"check", "assign"} =>
          /\ target[h] \in Units /\ arg[h] \in {"IN_STOCK", "RENTAL"}
    /\ pc[h] = "assign" => seen[h] \in DeviceStatuses
    /\ pc[h] = "collect" => target[h] \in Units
    /\ pc[h] \in {"look", "exchange"} => target[h] \in Units /\ arg[h] \in Units
    /\ pc[h] \in {"submit", "decide", "reconcile", "withdraw"} => target[h] \in Applications
    /\ pc[h] = "decide" => arg[h] \in {"APPROVED", "CLOSED"}
    /\ pc[h] = "reconcile" => arg[h] = "APPROVED"
    /\ pc[h] = "withdraw" => arg[h] = "CLOSED"

AllPCs == PCs \cup ApprovalPCs
AllKinds == Kinds \cup ApprovalKinds \cup {"NONE"}
AllTargets == Assets \cup Units \cup Applications \cup {NoTarget}
AllArgs == Args \cup Verdicts
AssetTable == [Assets -> {"NONE", "ASSIGNED", "ACTIVE"}]
DeviceTable == [Units -> DeviceStatuses]
Ledger == SUBSET (Assets \X {"OUT", "BACK"})

RequestTypes ==
    /\ pc \in [Handlers -> AllPCs]
    /\ kind \in [Handlers -> AllKinds]
    /\ target \in [Handlers -> AllTargets]
    /\ arg \in [Handlers -> AllArgs]
    /\ seen \in [Handlers -> {"NONE", "BACK"} \cup DeviceStatuses]
    /\ \A h \in Handlers : Working(h)
StoreTypes ==
    /\ asset \in AssetTable /\ posted \in Ledger /\ device \in DeviceTable
    /\ count \in Nat /\ stock \in Nat
    /\ serial \in [Units -> {"IN_STOCK", "ASSIGNED"}]
    /\ swapped \subseteq Units
CacheTypes ==
    /\ mirror \in Cache /\ snapshot \in Cache
    /\ refresher \in Handlers \cup {Nobody}
DeskTypes ==
    /\ filed \in [Applications -> Verdicts] /\ desk \in [Applications -> Verdicts]
    /\ deskSnapshot \in [Applications -> Verdicts]
    /\ detailed \subseteq Audits
    /\ granted \in [Applications -> Nat]
    /\ adjusted \in Int
TypeInv == RequestTypes /\ StoreTypes /\ CacheTypes /\ DeskTypes

LEMMA RowsInCache == StoreTypes => Rows \in Cache
  BY DEF StoreTypes, Rows, Cache, AssetTable, DeviceTable, Ledger

LEMMA TypeInvImplies == TypeInv => ApprovalsTypeOK /\ NoNegativeStock
  BY RowsInCache
  DEF TypeInv, RequestTypes, StoreTypes, CacheTypes, DeskTypes, ApprovalsTypeOK, TableTypes,
      NoNegativeStock, AllPCs, AllKinds, AllTargets, AllArgs

-----------------------------------------------------------------------------
(* Opening, moving on and ending a request.                                *)

LEMMA OpenTypes ==
    ASSUME TypeInv, NEW h \in Handlers, NEW k \in AllKinds, NEW t \in AllTargets,
           NEW x \in AllArgs, NEW first \in AllPCs, Open(h, k, t, x, first),
           \/ first \in {"deploy", "restock", "save", "set"} /\ t \in Assets
                 /\ x \in {"ASSIGNED", "ACTIVE"}
           \/ first = "check" /\ t \in Units /\ x \in {"IN_STOCK", "RENTAL"}
           \/ first = "collect" /\ t \in Units
           \/ first = "look" /\ t \in Units /\ x \in Units
           \/ first = "submit" /\ t \in Applications
           \/ first = "decide" /\ t \in Applications /\ x \in {"APPROVED", "CLOSED"}
           \/ first = "reconcile" /\ t \in Applications /\ x = "APPROVED"
           \/ first = "withdraw" /\ t \in Applications /\ x = "CLOSED"
    PROVE  RequestTypes' /\ UNCHANGED refresh
<1>1. /\ pc' \in [Handlers -> AllPCs]
      /\ kind' \in [Handlers -> AllKinds]
      /\ target' \in [Handlers -> AllTargets]
      /\ arg' \in [Handlers -> AllArgs]
      /\ seen' \in [Handlers -> {"NONE", "BACK"} \cup DeviceStatuses]
  BY DEF Open, TypeInv, RequestTypes
<1>2. ASSUME NEW g \in Handlers PROVE Working(g)'
  <2>1. CASE g = h
    BY <2>1 DEF Open, TypeInv, RequestTypes, Working
  <2>2. CASE g # h
    BY <2>2 DEF Open, TypeInv, RequestTypes, Working
  <2>. QED
    BY <2>1, <2>2
<1>. QED
  BY <1>1, <1>2 DEF RequestTypes, Open

LEMMA FinishTypes ==
    ASSUME TypeInv, NEW h \in Handlers, Finish(h) PROVE RequestTypes'
<1>1. /\ pc' \in [Handlers -> AllPCs]
      /\ kind' \in [Handlers -> AllKinds]
      /\ target' \in [Handlers -> AllTargets]
      /\ arg' \in [Handlers -> AllArgs]
      /\ seen' \in [Handlers -> {"NONE", "BACK"} \cup DeviceStatuses]
  BY DEF Finish, TypeInv, RequestTypes, AllPCs, PCs, AllKinds, AllTargets, AllArgs, Args
<1>2. ASSUME NEW g \in Handlers PROVE Working(g)'
  BY DEF Finish, TypeInv, RequestTypes, Working
<1>. QED
  BY <1>1, <1>2 DEF RequestTypes

LEMMA AnswerTypes ==
    ASSUME TypeInv, NEW h \in Handlers, Answer(h) PROVE RequestTypes' /\ UNCHANGED refresh
<1>1. /\ pc' \in [Handlers -> AllPCs]
      /\ kind' \in [Handlers -> AllKinds]
      /\ target' \in [Handlers -> AllTargets]
      /\ arg' \in [Handlers -> AllArgs]
      /\ seen' \in [Handlers -> {"NONE", "BACK"} \cup DeviceStatuses]
  BY DEF Answer, TypeInv, RequestTypes, AllPCs, PCs, AllKinds, AllTargets, AllArgs, Args
<1>2. ASSUME NEW g \in Handlers PROVE Working(g)'
  BY DEF Answer, TypeInv, RequestTypes, Working
<1>. QED
  BY <1>1, <1>2 DEF RequestTypes, Answer

LEMMA ProceedTypes ==
    ASSUME TypeInv, NEW h \in Handlers, NEW p, Proceed(h, p),
           \/ pc[h] = "deploy" /\ p = "save"
           \/ pc[h] = "look" /\ p = "exchange"
    PROVE  RequestTypes' /\ UNCHANGED refresh
<1>1. pc' \in [Handlers -> AllPCs] /\ UNCHANGED request
  BY DEF Proceed, TypeInv, RequestTypes, AllPCs, PCs
<1>2. ASSUME NEW g \in Handlers PROVE Working(g)'
  BY DEF Proceed, TypeInv, RequestTypes, Working, request
<1>. QED
  BY <1>1, <1>2 DEF RequestTypes, Proceed, TypeInv, request

LEMMA SameStore == StoreTypes /\ UNCHANGED tables => StoreTypes'
  BY DEF StoreTypes, tables
LEMMA SameDesk == DeskTypes /\ UNCHANGED registry => DeskTypes'
  BY DEF DeskTypes, registry
LEMMA SameCache == CacheTypes /\ UNCHANGED <<mirror, refresh>> => CacheTypes'
  BY DEF CacheTypes, refresh

(* Writes to the mirror.                                                   *)
LEMMA MirrorParts ==
    ASSUME NEW m \in Cache
    PROVE  m.asset \in AssetTable /\ m.posted \in Ledger /\ m.device \in DeviceTable
  BY DEF Cache, AssetTable, Ledger, DeviceTable

LEMMA MirrorDevice ==
    ASSUME NEW m \in Cache, NEW d \in DeviceTable
    PROVE  [m EXCEPT !.device = d] \in Cache
  BY DEF Cache, DeviceTable

LEMMA MirrorPosted ==
    ASSUME NEW m \in Cache, NEW l \in Ledger
    PROVE  [m EXCEPT !.posted = l] \in Cache
  BY DEF Cache, Ledger

LEMMA CachedAsset ==
    ASSUME CacheTypes, NEW a, NEW st \in {"ASSIGNED", "ACTIVE"}, Cached("asset", a, st),
           UNCHANGED refresh
    PROVE  CacheTypes'
<1>1. mirror' = [mirror EXCEPT !["asset"][a] = st]
  BY DEF Cached
<1>2. mirror' = [mirror EXCEPT !.asset = [mirror.asset EXCEPT ![a] = st]]
  BY <1>1 DEF CacheTypes, Cache
<1>3. [mirror.asset EXCEPT ![a] = st] \in [Assets -> {"NONE", "ASSIGNED", "ACTIVE"}]
  BY DEF CacheTypes, Cache
<1>4. mirror' \in Cache
  BY <1>2, <1>3 DEF CacheTypes, Cache
<1>. QED
  BY <1>4 DEF CacheTypes, refresh

LEMMA CachedDevice ==
    ASSUME CacheTypes, NEW u, NEW st \in DeviceStatuses,
           mirror' = [mirror EXCEPT !.device = [mirror.device EXCEPT ![u] = st]],
           UNCHANGED refresh
    PROVE  CacheTypes'
<1>1. [mirror.device EXCEPT ![u] = st] \in DeviceTable
  BY DEF CacheTypes, Cache, DeviceTable
<1>2. mirror' \in Cache
  BY <1>1, MirrorDevice DEF CacheTypes
<1>. QED
  BY <1>2 DEF CacheTypes, refresh

-----------------------------------------------------------------------------
(* The start of requests about assets and devices.                         *)

LEMMA PCsTyped ==
    /\ {"deploy", "restock", "save", "set", "check", "collect", "look"} \subseteq AllPCs
    /\ {"submit", "decide", "reconcile", "withdraw"} \subseteq AllPCs
    /\ {"DEPLOY", "UNASSIGN", "REASSIGN", "ASSIGN", "REPOST", "COLLECT", "EXCHANGE"}
           \subseteq AllKinds
    /\ {"SUBMIT", "DECIDE", "WITHDRAW"} \subseteq AllKinds
    /\ {"NONE", "ASSIGNED", "ACTIVE", "IN_STOCK", "RENTAL", "ROUTER_COLLECTED",
        "APPROVED", "CLOSED"} \subseteq AllArgs
    /\ Units \subseteq AllArgs
    /\ Assets \cup Units \cup Applications \subseteq AllTargets
  BY DEF AllPCs, PCs, ApprovalPCs, AllKinds, Kinds, ApprovalKinds, AllArgs, Args,
         DeviceStatuses, Verdicts, AllTargets

LEMMA AssetStartTypes ==
    ASSUME TypeInv, NEW h \in Handlers, NEW a \in Assets,
           NEW k \in {"DEPLOY", "UNASSIGN", "REASSIGN"}, NEW st \in {"ASSIGNED", "ACTIVE"},
           NEW first \in {"deploy", "restock", "save", "set"},
           Open(h, k, a, st, first), Cached("asset", a, st), UNCHANGED tables,
           UNCHANGED registry
    PROVE  TypeInv'
<1>1. a \in AllTargets /\ k \in AllKinds /\ st \in AllArgs /\ first \in AllPCs
  BY PCsTyped
<1>2. RequestTypes' /\ UNCHANGED refresh
  BY <1>1, OpenTypes
<1>3. CacheTypes'
  BY <1>2, CachedAsset DEF TypeInv
<1>. QED
  BY <1>2, <1>3, SameStore, SameDesk DEF TypeInv

LEMMA DeviceStartTypes ==
    ASSUME TypeInv, NEW h \in Handlers, NEW u \in Units,
           UNCHANGED tables, UNCHANGED registry,
           \/ StartAssign(h, u) \/ StartCollect(h, u)
           \/ \E st \in {"IN_STOCK", "RENTAL"} : StartRepost(h, u, st)
           \/ \E v \in Units : StartExchange(h, u, v)
    PROVE  TypeInv'
<1>1. u \in AllTargets
  BY PCsTyped
<1>2. CASE StartAssign(h, u)
  <2>1. Open(h, "ASSIGN", u, "RENTAL", "check") /\ UNCHANGED mirror
    BY <1>2 DEF StartAssign
  <2>2. RequestTypes' /\ UNCHANGED refresh
    BY <1>1, <2>1, PCsTyped, OpenTypes
  <2>. QED
    BY <2>1, <2>2, SameStore, SameDesk, SameCache DEF TypeInv
<1>3. ASSUME NEW st \in {"IN_STOCK", "RENTAL"}, StartRepost(h, u, st) PROVE TypeInv'
  <2>1. Open(h, "REPOST", u, st, "check") /\ UNCHANGED mirror
    BY <1>3 DEF StartRepost
  <2>2. RequestTypes' /\ UNCHANGED refresh
    BY <1>1, <2>1, PCsTyped, OpenTypes
  <2>. QED
    BY <2>1, <2>2, SameStore, SameDesk, SameCache DEF TypeInv
<1>4. CASE StartCollect(h, u)
  <2>1. Open(h, "COLLECT", u, "ROUTER_COLLECTED", "collect")
    BY <1>4 DEF StartCollect
  <2>2. RequestTypes' /\ UNCHANGED refresh
    BY <1>1, <2>1, PCsTyped, OpenTypes
  <2>3. CacheTypes'
    <3>1. CASE UNCHANGED mirror
      BY <2>2, <3>1, SameCache DEF TypeInv
    <3>2. CASE Cached("device", u, "ROUTER_COLLECTED")
      <4>1. mirror' = [mirror EXCEPT !.device =
                          [mirror.device EXCEPT ![u] = "ROUTER_COLLECTED"]]
        BY <3>2 DEF Cached, TypeInv, CacheTypes, Cache
      <4>. QED
        BY <2>2, <4>1, CachedDevice DEF TypeInv, DeviceStatuses
    <3>. QED
      BY <1>4, <3>1, <3>2 DEF StartCollect
  <2>. QED
    BY <2>2, <2>3, SameStore, SameDesk DEF TypeInv
<1>5. ASSUME NEW v \in Units, StartExchange(h, u, v) PROVE TypeInv'
  <2>1. Open(h, "EXCHANGE", u, v, "look") /\ UNCHANGED mirror
    BY <1>5 DEF StartExchange
  <2>2. RequestTypes' /\ UNCHANGED refresh
    BY <1>1, <2>1, PCsTyped, OpenTypes
  <2>. QED
    BY <2>1, <2>2, SameStore, SameDesk, SameCache DEF TypeInv
<1>. QED
  BY <1>2, <1>3, <1>4, <1>5

LEMMA DeploymentStartTypes ==
    ASSUME TypeInv, NEW h \in Handlers, UndisturbedStart(h) PROVE TypeInv'
<1>1. DeploymentStart(h) /\ UNCHANGED registry
  BY DEF UndisturbedStart
<1>2. ASSUME NEW a \in Assets, StartDeploy(h, a) PROVE TypeInv'
  BY <1>1, <1>2, AssetStartTypes DEF StartDeploy
<1>3. ASSUME NEW a \in Assets, StartRegister(h, a) PROVE TypeInv'
  BY <1>1, <1>3, AssetStartTypes DEF StartRegister
<1>4. ASSUME NEW a \in Assets, StartUnassign(h, a) PROVE TypeInv'
  <2>1. PICK first \in {"restock", "set"} : Open(h, "UNASSIGN", a, "ACTIVE", first)
    BY <1>4 DEF StartUnassign
  <2>. QED
    BY <1>1, <1>4, <2>1, AssetStartTypes DEF StartUnassign
<1>5. ASSUME NEW a \in Assets, StartReassign(h, a) PROVE TypeInv'
  BY <1>1, <1>5, AssetStartTypes DEF StartReassign
<1>6. ASSUME NEW u \in Units,
             \/ StartAssign(h, u) \/ StartCollect(h, u)
             \/ \E st \in {"IN_STOCK", "RENTAL"} : StartRepost(h, u, st)
             \/ \E v \in Units : StartExchange(h, u, v)
      PROVE  TypeInv'
  <2>1. UNCHANGED tables
    BY <1>6 DEF StartAssign, StartCollect, StartRepost, StartExchange
  <2>. QED
    BY <1>1, <1>6, <2>1, DeviceStartTypes
<1>. QED
  BY <1>1, <1>2, <1>3, <1>4, <1>5, <1>6 DEF DeploymentStart

-----------------------------------------------------------------------------
(* The transactions of assets and devices.                                 *)

LEMMA CachePosted ==
    ASSUME CacheTypes, NEW r \in Assets \X {"OUT", "BACK"},
           mirror' = [mirror EXCEPT !.posted = mirror.posted \cup {r}], UNCHANGED refresh
    PROVE  CacheTypes'
<1>1. mirror.posted \cup {r} \in Ledger
  BY DEF CacheTypes, Cache, Ledger
<1>2. mirror' \in Cache
  BY <1>1, MirrorPosted DEF CacheTypes
<1>. QED
  BY <1>2 DEF CacheTypes, refresh

LEMMA DeployTypes ==
    ASSUME TypeInv, NEW h \in Handlers, Deploy(h), UNCHANGED registry PROVE TypeInv'
<1>1. target[h] \in Assets /\ UnitOf[target[h]] \in Units
  BY DeploymentsAssumption DEF Deploy, TypeInv, RequestTypes, Working
<1>2. RequestTypes' /\ UNCHANGED refresh
  BY ProceedTypes DEF Deploy
<1>3. StoreTypes'
  <2>1. stock' \in Nat
    BY DEF Deploy, TypeInv, StoreTypes
  <2>2. posted' \in Ledger
    BY <1>1 DEF Deploy, TypeInv, StoreTypes, Ledger
  <2>3. serial' \in [Units -> {"IN_STOCK", "ASSIGNED"}]
    BY DEF Deploy, TypeInv, StoreTypes
  <2>. QED
    BY <2>1, <2>2, <2>3 DEF Deploy, TypeInv, StoreTypes
<1>4. UNCHANGED mirror
  BY DEF Deploy
<1>. QED
  BY <1>2, <1>3, <1>4, SameCache, SameDesk DEF TypeInv

LEMMA SaveTypes ==
    ASSUME TypeInv, NEW h \in Handlers, Save(h), UNCHANGED registry PROVE TypeInv'
<1>1. target[h] \in Assets /\ arg[h] \in {"ASSIGNED", "ACTIVE"}
  BY DEF Save, TypeInv, RequestTypes, Working
<1>2. RequestTypes' /\ UNCHANGED refresh
  BY AnswerTypes DEF Save
<1>3. StoreTypes'
  BY <1>1 DEF Save, TypeInv, StoreTypes, AssetTable
<1>4. CacheTypes'
  <2>1. <<target[h], "OUT">> \in Assets \X {"OUT", "BACK"}
    BY <1>1
  <2>2. \/ UNCHANGED mirror
        \/ mirror' = [mirror EXCEPT !.posted = mirror.posted \cup {<<target[h], "OUT">>}]
    BY DEF Save
  <2>. QED
    BY <1>2, <2>1, <2>2, SameCache, CachePosted DEF TypeInv
<1>. QED
  BY <1>2, <1>3, <1>4, SameDesk DEF TypeInv

LEMMA RestockTypes ==
    ASSUME TypeInv, NEW h \in Handlers, Restock(h), UNCHANGED registry PROVE TypeInv'
<1>1. /\ target[h] \in Assets /\ UnitOf[target[h]] \in Units
      /\ arg[h] \in {"ASSIGNED", "ACTIVE"}
  BY DeploymentsAssumption DEF Restock, TypeInv, RequestTypes, Working
<1>2. RequestTypes'
  <2>1. pc' \in [Handlers -> AllPCs]
    BY DEF Restock, TypeInv, RequestTypes, AllPCs, PCs
  <2>2. seen' \in [Handlers -> {"NONE", "BACK"} \cup DeviceStatuses]
    BY DEF Restock, TypeInv, RequestTypes
  <2>3. ASSUME NEW g \in Handlers PROVE Working(g)'
    BY <1>1 DEF Restock, TypeInv, RequestTypes, Working
  <2>. QED
    BY <2>1, <2>2, <2>3 DEF Restock, TypeInv, RequestTypes
<1>3. StoreTypes'
  <2>1. stock' \in Nat
    BY DEF Restock, TypeInv, StoreTypes
  <2>2. posted' \in Ledger
    BY <1>1 DEF Restock, TypeInv, StoreTypes, Ledger
  <2>3. serial' \in [Units -> {"IN_STOCK", "ASSIGNED"}]
    BY DEF Restock, TypeInv, StoreTypes
  <2>4. device' \in DeviceTable
    BY DEF Restock, CloseTagged, TypeInv, StoreTypes, DeviceTable, DeviceStatuses
  <2>. QED
    BY <2>1, <2>2, <2>3, <2>4 DEF Restock, TypeInv, StoreTypes
<1>4. UNCHANGED <<mirror, refresh>>
  BY DEF Restock
<1>. QED
  BY <1>2, <1>3, <1>4, SameCache, SameDesk DEF TypeInv

LEMMA SetTypes ==
    ASSUME TypeInv, NEW h \in Handlers, SetAssignment(h), UNCHANGED registry PROVE TypeInv'
<1>1. target[h] \in Assets /\ arg[h] \in {"ASSIGNED", "ACTIVE"}
  BY DEF SetAssignment, TypeInv, RequestTypes, Working
<1>2. RequestTypes' /\ UNCHANGED refresh
  BY AnswerTypes DEF SetAssignment
<1>3. StoreTypes'
  BY <1>1 DEF SetAssignment, TypeInv, StoreTypes, AssetTable
<1>4. CacheTypes'
  <2>1. <<target[h], "BACK">> \in Assets \X {"OUT", "BACK"}
    BY <1>1
  <2>2. \/ UNCHANGED mirror
        \/ mirror' = [mirror EXCEPT !.posted = mirror.posted \cup {<<target[h], "BACK">>}]
    BY DEF SetAssignment
  <2>. QED
    BY <1>2, <2>1, <2>2, SameCache, CachePosted DEF TypeInv
<1>. QED
  BY <1>2, <1>3, <1>4, SameDesk DEF TypeInv

LEMMA CheckTypes ==
    ASSUME TypeInv, NEW h \in Handlers, Check(h), UNCHANGED registry PROVE TypeInv'
<1>. DEFINE st == IF kind[h] = "ASSIGN" THEN "NONE"
                  ELSE IF mirror.device[target[h]] # "NONE" THEN mirror.device[target[h]]
                  ELSE device[target[h]]
<1>1. target[h] \in Units /\ arg[h] \in {"IN_STOCK", "RENTAL"}
  BY DEF Check, TypeInv, RequestTypes, Working
<1>2. st \in DeviceStatuses
  <2>1. mirror.device[target[h]] \in DeviceStatuses /\ device[target[h]] \in DeviceStatuses
    BY <1>1 DEF TypeInv, CacheTypes, StoreTypes, Cache, DeviceTable
  <2>2. "NONE" \in DeviceStatuses
    BY DEF DeviceStatuses
  <2>. QED
    BY <2>1, <2>2
<1>3. seen' = [seen EXCEPT ![h] = st] /\ pc' = [pc EXCEPT ![h] = "assign"]
  BY DEF Check
<1>. HIDE DEF st
<1>4. RequestTypes'
  <2>1. /\ pc' \in [Handlers -> AllPCs]
        /\ seen' \in [Handlers -> {"NONE", "BACK"} \cup DeviceStatuses]
    BY <1>2, <1>3 DEF TypeInv, RequestTypes, AllPCs, PCs
  <2>2. UNCHANGED <<kind, target, arg>>
    BY DEF Check
  <2>3. ASSUME NEW g \in Handlers PROVE Working(g)'
    BY <1>1, <1>2, <1>3, <2>2 DEF TypeInv, RequestTypes, Working
  <2>. QED
    BY <2>1, <2>2, <2>3 DEF TypeInv, RequestTypes
<1>5. UNCHANGED <<tables, mirror, refresh>>
  BY DEF Check
<1>. QED
  BY <1>4, <1>5, SameStore, SameCache, SameDesk DEF TypeInv

(* What a device record takes from stock or gives back is one unit at most,*)
(* and a unit is taken only where there is one.                            *)
LEMMA AssignTypes ==
    ASSUME TypeInv, NEW h \in Handlers, Assign(h), UNCHANGED registry PROVE TypeInv'
<1>1. target[h] \in Units /\ arg[h] \in {"IN_STOCK", "RENTAL"}
  BY DEF Assign, TypeInv, RequestTypes, Working
<1>2. arg[h] \in DeviceStatuses
  BY <1>1 DEF DeviceStatuses
<1>3. RequestTypes' /\ UNCHANGED refresh
  BY AnswerTypes DEF Assign
<1>4. Delta(h) \in {-1, 0, 1}
  BY DEF Delta
<1>5. StoreTypes'
  <2>1. stock' \in Nat
    BY <1>4 DEF Assign, Admit, TypeInv, StoreTypes
  <2>2. count' \in Nat
    BY <1>4 DEF Assign, AtLeastZero, TypeInv, StoreTypes
  <2>3. device' \in DeviceTable
    BY <1>2 DEF Assign, TypeInv, StoreTypes, DeviceTable
  <2>. QED
    BY <2>1, <2>2, <2>3 DEF Assign, TypeInv, StoreTypes
<1>6. CacheTypes'
  <2>1. mirror' = [mirror EXCEPT !.device = [mirror.device EXCEPT ![target[h]] = arg[h]]]
    BY DEF Assign, TypeInv, CacheTypes, Cache
  <2>. QED
    BY <1>2, <1>3, <2>1, CachedDevice DEF TypeInv
<1>. QED
  BY <1>3, <1>5, <1>6, SameDesk DEF TypeInv

LEMMA CollectTypes ==
    ASSUME TypeInv, NEW h \in Handlers, Collect(h), UNCHANGED registry PROVE TypeInv'
<1>1. RequestTypes' /\ UNCHANGED refresh
  BY AnswerTypes DEF Collect
<1>2. StoreTypes'
  BY DEF Collect, TypeInv, StoreTypes, DeviceTable, DeviceStatuses
<1>3. UNCHANGED mirror
  BY DEF Collect
<1>. QED
  BY <1>1, <1>2, <1>3, SameCache, SameDesk DEF TypeInv

LEMMA SwappedTypes ==
    ASSUME NEW d \in DeviceTable, NEW u, NEW v
    PROVE  [d EXCEPT ![u] = "EXCHANGED", ![v] = "RENTAL"] \in DeviceTable
  BY DEF DeviceTable, DeviceStatuses

LEMMA LookTypes ==
    ASSUME TypeInv, NEW h \in Handlers, Look(h), UNCHANGED registry PROVE TypeInv'
<1>1. RequestTypes' /\ UNCHANGED refresh
  BY ProceedTypes DEF Look
<1>2. CacheTypes'
  <2>1. mirror.device \in DeviceTable
    BY DEF TypeInv, CacheTypes, Cache, DeviceTable
  <2>2. mirror' = [mirror EXCEPT !.device =
            [mirror.device EXCEPT ![target[h]] = "EXCHANGED", ![arg[h]] = "RENTAL"]]
    BY DEF Look
  <2>3. mirror' \in Cache
    BY <2>1, <2>2, SwappedTypes, MirrorDevice DEF TypeInv, CacheTypes
  <2>. QED
    BY <1>1, <2>3 DEF TypeInv, CacheTypes, refresh
<1>3. UNCHANGED tables
  BY DEF Look
<1>. QED
  BY <1>1, <1>2, <1>3, SameStore, SameDesk DEF TypeInv

LEMMA ExchangeTypes ==
    ASSUME TypeInv, NEW h \in Handlers, Exchange(h), UNCHANGED registry PROVE TypeInv'
<1>1. arg[h] \in Units
  BY DEF Exchange, TypeInv, RequestTypes, Working
<1>2. RequestTypes' /\ UNCHANGED refresh
  BY AnswerTypes DEF Exchange
<1>3. StoreTypes'
  <2>1. device' \in DeviceTable
    BY SwappedTypes DEF Exchange, TypeInv, StoreTypes
  <2>2. swapped' \subseteq Units
    BY <1>1 DEF Exchange, TypeInv, StoreTypes
  <2>. QED
    BY <2>1, <2>2 DEF Exchange, TypeInv, StoreTypes
<1>4. UNCHANGED mirror
  BY DEF Exchange
<1>. QED
  BY <1>2, <1>3, <1>4, SameCache, SameDesk DEF TypeInv

LEMMA WorkTypes ==
    ASSUME TypeInv, NEW h \in Handlers, DeploymentWork(h), UNCHANGED registry PROVE TypeInv'
<1>1. CASE Fail(h)
  BY <1>1, FinishTypes, SameStore, SameCache, SameDesk DEF Fail, TypeInv
<1>. QED
  BY <1>1, DeployTypes, SaveTypes, RestockTypes, SetTypes, CheckTypes, AssignTypes,
     CollectTypes, LookTypes, ExchangeTypes DEF DeploymentWork

-----------------------------------------------------------------------------
(* Approval requests.                                                      *)

LEMMA ApprovalStartTypes ==
    ASSUME TypeInv, NEW h \in Handlers, ApprovalStart(h) PROVE TypeInv'
<1>1. ASSUME NEW r \in Applications, NEW k, NEW x, NEW first,
             Open(h, k, r, x, first),
             k \in {"SUBMIT", "DECIDE", "WITHDRAW"},
             \/ first = "submit" /\ x = "NONE"
             \/ first = "decide" /\ x \in {"APPROVED", "CLOSED"}
             \/ first = "reconcile" /\ x = "APPROVED"
             \/ first = "withdraw" /\ x = "CLOSED",
             UNCHANGED <<tables, mirror>>
      PROVE  (RequestTypes /\ StoreTypes /\ CacheTypes)'
  <2>1. r \in AllTargets /\ k \in AllKinds /\ x \in AllArgs /\ first \in AllPCs
    BY <1>1, PCsTyped
  <2>2. RequestTypes' /\ UNCHANGED refresh
    BY <1>1, <2>1, OpenTypes
  <2>. QED
    BY <1>1, <2>2, SameStore, SameCache DEF TypeInv
<1>2. ASSUME NEW r \in Applications, StartSubmit(h, r) PROVE TypeInv'
  <2>1. (RequestTypes /\ StoreTypes /\ CacheTypes)'
    BY <1>1, <1>2 DEF StartSubmit
  <2>2. DeskTypes'
    BY <1>2 DEF StartSubmit, TypeInv, DeskTypes, Verdicts
  <2>. QED
    BY <2>1, <2>2 DEF TypeInv
<1>3. ASSUME NEW r \in Applications, NEW v \in {"APPROVED", "CLOSED"}, StartDecide(h, r, v)
      PROVE  TypeInv'
  <2>1. PICK first : /\ Open(h, "DECIDE", r, v, first)
                     /\ first = "decide" \/ (first = "reconcile" /\ v = "APPROVED")
    BY <1>3 DEF StartDecide
  <2>2. UNCHANGED <<tables, mirror>>
    BY <1>3 DEF StartDecide
  <2>3. (RequestTypes /\ StoreTypes /\ CacheTypes)'
    BY <1>1, <1>3, <2>1, <2>2
  <2>4. DeskTypes'
    BY <1>3 DEF StartDecide, TypeInv, DeskTypes, Verdicts
  <2>. QED
    BY <2>3, <2>4 DEF TypeInv
<1>4. ASSUME NEW r \in Applications, StartWithdraw(h, r) PROVE TypeInv'
  <2>1. (RequestTypes /\ StoreTypes /\ CacheTypes)'
    BY <1>1, <1>4 DEF StartWithdraw
  <2>2. DeskTypes'
    BY <1>4 DEF StartWithdraw, TypeInv, DeskTypes, Verdicts
  <2>. QED
    BY <2>1, <2>2 DEF TypeInv
<1>. QED
  BY <1>2, <1>3, <1>4 DEF ApprovalStart

LEMMA RecordedTypes ==
    ASSUME TypeInv, NEW r, NEW v \in {"APPROVED", "CLOSED"}, Recorded(r, v)
    PROVE  filed' \in [Applications -> Verdicts]
  BY DEF Recorded, TypeInv, DeskTypes, Verdicts

LEMMA DecideTypes ==
    ASSUME TypeInv, NEW h \in Handlers, Decide(h) PROVE TypeInv'
<1>1. target[h] \in Applications /\ arg[h] \in {"APPROVED", "CLOSED"}
  BY DEF Decide, TypeInv, RequestTypes, Working
<1>2. RequestTypes' /\ UNCHANGED refresh
  BY AnswerTypes DEF Decide
<1>3. /\ device' \in DeviceTable /\ stock' \in Nat
      /\ granted' \in [Applications -> Nat]
  <2>1. \/ UNCHANGED <<device, stock, granted>>
        \/ /\ \/ UNCHANGED device
              \/ device' = [device EXCEPT ![DeviceOf[target[h]]] = "ROUTER_COLLECTED"]
           /\ stock' = stock + 1
           /\ granted' = [granted EXCEPT ![target[h]] = granted[target[h]] + 1]
    BY Zenon DEF Decide
  <2>. QED
    BY <2>1 DEF TypeInv, StoreTypes, DeskTypes, DeviceTable, DeviceStatuses
<1>4. StoreTypes'
  BY <1>3 DEF Decide, TypeInv, StoreTypes
<1>5. filed' \in [Applications -> Verdicts]
  BY <1>1, RecordedTypes DEF Decide
<1>7. DeskTypes'
  BY <1>3, <1>5 DEF Decide, TypeInv, DeskTypes
<1>8. UNCHANGED mirror
  BY DEF Decide
<1>. QED
  BY <1>2, <1>4, <1>7, <1>8, SameCache DEF TypeInv

LEMMA ReconcileTypes ==
    ASSUME TypeInv, NEW h \in Handlers, Reconcile(h) PROVE TypeInv'
<1>1. RequestTypes' /\ UNCHANGED refresh
  BY AnswerTypes DEF Reconcile
<1>2. stock' \in Nat /\ adjusted' \in Int
  BY ApprovalsAssumption DEF Reconcile, TypeInv, StoreTypes, DeskTypes
<1>3. StoreTypes'
  BY <1>2 DEF Reconcile, TypeInv, StoreTypes
<1>4. filed' \in [Applications -> Verdicts]
  BY RecordedTypes DEF Reconcile
<1>5. DeskTypes'
  <2>1. granted' \in [Applications -> Nat]
    <3>1. target[h] \in Applications
      BY DEF Reconcile, TypeInv, RequestTypes, Working
    <3>2. granted' = [granted EXCEPT ![target[h]] = granted[target[h]] + 1]
      BY DEF Reconcile
    <3>. QED
      BY <3>1, <3>2 DEF TypeInv, DeskTypes
  <2>2. UNCHANGED <<desk, detailed, deskSnapshot>>
    BY DEF Reconcile
  <2>. QED
    BY <1>2, <1>4, <2>1, <2>2 DEF TypeInv, DeskTypes
<1>6. UNCHANGED mirror
  BY DEF Reconcile
<1>. QED
  BY <1>1, <1>3, <1>5, <1>6, SameCache DEF TypeInv

LEMMA FilingTypes ==
    ASSUME TypeInv, NEW h \in Handlers, Submit(h) \/ Withdraw(h) PROVE TypeInv'
<1>1. RequestTypes' /\ UNCHANGED <<refresh, tables, mirror, desk, detailed, deskSnapshot,
                                   granted, adjusted>>
  BY AnswerTypes DEF Submit, Withdraw
<1>2. filed' \in [Applications -> Verdicts]
  <2>1. CASE Submit(h)
    BY <2>1 DEF Submit, TypeInv, DeskTypes, Verdicts
  <2>2. CASE Withdraw(h)
    <3>1. arg[h] = "CLOSED"
      BY <2>2 DEF Withdraw, TypeInv, RequestTypes, Working
    <3>. QED
      BY <2>2, <3>1, RecordedTypes DEF Withdraw
  <2>. QED
    BY <2>1, <2>2
<1>3. DeskTypes'
  BY <1>1, <1>2 DEF TypeInv, DeskTypes
<1>. QED
  BY <1>1, <1>3, SameStore, SameCache DEF TypeInv

LEMMA EmptyCache == Empty \in Cache
  BY DEF Empty, Cache, DeviceStatuses

LEMMA RefreshTypes ==
    ASSUME TypeInv, NEW h \in Handlers, ReadRows(h) \/ Replace(h) PROVE TypeInv'
<1>1. CASE ReadRows(h)
  <2>1. UNCHANGED <<tables, mirror, pc, request>> /\ snapshot' = Rows /\ refresher' = h
    BY <1>1 DEF ReadRows, StartRefresh
  <2>2. RequestTypes'
    BY <2>1 DEF TypeInv, RequestTypes, request, Working
  <2>3. CacheTypes'
    BY <2>1, RowsInCache DEF TypeInv, CacheTypes
  <2>4. DeskTypes'
    BY <1>1 DEF ReadRows, TypeInv, DeskTypes
  <2>. QED
    BY <2>1, <2>2, <2>3, <2>4, SameStore DEF TypeInv
<1>2. CASE Replace(h)
  <2>1. UNCHANGED tables /\ snapshot' = Empty /\ refresher' = Nobody
    BY <1>2 DEF Replace, ApplyRefresh
  <2>2. RequestTypes'
    BY <1>2, FinishTypes DEF Replace, ApplyRefresh
  <2>3. CacheTypes'
    <3>1. mirror' \in Cache
      BY <1>2 DEF Replace, ApplyRefresh, TypeInv, CacheTypes, Cache
    <3>. QED
      BY <2>1, <3>1, EmptyCache DEF CacheTypes
  <2>4. DeskTypes'
    BY <1>2 DEF Replace, TypeInv, DeskTypes, Nothing, Verdicts
  <2>. QED
    BY <2>1, <2>2, <2>3, <2>4, SameStore DEF TypeInv
<1>. QED
  BY <1>1, <1>2

LEMMA InitTypes == ApprovalsInit => TypeInv
<1>. SUFFICES ASSUME ApprovalsInit PROVE TypeInv
  OBVIOUS
<1>1. RequestTypes
  BY DEF ApprovalsInit, Init, RequestTypes, Working, AllPCs, PCs, AllKinds, AllTargets,
         AllArgs, Args
<1>2. StoreTypes
  BY DeploymentsAssumption
  DEF ApprovalsInit, Init, StoreTypes, AssetTable, DeviceTable, Ledger, DeviceStatuses
<1>3. CacheTypes
  BY EmptyCache DEF ApprovalsInit, Init, CacheTypes
<1>4. DeskTypes
  BY DEF ApprovalsInit, DeskTypes, Nothing, Verdicts
<1>. QED
  BY <1>1, <1>2, <1>3, <1>4 DEF TypeInv

LEMMA NextTypes == TypeInv /\ [ApprovalsNext]_allVars => TypeInv'
<1>1. TypeInv /\ UNCHANGED allVars => TypeInv'
  <2>. SUFFICES ASSUME TypeInv, UNCHANGED allVars PROVE TypeInv'
    OBVIOUS
  <2>1. UNCHANGED <<tables, mirror, refresh, pc, request, registry>>
    BY DEF allVars, vars
  <2>2. RequestTypes'
    BY <2>1 DEF TypeInv, RequestTypes, request, Working
  <2>. QED
    BY <2>1, <2>2, SameStore, SameCache, SameDesk DEF TypeInv
<1>. QED
  BY <1>1, DeploymentStartTypes, WorkTypes, ApprovalStartTypes, DecideTypes, ReconcileTypes,
     FilingTypes, RefreshTypes
  DEF ApprovalsNext, ApprovalStep

LEMMA TypesAlways == ApprovalsSpec => []TypeInv
  BY InitTypes, NextTypes, PTL DEF ApprovalsSpec

(* The types of all tables, of the mirror and of the handlers hold for     *)
(* every set of assets, units, applications and handlers.                  *)
THEOREM ApprovalTypes == ApprovalsSpec => []ApprovalsTypeOK
  BY TypesAlways, TypeInvImplies, PTL

(* Deployments, device records, approvals and audits never take a unit     *)
(* that stock does not have, however they overlap, repeat, break or act on *)
(* a stale mirror.                                                         *)
THEOREM DeploymentsNeverOverdraw == ApprovalsSpec => []NoNegativeStock
  BY TypesAlways, TypeInvImplies, PTL

-----------------------------------------------------------------------------
(* An application is executed once.  Of two open requests only one is      *)
(* about an application, and what a decision or a withdrawal works on is   *)
(* pending until its transaction.                                          *)

Undecided(h) == pc[h] \in {"decide", "reconcile", "withdraw"}
Apart(g, h) == Active(g) /\ Active(h) /\ g # h /\ target[g] \in Applications
                   => target[g] # target[h]
ExecInv ==
    /\ ExecutedOnce
    /\ \A h \in Handlers : /\ pc[h] = "submit" => filed[target[h]] = "NONE"
                           /\ Undecided(h) => filed[target[h]] = "PENDING"
    /\ \A g, h \in Handlers : Apart(g, h)

LEMMA QuietExec ==
    ASSUME TypeInv, ExecInv, NEW h \in Handlers, UNCHANGED <<filed, granted>>,
           \A g \in Handlers : pc'[g] # "idle" => pc[g] # "idle" /\ target'[g] = target[g],
           \A g \in Handlers \ {h} : pc'[g] = pc[g],
           pc'[h] \notin {"submit", "decide", "reconcile", "withdraw"}
    PROVE  ExecInv'
<1>1. ExecutedOnce'
  BY DEF ExecInv, ExecutedOnce
<1>2. ASSUME NEW g \in Handlers
      PROVE  /\ pc'[g] = "submit" => filed'[target'[g]] = "NONE"
             /\ Undecided(g)' => filed'[target'[g]] = "PENDING"
  BY DEF ExecInv, Undecided
<1>3. ASSUME NEW f \in Handlers, NEW g \in Handlers PROVE Apart(f, g)'
  BY DEF ExecInv, Apart, Active
<1>. QED
  BY <1>1, <1>2, <1>3 DEF ExecInv

LEMMA OpenApart ==
    ASSUME "OVERLAP" \notin Mishaps, TypeInv, ExecInv, NEW h \in Handlers,
           NEW k, NEW t, NEW x, NEW first, Open(h, k, t, x, first)
    PROVE  /\ \A g, f \in Handlers : Apart(g, f)'
           /\ \A g \in Handlers : g # h => pc'[g] = pc[g] /\ target'[g] = target[g]
           /\ pc'[h] = first /\ target'[h] = t
<1>1. /\ \A g \in Handlers : g # h => pc'[g] = pc[g] /\ target'[g] = target[g]
      /\ pc'[h] = first /\ target'[h] = t
  BY DEF Open, TypeInv, RequestTypes
<1>2. ASSUME t \in Applications, NEW g \in Handlers, Active(g), target[g] = t PROVE FALSE
  <2>1. Touches(t) = {t}
    BY <1>2, ApprovalsAssumption DEF Touches
  <2>2. ~Busy(t)
    BY <2>1 DEF Open
  <2>. QED
    BY <1>2, <2>1, <2>2 DEF Busy
<1>3. ASSUME NEW g \in Handlers, NEW f \in Handlers PROVE Apart(g, f)'
  BY <1>1, <1>2 DEF ExecInv, Apart, Active
<1>. QED
  BY <1>1, <1>3

LEMMA StartExec ==
    ASSUME "OVERLAP" \notin Mishaps, "STALE" \notin Lapses, TypeInv, ExecInv,
           NEW h \in Handlers, UndisturbedStart(h) \/ ApprovalStart(h)
    PROVE  ExecInv'
<1>1. ASSUME NEW k, NEW t, NEW x, NEW first, Open(h, k, t, x, first),
             UNCHANGED <<filed, granted>>,
             first = "submit" => filed[t] = "NONE",
             first \in {"decide", "reconcile", "withdraw"} => filed[t] = "PENDING"
      PROVE  ExecInv'
  <2>1. ExecutedOnce'
    BY <1>1 DEF ExecInv, ExecutedOnce
  <2>2. ASSUME NEW g \in Handlers
        PROVE  /\ pc'[g] = "submit" => filed'[target'[g]] = "NONE"
               /\ Undecided(g)' => filed'[target'[g]] = "PENDING"
    BY <1>1, OpenApart DEF ExecInv, Undecided
  <2>3. \A f, g \in Handlers : Apart(f, g)'
    BY <1>1, OpenApart
  <2>. QED
    BY <2>1, <2>2, <2>3 DEF ExecInv
<1>2. CASE UndisturbedStart(h)
  <2>1. UNCHANGED <<filed, granted>>
    BY <1>2 DEF UndisturbedStart, registry
  <2>2. PICK k, t, x, first : /\ Open(h, k, t, x, first)
                              /\ first \notin {"submit", "decide", "reconcile", "withdraw"}
    BY <1>2 DEF UndisturbedStart, DeploymentStart, StartDeploy, StartRegister, StartUnassign,
       StartReassign, StartAssign, StartRepost, StartCollect, StartExchange
  <2>. QED
    BY <1>1, <2>1, <2>2
<1>3. ASSUME NEW r \in Applications, StartSubmit(h, r) PROVE ExecInv'
  BY <1>1, <1>3 DEF StartSubmit
<1>4. ASSUME NEW r \in Applications, NEW v, StartDecide(h, r, v) PROVE ExecInv'
  <2>1. filed[r] = "PENDING" /\ UNCHANGED <<filed, granted>>
    BY <1>4 DEF StartDecide, OnScreen
  <2>2. PICK first \in {"decide", "reconcile"} : Open(h, "DECIDE", r, v, first)
    BY <1>4 DEF StartDecide
  <2>. QED
    BY <1>1, <2>1, <2>2
<1>5. ASSUME NEW r \in Applications, StartWithdraw(h, r) PROVE ExecInv'
  <2>1. filed[r] = "PENDING" /\ UNCHANGED <<filed, granted>>
    BY <1>5 DEF StartWithdraw, OnScreen
  <2>2. Open(h, "WITHDRAW", r, "CLOSED", "withdraw")
    BY <1>5 DEF StartWithdraw
  <2>. QED
    BY <1>1, <2>1, <2>2
<1>. QED
  BY <1>2, <1>3, <1>4, <1>5 DEF ApprovalStart

(* A transaction on an application: only its row changes, and it was       *)
(* pending, so it had not been executed.                                   *)
LEMMA DecisionExec ==
    ASSUME TypeInv, ExecInv, NEW h \in Handlers, Answer(h),
           pc[h] = "submit" \/ Undecided(h), target[h] \in Applications,
           NEW st \in {"PENDING", "APPROVED", "CLOSED"},
           filed' = [filed EXCEPT ![target[h]] = st],
           \/ granted' = granted
           \/ granted' = [granted EXCEPT ![target[h]] = granted[target[h]] + 1]
                 /\ st = "APPROVED"
    PROVE  ExecInv'
<1>. DEFINE r == target[h]
<1>1. granted[r] = 0
  <2>1. filed[r] # "APPROVED"
    BY DEF ExecInv
  <2>2. granted[r] \in Nat /\ granted[r] <= 1 /\ (granted[r] = 1 => filed[r] = "APPROVED")
    BY DEF ExecInv, ExecutedOnce, TypeInv, DeskTypes
  <2>. QED
    BY <2>1, <2>2
<1>2. ExecutedOnce'
  BY <1>1 DEF ExecInv, ExecutedOnce, TypeInv, DeskTypes
<1>3. /\ \A g \in Handlers : g # h => pc'[g] = pc[g]
      /\ pc'[h] = "refresh" /\ UNCHANGED target
  BY DEF Answer, TypeInv, RequestTypes
<1>4. ASSUME NEW g \in Handlers, pc'[g] \in {"submit", "decide", "reconcile", "withdraw"}
      PROVE  filed'[target'[g]] = filed[target[g]]
  <2>1. g # h /\ pc[g] = pc'[g]
    BY <1>3, <1>4
  <2>2. target[g] \in Applications
    BY <1>4, <2>1 DEF TypeInv, RequestTypes, Working
  <2>3. target[g] # r
    BY <1>4, <2>1, <2>2 DEF ExecInv, Apart, Active, Undecided
  <2>. QED
    BY <1>3, <2>2, <2>3 DEF TypeInv, DeskTypes
<1>5. ASSUME NEW g \in Handlers
      PROVE  /\ pc'[g] = "submit" => filed'[target'[g]] = "NONE"
             /\ Undecided(g)' => filed'[target'[g]] = "PENDING"
  BY <1>3, <1>4 DEF ExecInv, Undecided
<1>6. ASSUME NEW f \in Handlers, NEW g \in Handlers PROVE Apart(f, g)'
  BY <1>3 DEF ExecInv, Apart, Active, Undecided
<1>. QED
  BY <1>2, <1>5, <1>6 DEF ExecInv

LEMMA StepExec ==
    ASSUME TypeInv, ExecInv, NEW h \in Handlers,
           (DeploymentWork(h) /\ UNCHANGED registry) \/ ApprovalStep(h)
    PROVE  ExecInv'
<1>1. ASSUME Finish(h), UNCHANGED <<filed, granted>> PROVE ExecInv'
  BY <1>1, QuietExec DEF Finish, TypeInv, RequestTypes
<1>2. ASSUME Answer(h), UNCHANGED <<filed, granted>>, pc[h] # "idle" PROVE ExecInv'
  BY <1>2, QuietExec DEF Answer, TypeInv, RequestTypes
<1>3. ASSUME NEW p \in {"save", "exchange", "set", "assign"}, pc[h] # "idle",
             pc' = [pc EXCEPT ![h] = p], UNCHANGED <<filed, granted, target>>
      PROVE  ExecInv'
  BY <1>3, QuietExec DEF TypeInv, RequestTypes
<1>4. CASE DeploymentWork(h) /\ UNCHANGED registry
  <2>1. UNCHANGED <<filed, granted>>
    BY <1>4 DEF registry
  <2>2. CASE Fail(h)
    BY <1>1, <2>1, <2>2 DEF Fail
  <2>3. CASE Save(h) \/ SetAssignment(h) \/ Assign(h) \/ Collect(h) \/ Exchange(h)
    BY <1>2, <2>1, <2>3 DEF Save, SetAssignment, Assign, Collect, Exchange
  <2>4. CASE Deploy(h) \/ Look(h)
    BY <1>3, <2>1, <2>4 DEF Deploy, Look, Proceed, request
  <2>5. CASE Restock(h) \/ Check(h)
    BY <1>3, <2>1, <2>5 DEF Restock, Check
  <2>. QED
    BY <1>4, <2>2, <2>3, <2>4, <2>5 DEF DeploymentWork
<1>5. CASE ReadRows(h)
  BY <1>5, QuietExec DEF ReadRows, StartRefresh, request
<1>6. CASE Replace(h)
  BY <1>1, <1>6 DEF Replace, ApplyRefresh
<1>7. CASE Submit(h)
  BY <1>7, DecisionExec DEF Submit, TypeInv, RequestTypes, Working
<1>8. ASSUME Undecided(h) PROVE target[h] \in Applications /\ filed[target[h]] = "PENDING"
  BY <1>8 DEF Undecided, TypeInv, RequestTypes, Working, ExecInv
<1>9. CASE Withdraw(h)
  <2>1. arg[h] = "CLOSED" /\ Undecided(h)
    BY <1>9 DEF Withdraw, TypeInv, RequestTypes, Working, Undecided
  <2>2. filed' = [filed EXCEPT ![target[h]] = "CLOSED"]
    BY <1>8, <1>9, <2>1 DEF Withdraw, Recorded
  <2>. QED
    BY <1>8, <1>9, <2>1, <2>2, DecisionExec DEF Withdraw
<1>10. CASE Decide(h)
  <2>1. arg[h] \in {"APPROVED", "CLOSED"} /\ Undecided(h)
    BY <1>10 DEF Decide, TypeInv, RequestTypes, Working, Undecided
  <2>2. filed' = [filed EXCEPT ![target[h]] = arg[h]]
    BY <1>8, <1>10, <2>1 DEF Decide, Recorded
  <2>3. \/ granted' = granted
        \/ granted' = [granted EXCEPT ![target[h]] = granted[target[h]] + 1]
              /\ arg[h] = "APPROVED"
    BY <1>10 DEF Decide
  <2>. QED
    BY <1>8, <1>10, <2>1, <2>2, <2>3, DecisionExec DEF Decide
<1>11. CASE Reconcile(h)
  <2>1. Undecided(h)
    BY <1>11 DEF Reconcile, Undecided
  <2>2. filed' = [filed EXCEPT ![target[h]] = "APPROVED"]
    BY <1>8, <1>11, <2>1 DEF Reconcile, Recorded
  <2>. QED
    BY <1>8, <1>11, <2>1, <2>2, DecisionExec DEF Reconcile
<1>. QED
  BY <1>4, <1>5, <1>6, <1>7, <1>9, <1>10, <1>11 DEF ApprovalStep

LEMMA ExecAlways ==
    ASSUME "OVERLAP" \notin Mishaps, "STALE" \notin Lapses
    PROVE  ApprovalsSpec => []ExecInv
<1>1. ApprovalsInit => ExecInv
  BY DEF ApprovalsInit, Init, ExecInv, ExecutedOnce, Undecided, Apart, Active
<1>2. TypeInv /\ ExecInv /\ [ApprovalsNext]_allVars => ExecInv'
  <2>1. TypeInv /\ ExecInv /\ UNCHANGED allVars => ExecInv'
    <3>. SUFFICES ASSUME TypeInv, ExecInv, UNCHANGED allVars PROVE ExecInv'
      OBVIOUS
    <3>1. UNCHANGED <<filed, granted, pc, target>>
      BY DEF allVars, vars, registry, request
    <3>. QED
      BY <3>1 DEF ExecInv, ExecutedOnce, Undecided, Apart, Active
  <2>. QED
    BY <2>1, StartExec, StepExec DEF ApprovalsNext
<1>. QED
  BY <1>1, <1>2, TypesAlways, PTL DEF ApprovalsSpec

(* Where decisions are made on pending requests and no two requests about  *)
(* one application are open together, each is executed at most once.       *)
THEOREM ApplicationsExecutedOnce ==
    ASSUME "OVERLAP" \notin Mishaps, "STALE" \notin Lapses
    PROVE  ApprovalsSpec => []ExecutedOnce
<1>1. ExecInv => ExecutedOnce
  BY DEF ExecInv
<1>. QED
  BY <1>1, ExecAlways, PTL

-----------------------------------------------------------------------------
(* Units.  Of two open requests only one works on a unit; what a request   *)
(* found when it was posted therefore still holds of its unit when it      *)
(* reaches its transaction.  The mirror's ledger may lag behind the table  *)
(* only for an asset whose request has still its refresh to come.          *)

Holds(h) == IF Active(h) THEN Touches(target[h]) \cup {arg[h]} ELSE {}
Exclusive ==
    \A g, h \in Handlers : g # h => \A u \in Units : ~(u \in Holds(g) /\ u \in Holds(h))

Engaged(h) ==
    LET t == target[h]
    IN  /\ pc[h] = "idle" => t = NoTarget
        /\ pc[h] = "deploy" =>
              /\ t \in FromStock /\ asset[t] = "NONE"
              /\ <<t, "OUT">> \notin posted /\ <<t, "BACK">> \notin posted
        /\ pc[h] = "save" /\ t \in FromStock => Out(t)
        /\ pc[h] = "restock" => Out(t) /\ arg[h] = "ACTIVE"
        /\ pc[h] = "set" /\ t \in FromStock => arg[h] = "ACTIVE"
        /\ pc[h] = "set" /\ seen[h] = "BACK" => <<t, "BACK">> \in posted
        /\ pc[h] \in {"check", "assign"} /\ kind[h] # "ASSIGN" => device[t] # "NONE"
        /\ pc[h] \in {"look", "exchange"} => device[t] # "NONE"

At(a, p) == \E g \in Handlers : target[g] = a /\ pc[g] = p
SoundAsset(a) ==
    /\ <<a, "BACK">> \in posted => <<a, "OUT">> \in posted
    /\ <<a, "OUT">> \in posted => asset[a] # "NONE" \/ At(a, "save")
    /\ a \in FromStock /\ asset[a] = "ASSIGNED" => Out(a) \/ At(a, "set")
Sound(u) ==
    /\ \A a \in Assets : UnitOf[a] = u => SoundAsset(a)
    /\ serial[u] = "ASSIGNED" => \E a \in Assets : UnitOf[a] = u /\ Out(a)

Awaited(a, hs) == \E g \in hs : target[g] = a /\ pc[g] \in {"set", "refresh"}
Knows(ledger, hs) ==
    /\ ledger \subseteq posted
    /\ \A a \in Assets : <<a, "BACK">> \in posted /\ <<a, "BACK">> \notin ledger => Awaited(a, hs)
LedgerKnown ==
    /\ Knows(mirror.posted, Handlers)
    /\ snapshot.posted \subseteq posted
    /\ refresher # Nobody =>
          pc[refresher] = "refresh" /\ Knows(snapshot.posted, Handlers \ {refresher})

UnitsInv ==
    /\ Exclusive /\ LedgerKnown
    /\ \A h \in Handlers : Engaged(h)
    /\ \A u \in Units : Sound(u)

(* A step of one handler that leaves the other requests alone, and of the  *)
(* tables only what concerns its own units.                                *)
Elsewhere(h) ==
    /\ \A g \in Handlers \ {h} :
          /\ pc'[g] = pc[g] /\ kind'[g] = kind[g] /\ target'[g] = target[g]
          /\ arg'[g] = arg[g] /\ seen'[g] = seen[g]
    /\ \A u \in Units \ Holds(h) :
          /\ serial'[u] = serial[u]
          /\ device'[u] = "NONE" <=> device[u] = "NONE"
          /\ \A a \in Assets : UnitOf[a] = u =>
                /\ asset'[a] = asset[a]
                /\ <<a, "OUT">> \in posted' <=> <<a, "OUT">> \in posted
                /\ <<a, "BACK">> \in posted' <=> <<a, "BACK">> \in posted

Stays(h) == Elsewhere(h) /\ \A u \in Units : u \in Holds(h)' => u \in Holds(h)

LEMMA UnitsOfAssets == \A a \in Assets : UnitOf[a] \in Units /\ a \notin Units /\ Touches(a) = {UnitOf[a]}
  BY DeploymentsAssumption DEF DeploymentsAssumption, Touches
LEMMA UnitsTouched == \A u \in Units : Touches(u) = {u}
  BY DeploymentsAssumption DEF DeploymentsAssumption, Touches

LEMMA HoldsTarget ==
    ASSUME TypeInv, NEW h \in Handlers, Active(h)
    PROVE  /\ target[h] \in Assets => UnitOf[target[h]] \in Holds(h)
           /\ target[h] \in Units => target[h] \in Holds(h)
           /\ arg[h] \in Holds(h)
  BY UnitsOfAssets, UnitsTouched DEF Holds

LEMMA OthersEngaged ==
    ASSUME TypeInv, UnitsInv, NEW h \in Handlers, Elsewhere(h), NEW g \in Handlers, g # h
    PROVE  Engaged(g)'
<1>1. /\ pc'[g] = pc[g] /\ kind'[g] = kind[g] /\ target'[g] = target[g]
      /\ arg'[g] = arg[g] /\ seen'[g] = seen[g]
  BY DEF Elsewhere
<1>2. Engaged(g) /\ Working(g)
  BY DEF UnitsInv, TypeInv, RequestTypes
<1>3. \A u \in Units : u \in Holds(g) => u \notin Holds(h)
  BY DEF UnitsInv, Exclusive
<1>4. CASE pc[g] \in {"deploy", "save", "restock", "set"}
  <2>. DEFINE u == UnitOf[target[g]]
  <2>1. target[g] \in Assets /\ u \in Units \ Holds(h)
    BY <1>2, <1>3, <1>4, UnitsOfAssets, HoldsTarget DEF Working, Active
  <2>2. /\ serial'[u] = serial[u] /\ (device'[u] = "NONE" <=> device[u] = "NONE")
        /\ asset'[target[g]] = asset[target[g]]
        /\ <<target[g], "OUT">> \in posted' <=> <<target[g], "OUT">> \in posted
        /\ <<target[g], "BACK">> \in posted' <=> <<target[g], "BACK">> \in posted
    BY <2>1 DEF Elsewhere
  <2>. QED
    BY <1>1, <1>2, <1>4, <2>2 DEF Engaged, Out
<1>5. CASE pc[g] \in {"check", "assign", "look", "exchange"}
  <2>1. target[g] \in Units \ Holds(h)
    BY <1>2, <1>3, <1>5, HoldsTarget DEF Working, Active
  <2>2. pc[g] \in {"look", "exchange"} => arg[g] \in Units \ Holds(h)
    BY <1>2, <1>3, <1>5, HoldsTarget DEF Working, Active
  <2>. QED
    BY <1>1, <1>2, <1>5, <2>1, <2>2 DEF Engaged, Elsewhere
<1>. QED
  BY <1>1, <1>2, <1>4, <1>5 DEF Engaged

LEMMA OthersSound ==
    ASSUME TypeInv, UnitsInv, NEW h \in Handlers, Elsewhere(h), NEW u \in Units, u \notin Holds(h)
    PROVE  Sound(u)'
<1>1. Sound(u)
  BY DEF UnitsInv
<1>2. ASSUME NEW a \in Assets, UnitOf[a] = u, NEW p \in {"save", "set"}, At(a, p) PROVE At(a, p)'
  <2>1. PICK g \in Handlers : target[g] = a /\ pc[g] = p
    BY <1>2 DEF At
  <2>2. g # h
    BY <1>2, <2>1, HoldsTarget DEF Active
  <2>. QED
    BY <2>1, <2>2 DEF At, Elsewhere
<1>3. \A b \in Assets : UnitOf[b] = u => Out(b)' = Out(b)
  BY DEF Elsewhere, Out
<1>4. ASSUME NEW a \in Assets, UnitOf[a] = u PROVE SoundAsset(a)'
  <2>1. /\ asset'[a] = asset[a]
        /\ <<a, "OUT">> \in posted' <=> <<a, "OUT">> \in posted
        /\ <<a, "BACK">> \in posted' <=> <<a, "BACK">> \in posted
    BY <1>4 DEF Elsewhere
  <2>. QED
    BY <1>1, <1>2, <1>3, <1>4, <2>1 DEF Sound, SoundAsset
<1>5. serial'[u] = serial[u]
  BY DEF Elsewhere
<1>. QED
  BY <1>1, <1>3, <1>4, <1>5 DEF Sound

LEMMA StillExclusive ==
    ASSUME TypeInv, UnitsInv, NEW h \in Handlers, Elsewhere(h),
           \A u \in Units : u \in Holds(h)' => u \in Holds(h)
    PROVE  Exclusive'
<1>. SUFFICES ASSUME NEW f \in Handlers, NEW g \in Handlers, f # g, NEW u \in Units,
                     u \in Holds(f)', u \in Holds(g)'
     PROVE  FALSE
  BY DEF Exclusive
<1>1. \A k \in Handlers : u \in Holds(k)' => u \in Holds(k)
  BY DEF Elsewhere, Holds, Active
<1>. QED
  BY <1>1 DEF UnitsInv, Exclusive

(* What is left to show of a step besides the ledger: its own request, and *)
(* the units it holds.                                                     *)
LEMMA LocalStep ==
    ASSUME TypeInv, UnitsInv, NEW h \in Handlers, Elsewhere(h), LedgerKnown',
           \A u \in Units : u \in Holds(h)' => u \in Holds(h),
           Engaged(h)', \A u \in Units : u \in Holds(h) => Sound(u)'
    PROVE  UnitsInv' /\ Stays(h)
  BY StillExclusive, OthersEngaged, OthersSound DEF UnitsInv, Stays

(* Opening a request.                                                      *)
LEMMA OpenUnits ==
    ASSUME TypeInv, UnitsInv, "OVERLAP" \notin Mishaps, NEW h \in Handlers,
           NEW k, NEW t, NEW x, NEW first, Open(h, k, t, x, first), first # "idle",
           UNCHANGED tables, LedgerKnown', Engaged(h)'
    PROVE  UnitsInv'
<1>1. Elsewhere(h) /\ Holds(h) = {}
  BY DEF Open, TypeInv, RequestTypes, Elsewhere, tables, Holds, Active
<1>2. target'[h] = t /\ arg'[h] = x
  BY DEF Open, TypeInv, RequestTypes
<1>3. ASSUME NEW u \in Units, u \in Holds(h)' PROVE ~Busy(u)
  BY <1>2, <1>3 DEF Open, Holds
<1>4. ASSUME NEW g \in Handlers, g # h, NEW u \in Units, u \in Holds(g)'
      PROVE  Busy(u)
  BY <1>1, <1>4 DEF Elsewhere, Holds, Active, Busy
<1>5. ASSUME NEW f \in Handlers, NEW g \in Handlers, f # g, NEW u \in Units,
             u \in Holds(f)', u \in Holds(g)'
      PROVE  FALSE
  <2>1. CASE f = h \/ g = h
    BY <1>3, <1>4, <1>5, <2>1
  <2>2. CASE f # h /\ g # h
    <3>1. u \in Holds(f) /\ u \in Holds(g)
      BY <1>1, <1>5, <2>2 DEF Elsewhere, Holds, Active
    <3>. QED
      BY <1>5, <3>1 DEF UnitsInv, Exclusive
  <2>. QED
    BY <2>1, <2>2
<1>6. Exclusive'
  BY <1>5 DEF Exclusive
<1>. QED
  BY <1>1, <1>6, OthersEngaged, OthersSound DEF UnitsInv

LEMMA LedgerWaits ==
    ASSUME TypeInv, UnitsInv, NEW h \in Handlers, Elsewhere(h), UNCHANGED <<posted, snapshot, refresher>>,
           mirror'.posted = mirror.posted, pc[h] # "refresh",
           pc[h] = "set" => target'[h] = target[h] /\ pc'[h] \in {"set", "refresh"}
    PROVE  LedgerKnown'
<1>1. ASSUME NEW a, Awaited(a, Handlers) PROVE Awaited(a, Handlers)'
  BY <1>1 DEF Awaited, Elsewhere
<1>2. ASSUME NEW a, Awaited(a, Handlers \ {refresher}) PROVE Awaited(a, Handlers \ {refresher})'
  BY <1>2 DEF Awaited, Elsewhere
<1>3. refresher # Nobody => refresher # h /\ refresher \in Handlers /\ pc'[refresher] = "refresh"
  BY DEF UnitsInv, LedgerKnown, TypeInv, CacheTypes, Elsewhere
<1>. QED
  BY <1>1, <1>2, <1>3 DEF UnitsInv, LedgerKnown, Knows

LEMMA IdleTarget ==
    ASSUME TypeInv, UnitsInv, NEW a \in Assets, ~Busy(UnitOf[a]), NEW g \in Handlers
    PROVE  target[g] # a
<1>1. CASE Active(g)
  BY <1>1, UnitsOfAssets DEF Busy
<1>2. CASE ~Active(g)
  <2>1. target[g] = NoTarget
    BY <1>2 DEF Active, UnitsInv, Engaged
  <2>. QED
    BY <2>1, DeploymentsAssumption DEF DeploymentsAssumption
<1>. QED
  BY <1>1, <1>2

LEMMA StartUnits ==
    ASSUME TypeInv, UnitsInv, Mishaps = {}, NEW h \in Handlers, DeploymentStart(h)
    PROVE  UnitsInv'
<1>1. ASSUME NEW k, NEW t, NEW x, NEW first, Open(h, k, t, x, first),
             UNCHANGED tables, mirror'.posted = mirror.posted
      PROVE  /\ LedgerKnown'
             /\ pc'[h] = first /\ kind'[h] = k /\ target'[h] = t /\ arg'[h] = x /\ seen'[h] = "NONE"
             /\ \A a \in Assets : UnitOf[a] = t \/ a = t => \A g \in Handlers : target[g] # a
  <2>1. Elsewhere(h) /\ pc[h] = "idle"
    BY <1>1 DEF Open, TypeInv, RequestTypes, Elsewhere, tables
  <2>2. UNCHANGED <<posted, snapshot, refresher>>
    BY <1>1 DEF Open, tables, refresh
  <2>3. LedgerKnown'
    BY <1>1, <2>1, <2>2, LedgerWaits
  <2>4. pc'[h] = first /\ kind'[h] = k /\ target'[h] = t /\ arg'[h] = x /\ seen'[h] = "NONE"
    BY <1>1 DEF Open, TypeInv, RequestTypes
  <2>5. \A u \in Touches(t) : ~Busy(u)
    BY <1>1 DEF Open
  <2>6. ASSUME NEW a \in Assets, UnitOf[a] = t \/ a = t PROVE ~Busy(UnitOf[a])
    BY <2>5, <2>6, UnitsOfAssets, UnitsTouched
  <2>. QED
    BY <2>3, <2>4, <2>6, IdleTarget
<1>2. \A a \in Assets : a # NoTarget /\ a \notin Units
  BY DeploymentsAssumption DEF DeploymentsAssumption
<1>3. ASSUME NEW f, NEW a, NEW st, Cached(f, a, st), f # "posted"
      PROVE  mirror'.posted = mirror.posted
  BY <1>3 DEF Cached, TypeInv, CacheTypes, Cache
<1>4. ASSUME NEW a \in Assets, StartDeploy(h, a) PROVE UnitsInv'
  <2>1. /\ Open(h, "DEPLOY", a, "ASSIGNED", "deploy") /\ UNCHANGED tables
        /\ mirror'.posted = mirror.posted
    BY <1>3, <1>4 DEF StartDeploy
  <2>2. <<a, "OUT">> \notin posted /\ <<a, "BACK">> \notin posted
    BY <1>4, UnitsOfAssets DEF StartDeploy, UnitsInv, Sound, SoundAsset, At
  <2>3. Engaged(h)'
    BY <1>1, <1>4, <2>1, <2>2 DEF StartDeploy, Engaged, tables
  <2>. QED
    BY <1>1, <2>1, <2>3, OpenUnits
<1>5. ASSUME NEW a \in Assets, StartRegister(h, a) PROVE UnitsInv'
  <2>1. /\ Open(h, "DEPLOY", a, "ACTIVE", "save") /\ UNCHANGED tables
        /\ mirror'.posted = mirror.posted
    BY <1>3, <1>5 DEF StartRegister
  <2>2. Engaged(h)'
    BY <1>1, <1>5, <2>1 DEF StartRegister, Engaged, tables
  <2>. QED
    BY <1>1, <2>1, <2>2, OpenUnits
<1>6. ASSUME NEW a \in Assets, StartUnassign(h, a) PROVE UnitsInv'
  <2>1. PICK first \in {"restock", "set"} :
           /\ Open(h, "UNASSIGN", a, "ACTIVE", first)
           /\ first = "restock" => RestockDue(a)
    BY <1>6 DEF StartUnassign
  <2>2. UNCHANGED tables /\ mirror'.posted = mirror.posted
    BY <1>3, <1>6 DEF StartUnassign
  <2>3. RestockDue(a) => Out(a)
    <3>1. \A g \in Handlers : target[g] # a
      BY <1>1, <2>1, <2>2
    <3>. QED
      BY <3>1 DEF RestockDue, Out, UnitsInv, LedgerKnown, Knows, Awaited
  <2>4. Engaged(h)'
    BY <1>1, <2>1, <2>2, <2>3 DEF Engaged, tables, Out
  <2>. QED
    BY <1>1, <2>1, <2>2, <2>4, OpenUnits
<1>7. ASSUME NEW a \in Assets, StartReassign(h, a) PROVE UnitsInv'
  <2>1. /\ Open(h, "REASSIGN", a, "ASSIGNED", "set") /\ UNCHANGED tables
        /\ mirror'.posted = mirror.posted
    BY <1>3, <1>7 DEF StartReassign
  <2>2. Engaged(h)'
    BY <1>1, <1>7, <2>1 DEF StartReassign, Engaged, tables
  <2>. QED
    BY <1>1, <2>1, <2>2, OpenUnits
<1>8. ASSUME NEW u \in Units, StartAssign(h, u) PROVE UnitsInv'
  <2>1. /\ Open(h, "ASSIGN", u, "RENTAL", "check") /\ UNCHANGED tables
        /\ mirror'.posted = mirror.posted
    BY <1>8 DEF StartAssign
  <2>2. Engaged(h)'
    BY <1>1, <1>8, <2>1 DEF StartAssign, Engaged, tables
  <2>. QED
    BY <1>1, <2>1, <2>2, OpenUnits
<1>9. ASSUME NEW u \in Units, NEW st, StartRepost(h, u, st) PROVE UnitsInv'
  <2>1. /\ Open(h, "REPOST", u, st, "check") /\ UNCHANGED tables
        /\ mirror'.posted = mirror.posted
    BY <1>9 DEF StartRepost
  <2>2. Engaged(h)'
    BY <1>1, <1>9, <2>1 DEF StartRepost, Engaged, tables
  <2>. QED
    BY <1>1, <2>1, <2>2, OpenUnits
<1>10. ASSUME NEW u \in Units, StartCollect(h, u) PROVE UnitsInv'
  <2>1. /\ Open(h, "COLLECT", u, "ROUTER_COLLECTED", "collect") /\ UNCHANGED tables
        /\ mirror'.posted = mirror.posted
    BY <1>3, <1>10 DEF StartCollect
  <2>2. Engaged(h)'
    BY <1>1, <2>1 DEF Engaged
  <2>. QED
    BY <1>1, <2>1, <2>2, OpenUnits
<1>11. ASSUME NEW u \in Units, NEW v \in Units, StartExchange(h, u, v) PROVE UnitsInv'
  <2>1. /\ Open(h, "EXCHANGE", u, v, "look") /\ UNCHANGED tables
        /\ mirror'.posted = mirror.posted
    BY <1>11 DEF StartExchange
  <2>2. Engaged(h)'
    BY <1>1, <1>11, <2>1 DEF StartExchange, Engaged, tables
  <2>. QED
    BY <1>1, <2>1, <2>2, OpenUnits
<1>. QED
  BY <1>4, <1>5, <1>6, <1>7, <1>8, <1>9, <1>10, <1>11 DEF DeploymentStart

(* Steps that change no asset, no ledger row and no serial.                *)
LEMMA QuietUnits ==
    ASSUME TypeInv, UnitsInv, NEW h \in Handlers, Elsewhere(h), LedgerKnown',
           UNCHANGED <<asset, posted, serial>>,
           \A u \in Units : u \in Holds(h)' => u \in Holds(h),
           Engaged(h)', pc[h] \notin {"save", "set"}
    PROVE  UnitsInv' /\ Stays(h)
<1>1. ASSUME NEW a, NEW p \in {"save", "set"}, At(a, p) PROVE At(a, p)'
  BY <1>1 DEF At, Elsewhere
<1>2. \A a : Out(a)' = Out(a)
  BY DEF Out
<1>3. ASSUME NEW u \in Units PROVE Sound(u)'
  <2>1. Sound(u)
    BY DEF UnitsInv
  <2>2. ASSUME NEW a \in Assets, UnitOf[a] = u PROVE SoundAsset(a)'
    BY <1>1, <1>2, <2>1, <2>2 DEF Sound, SoundAsset
  <2>. QED
    BY <1>2, <2>1, <2>2 DEF Sound
<1>. QED
  BY <1>3, LocalStep

(* Ending a request, and moving on in it: the others keep theirs.          *)
LEMMA Endings ==
    ASSUME TypeInv, NEW h \in Handlers, Finish(h) \/ Answer(h)
    PROVE  /\ \A g \in Handlers \ {h} :
                 /\ pc'[g] = pc[g] /\ kind'[g] = kind[g] /\ target'[g] = target[g]
                 /\ arg'[g] = arg[g] /\ seen'[g] = seen[g]
           /\ Active(h) => \A u \in Units : u \in Holds(h)' => u \in Holds(h)
           /\ Answer(h) => pc'[h] = "refresh" /\ UNCHANGED <<target, refresh>>
           /\ Finish(h) => pc'[h] = "idle" /\ target'[h] = NoTarget
<1>1. /\ \A g \in Handlers \ {h} :
            /\ pc'[g] = pc[g] /\ kind'[g] = kind[g] /\ target'[g] = target[g]
            /\ arg'[g] = arg[g] /\ seen'[g] = seen[g]
      /\ Answer(h) => pc'[h] = "refresh" /\ arg'[h] = "NONE" /\ UNCHANGED <<target, refresh>>
      /\ Finish(h) => pc'[h] = "idle" /\ target'[h] = NoTarget
  BY DEF Finish, Answer, TypeInv, RequestTypes
<1>2. ASSUME Active(h), NEW u \in Units, u \in Holds(h)' PROVE u \in Holds(h)
  <2>1. u # "NONE"
    BY DeploymentsAssumption DEF DeploymentsAssumption
  <2>. QED
    BY <1>1, <1>2, <2>1 DEF Holds, Active
<1>. QED
  BY <1>1, <1>2

LEMMA MovesOn ==
    ASSUME TypeInv, NEW h \in Handlers, NEW p, pc' = [pc EXCEPT ![h] = p], Active(h),
           UNCHANGED <<kind, target, arg>>,
           \/ seen' = seen
           \/ \E x : seen' = [seen EXCEPT ![h] = x]
    PROVE  /\ \A g \in Handlers \ {h} :
                 /\ pc'[g] = pc[g] /\ kind'[g] = kind[g] /\ target'[g] = target[g]
                 /\ arg'[g] = arg[g] /\ seen'[g] = seen[g]
           /\ pc'[h] = p
           /\ \A u \in Units : u \in Holds(h)' => u \in Holds(h)
  BY DEF TypeInv, RequestTypes, Holds, Active

LEMMA ReadingUnits ==
    ASSUME TypeInv, UnitsInv, "BREAK" \notin Mishaps, NEW h \in Handlers,
           Check(h) \/ Look(h) \/ Collect(h) \/ Fail(h)
    PROVE  UnitsInv' /\ Stays(h)
<1>1. Active(h) /\ Working(h) /\ Engaged(h)
  BY DEF Check, Look, Collect, Fail, Active, TypeInv, RequestTypes, UnitsInv
<1>2. CASE Check(h)
  <2>1. pc' = [pc EXCEPT ![h] = "assign"] /\ UNCHANGED <<kind, target, arg, tables, mirror, refresh>>
    BY <1>2 DEF Check
  <2>2. \E x : seen' = [seen EXCEPT ![h] = x]
    BY <1>2 DEF Check
  <2>3. Elsewhere(h) /\ pc'[h] = "assign" /\ \A u \in Units : u \in Holds(h)' => u \in Holds(h)
    BY <1>1, <2>1, <2>2, MovesOn DEF Elsewhere, tables
  <2>4. Engaged(h)'
    BY <1>1, <1>2, <2>1, <2>3 DEF Check, Engaged, tables
  <2>5. LedgerKnown'
    BY <1>2, <2>1, <2>3, LedgerWaits DEF Check, tables, refresh
  <2>. QED
    BY <1>2, <2>1, <2>3, <2>4, <2>5, QuietUnits DEF Check, tables
<1>3. CASE Look(h)
  <2>1. pc' = [pc EXCEPT ![h] = "exchange"] /\ UNCHANGED <<kind, target, arg, seen, tables, refresh>>
    BY <1>3 DEF Look, Proceed, request
  <2>2. mirror'.posted = mirror.posted
    BY <1>3 DEF Look, TypeInv, CacheTypes, Cache
  <2>3. Elsewhere(h) /\ pc'[h] = "exchange" /\ \A u \in Units : u \in Holds(h)' => u \in Holds(h)
    BY <1>1, <2>1, MovesOn DEF Elsewhere, tables
  <2>4. Engaged(h)'
    BY <1>1, <1>3, <2>1, <2>3 DEF Look, Engaged, tables
  <2>5. LedgerKnown'
    BY <1>3, <2>1, <2>2, <2>3, LedgerWaits DEF Look, tables, refresh
  <2>. QED
    BY <1>3, <2>1, <2>3, <2>4, <2>5, QuietUnits DEF Look, tables
<1>4. CASE Collect(h)
  <2>1. Answer(h) /\ UNCHANGED <<asset, posted, serial, mirror>>
    BY <1>4 DEF Collect
  <2>2. \A u \in Units : device'[u] = "NONE" <=> device[u] = "NONE"
    BY <1>4 DEF Collect, TypeInv, StoreTypes, DeviceTable
  <2>3. Elsewhere(h) /\ \A u \in Units : u \in Holds(h)' => u \in Holds(h)
    BY <1>1, <2>1, <2>2, Endings DEF Elsewhere
  <2>4. pc'[h] = "refresh" /\ UNCHANGED <<target, refresh>>
    BY <2>1, Endings
  <2>5. Engaged(h)'
    BY <2>4 DEF Engaged
  <2>6. LedgerKnown'
    BY <1>4, <2>1, <2>3, <2>4, LedgerWaits DEF Collect, refresh
  <2>. QED
    BY <1>4, <2>1, <2>2, <2>3, <2>5, <2>6, QuietUnits DEF Collect
<1>5. CASE Fail(h)
  <2>1. Finish(h) /\ UNCHANGED <<tables, mirror, refresh>> /\ pc[h] \notin {"save", "set", "refresh"}
    BY <1>5 DEF Fail
  <2>2. Elsewhere(h) /\ \A u \in Units : u \in Holds(h)' => u \in Holds(h)
    BY <1>1, <2>1, Endings DEF Elsewhere, tables
  <2>3. Engaged(h)'
    BY <2>1, Endings DEF Engaged
  <2>4. LedgerKnown'
    BY <2>1, <2>2, LedgerWaits DEF tables, refresh
  <2>5. \A u \in Units : device'[u] = "NONE" <=> device[u] = "NONE"
    BY <2>1 DEF tables
  <2>. QED
    BY <2>1, <2>2, <2>3, <2>4, <2>5, QuietUnits DEF tables
<1>. QED
  BY <1>2, <1>3, <1>4, <1>5

(* The transactions of assets: the rows and the unit of one asset change.  *)
LEMMA AssetUnits ==
    ASSUME TypeInv, UnitsInv, NEW h \in Handlers, Elsewhere(h), Active(h),
           \A u \in Units : u \in Holds(h)' => u \in Holds(h), LedgerKnown', Engaged(h)',
           NEW t \in Assets, target[h] = t, arg[h] \in {"ASSIGNED", "ACTIVE"},
           \A a \in Assets \ {t} :
              /\ asset'[a] = asset[a]
              /\ <<a, "OUT">> \in posted' <=> <<a, "OUT">> \in posted
              /\ <<a, "BACK">> \in posted' <=> <<a, "BACK">> \in posted,
           serial'[UnitOf[t]] = "ASSIGNED" =>
              Out(t)' \/ (serial[UnitOf[t]] = "ASSIGNED" /\ (Out(t) => Out(t)')),
           <<t, "BACK">> \in posted' => <<t, "OUT">> \in posted',
           <<t, "OUT">> \in posted' => asset'[t] # "NONE" \/ At(t, "save")',
           t \in FromStock /\ asset'[t] = "ASSIGNED" => Out(t)' \/ At(t, "set")'
    PROVE  UnitsInv' /\ Stays(h)
<1>. DEFINE u == UnitOf[t]
<1>1. u \in Units /\ Sound(u)
  BY UnitsOfAssets DEF UnitsInv
<1>2. \A a \in Assets \ {t} : Out(a)' = Out(a)
  BY DEF Out
<1>3. ASSUME NEW a \in Assets \ {t}, NEW p \in {"save", "set"}, At(a, p) PROVE At(a, p)'
  <2>1. PICK g \in Handlers : target[g] = a /\ pc[g] = p
    BY <1>3 DEF At
  <2>2. g # h
    BY <2>1
  <2>. QED
    BY <2>1, <2>2 DEF At, Elsewhere
<1>4. Sound(u)'
  <2>1. SoundAsset(t)'
    BY DEF SoundAsset
  <2>2. ASSUME NEW a \in Assets \ {t}, UnitOf[a] = u PROVE SoundAsset(a)'
    <3>1. SoundAsset(a)
      BY <1>1, <2>2 DEF Sound
    <3>. QED
      BY <1>2, <1>3, <3>1 DEF SoundAsset
  <2>3. ASSUME serial'[u] = "ASSIGNED" PROVE \E a \in Assets : UnitOf[a] = u /\ Out(a)'
    <3>1. CASE Out(t)'
      BY <3>1
    <3>2. CASE serial[u] = "ASSIGNED" /\ (Out(t) => Out(t)')
      <4>1. PICK a \in Assets : UnitOf[a] = u /\ Out(a)
        BY <1>1, <3>2 DEF Sound
      <4>2. Out(a)'
        BY <1>2, <3>2, <4>1
      <4>. QED
        BY <4>1, <4>2
    <3>. QED
      BY <2>3, <3>1, <3>2
  <2>. QED
    BY <2>1, <2>2, <2>3 DEF Sound
<1>5. arg[h] \notin Units
  BY DeploymentsAssumption DEF DeploymentsAssumption
<1>6. \A v \in Units : v \in Holds(h) => v = u
  BY <1>5, UnitsOfAssets DEF Holds
<1>. QED
  BY <1>4, <1>6, LocalStep

(* The mirror's ledger after a step that takes or waits for no refresh.    *)
LEMMA LedgerStep ==
    ASSUME TypeInv, UnitsInv, NEW h \in Handlers, Elsewhere(h), UNCHANGED <<snapshot, refresher>>,
           pc[h] # "refresh", target'[h] = target[h],
           pc[h] = "set" => pc'[h] \in {"set", "refresh"},
           posted \subseteq posted', mirror.posted \subseteq mirror'.posted, mirror'.posted \subseteq posted',
           \A a \in Assets : <<a, "BACK">> \in posted' =>
              <<a, "BACK">> \in posted \/ (a = target[h] /\ pc'[h] = "set")
    PROVE  LedgerKnown'
<1>1. refresher # Nobody => refresher # h /\ refresher \in Handlers /\ pc'[refresher] = "refresh"
  BY DEF UnitsInv, LedgerKnown, TypeInv, CacheTypes, Elsewhere
<1>2. ASSUME NEW a, Awaited(a, Handlers) PROVE Awaited(a, Handlers)'
  BY <1>2 DEF Awaited, Elsewhere
<1>3. ASSUME NEW a, Awaited(a, Handlers \ {refresher}) PROVE Awaited(a, Handlers \ {refresher})'
  BY <1>3 DEF Awaited, Elsewhere
<1>4. pc'[h] = "set" => Awaited(target[h], Handlers)'
  BY DEF Awaited
<1>5. pc'[h] = "set" /\ refresher # Nobody => Awaited(target[h], Handlers \ {refresher})'
  BY <1>1 DEF Awaited
<1>6. Knows(mirror.posted, Handlers)'
  BY <1>2, <1>4 DEF UnitsInv, LedgerKnown, Knows
<1>7. refresher # Nobody => Knows(snapshot.posted, Handlers \ {refresher})'
  BY <1>1, <1>3, <1>5 DEF UnitsInv, LedgerKnown, Knows
<1>. QED
  BY <1>1, <1>6, <1>7 DEF UnitsInv, LedgerKnown

LEMMA DeployUnits ==
    ASSUME TypeInv, UnitsInv, NEW h \in Handlers, Deploy(h) PROVE UnitsInv' /\ Stays(h)
<1>. DEFINE t == target[h]
<1>1. /\ pc[h] = "deploy" /\ Active(h) /\ t \in Assets /\ t \in FromStock
      /\ UnitOf[t] \in Units /\ arg[h] \in {"ASSIGNED", "ACTIVE"}
      /\ asset[t] = "NONE" /\ <<t, "OUT">> \notin posted /\ <<t, "BACK">> \notin posted
  BY UnitsOfAssets DEF Deploy, Active, TypeInv, RequestTypes, Working, UnitsInv, Engaged
<1>2. /\ posted' = posted \cup {<<t, "OUT">>} /\ serial' = [serial EXCEPT ![UnitOf[t]] = "ASSIGNED"]
      /\ UNCHANGED <<asset, device, mirror>>
      /\ pc' = [pc EXCEPT ![h] = "save"] /\ UNCHANGED <<kind, target, arg, seen, snapshot, refresher>>
  BY DEF Deploy, Proceed, request, refresh
<1>3. UnitOf[t] \in Holds(h)
  BY <1>1, HoldsTarget
<1>4. \A a \in Assets \ {t} :
              /\ asset'[a] = asset[a]
              /\ <<a, "OUT">> \in posted' <=> <<a, "OUT">> \in posted
              /\ <<a, "BACK">> \in posted' <=> <<a, "BACK">> \in posted
  BY <1>2
<1>5. pc'[h] = "save" /\ \A u \in Units : u \in Holds(h)' => u \in Holds(h)
  BY <1>1, <1>2, MovesOn
<1>6. Elsewhere(h)
  BY <1>1, <1>2, <1>3, <1>4, MovesOn DEF Elsewhere, TypeInv, StoreTypes
<1>7. Out(t)' /\ At(t, "save")' /\ <<t, "BACK">> \notin posted'
  BY <1>1, <1>2, <1>5 DEF Out, At
<1>8. Engaged(h)'
  BY <1>2, <1>5, <1>7 DEF Engaged
<1>9. LedgerKnown'
  BY <1>1, <1>2, <1>6, LedgerStep DEF UnitsInv, LedgerKnown, Knows
<1>. QED
  BY <1>1, <1>2, <1>4, <1>5, <1>6, <1>7, <1>8, <1>9, AssetUnits

LEMMA SaveUnits ==
    ASSUME TypeInv, UnitsInv, NEW h \in Handlers, Save(h) PROVE UnitsInv' /\ Stays(h)
<1>. DEFINE t == target[h]
<1>1. /\ pc[h] = "save" /\ Active(h) /\ t \in Assets /\ UnitOf[t] \in Units
      /\ arg[h] \in {"ASSIGNED", "ACTIVE"} /\ (t \in FromStock => Out(t))
  BY UnitsOfAssets DEF Save, Active, TypeInv, RequestTypes, Working, UnitsInv, Engaged
<1>2. /\ asset' = [asset EXCEPT ![t] = arg[h]] /\ Answer(h)
      /\ UNCHANGED <<posted, device, serial, snapshot, refresher>>
      /\ mirror' = IF t \in FromStock THEN [mirror EXCEPT !.posted = @ \cup {<<t, "OUT">>}]
                                      ELSE mirror
  BY DEF Save, Answer, refresh
<1>3. UnitOf[t] \in Holds(h)
  BY <1>1, HoldsTarget
<1>4. \A a \in Assets \ {t} : asset'[a] = asset[a]
  BY <1>2 DEF TypeInv, StoreTypes, AssetTable
<1>5. /\ pc'[h] = "refresh" /\ UNCHANGED target
      /\ \A u \in Units : u \in Holds(h)' => u \in Holds(h)
  BY <1>1, <1>2, Endings
<1>6. Elsewhere(h)
  BY <1>2, <1>3, <1>4, Endings DEF Elsewhere
<1>7. asset'[t] = arg[h] /\ \A a : Out(a)' = Out(a)
  BY <1>1, <1>2 DEF TypeInv, StoreTypes, AssetTable, Out
<1>8. Engaged(h)'
  BY <1>5 DEF Engaged
<1>9. LedgerKnown'
  <2>1. mirror'.posted = IF t \in FromStock THEN mirror.posted \cup {<<t, "OUT">>}
                         ELSE mirror.posted
    BY <1>2 DEF TypeInv, CacheTypes, Cache
  <2>2. mirror.posted \subseteq posted
    BY DEF UnitsInv, LedgerKnown, Knows
  <2>3. t \in FromStock => <<t, "OUT">> \in posted
    BY <1>1 DEF Out
  <2>4. mirror.posted \subseteq mirror'.posted /\ mirror'.posted \subseteq posted
    BY <2>1, <2>2, <2>3
  <2>. QED
    BY <1>1, <1>2, <1>5, <1>6, <2>4, LedgerStep
<1>10. SoundAsset(t)
  BY <1>1 DEF UnitsInv, Sound
<1>11. /\ <<t, "BACK">> \in posted' => <<t, "OUT">> \in posted'
       /\ asset'[t] # "NONE"
       /\ t \in FromStock /\ asset'[t] = "ASSIGNED" => Out(t)'
       /\ serial'[UnitOf[t]] = "ASSIGNED" =>
             serial[UnitOf[t]] = "ASSIGNED" /\ (Out(t) => Out(t)')
  BY <1>1, <1>2, <1>5, <1>7, <1>10 DEF SoundAsset, Out
<1>. QED
  BY <1>1, <1>2, <1>4, <1>5, <1>6, <1>8, <1>9, <1>11, AssetUnits

LEMMA RestockUnits ==
    ASSUME TypeInv, UnitsInv, NEW h \in Handlers, Restock(h) PROVE UnitsInv' /\ Stays(h)
<1>. DEFINE t == target[h]
<1>1. /\ pc[h] = "restock" /\ Active(h) /\ t \in Assets /\ UnitOf[t] \in Units
      /\ arg[h] \in {"ASSIGNED", "ACTIVE"} /\ Out(t) /\ arg[h] = "ACTIVE"
  BY UnitsOfAssets DEF Restock, Active, TypeInv, RequestTypes, Working, UnitsInv, Engaged
<1>2. /\ posted' = posted \cup {<<t, "BACK">>} /\ serial' = [serial EXCEPT ![UnitOf[t]] = "IN_STOCK"]
      /\ UNCHANGED <<asset, mirror>>
      /\ pc' = [pc EXCEPT ![h] = "set"] /\ seen' = [seen EXCEPT ![h] = "BACK"]
      /\ UNCHANGED <<kind, target, arg, snapshot, refresher>>
  BY DEF Restock, refresh
<1>3. UnitOf[t] \in Holds(h)
  BY <1>1, HoldsTarget
<1>4. \A a \in Assets \ {t} :
              /\ asset'[a] = asset[a]
              /\ <<a, "OUT">> \in posted' <=> <<a, "OUT">> \in posted
              /\ <<a, "BACK">> \in posted' <=> <<a, "BACK">> \in posted
  BY <1>2
<1>5. pc'[h] = "set" /\ \A u \in Units : u \in Holds(h)' => u \in Holds(h)
  BY <1>1, <1>2, MovesOn
<1>6. Elsewhere(h)
  <2>1. \A u \in Units : device'[u] = "NONE" <=> device[u] = "NONE"
    BY DEF Restock, CloseTagged, TypeInv, StoreTypes, DeviceTable
  <2>. QED
    BY <1>1, <1>2, <1>3, <1>4, <2>1, MovesOn DEF Elsewhere, TypeInv, StoreTypes
<1>7. ~Out(t)' /\ At(t, "set")' /\ <<t, "BACK">> \in posted' /\ <<t, "OUT">> \in posted'
  BY <1>1, <1>2, <1>5 DEF Out, At
<1>8. Engaged(h)'
  BY <1>1, <1>2, <1>5, <1>7 DEF Engaged
<1>9. LedgerKnown'
  BY <1>1, <1>2, <1>5, <1>6, LedgerStep DEF UnitsInv, LedgerKnown, Knows
<1>10. asset[t] # "NONE" \/ At(t, "save")
  BY <1>1 DEF UnitsInv, Sound, SoundAsset, Out
<1>11. At(t, "save") => At(t, "save")'
  BY <1>1, <1>2, <1>6 DEF At, Elsewhere
<1>12. serial'[UnitOf[t]] = "IN_STOCK"
  BY <1>1, <1>2 DEF TypeInv, StoreTypes
<1>. QED
  BY <1>1, <1>2, <1>4, <1>5, <1>6, <1>7, <1>8, <1>9, <1>10, <1>11, <1>12, AssetUnits

LEMMA SetUnits ==
    ASSUME TypeInv, UnitsInv, NEW h \in Handlers, SetAssignment(h) PROVE UnitsInv' /\ Stays(h)
<1>. DEFINE t == target[h]
<1>1. /\ pc[h] = "set" /\ Active(h) /\ t \in Assets /\ UnitOf[t] \in Units
      /\ arg[h] \in {"ASSIGNED", "ACTIVE"} /\ (t \in FromStock => arg[h] = "ACTIVE")
      /\ (seen[h] = "BACK" => <<t, "BACK">> \in posted)
  BY UnitsOfAssets DEF SetAssignment, Active, TypeInv, RequestTypes, Working, UnitsInv, Engaged
<1>2. /\ asset' = IF asset[t] = "NONE" THEN asset ELSE [asset EXCEPT ![t] = arg[h]]
      /\ UNCHANGED <<posted, device, serial, snapshot, refresher>> /\ Answer(h)
      /\ mirror' = IF seen[h] = "BACK" THEN [mirror EXCEPT !.posted = @ \cup {<<t, "BACK">>}]
                   ELSE mirror
  BY DEF SetAssignment, Answer, refresh
<1>3. UnitOf[t] \in Holds(h)
  BY <1>1, HoldsTarget
<1>4. \A a \in Assets \ {t} : asset'[a] = asset[a]
  BY <1>2 DEF TypeInv, StoreTypes, AssetTable
<1>5. /\ pc'[h] = "refresh" /\ UNCHANGED target
      /\ \A u \in Units : u \in Holds(h)' => u \in Holds(h)
  BY <1>1, <1>2, Endings
<1>6. Elsewhere(h)
  BY <1>2, <1>3, <1>4, Endings DEF Elsewhere
<1>7. /\ asset[t] = "NONE" => asset'[t] = "NONE"
      /\ asset[t] # "NONE" => asset'[t] = arg[h]
      /\ \A a : Out(a)' = Out(a)
  BY <1>1, <1>2 DEF TypeInv, StoreTypes, AssetTable, Out
<1>8. Engaged(h)'
  BY <1>5 DEF Engaged
<1>9. LedgerKnown'
  <2>1. mirror'.posted = IF seen[h] = "BACK" THEN mirror.posted \cup {<<t, "BACK">>}
                         ELSE mirror.posted
    BY <1>2 DEF TypeInv, CacheTypes, Cache
  <2>2. mirror.posted \subseteq posted
    BY DEF UnitsInv, LedgerKnown, Knows
  <2>3. mirror.posted \subseteq mirror'.posted /\ mirror'.posted \subseteq posted
    BY <1>1, <2>1, <2>2
  <2>. QED
    BY <1>1, <1>2, <1>5, <1>6, <2>3, LedgerStep
<1>10. SoundAsset(t)
  BY <1>1 DEF UnitsInv, Sound
<1>11. At(t, "save") => At(t, "save")'
  BY <1>1, <1>5, <1>6 DEF At, Elsewhere
<1>12. <<t, "OUT">> \in posted' => asset'[t] # "NONE" \/ At(t, "save")'
  BY <1>1, <1>2, <1>5, <1>7, <1>10, <1>11 DEF SoundAsset
<1>13. /\ t \in FromStock => asset'[t] # "ASSIGNED"
       /\ <<t, "BACK">> \in posted' => <<t, "OUT">> \in posted'
  BY <1>1, <1>2, <1>5, <1>7, <1>10 DEF SoundAsset
<1>14. serial'[UnitOf[t]] = "ASSIGNED" => serial[UnitOf[t]] = "ASSIGNED" /\ (Out(t) => Out(t)')
  BY <1>2, <1>5 DEF Out
<1>. QED
  BY <1>1, <1>2, <1>4, <1>5, <1>6, <1>8, <1>9, <1>12, <1>13, <1>14, AssetUnits

LEMMA AssignUnits ==
    ASSUME TypeInv, UnitsInv, NEW h \in Handlers, Assign(h) PROVE UnitsInv' /\ Stays(h)
<1>. DEFINE t == target[h]
<1>1. pc[h] = "assign" /\ Active(h) /\ t \in Units /\ arg[h] \in {"IN_STOCK", "RENTAL"}
  BY DEF Assign, Active, TypeInv, RequestTypes, Working
<1>2. /\ device' = [device EXCEPT ![t] = arg[h]] /\ Answer(h)
      /\ UNCHANGED <<asset, posted, serial, snapshot, refresher>>
  BY DEF Assign, Answer, refresh
<1>3. mirror'.posted = mirror.posted
  BY DEF Assign, TypeInv, CacheTypes, Cache
<1>4. arg[h] \notin Units
  BY <1>1, DeploymentsAssumption DEF DeploymentsAssumption
<1>5. \A u \in Units : u \in Holds(h) <=> u = t
  BY <1>1, <1>4, UnitsTouched DEF Holds
<1>6. \A u \in Units \ Holds(h) : device'[u] = device[u]
  BY <1>2, <1>5 DEF TypeInv, StoreTypes, DeviceTable
<1>7. /\ pc'[h] = "refresh" /\ UNCHANGED target
      /\ \A u \in Units : u \in Holds(h)' => u \in Holds(h)
  BY <1>1, <1>2, Endings
<1>8. Elsewhere(h)
  BY <1>2, <1>6, Endings DEF Elsewhere
<1>9. Engaged(h)'
  BY <1>7 DEF Engaged
<1>10. LedgerKnown'
  BY <1>1, <1>2, <1>3, <1>7, <1>8, LedgerWaits
<1>. QED
  BY <1>1, <1>2, <1>7, <1>8, <1>9, <1>10, QuietUnits

LEMMA ExchangeUnits ==
    ASSUME TypeInv, UnitsInv, NEW h \in Handlers, Exchange(h) PROVE UnitsInv' /\ Stays(h)
<1>. DEFINE t == target[h]
            v == arg[h]
<1>1. pc[h] = "exchange" /\ Active(h) /\ t \in Units /\ v \in Units
  BY DEF Exchange, Active, TypeInv, RequestTypes, Working
<1>2. /\ device' = [device EXCEPT ![t] = "EXCHANGED", ![v] = "RENTAL"] /\ Answer(h)
      /\ UNCHANGED <<asset, posted, serial, snapshot, refresher>>
  BY DEF Exchange, Answer, refresh
<1>3. mirror'.posted = mirror.posted
  BY DEF Exchange
<1>5. \A u \in Units : u \in Holds(h) <=> u = t \/ u = v
  BY <1>1, UnitsTouched DEF Holds
<1>6. \A u \in Units \ Holds(h) : device'[u] = device[u]
  BY <1>2, <1>5 DEF TypeInv, StoreTypes, DeviceTable
<1>7. /\ pc'[h] = "refresh" /\ UNCHANGED target
      /\ \A u \in Units : u \in Holds(h)' => u \in Holds(h)
  BY <1>1, <1>2, Endings
<1>8. Elsewhere(h)
  BY <1>2, <1>6, Endings DEF Elsewhere
<1>9. Engaged(h)'
  BY <1>7 DEF Engaged
<1>10. LedgerKnown'
  BY <1>1, <1>2, <1>3, <1>7, <1>8, LedgerWaits
<1>. QED
  BY <1>1, <1>2, <1>7, <1>8, <1>9, <1>10, QuietUnits

LEMMA WorkUnits ==
    ASSUME TypeInv, UnitsInv, Mishaps = {}, NEW h \in Handlers, DeploymentWork(h)
    PROVE  UnitsInv' /\ Stays(h)
  BY DeployUnits, SaveUnits, RestockUnits, SetUnits, ReadingUnits, AssignUnits, ExchangeUnits
  DEF DeploymentWork

(* Requests about applications hold no unit.                               *)
LEMMA ApprovalStartUnits ==
    ASSUME TypeInv, UnitsInv, "OVERLAP" \notin Mishaps, NEW h \in Handlers, ApprovalStart(h)
    PROVE  UnitsInv'
<1>1. ASSUME NEW k, NEW t, NEW x, NEW first, Open(h, k, t, x, first),
             first \in {"submit", "decide", "reconcile", "withdraw"}, UNCHANGED <<tables, mirror>>
      PROVE  UnitsInv'
  <2>1. Elsewhere(h) /\ pc[h] = "idle" /\ pc'[h] = first
    BY <1>1 DEF Open, TypeInv, RequestTypes, Elsewhere, tables
  <2>2. UNCHANGED <<posted, snapshot, refresher>>
    BY <1>1 DEF Open, tables, refresh
  <2>3. LedgerKnown'
    BY <1>1, <2>1, <2>2, LedgerWaits
  <2>4. Engaged(h)'
    BY <1>1, <2>1 DEF Engaged
  <2>. QED
    BY <1>1, <2>3, <2>4, OpenUnits
<1>2. ASSUME NEW r \in Applications, NEW v, StartDecide(h, r, v) PROVE UnitsInv'
  <2>1. PICK first \in {"decide", "reconcile"} : Open(h, "DECIDE", r, v, first)
    BY <1>2 DEF StartDecide
  <2>. QED
    BY <1>1, <1>2, <2>1 DEF StartDecide
<1>3. ASSUME NEW r \in Applications, StartSubmit(h, r) PROVE UnitsInv'
  BY <1>1, <1>3 DEF StartSubmit
<1>4. ASSUME NEW r \in Applications, StartWithdraw(h, r) PROVE UnitsInv'
  BY <1>1, <1>4 DEF StartWithdraw
<1>. QED
  BY <1>2, <1>3, <1>4 DEF ApprovalStart

LEMMA AnswerUnits ==
    ASSUME TypeInv, UnitsInv, NEW h \in Handlers, Answer(h),
           pc[h] \in {"submit", "decide", "reconcile", "withdraw"},
           UNCHANGED <<asset, posted, serial, mirror>>,
           \A u \in Units : device'[u] = "NONE" <=> device[u] = "NONE"
    PROVE  UnitsInv' /\ Stays(h)
<1>1. /\ pc'[h] = "refresh" /\ UNCHANGED <<target, snapshot, refresher>> /\ Active(h)
      /\ \A u \in Units : u \in Holds(h)' => u \in Holds(h)
  BY Endings DEF Active, refresh
<1>2. Elsewhere(h)
  BY Endings DEF Elsewhere
<1>3. Engaged(h)'
  BY <1>1 DEF Engaged
<1>4. LedgerKnown'
  BY <1>1, <1>2, LedgerWaits
<1>. QED
  BY <1>1, <1>2, <1>3, <1>4, QuietUnits

LEMMA RefreshUnits ==
    ASSUME TypeInv, UnitsInv, "MISS" \notin Mishaps, NEW h \in Handlers, StartRefresh(h) \/ ApplyRefresh(h)
    PROVE  UnitsInv' /\ Stays(h)
<1>1. CASE StartRefresh(h)
  <2>1. /\ UNCHANGED <<tables, mirror, pc, request>> /\ refresher' = h /\ snapshot' = Rows
        /\ pc[h] = "refresh"
    BY <1>1 DEF StartRefresh
  <2>2. snapshot'.posted = posted /\ UNCHANGED <<posted, asset, device, serial, kind, target, arg, seen>>
    BY <2>1 DEF Rows, tables, request
  <2>3. Elsewhere(h) /\ \A u \in Units : u \in Holds(h)' => u \in Holds(h)
    BY <2>1, <2>2 DEF Elsewhere, Holds, Active
  <2>4. Engaged(h)'
    BY <2>1 DEF Engaged
  <2>5. Knows(mirror.posted, Handlers)'
    BY <2>1, <2>2 DEF UnitsInv, LedgerKnown, Knows, Awaited
  <2>6. LedgerKnown'
    BY <2>1, <2>2, <2>5 DEF LedgerKnown, Knows
  <2>. QED
    BY <2>1, <2>2, <2>3, <2>4, <2>6, QuietUnits
<1>2. CASE ApplyRefresh(h)
  <2>1. /\ UNCHANGED <<asset, posted, device, serial>> /\ refresher' = Nobody /\ snapshot' = Empty
        /\ mirror'.posted = snapshot.posted
        /\ pc[h] = "refresh" /\ refresher = h /\ Finish(h) /\ Active(h)
    BY <1>2 DEF ApplyRefresh, tables, Active
  <2>2. Elsewhere(h) /\ \A u \in Units : u \in Holds(h)' => u \in Holds(h)
    BY <2>1, Endings DEF Elsewhere
  <2>3. Engaged(h)'
    BY <2>1, Endings DEF Engaged
  <2>4. h # Nobody
    BY DeploymentsAssumption DEF DeploymentsAssumption
  <2>5. Knows(snapshot.posted, Handlers \ {h})
    BY <2>1, <2>4 DEF UnitsInv, LedgerKnown
  <2>6. ASSUME NEW a, Awaited(a, Handlers \ {h}) PROVE Awaited(a, Handlers)'
    BY <2>2, <2>6 DEF Awaited, Elsewhere
  <2>7. Knows(mirror.posted, Handlers)'
    BY <2>1, <2>5, <2>6 DEF Knows
  <2>8. LedgerKnown'
    BY <2>1, <2>7 DEF LedgerKnown, Empty
  <2>. QED
    BY <2>1, <2>2, <2>3, <2>8, QuietUnits
<1>. QED
  BY <1>1, <1>2

LEMMA ApprovalStepUnits ==
    ASSUME TypeInv, UnitsInv, "MISS" \notin Mishaps, NEW h \in Handlers, ApprovalStep(h) PROVE UnitsInv' /\ Stays(h)
<1>1. CASE Submit(h) \/ Withdraw(h)
  BY <1>1, AnswerUnits DEF Submit, Withdraw, tables
<1>2. CASE Decide(h)
  <2>1. \A u \in Units : device'[u] = "NONE" <=> device[u] = "NONE"
    BY <1>2 DEF Decide, TypeInv, StoreTypes, DeviceTable
  <2>. QED
    BY <1>2, <2>1, AnswerUnits DEF Decide
<1>3. CASE Reconcile(h)
  BY <1>3, AnswerUnits DEF Reconcile
<1>. QED
  BY <1>1, <1>2, <1>3, RefreshUnits DEF ApprovalStep, ReadRows, Replace

LEMMA InitUnits == ApprovalsInit => UnitsInv
<1>. SUFFICES ASSUME ApprovalsInit PROVE UnitsInv
  OBVIOUS
<1>1. Exclusive /\ \A h \in Handlers : Engaged(h)
  BY DEF ApprovalsInit, Init, Exclusive, Holds, Active, Engaged
<1>2. LedgerKnown
  BY DEF ApprovalsInit, Init, LedgerKnown, Knows, Empty
<1>3. \A u \in Units : Sound(u)
  BY DEF ApprovalsInit, Init, Sound, SoundAsset, Out
<1>. QED
  BY <1>1, <1>2, <1>3 DEF UnitsInv

LEMMA NextUnits ==
    Mishaps = {} => (TypeInv /\ UnitsInv /\ [ApprovalsNext]_allVars => UnitsInv')
<1>1. ASSUME TypeInv, UnitsInv, UNCHANGED allVars PROVE UnitsInv'
  <2>. USE <1>1 DEF allVars, vars, tables, refresh, request
  <2>1. Exclusive' /\ \A h \in Handlers : Engaged(h)'
    BY DEF UnitsInv, Exclusive, Holds, Active, Engaged, Out
  <2>2. LedgerKnown'
    BY DEF UnitsInv, LedgerKnown, Knows, Awaited
  <2>3. ASSUME NEW u \in Units PROVE Sound(u)'
    <3>1. \A a, p : Out(a)' = Out(a) /\ At(a, p)' = At(a, p)
      BY DEF Out, At
    <3>. QED
      BY <3>1 DEF UnitsInv, Sound, SoundAsset
  <2>. QED
    BY <2>1, <2>2, <2>3 DEF UnitsInv
<1>. QED
  BY <1>1, StartUnits, WorkUnits, ApprovalStartUnits, ApprovalStepUnits
  DEF ApprovalsNext, UndisturbedStart

LEMMA UnitsAlways ==
    ASSUME Mishaps = {} PROVE ApprovalsSpec => []UnitsInv
  BY InitUnits, NextUnits, TypesAlways, PTL DEF ApprovalsSpec

(* Where requests follow one another on a unit, their connections hold and *)
(* refreshes succeed, an asset in the field has its unit deducted or a     *)
(* request on it is open, the ledger has no unit back that did not leave,  *)
(* and a serial that the register has in the field belongs to an asset     *)
(* that is out, however late the mirror is.                                *)
THEOREM FieldAssetsKeepTheirUnit ==
    ASSUME Mishaps = {} PROVE ApprovalsSpec => []FieldAssetsAreOut
<1>1. UnitsInv => FieldAssetsAreOut
  <2>. SUFFICES ASSUME UnitsInv PROVE FieldAssetsAreOut
    OBVIOUS
  <2>1. ASSUME NEW a \in Assets
        PROVE  /\ a \in FromStock /\ asset[a] = "ASSIGNED"
                    => Out(a) \/ \E h \in Handlers : target[h] = a
               /\ <<a, "BACK">> \in posted => <<a, "OUT">> \in posted
    <3>1. SoundAsset(a)
      BY UnitsOfAssets DEF UnitsInv, Sound
    <3>2. At(a, "set") => \E h \in Handlers : target[h] = a
      BY DEF At
    <3>. QED
      BY <3>1, <3>2 DEF SoundAsset
  <2>2. ASSUME NEW u \in Units, serial[u] = "ASSIGNED" PROVE \E a \in OutAssets : UnitOf[a] = u
    BY <2>2 DEF UnitsInv, Sound, OutAssets
  <2>. QED
    BY <2>1, <2>2 DEF FieldAssetsAreOut
<1>. QED
  BY <1>1, UnitsAlways, PTL

-----------------------------------------------------------------------------
(* Counts.  What a posted record had when its request read it decides what *)
(* the request moves; the mirror may show another status only while the    *)
(* refresh of the request that changed it is still to come.                *)

Posting(h) ==
    LET t == target[h]
    IN  /\ pc[h] \in {"check", "assign"} /\ kind[h] # "ASSIGN" => t \notin swapped
        /\ pc[h] = "assign" =>
              IF kind[h] = "ASSIGN" THEN seen[h] = "NONE"
                                    ELSE Assigned(seen[h]) <=> Assigned(device[t])
        /\ pc[h] \in {"collect", "look", "exchange"} => Assigned(device[t])
        /\ pc[h] \in {"look", "exchange"} => device[arg[h]] = "NONE"
        /\ pc[h] = "reconcile" => t \in Audits

Differs(d, u) == d # "NONE" /\ device[u] # "NONE" /\ ~(Assigned(d) <=> Assigned(device[u]))
Answering(u, hs) == \E g \in hs : target[g] = u /\ pc[g] = "refresh"
Tells(d, hs) == \A u \in Units \ swapped : Differs(d[u], u) => Answering(u, hs)
DevicesKnown ==
    /\ Tells(mirror.device, Handlers)
    /\ refresher # Nobody => Tells(snapshot.device, Handlers \ {refresher})

Awaits(r) == filed[r] = "PENDING" \/ \E g \in Handlers : target[g] = r
Reserved ==
    \A r \in Applications \ Audits :
        Awaits(r) => Assigned(device[DeviceOf[r]]) /\ ~Busy(DeviceOf[r])

Executed == {r \in Applications \ Audits : granted[r] > 0}
BooksInv == CountMatchesDevices /\ StockExplained

CountsInv ==
    /\ \A h \in Handlers : Posting(h)
    /\ \A u \in swapped : device[u] # "NONE"
    /\ DevicesKnown /\ Reserved /\ BooksInv

Beside(h) ==
    /\ Elsewhere(h)
    /\ \A u \in Units \ Holds(h) :
          /\ Assigned(device'[u]) <=> Assigned(device[u])
          /\ u \in swapped' <=> u \in swapped

LEMMA BusyHolds == \A u \in Units : Busy(u) <=> \E g \in Handlers : u \in Holds(g)
  BY DEF Busy, Holds
LEMMA AppliedDevice == \A r \in Applications \ Audits : DeviceOf[r] \in Units
  BY ApprovalsAssumption DEF ApprovalsAssumption, Audits
LEMMA ApplicationsApart ==
    \A r \in Applications : r \notin Assets /\ r \notin Units /\ r # NoTarget /\ Touches(r) = {r}
  BY ApprovalsAssumption DEF ApprovalsAssumption, Touches

LEMMA OthersPosting ==
    ASSUME TypeInv, UnitsInv, CountsInv, NEW h \in Handlers, Beside(h), NEW g \in Handlers, g # h
    PROVE  Posting(g)'
<1>1. /\ pc'[g] = pc[g] /\ kind'[g] = kind[g] /\ target'[g] = target[g]
      /\ arg'[g] = arg[g] /\ seen'[g] = seen[g]
  BY DEF Beside, Elsewhere
<1>2. Posting(g) /\ Working(g)
  BY DEF CountsInv, TypeInv, RequestTypes
<1>3. \A u \in Units : u \in Holds(g) => u \notin Holds(h)
  BY DEF UnitsInv, Exclusive
<1>4. CASE pc[g] \in {"check", "assign", "collect", "look", "exchange"}
  <2>1. target[g] \in Units \ Holds(h)
    BY <1>2, <1>3, <1>4, HoldsTarget DEF Working, Active
  <2>2. pc[g] \in {"look", "exchange"} => arg[g] \in Units \ Holds(h)
    BY <1>2, <1>3, <1>4, HoldsTarget DEF Working, Active
  <2>3. /\ Assigned(device'[target[g]]) <=> Assigned(device[target[g]])
        /\ target[g] \in swapped' <=> target[g] \in swapped
    BY <2>1 DEF Beside
  <2>4. pc[g] \in {"look", "exchange"} => device'[arg[g]] = "NONE"
    BY <1>2, <2>2 DEF Beside, Elsewhere, Posting
  <2>. QED
    BY <1>1, <1>2, <1>4, <2>3, <2>4 DEF Posting
<1>. QED
  BY <1>1, <1>2, <1>4 DEF Posting

LEMMA SameBooks ==
    ASSUME BooksInv, UNCHANGED <<count, stock, adjusted>>, Taken' = Taken,
           OutAssets' = OutAssets, Executed' = Executed
    PROVE  BooksInv'
  BY DEF BooksInv, CountMatchesDevices, StockExplained, Restocks, Executed

LEMMA ReservedStep ==
    ASSUME TypeInv, CountsInv, NEW h \in Handlers, Beside(h), Active(h),
           \A u \in Units : u \in Holds(h)' => u \in Holds(h),
           target'[h] = target[h] \/ target'[h] = NoTarget,
           \A r \in Applications : filed'[r] = "PENDING" => filed[r] = "PENDING" \/ target[h] = r
    PROVE  Reserved'
<1>. SUFFICES ASSUME NEW r \in Applications \ Audits, Awaits(r)'
     PROVE  Assigned(device'[DeviceOf[r]]) /\ ~Busy(DeviceOf[r])'
  BY DEF Reserved, Audits
<1>1. Awaits(r)
  <2>1. CASE filed'[r] = "PENDING"
    BY <2>1 DEF Awaits
  <2>2. CASE \E g \in Handlers : target'[g] = r
    <3>1. PICK g \in Handlers : target'[g] = r
      BY <2>2
    <3>2. target[g] = r
      BY <3>1, ApplicationsApart DEF Beside, Elsewhere
    <3>. QED
      BY <3>2 DEF Awaits
  <2>. QED
    BY <2>1, <2>2 DEF Awaits
<1>2. Assigned(device[DeviceOf[r]]) /\ DeviceOf[r] \in Units /\ \A g \in Handlers : DeviceOf[r] \notin Holds(g)
  BY <1>1, AppliedDevice, BusyHolds DEF CountsInv, Reserved
<1>3. \A g \in Handlers : DeviceOf[r] \notin Holds(g)'
  <2>1. ASSUME NEW g \in Handlers, g # h PROVE Holds(g)' = Holds(g)
    BY <2>1 DEF Beside, Elsewhere, Holds, Active
  <2>. QED
    BY <1>2, <2>1
<1>4. ~Busy(DeviceOf[r])'
  BY <1>3 DEF Busy, Holds
<1>. QED
  BY <1>2, <1>4 DEF Beside

(* A step within a request.                                                *)
LEMMA CountsStep ==
    ASSUME TypeInv, UnitsInv, CountsInv, NEW h \in Handlers, Active(h), pc[h] # "refresh", Beside(h),
           \A u \in Units : u \in Holds(h)' => u \in Holds(h),
           UNCHANGED <<snapshot, refresher>>,
           target'[h] = target[h] \/ target'[h] = NoTarget,
           Posting(h)', swapped \subseteq swapped', \A u \in swapped' : device'[u] # "NONE",
           \A u \in Units \ swapped' :
              \/ /\ Assigned(device'[u]) <=> Assigned(device[u])
                 /\ device'[u] = "NONE" <=> device[u] = "NONE"
              \/ pc'[h] = "refresh" /\ target'[h] = u,
           \A u \in Units \ swapped' :
              mirror'.device[u] = mirror.device[u] \/ ~Differs(mirror.device[u], u)',
           \A r \in Applications : filed'[r] = "PENDING" => filed[r] = "PENDING" \/ target[h] = r,
           BooksInv'
    PROVE  CountsInv'
<1>1. \A g \in Handlers : Posting(g)'
  BY OthersPosting
<1>2. refresher # Nobody => refresher # h
  BY DEF UnitsInv, LedgerKnown
<1>3. ASSUME NEW u, NEW hs, hs \subseteq Handlers, Answering(u, hs) PROVE Answering(u, hs)'
  <2>1. PICK g \in hs : target[g] = u /\ pc[g] = "refresh"
    BY <1>3 DEF Answering
  <2>2. g # h /\ target'[g] = u /\ pc'[g] = "refresh"
    BY <1>3, <2>1 DEF Beside, Elsewhere
  <2>. QED
    BY <2>1, <2>2 DEF Answering
<1>4. ASSUME NEW u, NEW hs, h \in hs, pc'[h] = "refresh" /\ target'[h] = u PROVE Answering(u, hs)'
  BY <1>4 DEF Answering
<1>5. Tells(mirror.device, Handlers)'
  <2>. SUFFICES ASSUME NEW u \in Units \ swapped', Differs(mirror.device[u], u)'
       PROVE  Answering(u, Handlers)'
    BY DEF Tells
  <2>1. CASE pc'[h] = "refresh" /\ target'[h] = u
    BY <1>4, <2>1
  <2>2. CASE (Assigned(device'[u]) <=> Assigned(device[u])) /\ (device'[u] = "NONE" <=> device[u] = "NONE")
    <3>1. mirror'.device[u] = mirror.device[u]
      OBVIOUS
    <3>2. Differs(mirror.device[u], u)
      BY <2>2, <3>1 DEF Differs, Assigned
    <3>. QED
      BY <1>3, <3>2 DEF CountsInv, DevicesKnown, Tells
  <2>. QED
    BY <2>1, <2>2
<1>6. ASSUME refresher # Nobody PROVE Tells(snapshot.device, Handlers \ {refresher})'
  <2>. SUFFICES ASSUME NEW u \in Units \ swapped', Differs(snapshot.device[u], u)'
       PROVE  Answering(u, Handlers \ {refresher})'
    BY DEF Tells
  <2>1. CASE pc'[h] = "refresh" /\ target'[h] = u
    BY <1>2, <1>4, <1>6, <2>1
  <2>2. CASE (Assigned(device'[u]) <=> Assigned(device[u])) /\ (device'[u] = "NONE" <=> device[u] = "NONE")
    <3>1. Differs(snapshot.device[u], u)
      BY <2>2 DEF Differs, Assigned
    <3>2. Answering(u, Handlers \ {refresher})
      BY <1>6, <3>1 DEF CountsInv, DevicesKnown, Tells
    <3>. QED
      BY <1>3, <3>2
  <2>. QED
    BY <2>1, <2>2
<1>7. Reserved'
  BY ReservedStep
<1>. QED
  BY <1>1, <1>5, <1>6, <1>7 DEF CountsInv, DevicesKnown

LEMMA CountsOpen ==
    ASSUME TypeInv, UnitsInv, CountsInv, NEW h \in Handlers,
           NEW k, NEW t, NEW x, NEW first, Open(h, k, t, x, first),
           UNCHANGED <<tables, filed, granted, adjusted>>,
           \A u \in Units \ swapped :
              mirror'.device[u] = mirror.device[u] \/ ~Differs(mirror.device[u], u)',
           Posting(h)',
           \A r \in Applications \ Audits :
              filed[r] = "PENDING" \/ (\E g \in Handlers \ {h} : target[g] = r)
                 => DeviceOf[r] \notin Touches(t) \cup {x},
           t \in Applications \ Audits =>
              /\ filed[t] = "PENDING" \/ (Assigned(device[DeviceOf[t]]) /\ ~Busy(DeviceOf[t]))
              /\ x \notin Units
    PROVE  CountsInv'
<1>1. /\ Beside(h) /\ pc[h] = "idle" /\ Holds(h) = {} /\ target'[h] = t /\ arg'[h] = x
      /\ UNCHANGED <<snapshot, refresher>>
  BY DEF Open, TypeInv, RequestTypes, Beside, Elsewhere, tables, Holds, Active, refresh
<1>2. \A g \in Handlers : Posting(g)'
  BY <1>1, OthersPosting
<1>3. BooksInv'
  BY DEF CountsInv, BooksInv, CountMatchesDevices, StockExplained, Restocks, Taken, OutAssets, Out, tables
<1>4. ASSUME NEW u, NEW hs, hs \subseteq Handlers, Answering(u, hs) PROVE Answering(u, hs)'
  <2>1. PICK g \in hs : target[g] = u /\ pc[g] = "refresh"
    BY <1>4 DEF Answering
  <2>2. g # h /\ target'[g] = u /\ pc'[g] = "refresh"
    BY <1>1, <1>4, <2>1 DEF Beside, Elsewhere
  <2>. QED
    BY <2>1, <2>2 DEF Answering
<1>6. Tells(mirror.device, Handlers)'
  <2>. SUFFICES ASSUME NEW u \in Units \ swapped', Differs(mirror.device[u], u)'
       PROVE  Answering(u, Handlers)'
    BY DEF Tells
  <2>1. u \in Units \ swapped /\ mirror'.device[u] = mirror.device[u]
    BY DEF tables
  <2>2. Differs(mirror.device[u], u)
    BY <2>1 DEF Differs, Assigned, tables
  <2>. QED
    BY <1>4, <2>1, <2>2 DEF CountsInv, DevicesKnown, Tells
<1>7. ASSUME refresher # Nobody PROVE Tells(snapshot.device, Handlers \ {refresher})'
  <2>. SUFFICES ASSUME NEW u \in Units \ swapped', Differs(snapshot.device[u], u)'
       PROVE  Answering(u, Handlers \ {refresher})'
    BY DEF Tells
  <2>1. u \in Units \ swapped /\ Differs(snapshot.device[u], u)
    BY <1>1 DEF Differs, Assigned, tables
  <2>2. Answering(u, Handlers \ {refresher})
    BY <1>7, <2>1 DEF CountsInv, DevicesKnown, Tells
  <2>. QED
    BY <1>1, <1>4, <2>2
<1>8. Reserved'
  <2>. SUFFICES ASSUME NEW r \in Applications \ Audits, Awaits(r)'
       PROVE  Assigned(device[DeviceOf[r]]) /\ ~Busy(DeviceOf[r])'
    BY DEF Reserved, Audits, Assigned, tables
  <2>1. \A g \in Handlers : g # h => Holds(g)' = Holds(g) /\ target'[g] = target[g]
    BY <1>1 DEF Beside, Elsewhere, Holds, Active
  <2>2. ASSUME Assigned(device[DeviceOf[r]]), ~Busy(DeviceOf[r]), DeviceOf[r] \notin Touches(t) \cup {x}
        PROVE  Assigned(device[DeviceOf[r]]) /\ ~Busy(DeviceOf[r])'
    <3>1. \A g \in Handlers : DeviceOf[r] \notin Holds(g)'
      BY <1>1, <2>1, <2>2, AppliedDevice, BusyHolds DEF Holds
    <3>. QED
      BY <2>2, <3>1 DEF Busy, Holds
  <2>3. CASE filed[r] = "PENDING" \/ \E g \in Handlers \ {h} : target[g] = r
    <3>1. Awaits(r)
      BY <2>3 DEF Awaits
    <3>2. DeviceOf[r] \notin Touches(t) \cup {x}
      BY <2>3
    <3>. QED
      BY <2>2, <3>1, <3>2 DEF CountsInv, Reserved
  <2>4. CASE ~(filed[r] = "PENDING" \/ \E g \in Handlers \ {h} : target[g] = r)
    <3>1. t = r
      BY <1>1, <2>1, <2>4 DEF Awaits
    <3>2. DeviceOf[r] \notin Touches(t) \cup {x}
      BY <3>1, AppliedDevice, ApplicationsApart
    <3>. QED
      BY <2>2, <2>4, <3>1, <3>2
  <2>. QED
    BY <2>3, <2>4
<1>. QED
  BY <1>1, <1>2, <1>3, <1>6, <1>7, <1>8 DEF CountsInv, DevicesKnown, tables

LEMMA CountsStart ==
    ASSUME TypeInv, UnitsInv, CountsInv, "LATE" \notin Lapses, NEW h \in Handlers, UndisturbedStart(h)
    PROVE  CountsInv'
<1>1. DeploymentStart(h) /\ Undisturbed(h) /\ UNCHANGED <<filed, granted, adjusted>>
  BY DEF UndisturbedStart, registry
<1>2. ASSUME NEW k, NEW t \in Assets \cup Units, NEW x, NEW first, Open(h, k, t, x, first), UNCHANGED tables,
             \A u \in Units \ swapped :
                mirror'.device[u] = mirror.device[u] \/ ~Differs(mirror.device[u], u)',
             first = "check" /\ k # "ASSIGN" => t \notin swapped,
             first \in {"collect", "look"} => Assigned(device[t]),
             first = "look" => device[x] = "NONE",
             first \in {"deploy", "save", "restock", "set", "check", "collect", "look"}
      PROVE  CountsInv'
  <2>1. pc'[h] = first /\ kind'[h] = k /\ target'[h] = t /\ arg'[h] = x
    BY <1>2 DEF Open, TypeInv, RequestTypes
  <2>2. Posting(h)'
    BY <1>2, <2>1 DEF Posting, Assigned, tables
  <2>3. t \notin Applications
    BY ApplicationsApart
  <2>4. \A r \in Applications \ Audits :
            filed[r] = "PENDING" \/ (\E g \in Handlers \ {h} : target[g] = r)
               => DeviceOf[r] \notin Touches(t) \cup {x}
    BY <1>1, <2>1 DEF Undisturbed
  <2>. QED
    BY <1>1, <1>2, <2>2, <2>3, <2>4, CountsOpen
<1>3. ASSUME NEW a, NEW st, Cached("asset", a, st) PROVE mirror'.device = mirror.device
  BY <1>3 DEF Cached, TypeInv, CacheTypes, Cache
<1>4. ASSUME NEW a \in Assets, StartDeploy(h, a) PROVE CountsInv'
  BY <1>2, <1>3, <1>4 DEF StartDeploy
<1>5. ASSUME NEW a \in Assets, StartRegister(h, a) PROVE CountsInv'
  BY <1>2, <1>3, <1>5 DEF StartRegister
<1>6. ASSUME NEW a \in Assets, StartUnassign(h, a) PROVE CountsInv'
  <2>1. PICK first \in {"restock", "set"} : Open(h, "UNASSIGN", a, "ACTIVE", first)
    BY <1>6 DEF StartUnassign
  <2>. QED
    BY <1>2, <1>3, <1>6, <2>1 DEF StartUnassign
<1>7. ASSUME NEW a \in Assets, StartReassign(h, a) PROVE CountsInv'
  BY <1>2, <1>3, <1>7 DEF StartReassign
<1>8. ASSUME NEW u \in Units, StartAssign(h, u) PROVE CountsInv'
  BY <1>2, <1>8 DEF StartAssign
<1>9. ASSUME NEW u \in Units, NEW st, StartRepost(h, u, st) PROVE CountsInv'
  BY <1>2, <1>9 DEF StartRepost
<1>10. ASSUME NEW u \in Units, StartCollect(h, u) PROVE CountsInv'
  <2>1. Open(h, "COLLECT", u, "ROUTER_COLLECTED", "collect") /\ UNCHANGED tables /\ device[u] = "RENTAL"
    BY <1>10 DEF StartCollect
  <2>2. ASSUME NEW v \in Units \ swapped
        PROVE  mirror'.device[v] = mirror.device[v] \/ ~Differs(mirror.device[v], v)'
    <3>1. CASE UNCHANGED mirror
      BY <3>1
    <3>2. CASE Cached("device", u, "ROUTER_COLLECTED")
      <4>1. mirror'.device = [mirror.device EXCEPT ![u] = "ROUTER_COLLECTED"]
        BY <3>2 DEF Cached, TypeInv, CacheTypes, Cache
      <4>2. v # u => mirror'.device[v] = mirror.device[v]
        BY <4>1 DEF TypeInv, CacheTypes, Cache
      <4>3. v = u => mirror'.device[v] = "ROUTER_COLLECTED"
        BY <4>1 DEF TypeInv, CacheTypes, Cache
      <4>4. v = u => device'[v] = "RENTAL"
        BY <2>1 DEF tables
      <4>. QED
        BY <4>2, <4>3, <4>4 DEF Differs, Assigned
    <3>. QED
      BY <1>10, <3>1, <3>2 DEF StartCollect
  <2>3. Assigned(device[u])
    BY <2>1 DEF Assigned
  <2>. QED
    BY <1>2, <2>1, <2>2, <2>3
<1>11. ASSUME NEW u \in Units, NEW v \in Units, StartExchange(h, u, v) PROVE CountsInv'
  <2>1. Assigned(device[u])
    BY <1>11 DEF StartExchange, Assigned
  <2>. QED
    BY <1>2, <1>11, <2>1 DEF StartExchange
<1>. QED
  BY <1>1, <1>4, <1>5, <1>6, <1>7, <1>8, <1>9, <1>10, <1>11 DEF DeploymentStart

LEMMA ApprovalStartCounts ==
    ASSUME TypeInv, UnitsInv, CountsInv, Lapses = {}, NEW h \in Handlers, ApprovalStart(h)
    PROVE  CountsInv'
<1>1. ASSUME NEW k, NEW t \in Applications, NEW x \in {"NONE", "APPROVED", "CLOSED"}, NEW first,
             Open(h, k, t, x, first), UNCHANGED <<tables, mirror, filed, granted, adjusted>>,
             first \in {"submit", "decide", "reconcile", "withdraw"},
             first = "reconcile" => t \in Audits,
             t \notin Audits => filed[t] = "PENDING" \/ (Assigned(device[DeviceOf[t]]) /\ ~Busy(DeviceOf[t]))
      PROVE  CountsInv'
  <2>1. pc'[h] = first /\ target'[h] = t
    BY <1>1 DEF Open, TypeInv, RequestTypes
  <2>2. Posting(h)'
    BY <1>1, <2>1 DEF Posting, Audits
  <2>3. x \notin Units
    BY DeploymentsAssumption, ApprovalsAssumption DEF DeploymentsAssumption, ApprovalsAssumption
  <2>4. \A r \in Applications \ Audits : DeviceOf[r] \notin Touches(t) \cup {x}
    BY <2>3, AppliedDevice, ApplicationsApart
  <2>. QED
    BY <1>1, <2>2, <2>3, <2>4, CountsOpen
<1>2. ASSUME NEW r \in Applications, NEW v \in {"APPROVED", "CLOSED"}, StartDecide(h, r, v) PROVE CountsInv'
  <2>1. PICK first \in {"decide", "reconcile"} :
           Open(h, "DECIDE", r, v, first) /\ (first = "reconcile" => r \in detailed)
    BY <1>2 DEF StartDecide
  <2>2. filed[r] = "PENDING" /\ UNCHANGED <<tables, mirror, filed, granted, adjusted>>
    BY <1>2 DEF StartDecide, OnScreen
  <2>3. r \in detailed => r \in Audits
    BY DEF TypeInv, DeskTypes
  <2>. QED
    BY <1>1, <2>1, <2>2, <2>3
<1>3. ASSUME NEW r \in Applications, StartSubmit(h, r) PROVE CountsInv'
  <2>1. r \notin Audits => device[DeviceOf[r]] = "RENTAL" /\ ~Busy(DeviceOf[r])
    BY <1>3 DEF StartSubmit, DeviceFree
  <2>. QED
    BY <1>1, <1>3, <2>1 DEF StartSubmit, Assigned
<1>4. ASSUME NEW r \in Applications, StartWithdraw(h, r) PROVE CountsInv'
  BY <1>1, <1>4 DEF StartWithdraw, OnScreen
<1>. QED
  BY <1>2, <1>3, <1>4 DEF ApprovalStart

LEMMA CountsRefresh ==
    ASSUME TypeInv, UnitsInv, CountsInv, "MISS" \notin Mishaps, NEW h \in Handlers,
           StartRefresh(h) \/ ApplyRefresh(h), UNCHANGED <<filed, granted, adjusted>>
    PROVE  CountsInv'
<1>1. UNCHANGED tables /\ pc[h] = "refresh" /\ Active(h)
  BY DEF StartRefresh, ApplyRefresh, Active
<1>2. /\ \A g \in Handlers \ {h} :
            /\ pc'[g] = pc[g] /\ kind'[g] = kind[g] /\ target'[g] = target[g]
            /\ arg'[g] = arg[g] /\ seen'[g] = seen[g]
      /\ \A u \in Units : u \in Holds(h)' => u \in Holds(h)
      /\ target'[h] = target[h] \/ target'[h] = NoTarget
      /\ pc'[h] \in {"idle", "refresh"}
  BY <1>1, Endings DEF StartRefresh, ApplyRefresh, request, Holds, Active
<1>3. Beside(h)
  BY <1>1, <1>2 DEF Beside, Elsewhere, tables
<1>4. Reserved'
  BY <1>1, <1>2, <1>3, ReservedStep
<1>5. ASSUME NEW g \in Handlers PROVE Posting(g)'
  BY <1>2, <1>3, OthersPosting DEF Posting
<1>6. BooksInv'
  BY <1>1 DEF CountsInv, BooksInv, CountMatchesDevices, StockExplained, Restocks, Taken, OutAssets, Out, tables
<1>7. DevicesKnown'
  <2>1. CASE StartRefresh(h)
    <3>1. /\ UNCHANGED <<mirror, pc, target, device, swapped>>
          /\ snapshot'.device = device
      BY <2>1 DEF StartRefresh, request, tables, Rows
    <3>2. Tells(mirror.device, Handlers)'
      BY <3>1 DEF CountsInv, DevicesKnown, Tells, Differs, Answering
    <3>3. \A hs : Tells(snapshot.device, hs)'
      BY <3>1 DEF Tells, Differs
    <3>. QED
      BY <3>2, <3>3 DEF DevicesKnown
  <2>2. CASE ApplyRefresh(h)
    <3>1. /\ UNCHANGED <<device, swapped>> /\ refresher = h /\ refresher' = Nobody
          /\ mirror'.device = snapshot.device
      BY <2>2 DEF ApplyRefresh, tables
    <3>2. h # Nobody
      BY DeploymentsAssumption DEF DeploymentsAssumption
    <3>3. ASSUME NEW u, Answering(u, Handlers \ {h}) PROVE Answering(u, Handlers)'
      BY <1>2, <3>3 DEF Answering
    <3>4. Tells(snapshot.device, Handlers \ {h})
      BY <3>1, <3>2 DEF CountsInv, DevicesKnown
    <3>5. ASSUME NEW u \in Units \ swapped', Differs(mirror.device[u], u)' PROVE Answering(u, Handlers)'
      <4>1. u \in Units \ swapped /\ Differs(snapshot.device[u], u)
        BY <3>1, <3>5 DEF Differs, Assigned
      <4>. QED
        BY <3>3, <3>4, <4>1 DEF Tells
    <3>. QED
      BY <3>1, <3>5 DEF DevicesKnown, Tells
  <2>. QED
    BY <2>1, <2>2
<1>. QED
  BY <1>1, <1>4, <1>5, <1>6, <1>7 DEF CountsInv, tables

LEMMA FiniteCounts ==
    /\ IsFiniteSet(Taken) /\ IsFiniteSet(OutAssets) /\ IsFiniteSet(Executed)
    /\ Cardinality(Taken) \in Nat /\ Cardinality(OutAssets) \in Nat /\ Cardinality(Executed) \in Nat
<1>1. Taken \subseteq Units /\ OutAssets \subseteq Assets /\ Executed \subseteq Applications
  BY DEF Taken, OutAssets, Executed
<1>2. IsFiniteSet(Units) /\ IsFiniteSet(Assets) /\ IsFiniteSet(Applications)
  BY DeploymentsAssumption, ApprovalsAssumption DEF DeploymentsAssumption, ApprovalsAssumption
<1>3. IsFiniteSet(Taken) /\ IsFiniteSet(OutAssets) /\ IsFiniteSet(Executed)
  BY <1>1, <1>2, FS_Subset
<1>. QED
  BY <1>3, FS_CardinalityType

(* Steps that give no unit to a customer and take none back.               *)
LEMMA QuietCounts ==
    ASSUME TypeInv, UnitsInv, CountsInv, NEW h \in Handlers, Active(h), pc[h] # "refresh", Stays(h),
           UNCHANGED <<snapshot, refresher, swapped>>,
           target'[h] = target[h] \/ target'[h] = NoTarget, Posting(h)',
           \A u \in Units : /\ Assigned(device'[u]) <=> Assigned(device[u])
                            /\ device'[u] = "NONE" <=> device[u] = "NONE",
           \A u \in Units \ swapped :
              mirror'.device[u] = mirror.device[u] \/ ~Differs(mirror.device[u], u)',
           \A r \in Applications : filed'[r] = "PENDING" => filed[r] = "PENDING" \/ target[h] = r,
           count' = count, Taken' = Taken => StockExplained'
    PROVE  CountsInv'
<1>1. Beside(h)
  BY DEF Stays, Beside
<1>2. Taken' = Taken
  BY DEF Taken, Assigned
<1>3. BooksInv'
  BY <1>2 DEF CountsInv, BooksInv, CountMatchesDevices
<1>4. \A u \in swapped' : device'[u] # "NONE"
  BY DEF CountsInv, TypeInv, StoreTypes
<1>. QED
  BY <1>1, <1>3, <1>4, CountsStep DEF Stays

LEMMA SameStock ==
    ASSUME CountsInv, UNCHANGED <<stock, adjusted, posted, granted>>, Taken' = Taken
    PROVE  StockExplained'
  BY DEF CountsInv, BooksInv, StockExplained, Restocks, OutAssets, Out

LEMMA DeployCounts ==
    ASSUME TypeInv, UnitsInv, CountsInv, NEW h \in Handlers, Deploy(h), Stays(h), UNCHANGED registry
    PROVE  CountsInv'
<1>. DEFINE t == target[h]
<1>1. /\ pc[h] = "deploy" /\ Active(h) /\ t \in Assets
      /\ <<t, "OUT">> \notin posted /\ <<t, "BACK">> \notin posted
  BY DEF Deploy, Active, TypeInv, RequestTypes, Working, UnitsInv, Engaged
<1>2. /\ posted' = posted \cup {<<t, "OUT">>} /\ stock' = stock - 1
      /\ UNCHANGED <<device, mirror, count, swapped, snapshot, refresher, target>>
      /\ UNCHANGED <<filed, granted, adjusted>> /\ pc'[h] = "save"
  BY DEF Deploy, Proceed, request, refresh, registry, TypeInv, RequestTypes
<1>3. OutAssets' = OutAssets \cup {t} /\ t \notin OutAssets
  BY <1>1, <1>2 DEF OutAssets, Out
<1>4. Cardinality(OutAssets') = Cardinality(OutAssets) + 1
  BY <1>3, FiniteCounts, FS_AddElement
<1>5. Restocks' = Restocks /\ Restocks \in Nat
  BY <1>2, FiniteCounts DEF Restocks, Executed
<1>6. Taken' = Taken => StockExplained'
  BY <1>2, <1>4, <1>5, FiniteCounts, DeploymentsAssumption
  DEF DeploymentsAssumption, CountsInv, BooksInv, StockExplained, TypeInv, StoreTypes, DeskTypes
<1>7. Posting(h)'
  BY <1>2 DEF Posting
<1>. QED
  BY <1>1, <1>2, <1>6, <1>7, QuietCounts

LEMMA RestockCounts ==
    ASSUME TypeInv, UnitsInv, CountsInv, "SHELVED" \notin Mishaps, NEW h \in Handlers, Restock(h), Stays(h),
           UNCHANGED registry
    PROVE  CountsInv'
<1>. DEFINE t == target[h]
<1>1. pc[h] = "restock" /\ Active(h) /\ t \in Assets /\ Out(t)
  BY DEF Restock, Active, TypeInv, RequestTypes, Working, UnitsInv, Engaged
<1>2. /\ posted' = posted \cup {<<t, "BACK">>} /\ stock' = stock + 1
      /\ UNCHANGED <<mirror, count, swapped, snapshot, refresher, target>>
      /\ UNCHANGED <<filed, granted, adjusted>> /\ pc'[h] = "set"
  BY DEF Restock, refresh, registry, TypeInv, RequestTypes
<1>3. OutAssets' = OutAssets \ {t} /\ t \in OutAssets
  BY <1>1, <1>2 DEF OutAssets, Out
<1>4. Cardinality(OutAssets') = Cardinality(OutAssets) - 1
  BY <1>3, FiniteCounts, FS_RemoveElement
<1>5. Restocks' = Restocks /\ Restocks \in Nat
  BY <1>2, FiniteCounts DEF Restocks, Executed
<1>6. Taken' = Taken => StockExplained'
  BY <1>2, <1>4, <1>5, FiniteCounts, DeploymentsAssumption
  DEF DeploymentsAssumption, CountsInv, BooksInv, StockExplained, TypeInv, StoreTypes, DeskTypes
<1>7. Posting(h)'
  BY <1>2 DEF Posting
<1>8. \A u \in Units : /\ Assigned(device'[u]) <=> Assigned(device[u])
                       /\ device'[u] = "NONE" <=> device[u] = "NONE"
  BY DEF Restock, CloseTagged, Assigned, TypeInv, StoreTypes, DeviceTable
<1>. QED
  BY <1>1, <1>2, <1>6, <1>7, <1>8, QuietCounts

LEMMA AnswerCounts ==
    ASSUME TypeInv, UnitsInv, CountsInv, NEW h \in Handlers, Active(h), pc[h] # "refresh", Stays(h),
           Answer(h) \/ (Finish(h) /\ UNCHANGED refresh), swapped' = swapped, count' = count,
           mirror'.device = mirror.device,
           \A u \in Units : /\ Assigned(device'[u]) <=> Assigned(device[u])
                            /\ device'[u] = "NONE" <=> device[u] = "NONE",
           \A r \in Applications : filed'[r] = "PENDING" => filed[r] = "PENDING" \/ target[h] = r,
           Taken' = Taken => StockExplained'
    PROVE  CountsInv'
<1>1. /\ pc'[h] \in {"idle", "refresh"} /\ (target'[h] = target[h] \/ target'[h] = NoTarget)
      /\ UNCHANGED <<snapshot, refresher>>
  BY Endings DEF refresh
<1>2. Posting(h)'
  BY <1>1 DEF Posting
<1>. QED
  BY <1>1, <1>2, QuietCounts

LEMMA QuietWorkCounts ==
    ASSUME TypeInv, UnitsInv, CountsInv, NEW h \in Handlers, Stays(h), UNCHANGED registry,
           Save(h) \/ SetAssignment(h) \/ Collect(h) \/ Fail(h) \/ Check(h) \/ Look(h)
    PROVE  CountsInv'
<1>1. Active(h) /\ pc[h] # "refresh" /\ UNCHANGED <<filed, granted, adjusted>>
  BY DEF Save, SetAssignment, Collect, Fail, Check, Look, Active, registry
<1>2. UNCHANGED <<count, stock, posted, swapped>>
  BY DEF Save, SetAssignment, Collect, Fail, Check, Look, tables
<1>3. Taken' = Taken => StockExplained'
  BY <1>1, <1>2, SameStock
<1>4. Posting(h) /\ Engaged(h) /\ Working(h)
  BY DEF CountsInv, UnitsInv, TypeInv, RequestTypes
<1>5. CASE Save(h) \/ SetAssignment(h)
  <2>1. Answer(h) /\ device' = device
    BY <1>5 DEF Save, SetAssignment
  <2>2. mirror'.device = mirror.device
    BY <1>5 DEF Save, SetAssignment, TypeInv, CacheTypes, Cache
  <2>. QED
    BY <1>1, <1>2, <1>3, <2>1, <2>2, AnswerCounts
<1>6. CASE Fail(h)
  BY <1>1, <1>2, <1>3, <1>6, AnswerCounts DEF Fail, tables
<1>7. CASE Collect(h)
  <2>1. target[h] \in Units /\ Assigned(device[target[h]])
    BY <1>4, <1>7 DEF Collect, Posting, Working
  <2>2. device' = IF device[target[h]] = "NONE" THEN device
                  ELSE [device EXCEPT ![target[h]] = "ROUTER_COLLECTED"]
    BY <1>7 DEF Collect
  <2>3. \A u \in Units : /\ Assigned(device'[u]) <=> Assigned(device[u])
                         /\ device'[u] = "NONE" <=> device[u] = "NONE"
    BY <2>1, <2>2 DEF Assigned, TypeInv, StoreTypes, DeviceTable
  <2>. QED
    BY <1>1, <1>2, <1>3, <1>7, <2>3, AnswerCounts DEF Collect
<1>8. CASE Check(h)
  <2>. DEFINE t == target[h]
  <2>1. /\ pc[h] = "check" /\ pc' = [pc EXCEPT ![h] = "assign"] /\ t \in Units
        /\ UNCHANGED <<device, mirror, snapshot, refresher, target, kind>>
    BY <1>4, <1>8 DEF Check, Working, refresh, tables
  <2>2. pc'[h] = "assign" /\ (kind[h] # "ASSIGN" => t \notin swapped /\ device[t] # "NONE")
    BY <1>4, <2>1 DEF Posting, Engaged, TypeInv, RequestTypes
  <2>3. seen'[h] = IF kind[h] = "ASSIGN" THEN "NONE"
                   ELSE IF mirror.device[t] # "NONE" THEN mirror.device[t] ELSE device[t]
    BY <1>8 DEF Check, TypeInv, RequestTypes
  <2>4. kind[h] # "ASSIGN" => ~Differs(mirror.device[t], t)
    <3>1. ASSUME NEW g \in Handlers, target[g] = t, pc[g] = "refresh" PROVE FALSE
      <4>1. g # h /\ t \in Holds(g) /\ t \in Holds(h)
        BY <1>1, <2>1, <3>1, UnitsTouched DEF Holds, Active
      <4>. QED
        BY <2>1, <4>1 DEF UnitsInv, Exclusive
    <3>. QED
      BY <2>1, <2>2, <3>1 DEF CountsInv, DevicesKnown, Tells, Answering
  <2>5. CASE kind[h] = "ASSIGN"
    <3>1. seen'[h] = "NONE"
      BY <2>3, <2>5
    <3>2. Posting(h)'
      BY <2>1, <2>2, <2>5, <3>1 DEF Posting
    <3>. QED
      BY <1>1, <1>2, <1>3, <2>1, <3>2, QuietCounts
  <2>6. CASE kind[h] # "ASSIGN"
    <3>1. Assigned(seen'[h]) <=> Assigned(device[t])
      BY <2>2, <2>3, <2>4, <2>6 DEF Differs
    <3>2. Posting(h)'
      BY <1>2, <2>1, <2>2, <2>6, <3>1 DEF Posting, Assigned
    <3>. QED
      BY <1>1, <1>2, <1>3, <2>1, <3>2, QuietCounts
  <2>. QED
    BY <2>5, <2>6
<1>9. CASE Look(h)
  <2>. DEFINE t == target[h]
              v == arg[h]
  <2>1. /\ pc[h] = "look" /\ pc' = [pc EXCEPT ![h] = "exchange"] /\ t \in Units /\ v \in Units
        /\ UNCHANGED <<device, snapshot, refresher, target, arg, kind, seen>>
        /\ mirror' = [mirror EXCEPT !.device = [@ EXCEPT ![t] = "EXCHANGED", ![v] = "RENTAL"]]
    BY <1>4, <1>9 DEF Look, Proceed, Working, refresh, request, tables
  <2>2. Assigned(device[t]) /\ device[v] = "NONE" /\ pc'[h] = "exchange"
    BY <1>4, <2>1 DEF Posting, TypeInv, RequestTypes
  <2>3. Posting(h)'
    BY <2>1, <2>2 DEF Posting, Assigned
  <2>4. mirror'.device = [mirror.device EXCEPT ![t] = "EXCHANGED", ![v] = "RENTAL"]
    BY <2>1 DEF TypeInv, CacheTypes, Cache
  <2>5. ASSUME NEW u \in Units
        PROVE  mirror'.device[u] = mirror.device[u] \/ ~Differs(mirror.device[u], u)'
    <3>1. CASE u = v
      BY <2>1, <2>2, <3>1 DEF Differs
    <3>2. CASE u = t /\ u # v
      BY <2>1, <2>2, <2>4, <3>2 DEF Differs, Assigned, TypeInv, CacheTypes, Cache
    <3>3. CASE u # t /\ u # v
      BY <2>4, <3>3 DEF TypeInv, CacheTypes, Cache
    <3>. QED
      BY <3>1, <3>2, <3>3
  <2>. QED
    BY <1>1, <1>2, <1>3, <2>1, <2>3, <2>5, QuietCounts
<1>. QED
  BY <1>5, <1>6, <1>7, <1>8, <1>9

LEMMA AssignCounts ==
    ASSUME TypeInv, UnitsInv, CountsInv, NEW h \in Handlers, Assign(h), Stays(h), UNCHANGED registry
    PROVE  CountsInv'
<1>. DEFINE t == target[h]
            x == arg[h]
<1>1. /\ pc[h] = "assign" /\ Active(h) /\ t \in Units /\ x \in {"IN_STOCK", "RENTAL"}
      /\ t \notin swapped
      /\ Assigned(seen[h]) <=> Assigned(device[t])
  <2>1. pc[h] = "assign" /\ t \in Units /\ x \in {"IN_STOCK", "RENTAL"} /\ Posting(h)
    BY DEF Assign, TypeInv, RequestTypes, Working, CountsInv
  <2>2. CASE kind[h] = "ASSIGN"
    <3>1. device[t] = "NONE" /\ seen[h] = "NONE"
      BY <2>1, <2>2 DEF Assign, Admit, Posting
    <3>. QED
      BY <2>1, <3>1 DEF CountsInv, Active
  <2>3. CASE kind[h] # "ASSIGN"
    BY <2>1, <2>3 DEF Posting, Active
  <2>. QED
    BY <2>2, <2>3
<1>2. /\ device' = [device EXCEPT ![t] = x] /\ Answer(h)
      /\ UNCHANGED <<posted, swapped, snapshot, refresher, filed, granted, adjusted>>
      /\ stock' = stock - Delta(h) /\ count' = AtLeastZero(count + Delta(h))
      /\ mirror' = [mirror EXCEPT !.device[t] = x]
  BY DEF Assign, Answer, refresh, registry
<1>3. /\ device'[t] = x /\ \A u \in Units : u # t => device'[u] = device[u]
      /\ mirror'.device[t] = x /\ \A u \in Units : u # t => mirror'.device[u] = mirror.device[u]
  BY <1>1, <1>2 DEF TypeInv, StoreTypes, DeviceTable, CacheTypes, Cache
<1>4. Taken' = IF Assigned(x) THEN Taken \cup {t} ELSE Taken \ {t}
  BY <1>1, <1>2, <1>3 DEF Taken, Assigned
<1>5. t \in Taken <=> Assigned(device[t])
  BY <1>1 DEF Taken
<1>6. Cardinality(Taken') = Cardinality(Taken) + Delta(h) /\ Delta(h) \in Int
  <2>1. CASE Assigned(x)
    <3>1. Cardinality(Taken') = IF t \in Taken THEN Cardinality(Taken) ELSE Cardinality(Taken) + 1
      BY <1>4, <2>1, FiniteCounts, FS_AddElement
    <3>. QED
      BY <1>1, <1>5, <2>1, <3>1, FiniteCounts DEF Delta
  <2>2. CASE ~Assigned(x)
    <3>1. Cardinality(Taken') = IF t \in Taken THEN Cardinality(Taken) - 1 ELSE Cardinality(Taken)
      BY <1>4, <2>2, FiniteCounts, FS_RemoveElement
    <3>. QED
      BY <1>1, <1>5, <2>2, <3>1, FiniteCounts DEF Delta
  <2>. QED
    BY <2>1, <2>2
<1>7. Cardinality(Taken') \in Nat
  <2>1. IsFiniteSet(Taken')
    BY <1>4, FiniteCounts, FS_AddElement, FS_RemoveElement
  <2>. QED
    BY <2>1, FS_CardinalityType
<1>8. BooksInv'
  <2>1. OutAssets' = OutAssets /\ Restocks' = Restocks /\ Restocks \in Nat
    BY <1>2, FiniteCounts DEF OutAssets, Out, Restocks, Executed
  <2>2. CountMatchesDevices'
    BY <1>2, <1>6, <1>7, FiniteCounts DEF CountMatchesDevices, AtLeastZero, CountsInv, BooksInv
  <2>3. StockExplained'
    BY <1>2, <1>6, <2>1, FiniteCounts, DeploymentsAssumption
    DEF DeploymentsAssumption, CountsInv, BooksInv, StockExplained, TypeInv, StoreTypes, DeskTypes
  <2>. QED
    BY <2>2, <2>3 DEF BooksInv
<1>9. /\ pc'[h] = "refresh" /\ target' = target
  BY <1>2, Endings
<1>10. Posting(h)'
  BY <1>9 DEF Posting
<1>11. Beside(h)
  <2>1. t \in Holds(h)
    BY <1>1, HoldsTarget
  <2>. QED
    BY <1>2, <1>3, <2>1 DEF Beside, Stays
<1>12. \A u \in swapped' : device'[u] # "NONE"
  BY <1>1, <1>2, <1>3 DEF CountsInv, TypeInv, StoreTypes
<1>13. \A u \in Units \ swapped' :
          mirror'.device[u] = mirror.device[u] \/ ~Differs(mirror.device[u], u)'
  BY <1>3 DEF Differs
<1>14. \A u \in Units \ swapped' :
              \/ /\ Assigned(device'[u]) <=> Assigned(device[u])
                 /\ device'[u] = "NONE" <=> device[u] = "NONE"
              \/ pc'[h] = "refresh" /\ target'[h] = u
  BY <1>3, <1>9
<1>. QED
  BY <1>1, <1>2, <1>8, <1>9, <1>10, <1>11, <1>12, <1>13, <1>14, CountsStep DEF Stays

LEMMA ExchangeCounts ==
    ASSUME TypeInv, UnitsInv, CountsInv, NEW h \in Handlers, Exchange(h), Stays(h), UNCHANGED registry
    PROVE  CountsInv'
<1>. DEFINE t == target[h]
            v == arg[h]
<1>1. /\ pc[h] = "exchange" /\ Active(h) /\ t \in Units /\ v \in Units
      /\ Assigned(device[t]) /\ device[v] = "NONE" /\ t # v
  BY DEF Exchange, Active, TypeInv, RequestTypes, Working, CountsInv, Posting, Assigned
<1>2. /\ device' = [device EXCEPT ![t] = "EXCHANGED", ![v] = "RENTAL"] /\ Answer(h)
      /\ swapped' = swapped \cup {v}
      /\ UNCHANGED <<posted, count, stock, mirror, snapshot, refresher, filed, granted, adjusted>>
  BY DEF Exchange, Answer, refresh, registry
<1>3. /\ device'[t] = "EXCHANGED" /\ device'[v] = "RENTAL"
      /\ \A u \in Units : u # t /\ u # v => device'[u] = device[u]
  BY <1>1, <1>2 DEF TypeInv, StoreTypes, DeviceTable
<1>4. Taken' = Taken
  BY <1>1, <1>2, <1>3 DEF Taken, Assigned
<1>5. BooksInv'
  <2>1. OutAssets' = OutAssets /\ Executed' = Executed
    BY <1>2 DEF OutAssets, Out, Executed
  <2>. QED
    BY <1>2, <1>4, <2>1, SameBooks DEF CountsInv
<1>6. pc'[h] = "refresh" /\ target' = target
  BY <1>2, Endings
<1>7. Posting(h)'
  BY <1>6 DEF Posting
<1>8. Beside(h)
  <2>1. t \in Holds(h) /\ v \in Holds(h)
    BY <1>1, HoldsTarget
  <2>. QED
    BY <1>2, <1>3, <2>1 DEF Beside, Stays
<1>9. \A u \in swapped' : device'[u] # "NONE"
  BY <1>1, <1>2, <1>3 DEF CountsInv, TypeInv, StoreTypes
<1>10. \A u \in Units \ swapped' :
          /\ Assigned(device'[u]) <=> Assigned(device[u])
          /\ device'[u] = "NONE" <=> device[u] = "NONE"
  BY <1>1, <1>2, <1>3 DEF Assigned
<1>. QED
  BY <1>1, <1>2, <1>5, <1>6, <1>7, <1>8, <1>9, <1>10, CountsStep DEF Stays

LEMMA WorkCounts ==
    ASSUME TypeInv, UnitsInv, CountsInv, Mishaps = {}, NEW h \in Handlers, DeploymentWork(h), UNCHANGED registry
    PROVE  CountsInv'
<1>1. Stays(h)
  BY WorkUnits
<1>. QED
  BY <1>1, DeployCounts, RestockCounts, QuietWorkCounts, AssignCounts, ExchangeCounts DEF DeploymentWork

(* The transactions of applications.                                       *)
LEMMA FilingCounts ==
    ASSUME TypeInv, UnitsInv, CountsInv, NEW h \in Handlers, Submit(h) \/ Withdraw(h), Stays(h)
    PROVE  CountsInv'
<1>1. /\ Answer(h) /\ UNCHANGED <<tables, mirror, granted, adjusted>> /\ Active(h) /\ pc[h] # "refresh"
      /\ target[h] \in Applications
  BY DEF Submit, Withdraw, Active, TypeInv, RequestTypes, Working
<1>2. \A r \in Applications : filed'[r] = "PENDING" => filed[r] = "PENDING" \/ target[h] = r
  BY DEF Submit, Withdraw, Recorded, TypeInv, DeskTypes
<1>3. Taken' = Taken => StockExplained'
  BY <1>1, SameStock DEF tables
<1>4. UNCHANGED <<device, swapped, count>>
  BY <1>1 DEF tables
<1>. QED
  BY <1>1, <1>2, <1>3, <1>4, AnswerCounts

LEMMA ReconcileCounts ==
    ASSUME TypeInv, UnitsInv, CountsInv, NEW h \in Handlers, Reconcile(h), Stays(h)
    PROVE  CountsInv'
<1>1. /\ Answer(h) /\ UNCHANGED <<posted, device, count, swapped, mirror>> /\ Active(h)
      /\ pc[h] # "refresh" /\ target[h] \in Audits /\ stock' = Counted
      /\ adjusted' = adjusted + (Counted - stock)
      /\ granted' = [granted EXCEPT ![target[h]] = @ + 1]
  BY DEF Reconcile, Active, CountsInv, Posting
<1>2. \A r \in Applications : filed'[r] = "PENDING" => filed[r] = "PENDING" \/ target[h] = r
  BY DEF Reconcile, Recorded, TypeInv, DeskTypes
<1>3. Restocks' = Restocks /\ OutAssets' = OutAssets /\ Restocks \in Nat
  <2>1. Executed' = Executed
    BY <1>1 DEF Executed, TypeInv, DeskTypes
  <2>. QED
    BY <1>1, <2>1, FiniteCounts DEF Executed, Restocks, OutAssets, Out
<1>4. Taken' = Taken => StockExplained'
  BY <1>1, <1>3, FiniteCounts, DeploymentsAssumption, ApprovalsAssumption
  DEF DeploymentsAssumption, ApprovalsAssumption, CountsInv, BooksInv, StockExplained, TypeInv,
      StoreTypes, DeskTypes
<1>. QED
  BY <1>1, <1>2, <1>4, AnswerCounts

LEMMA DecideCounts ==
    ASSUME TypeInv, ExecInv, UnitsInv, CountsInv, NEW h \in Handlers, Decide(h), Stays(h)
    PROVE  CountsInv'
<1>. DEFINE r == target[h]
            back == arg[h] = "APPROVED" /\ r \notin Audits
<1>1. /\ Answer(h) /\ UNCHANGED <<posted, count, swapped, mirror, adjusted>> /\ Active(h)
      /\ pc[h] = "decide" /\ r \in Applications /\ arg[h] \in {"APPROVED", "CLOSED"}
      /\ filed[r] = "PENDING" /\ Recorded(r, arg[h])
  BY DEF Decide, Active, TypeInv, RequestTypes, Working, ExecInv, Undecided
<1>2. \A s \in Applications : filed'[s] = "PENDING" => filed[s] = "PENDING" \/ r = s
  BY <1>1 DEF Recorded, TypeInv, DeskTypes
<1>3. r \notin Audits => DeviceOf[r] \in Units /\ Assigned(device[DeviceOf[r]])
  BY <1>1, AppliedDevice DEF CountsInv, Reserved, Awaits
<1>4. \A u \in Units : /\ Assigned(device'[u]) <=> Assigned(device[u])
                       /\ device'[u] = "NONE" <=> device[u] = "NONE"
  <2>1. device' = IF back /\ device[DeviceOf[r]] # "NONE"
                  THEN [device EXCEPT ![DeviceOf[r]] = "ROUTER_COLLECTED"] ELSE device
    BY DEF Decide
  <2>. QED
    BY <1>3, <2>1 DEF Assigned, TypeInv, StoreTypes, DeviceTable
<1>5. OutAssets' = OutAssets
  BY <1>1 DEF OutAssets, Out
<1>6. stock' = (IF back THEN stock + 1 ELSE stock) /\ Restocks' = (IF back THEN Restocks + 1 ELSE Restocks)
      /\ Restocks \in Nat
  <2>1. CASE back
    <3>1. granted[r] = 0
      BY <1>1 DEF ExecInv, ExecutedOnce, TypeInv, DeskTypes
    <3>2. granted' = [granted EXCEPT ![r] = @ + 1] /\ stock' = stock + 1
      BY <2>1 DEF Decide
    <3>3. Executed' = Executed \cup {r} /\ r \notin Executed
      BY <1>1, <2>1, <3>1, <3>2 DEF Executed, Audits, TypeInv, DeskTypes
    <3>4. Cardinality(Executed') = Cardinality(Executed) + 1
      BY <3>3, FiniteCounts, FS_AddElement
    <3>. QED
      BY <2>1, <3>2, <3>4, FiniteCounts DEF Restocks, Executed
  <2>2. CASE ~back
    <3>1. UNCHANGED <<granted, stock>>
      BY <2>2 DEF Decide
    <3>. QED
      BY <2>2, <3>1, FiniteCounts DEF Restocks, Executed
  <2>. QED
    BY <2>1, <2>2
<1>7. Taken' = Taken => StockExplained'
  BY <1>1, <1>5, <1>6, FiniteCounts, DeploymentsAssumption
  DEF DeploymentsAssumption, CountsInv, BooksInv, StockExplained, TypeInv, StoreTypes, DeskTypes
<1>. QED
  BY <1>1, <1>2, <1>4, <1>7, AnswerCounts

LEMMA InitCounts == ApprovalsInit => CountsInv
<1>. SUFFICES ASSUME ApprovalsInit PROVE CountsInv
  OBVIOUS
<1>1. \A h \in Handlers : Posting(h)
  BY DEF ApprovalsInit, Init, Posting
<1>2. DevicesKnown
  BY DEF ApprovalsInit, Init, DevicesKnown, Tells, Differs
<1>3. Reserved
  BY ApplicationsApart DEF ApprovalsInit, Init, Reserved, Awaits, Nothing
<1>4. Taken = {} /\ OutAssets = {} /\ Executed = {}
  BY DEF ApprovalsInit, Init, Taken, OutAssets, Executed, Assigned, Out
<1>5. Cardinality(Taken) = 0 /\ Cardinality(OutAssets) = 0 /\ Restocks = 0
  <2>1. Restocks = Cardinality(Executed)
    BY DEF Restocks, Executed
  <2>. QED
    BY <1>4, <2>1, FS_EmptySet
<1>6. BooksInv
  BY <1>5, DeploymentsAssumption
  DEF DeploymentsAssumption, ApprovalsInit, Init, BooksInv, CountMatchesDevices, StockExplained
<1>. QED
  BY <1>1, <1>2, <1>3, <1>6 DEF CountsInv, ApprovalsInit, Init

LEMMA NextCounts ==
    ASSUME Mishaps = {}, Lapses = {}
    PROVE  TypeInv /\ ExecInv /\ UnitsInv /\ CountsInv /\ [ApprovalsNext]_allVars => CountsInv'
<1>1. ASSUME TypeInv, CountsInv, UNCHANGED allVars PROVE CountsInv'
  <2>. USE <1>1 DEF allVars, vars, tables, refresh, request, registry
  <2>1. \A h \in Handlers : Posting(h)'
    BY DEF CountsInv, Posting, Assigned
  <2>2. DevicesKnown'
    BY DEF CountsInv, DevicesKnown, Tells, Differs, Answering, Assigned
  <2>3. Reserved'
    BY DEF CountsInv, Reserved, Awaits, Busy, Active, Touches, Assigned
  <2>4. BooksInv'
    BY DEF CountsInv, BooksInv, CountMatchesDevices, StockExplained, Restocks, Taken, OutAssets, Out
  <2>. QED
    BY <2>1, <2>2, <2>3, <2>4 DEF CountsInv
<1>2. ASSUME TypeInv, ExecInv, UnitsInv, CountsInv, NEW h \in Handlers, ApprovalStep(h) PROVE CountsInv'
  <2>1. Stays(h)
    BY <1>2, ApprovalStepUnits
  <2>2. CASE ReadRows(h) \/ Replace(h)
    BY <1>2, <2>2, CountsRefresh DEF ReadRows, Replace
  <2>. QED
    BY <1>2, <2>1, <2>2, FilingCounts, DecideCounts, ReconcileCounts DEF ApprovalStep
<1>. QED
  BY <1>1, <1>2, CountsStart, WorkCounts, ApprovalStartCounts DEF ApprovalsNext

LEMMA CountsAlways ==
    ASSUME Mishaps = {}, Lapses = {} PROVE ApprovalsSpec => []CountsInv
<1>1. TypeInv /\ ExecInv /\ UnitsInv /\ CountsInv /\ [ApprovalsNext]_allVars => CountsInv'
  BY NextCounts
<1>2. ApprovalsSpec => []ExecInv
  BY ExecAlways
<1>3. ApprovalsSpec => []UnitsInv
  BY UnitsAlways
<1>. QED
  BY <1>1, <1>2, <1>3, InitCounts, TypesAlways, PTL DEF ApprovalsSpec

(* Where, besides, screens are fresh, nobody works on a device whose       *)
(* disconnection is pending and no record with an asset's tag is posted    *)
(* again, the customer's count is that of the records.                     *)
THEOREM CountFollowsDevices ==
    ASSUME Mishaps = {}, Lapses = {} PROVE ApprovalsSpec => []CountMatchesDevices
<1>1. CountsInv => CountMatchesDevices
  BY DEF CountsInv, BooksInv
<1>. QED
  BY <1>1, CountsAlways, PTL

(* And stock lacks exactly the units that are out, with the audits' moves  *)
(* and the approved disconnections accounted for.                          *)
THEOREM StockIsExplained ==
    ASSUME Mishaps = {}, Lapses = {} PROVE ApprovalsSpec => []StockExplained
<1>1. CountsInv => StockExplained
  BY DEF CountsInv, BooksInv
<1>. QED
  BY <1>1, CountsAlways, PTL
=============================================================================
