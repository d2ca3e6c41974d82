----------------------------- MODULE SerialProofs -----------------------------
(***************************************************************************)
(* Proofs about SerialEdits: for any devices, documents, edits and         *)
(* handlers, the records agree, no two devices share a serial and a swap   *)
(* answered with success is complete, as long as no edit is posted from a  *)
(* stale screen, no two read one document before either writes it and no   *)
(* two verify one PON serial for different device serials at a time.       *)
(*                                                                         *)
(* The invariant follows each transaction: the device it renames is called *)
(* by its old serials until the commit, what it has read of the documents  *)
(* is still there, and what it found in the register is that device.       *)
(***************************************************************************)
EXTENDS SerialEdits, TLAPS

Orderly == {"STALE", "CROSS", "TWIN"} \cap Mishaps = {}

PCs == {"idle", "check", "mark", "read", "cascade", "verify", "rename"}
Stages == {"none", "park-a", "park-b", "apply-a", "apply-b"}
Outcomes == {"NONE", "OPEN", "OK", "FAILED", "CUT"}

HandlerTypes ==
    /\ outcome \in [Edits -> Outcomes]
    /\ pc \in [Handlers -> PCs]
    /\ job \in [Handlers -> Edits \cup {NoEdit}]
    /\ stage \in [Handlers -> Stages]
    /\ seen \in [Handlers -> [Sides -> Labels \cup {NoLabel}]]
    /\ held \in [Handlers -> SUBSET Customers]
    /\ draft = [h \in Handlers |-> draft[h]]
    /\ found \in [Handlers -> SUBSET Rows]
    /\ \A h \in Handlers : pc[h] = "idle" <=> job[h] = NoEdit

(* The records, as functions of the register.                              *)
Agree ==
    /\ register \in [Rows -> Labels \cup {NoLabel}]
    /\ \A r \in Rows : register[r] # NoLabel <=> r \in Units
    /\ device = [u \in Customers |-> register[u]]
    /\ items = [d \in Docs |-> [u \in Lists[d] |-> register[u]]]

Distinct == \A u, v \in Units : Alike(register[u], register[v]) => u = v

(* A parked device is one of a dual edit that has begun and not succeeded. *)
Parked ==
    \A e \in Edits, s \in Sides, u \in Units :
        register[u] = Park[e][s] =>
            /\ Edit[e].dual
            /\ outcome[e] \in {"OPEN", "FAILED", "CUT"}
            /\ u = Edit[e][s].unit

(* The device a handler is renaming, and what the devices of its edit are  *)
(* called in each stage of the plan.                                       *)
Unit(h) == Edit[job[h]][Side(h)].unit
PlanStages(e) == IF Edit[e].dual THEN Stages \ {"none"} ELSE {"apply-a"}
Called(e, st, s, old) ==
    IF ~Edit[e].dual \/ st = "park-a" \/ (st = "park-b" /\ s = "b") THEN old[s]
    ELSE IF st = "apply-b" /\ s = "a" THEN Edit[e].a.label
    ELSE Park[e][s]

InTransaction == {"cascade", "verify", "rename"}
Working(h) ==
    /\ outcome[job[h]] = "OPEN"
    /\ stage[h] \in PlanStages(job[h])
    /\ \A s \in Sides : register[Edit[job[h]][s].unit] = Called(job[h], stage[h], s, seen[h])
    /\ pc[h] \in InTransaction \cup {"read"} => held[h] = Customers \cap {Unit(h)}
    /\ pc[h] = "cascade" =>
          draft[h] = [d \in Docs |-> IF Unit(h) \in Lists[d] THEN items[d] ELSE Blank[d]]
    /\ pc[h] \in {"verify", "rename"} =>
          draft[h] = [d \in Docs |-> IF Unit(h) \in Lists[d]
                                     THEN [items[d] EXCEPT ![Unit(h)] = New(h)]
                                     ELSE Blank[d]]
    /\ pc[h] \notin InTransaction => draft[h] = Blank
    /\ pc[h] = "rename" =>
          /\ found[h] = {Unit(h)}
          /\ \A u \in Units \ {Unit(h)} :
                register[u].pon = New(h).pon => register[u].dev = New(h).dev
Idle(h) == draft[h] = Blank

(* No two handlers have a device, a document or a PON serial in common.    *)
Pair(h, k) ==
    /\ \A s, t \in Sides : Edit[job[h]][s].unit # Edit[job[k]][t].unit
    /\ pc[h] \in InTransaction /\ pc[k] \in InTransaction =>
          \A d \in Docs : ~(Unit(h) \in Lists[d] /\ Unit(k) \in Lists[d])
    /\ pc[h] = "rename" /\ pc[k] = "rename" => ~Twins(h, k)
Apart ==
    \A h, k \in Handlers :
        h # k /\ job[h] # NoEdit /\ job[k] # NoEdit => Pair(h, k)

EditInv ==
    /\ HandlerTypes /\ Agree /\ Distinct /\ Parked /\ Apart
    /\ \A h \in Handlers : IF job[h] = NoEdit THEN Idle(h) ELSE Working(h)

-----------------------------------------------------------------------------
(* The constants.                                                          *)
LEMMA ConstantFacts ==
    /\ Units \subseteq Rows
    /\ NoLabel \notin Labels
    /\ \A e \in Edits, s \in Sides :
          /\ Edit[e][s].unit \in Units /\ Edit[e][s].label \in Labels
          /\ Park[e][s] \in Labels
<1>1. ASSUME NEW e \in Edits
      PROVE  \A s \in Sides : Edit[e][s] \in [unit : Units, label : Labels]
  <2>1. Edit[e] \in [dual : BOOLEAN, a : [unit : Units, label : Labels],
                                     b : [unit : Units, label : Labels]]
    BY <1>1, SerialAssumption DEF SerialAssumption
  <2>. QED
    BY <2>1 DEF Sides
<1>2. \A e \in Edits, s \in Sides : Park[e][s] \in Labels
  BY SerialAssumption DEF SerialAssumption
<1>3. NoLabel \notin Labels
  BY SerialAssumption DEF SerialAssumption
<1>4. \A e \in Edits, s \in Sides :
          Edit[e][s].unit \in Units /\ Edit[e][s].label \in Labels
  BY <1>1
<1>5. Units \subseteq Rows
  BY DEF Rows
<1>. QED
  BY <1>2, <1>3, <1>4, <1>5

(* The device a handler renames is the one its old serials name.           *)
LEMMA UnitFacts ==
    ASSUME EditInv, NEW h \in Handlers, job[h] # NoEdit
    PROVE  /\ job[h] \in Edits /\ Side(h) \in Sides
           /\ Unit(h) \in Units
           /\ register[Unit(h)] = Old(h)
           /\ Old(h) \in Labels /\ New(h) \in Labels
<1>1. job[h] \in Edits /\ Side(h) \in Sides /\ Working(h)
  BY DEF EditInv, HandlerTypes, Side, Sides
<1>2. register[Unit(h)] = Called(job[h], stage[h], Side(h), seen[h])
  BY <1>1 DEF Working, Unit
<1>3. Called(job[h], stage[h], Side(h), seen[h]) = Old(h)
  BY <1>1 DEF Working, PlanStages, Stages, Called, Old, Parks, Side
<1>4. Unit(h) \in Units /\ New(h) \in Labels
  BY <1>1, ConstantFacts DEF Unit, New
<1>5. register[Unit(h)] \in Labels
  BY <1>4, ConstantFacts DEF EditInv, Agree
<1>. QED
  BY <1>1, <1>2, <1>3, <1>4, <1>5

(* No other device has one of its old serials.                             *)
LEMMA OnlyUnit ==
    ASSUME EditInv, NEW h \in Handlers, job[h] # NoEdit
    PROVE  \A u \in Units : Alike(register[u], Old(h)) <=> u = Unit(h)
  BY UnitFacts DEF EditInv, Distinct, Alike

LEMMA MatchingFacts ==
    ASSUME EditInv, NEW h \in Handlers, job[h] # NoEdit
    PROVE  /\ Matching(h) = Customers \cap {Unit(h)}
           /\ Mentions(h) = {d \in Docs : Unit(h) \in Lists[d]}
<1>1. Customers \subseteq Units /\ \A d \in Docs : Lists[d] \subseteq Units
  BY SerialAssumption DEF SerialAssumption
<1>2. Matching(h) = Customers \cap {Unit(h)}
  BY <1>1, OnlyUnit DEF Matching, EditInv, Agree
<1>3. \A d \in Docs : \A u \in Lists[d] : items[d][u] = register[u]
  BY DEF EditInv, Agree
<1>4. Mentions(h) = {d \in Docs : Unit(h) \in Lists[d]}
  BY <1>1, <1>3, OnlyUnit DEF Mentions
<1>. QED
  BY <1>2, <1>4

(* What a transaction will write: the documents that list its device.      *)
LEMMA WriteFacts ==
    ASSUME EditInv, NEW h \in Handlers
    PROVE  /\ job[h] # NoEdit /\ pc[h] \in InTransaction =>
                Writes(h) = {d \in Docs : Unit(h) \in Lists[d]}
           /\ ~(job[h] # NoEdit /\ pc[h] \in InTransaction) => Writes(h) = {}
<1>1. ASSUME ~(job[h] # NoEdit /\ pc[h] \in InTransaction)
      PROVE  Writes(h) = {}
  <2>1. draft[h] = Blank
    BY <1>1 DEF EditInv, Idle, Working
  <2>. QED
    BY <2>1 DEF Writes, Blank
<1>2. ASSUME job[h] # NoEdit, pc[h] \in InTransaction
      PROVE  Writes(h) = {d \in Docs : Unit(h) \in Lists[d]}
  <2>1. Working(h) /\ Unit(h) \in Units /\ New(h) # NoLabel
    BY <1>2, UnitFacts, ConstantFacts DEF EditInv
  <2>2. ASSUME NEW d \in Docs, Unit(h) \notin Lists[d]
        PROVE  d \notin Writes(h)
    <3>1. draft[h][d] = Blank[d]
      BY <1>2, <2>1, <2>2 DEF Working, InTransaction
    <3>. QED
      BY <3>1 DEF Writes, Blank
  <2>3. ASSUME NEW d \in Docs, Unit(h) \in Lists[d]
        PROVE  draft[h][d][Unit(h)] # NoLabel
    <3>1. items[d] = [u \in Lists[d] |-> register[u]]
      BY DEF EditInv, Agree
    <3>2. register[Unit(h)] # NoLabel
      BY <2>1, ConstantFacts DEF EditInv, Agree
    <3>3. CASE pc[h] = "cascade"
      BY <2>1, <2>3, <3>1, <3>2, <3>3 DEF Working
    <3>4. CASE pc[h] \in {"verify", "rename"}
      BY <2>1, <2>3, <3>1, <3>4 DEF Working
    <3>. QED
      BY <1>2, <3>3, <3>4 DEF InTransaction
  <2>. QED
    BY <2>2, <2>3 DEF Writes
<1>. QED
  BY <1>1, <1>2

-----------------------------------------------------------------------------
(* Frames: what other handlers do to the invariant of one.                 *)
LEMMA WorkFrame ==
    ASSUME NEW k \in Handlers, Working(k),
           pc'[k] = pc[k], job'[k] = job[k], stage'[k] = stage[k], seen'[k] = seen[k],
           held'[k] = held[k], draft'[k] = draft[k], found'[k] = found[k],
           outcome'[job[k]] = outcome[job[k]],
           \A s \in Sides : register'[Edit[job[k]][s].unit] = register[Edit[job[k]][s].unit],
           pc[k] \in InTransaction =>
               \A d \in Docs : Unit(k) \in Lists[d] => items'[d] = items[d],
           pc[k] = "rename" =>
               \A u \in Units \ {Unit(k)} :
                   register'[u].pon = New(k).pon => register'[u].dev = New(k).dev
    PROVE  Working(k)'
<1>1. Unit(k)' = Unit(k) /\ New(k)' = New(k)
  BY DEF Unit, New, Side, Parks
<1>2. (outcome[job[k]] = "OPEN")' /\ (stage[k] \in PlanStages(job[k]))'
  BY DEF Working
<1>3. \A s \in Sides :
         register'[Edit[job'[k]][s].unit] = Called(job[k], stage[k], s, seen[k])'
  BY DEF Working, Called
<1>4. (pc[k] = "cascade" =>
          draft[k] = [d \in Docs |-> IF Unit(k) \in Lists[d] THEN items[d] ELSE Blank[d]])'
  BY <1>1 DEF Working, InTransaction, Blank
<1>5. (pc[k] \in {"verify", "rename"} =>
          draft[k] = [d \in Docs |-> IF Unit(k) \in Lists[d]
                                     THEN [items[d] EXCEPT ![Unit(k)] = New(k)]
                                     ELSE Blank[d]])'
  BY <1>1 DEF Working, InTransaction, Blank
<1>6. (pc[k] \notin InTransaction => draft[k] = Blank)'
  BY DEF Working, Blank, InTransaction
<1>7. (pc[k] \in InTransaction \cup {"read"} => held[k] = Customers \cap {Unit(k)})'
  BY <1>1 DEF Working, InTransaction
<1>8. (pc[k] = "rename" =>
          /\ found[k] = {Unit(k)}
          /\ \A u \in Units \ {Unit(k)} :
                register[u].pon = New(k).pon => register[u].dev = New(k).dev)'
  BY <1>1 DEF Working
<1>. QED
  BY <1>2, <1>3, <1>4, <1>5, <1>6, <1>7, <1>8 DEF Working

(* A step of one request that changes no table and no plan.                *)
LEMMA QuietStep ==
    ASSUME EditInv, NEW h \in Handlers, job[h] # NoEdit,
           UNCHANGED <<tables, outcome, job, stage, seen>>,
           \A k \in Handlers \ {h} :
               /\ pc'[k] = pc[k] /\ held'[k] = held[k]
               /\ draft'[k] = draft[k] /\ found'[k] = found[k],
           HandlerTypes', Working(h)',
           \A k \in Handlers \ {h} : job[k] # NoEdit => Pair(h, k)'
    PROVE  EditInv'
<1>1. (Agree /\ Distinct /\ Parked)'
  BY DEF EditInv, Agree, Distinct, Parked, tables, Alike
<1>2. \A k \in Handlers : IF job'[k] = NoEdit THEN Idle(k)' ELSE Working(k)'
  <2>1. ASSUME NEW k \in Handlers \ {h}, job[k] # NoEdit
        PROVE  Working(k)'
    <3>1. Working(k)
      BY <2>1 DEF EditInv
    <3>2. pc[k] = "rename" =>
            \A u \in Units \ {Unit(k)} :
                register'[u].pon = New(k).pon => register'[u].dev = New(k).dev
      BY <3>1 DEF Working, tables
    <3>. QED
      BY <2>1, <3>1, <3>2, WorkFrame DEF tables
  <2>2. ASSUME NEW k \in Handlers \ {h}, job[k] = NoEdit
        PROVE  Idle(k)'
    BY <2>2 DEF EditInv, Idle, Blank
  <2>. QED
    BY <2>1, <2>2
<1>3. Apart'
  <2>1. ASSUME NEW k \in Handlers \ {h}, job[k] # NoEdit
        PROVE  Pair(h, k)' /\ Pair(k, h)'
    BY <2>1 DEF Pair, Twins
  <2>2. ASSUME NEW k \in Handlers \ {h}, NEW m \in Handlers \ {h}, k # m,
               job[k] # NoEdit, job[m] # NoEdit
        PROVE  Pair(k, m)'
    <3>1. Pair(k, m)
      BY <2>2 DEF EditInv, Apart
    <3>. QED
      BY <2>2, <3>1 DEF Pair, Twins, Unit, New, Side, Parks
  <2>. QED
    BY <2>1, <2>2 DEF Apart
<1>. QED
  BY <1>1, <1>2, <1>3 DEF EditInv

LEMMA SameUnit ==
    ASSUME NEW k, UNCHANGED <<job, stage, seen>>
    PROVE  Unit(k)' = Unit(k) /\ New(k)' = New(k) /\ Old(k)' = Old(k)
  BY DEF Unit, New, Old, Side, Parks

(* No two handlers work on one edit.                                       *)
LEMMA OnlyJob ==
    ASSUME EditInv, NEW h \in Handlers, NEW k \in Handlers, h # k,
           job[h] # NoEdit, job[k] # NoEdit
    PROVE  job[h] # job[k]
  BY DEF EditInv, Apart, Pair, Sides

(* What the other handlers keep of a step of one.                          *)
SameHandler(k) ==
    /\ pc'[k] = pc[k] /\ job'[k] = job[k] /\ stage'[k] = stage[k] /\ seen'[k] = seen[k]
    /\ held'[k] = held[k] /\ draft'[k] = draft[k] /\ found'[k] = found[k]
Unmoved(k) ==
    /\ outcome'[job[k]] = outcome[job[k]]
    /\ \A s \in Sides : register'[Edit[job[k]][s].unit] = register[Edit[job[k]][s].unit]
    /\ pc[k] \in InTransaction =>
          \A d \in Docs : Unit(k) \in Lists[d] => items'[d] = items[d]
    /\ pc[k] = "rename" =>
          \A u \in Units \ {Unit(k)} :
              register'[u].pon = New(k).pon => register'[u].dev = New(k).dev
LEMMA StepKeeps ==
    ASSUME EditInv, NEW h \in Handlers,
           HandlerTypes', Agree', Distinct', Parked',
           \A k \in Handlers \ {h} : SameHandler(k) /\ (job[k] # NoEdit => Unmoved(k)),
           job'[h] = NoEdit => Idle(h)',
           job'[h] # NoEdit =>
              Working(h)' /\ \A k \in Handlers \ {h} : job[k] # NoEdit => Pair(h, k)'
    PROVE  EditInv'
<1>1. ASSUME NEW k \in Handlers \ {h}
      PROVE  IF job'[k] = NoEdit THEN Idle(k)' ELSE Working(k)'
  <2>1. CASE job[k] = NoEdit
    BY <2>1 DEF EditInv, Idle, Blank, SameHandler
  <2>2. CASE job[k] # NoEdit
    <3>1. Working(k) /\ SameHandler(k) /\ Unmoved(k)
      BY <2>2 DEF EditInv
    <3>2. Working(k)'
      BY <3>1, WorkFrame DEF SameHandler, Unmoved
    <3>. QED
      BY <2>2, <3>1, <3>2 DEF SameHandler
  <2>. QED
    BY <2>1, <2>2
<1>2. ASSUME NEW k \in Handlers, NEW m \in Handlers, k # m,
             job'[k] # NoEdit, job'[m] # NoEdit
      PROVE  Pair(k, m)'
  <2>1. CASE k = h
    BY <1>2, <2>1 DEF SameHandler
  <2>2. CASE m = h
    <3>1. Pair(h, k)'
      BY <1>2, <2>2 DEF SameHandler
    <3>. QED
      BY <2>2, <3>1 DEF Pair, Twins
  <2>3. CASE k # h /\ m # h
    <3>1. Pair(k, m) /\ SameHandler(k) /\ SameHandler(m)
      BY <1>2, <2>3 DEF EditInv, Apart, SameHandler
    <3>. QED
      BY <3>1 DEF Pair, Twins, Unit, New, Side, Parks, SameHandler
  <2>. QED
    BY <2>1, <2>2, <2>3
<1>3. Apart'
  BY <1>2 DEF Apart
<1>4. \A k \in Handlers : IF job'[k] = NoEdit THEN Idle(k)' ELSE Working(k)'
  BY <1>1
<1>. QED
  BY <1>3, <1>4 DEF EditInv

(* A step that leaves the tables alone moves nothing for the others.       *)
LEMMA QuietUnmoved ==
    ASSUME EditInv, NEW k \in Handlers, job[k] # NoEdit, UNCHANGED tables,
           outcome'[job[k]] = outcome[job[k]]
    PROVE  Unmoved(k)
<1>1. Working(k)
  BY DEF EditInv
<1>. QED
  BY <1>1 DEF Working, Unmoved, tables

-----------------------------------------------------------------------------
(* Each action keeps the invariant.                                        *)
LEMMA FailKeeps ==
    ASSUME EditInv, NEW h \in Handlers, job[h] # NoEdit, Fail(h)
    PROVE  EditInv'
<1>1. job[h] \in Edits /\ outcome[job[h]] = "OPEN"
  BY UnitFacts DEF EditInv, Working
<1>2. HandlerTypes'
  BY <1>1 DEF EditInv, HandlerTypes, Fail, Stop, Outcomes, PCs, Stages, NoSides, Sides
<1>3. (Agree /\ Distinct)'
  BY DEF EditInv, Agree, Distinct, Fail, tables, Alike
<1>4. Parked'
  BY <1>1 DEF EditInv, Parked, Fail, tables, HandlerTypes
<1>5. ASSUME NEW k \in Handlers \ {h}
      PROVE  SameHandler(k) /\ (job[k] # NoEdit => Unmoved(k))
  <2>1. SameHandler(k)
    BY DEF EditInv, HandlerTypes, Fail, Stop, SameHandler
  <2>2. ASSUME job[k] # NoEdit
        PROVE  Unmoved(k)
    <3>1. job[k] # job[h] /\ job[k] \in Edits
      BY <2>2, OnlyJob, UnitFacts
    <3>2. outcome'[job[k]] = outcome[job[k]]
      BY <3>1 DEF EditInv, HandlerTypes, Fail
    <3>. QED
      BY <2>2, <3>2, QuietUnmoved DEF Fail
  <2>. QED
    BY <2>1, <2>2
<1>6. job'[h] = NoEdit /\ Idle(h)'
  BY DEF EditInv, HandlerTypes, Fail, Stop, Idle, Blank
<1>. QED
  BY <1>2, <1>3, <1>4, <1>5, <1>6, StepKeeps

LEMMA PostKeeps ==
    ASSUME Orderly, EditInv, NEW h \in Handlers, NEW e \in Edits, Post(h, e)
    PROVE  EditInv'
<1>1. /\ job[h] = NoEdit /\ e # NoEdit
      /\ draft[h] = Blank
      /\ \A s \in Sides : ~InHand(Edit[e][s].unit)
      /\ \A k \in Handlers : job[k] # e
  <2>1. e # NoEdit
    BY SerialAssumption DEF SerialAssumption
  <2>2. job[h] = NoEdit /\ draft[h] = Blank
    BY DEF EditInv, HandlerTypes, Post, Idle
  <2>3. \A k \in Handlers : job[k] # e
    BY <2>1 DEF EditInv, Working, Post
  <2>. QED
    BY <2>1, <2>2, <2>3 DEF Post, MayPost, Orderly
<1>2. \A s \in Sides : seen'[h][s] = register[Edit[e][s].unit]
  BY DEF Post, Screen, Orderly, Sides, EditInv, HandlerTypes
<1>3. HandlerTypes'
  <2>1. seen' \in [Handlers -> [Sides -> Labels \cup {NoLabel}]]
    <3>1. Edit[e].a.unit \in Rows /\ Edit[e].b.unit \in Rows
      BY ConstantFacts DEF Sides
    <3>2. PICK x \in Screen(Edit[e].a.unit), y \in Screen(Edit[e].b.unit) :
              seen' = [seen EXCEPT ![h] = [s \in Sides |-> IF s = "a" THEN x ELSE y]]
      BY DEF Post
    <3>3. x \in Labels \cup {NoLabel} /\ y \in Labels \cup {NoLabel}
      BY <3>1 DEF Screen, Orderly, EditInv, Agree
    <3>. QED
      BY <3>2, <3>3 DEF EditInv, HandlerTypes
  <2>2. FirstStage(e) \in Stages
    BY DEF FirstStage, Stages
  <2>. QED
    BY <1>1, <2>1, <2>2 DEF EditInv, HandlerTypes, Post, Outcomes, PCs
<1>4. (Agree /\ Distinct)'
  BY DEF EditInv, Agree, Distinct, Post, tables, Alike
<1>5. Parked'
  BY DEF EditInv, Parked, Post, tables, HandlerTypes
<1>6. ASSUME NEW k \in Handlers \ {h}
      PROVE  SameHandler(k) /\ (job[k] # NoEdit => Unmoved(k))
  <2>1. SameHandler(k)
    BY DEF EditInv, HandlerTypes, Post, SameHandler
  <2>2. ASSUME job[k] # NoEdit
        PROVE  Unmoved(k)
    <3>1. outcome'[job[k]] = outcome[job[k]]
      BY <1>1, <2>2, UnitFacts DEF EditInv, HandlerTypes, Post
    <3>. QED
      BY <2>2, <3>1, QuietUnmoved DEF Post
  <2>. QED
    BY <2>1, <2>2
<1>7. job'[h] = e /\ pc'[h] = "check" /\ stage'[h] = FirstStage(e)
      /\ outcome'[e] = "OPEN" /\ draft'[h] = Blank
  BY <1>1 DEF EditInv, HandlerTypes, Post
<1>8. Working(h)'
  <2>1. \A s \in Sides : register'[Edit[e][s].unit] = Called(e, FirstStage(e), s, seen'[h])
    BY <1>2 DEF Post, tables, Called, FirstStage
  <2>2. FirstStage(e) \in PlanStages(e)
    BY DEF FirstStage, PlanStages, Stages
  <2>. QED
    BY <1>7, <2>1, <2>2 DEF Working, InTransaction, Called, PlanStages, Blank
<1>9. ASSUME NEW k \in Handlers \ {h}, job[k] # NoEdit
      PROVE  Pair(h, k)'
  <2>1. job'[k] = job[k]
    BY <1>6 DEF SameHandler
  <2>2. \A s, t \in Sides : Edit[e][s].unit # Edit[job[k]][t].unit
    BY <1>1, <1>9 DEF InHand
  <2>. QED
    BY <1>7, <2>1, <2>2 DEF Pair, InTransaction
<1>. QED
  BY <1>1, <1>3, <1>4, <1>5, <1>6, <1>7, <1>8, <1>9, StepKeeps

LEMMA CheckKeeps ==
    ASSUME EditInv, NEW h \in Handlers, Check(h)
    PROVE  EditInv'
<1>1. job[h] # NoEdit /\ Working(h)
  BY DEF EditInv, HandlerTypes, Check
<1>2. CASE Fail(h)
  BY <1>1, <1>2, FailKeeps
<1>3. CASE ~Fail(h)
  <2>1. /\ pc' = [pc EXCEPT ![h] = "mark"]
        /\ UNCHANGED <<tables, outcome, job, stage, seen, held, draft, found>>
    BY <1>3 DEF Check
  <2>2. HandlerTypes' /\ pc'[h] = "mark" /\ pc[h] = "check"
    BY <1>1, <2>1 DEF EditInv, HandlerTypes, Check, PCs
  <2>3. Working(h)'
    BY <1>1, <2>1, <2>2 DEF Working, tables, Called, PlanStages, InTransaction, Blank
  <2>4. ASSUME NEW k \in Handlers \ {h}, job[k] # NoEdit
        PROVE  Pair(h, k)'
    <3>1. Pair(h, k)
      BY <1>1, <2>4 DEF EditInv, Apart
    <3>. QED
      BY <2>1, <2>2, <3>1 DEF Pair, InTransaction
  <2>. QED
    BY <1>1, <2>1, <2>2, <2>3, <2>4, QuietStep DEF EditInv, HandlerTypes
<1>. QED
  BY <1>2, <1>3

LEMMA MarkKeeps ==
    ASSUME EditInv, NEW h \in Handlers, Mark(h)
    PROVE  EditInv'
<1>1. job[h] # NoEdit /\ Working(h)
  BY DEF EditInv, HandlerTypes, Mark
<1>2. CASE Fail(h)
  BY <1>1, <1>2, FailKeeps
<1>3. CASE ~Fail(h)
  <2>1. /\ held' = [held EXCEPT ![h] = Matching(h)]
        /\ pc' = [pc EXCEPT ![h] = "read"]
        /\ UNCHANGED <<tables, outcome, job, stage, seen, draft, found>>
    BY <1>3 DEF Mark
  <2>2. /\ HandlerTypes' /\ pc'[h] = "read" /\ pc[h] = "mark"
        /\ held'[h] = Customers \cap {Unit(h)}
    BY <1>1, <2>1, MatchingFacts DEF EditInv, HandlerTypes, Mark, PCs
  <2>3. Working(h)'
    <3>1. Unit(h)' = Unit(h)
      BY <2>1 DEF Unit, Side
    <3>. QED
      BY <1>1, <2>1, <2>2, <3>1 DEF Working, tables, Called, PlanStages, InTransaction, Blank
  <2>4. ASSUME NEW k \in Handlers \ {h}, job[k] # NoEdit
        PROVE  Pair(h, k)'
    <3>1. Pair(h, k)
      BY <1>1, <2>4 DEF EditInv, Apart
    <3>. QED
      BY <2>1, <2>2, <3>1 DEF Pair, InTransaction
  <2>. QED
    BY <1>1, <2>1, <2>2, <2>3, <2>4, QuietStep DEF EditInv, HandlerTypes
<1>. QED
  BY <1>2, <1>3

LEMMA ReadKeeps ==
    ASSUME Orderly, EditInv, NEW h \in Handlers, Read(h)
    PROVE  EditInv'
<1>1. job[h] # NoEdit /\ Working(h)
  BY DEF EditInv, HandlerTypes, Read
<1>2. /\ draft' = [draft EXCEPT ![h] =
            [d \in Docs |-> IF d \in Mentions(h) THEN items[d] ELSE Blank[d]]]
      /\ pc' = [pc EXCEPT ![h] = "cascade"]
      /\ UNCHANGED <<tables, outcome, job, stage, seen, held, found>>
  BY DEF Read
<1>3. HandlerTypes' /\ pc'[h] = "cascade" /\ pc[h] = "read"
  BY <1>1, <1>2 DEF EditInv, HandlerTypes, Read, PCs
<1>4. draft'[h] = [d \in Docs |-> IF Unit(h) \in Lists[d] THEN items[d] ELSE Blank[d]]
  BY <1>1, <1>2, MatchingFacts DEF EditInv, HandlerTypes
<1>5. Unit(h)' = Unit(h)
  BY <1>2, SameUnit
<1>6. Working(h)'
  BY <1>1, <1>2, <1>3, <1>4, <1>5
     DEF Working, tables, Called, PlanStages, InTransaction, Blank
<1>7. ASSUME NEW k \in Handlers \ {h}, job[k] # NoEdit
      PROVE  Pair(h, k)'
  <2>1. Pair(h, k)
    BY <1>1, <1>7 DEF EditInv, Apart
  <2>2. pc[k] \in InTransaction =>
            \A d \in Docs : ~(Unit(h) \in Lists[d] /\ Unit(k) \in Lists[d])
    BY <1>1, <1>7, MatchingFacts, WriteFacts DEF Read, Orderly
  <2>3. Unit(k)' = Unit(k) /\ pc'[k] = pc[k]
    BY <1>2, SameUnit
  <2>. QED
    BY <1>2, <1>3, <1>5, <2>1, <2>2, <2>3 DEF Pair
<1>. QED
  BY <1>1, <1>2, <1>3, <1>6, <1>7, QuietStep DEF EditInv, HandlerTypes

LEMMA CascadeKeeps ==
    ASSUME EditInv, NEW h \in Handlers, Cascade(h)
    PROVE  EditInv'
<1>1. job[h] # NoEdit /\ Working(h)
  BY DEF EditInv, HandlerTypes, Cascade
<1>2. /\ draft' = [draft EXCEPT ![h] =
            [d \in Docs |-> [u \in Lists[d] |-> Renamed(@[d][u], Old(h), New(h))]]]
      /\ pc' = [pc EXCEPT ![h] = "verify"]
      /\ UNCHANGED <<tables, outcome, job, stage, seen, held, found>>
  BY DEF Cascade
<1>3. HandlerTypes' /\ pc'[h] = "verify" /\ pc[h] = "cascade"
  BY <1>1, <1>2 DEF EditInv, HandlerTypes, Cascade, PCs
<1>4. Unit(h)' = Unit(h) /\ New(h)' = New(h)
  BY <1>2, SameUnit
<1>5. draft'[h] = [d \in Docs |-> IF Unit(h) \in Lists[d]
                                  THEN [items[d] EXCEPT ![Unit(h)] = New(h)]
                                  ELSE Blank[d]]
  <2>1. draft[h] = [d \in Docs |-> IF Unit(h) \in Lists[d] THEN items[d] ELSE Blank[d]]
    BY <1>1, <1>3 DEF Working
  <2>2. draft'[h] = [d \in Docs |-> [u \in Lists[d] |-> Renamed(draft[h][d][u], Old(h), New(h))]]
    BY <1>2 DEF EditInv, HandlerTypes
  <2>3. ASSUME NEW d \in Docs
        PROVE  [u \in Lists[d] |-> Renamed(draft[h][d][u], Old(h), New(h))]
                 = IF Unit(h) \in Lists[d] THEN [items[d] EXCEPT ![Unit(h)] = New(h)]
                                           ELSE Blank[d]
    <3>1. Lists[d] \subseteq Units /\ items[d] = [u \in Lists[d] |-> register[u]]
      BY SerialAssumption DEF SerialAssumption, EditInv, Agree
    <3>2. CASE Unit(h) \in Lists[d]
      <4>1. \A u \in Lists[d] : Renamed(register[u], Old(h), New(h))
                                 = IF u = Unit(h) THEN New(h) ELSE register[u]
        BY <1>1, <3>1, <3>2, OnlyUnit, UnitFacts, ConstantFacts DEF Renamed
      <4>2. draft[h][d] = [u \in Lists[d] |-> register[u]]
        BY <2>1, <3>1, <3>2
      <4>. QED
        BY <3>1, <3>2, <4>1, <4>2
    <3>3. CASE Unit(h) \notin Lists[d]
      BY <2>1, <3>3 DEF Blank, Renamed
    <3>. QED
      BY <3>2, <3>3
  <2>. QED
    BY <2>2, <2>3
<1>6. Working(h)'
  BY <1>1, <1>2, <1>3, <1>4, <1>5
     DEF Working, tables, Called, PlanStages, InTransaction, Blank
<1>7. ASSUME NEW k \in Handlers \ {h}, job[k] # NoEdit
      PROVE  Pair(h, k)'
  <2>1. Pair(h, k)
    BY <1>1, <1>7 DEF EditInv, Apart
  <2>2. Unit(k)' = Unit(k) /\ pc'[k] = pc[k]
    BY <1>2, SameUnit
  <2>. QED
    BY <1>2, <1>3, <1>4, <2>1, <2>2 DEF Pair, InTransaction
<1>. QED
  BY <1>1, <1>2, <1>3, <1>6, <1>7, QuietStep DEF EditInv, HandlerTypes

LEMMA VerifyKeeps ==
    ASSUME Orderly, EditInv, NEW h \in Handlers, Verify(h)
    PROVE  EditInv'
<1>1. job[h] # NoEdit /\ Working(h)
  BY DEF EditInv, HandlerTypes, Verify
<1>2. CASE Fail(h)
  BY <1>1, <1>2, FailKeeps
<1>3. CASE ~Fail(h)
  <2>1. /\ Clashing(Old(h), New(h)) = {}
        /\ found' = [found EXCEPT ![h] = {r \in Live : register[r].dev = Old(h).dev}]
        /\ pc' = [pc EXCEPT ![h] = "rename"]
        /\ UNCHANGED <<tables, outcome, job, stage, seen, held, draft>>
    BY <1>3 DEF Verify
  <2>2. Live = Units
    BY ConstantFacts DEF EditInv, Agree, Live
  <2>3. {r \in Live : register[r].dev = Old(h).dev} = {Unit(h)}
    BY <1>1, <2>2, OnlyUnit, UnitFacts DEF Alike
  <2>4. /\ HandlerTypes' /\ pc'[h] = "rename" /\ pc[h] = "verify"
        /\ found'[h] = {Unit(h)}
    BY <1>1, <2>1, <2>3, UnitFacts, ConstantFacts DEF EditInv, HandlerTypes, Verify, PCs
  <2>5. Unit(h)' = Unit(h) /\ New(h)' = New(h)
    BY <2>1, SameUnit
  <2>6. \A u \in Units \ {Unit(h)} :
            register[u].pon = New(h).pon => register[u].dev = New(h).dev
    <3>1. ASSUME NEW u \in Units \ {Unit(h)}
          PROVE  ~Alike(register[u], Old(h)) /\ ~(u \in Clashing(Old(h), New(h)))
      BY <1>1, <2>1, OnlyUnit
    <3>. QED
      BY <2>2, <3>1 DEF Clashing, Alike
  <2>7. Working(h)'
    BY <1>1, <2>1, <2>4, <2>5, <2>6
       DEF Working, tables, Called, PlanStages, InTransaction, Blank
  <2>8. ASSUME NEW k \in Handlers \ {h}, job[k] # NoEdit
        PROVE  Pair(h, k)'
    <3>1. Pair(h, k)
      BY <1>1, <2>8 DEF EditInv, Apart
    <3>2. Unit(k)' = Unit(k) /\ New(k)' = New(k) /\ pc'[k] = pc[k]
      BY <2>1, SameUnit
    <3>3. pc[k] = "rename" => ~Twins(h, k)
      BY DEF Verify, Orderly
    <3>. QED
      BY <2>1, <2>4, <2>5, <3>1, <3>2, <3>3 DEF Pair, InTransaction, Twins
  <2>. QED
    BY <1>1, <2>1, <2>4, <2>7, <2>8, QuietStep DEF EditInv, HandlerTypes
<1>. QED
  BY <1>2, <1>3

(* The commit of a transaction: the device it renames gets the new label   *)
(* everywhere, and no other device has a serial of that label.             *)
Lands(h) ==
    /\ pc[h] = "rename" /\ Commit(h)
    /\ ~(found[h] # {} /\ Holder(New(h)) \ found[h] # {})
LEMMA CommitFacts ==
    ASSUME EditInv, NEW h \in Handlers, Lands(h)
    PROVE  /\ job[h] # NoEdit
           /\ register' = [r \in Rows |-> IF r = Unit(h) THEN New(h) ELSE register[r]]
           /\ \A u \in Units \ {Unit(h)} : ~Alike(register[u], New(h))
           /\ Agree'
           /\ \A d \in Docs : Unit(h) \notin Lists[d] => items'[d] = items[d]
<1>1. job[h] # NoEdit /\ Working(h) /\ found[h] = {Unit(h)}
  BY DEF EditInv, HandlerTypes, Lands, Working
<1>2. Live = Units
  BY ConstantFacts DEF EditInv, Agree, Live
<1>3. \A u \in Units \ {Unit(h)} : ~Alike(register[u], New(h))
  <2>1. \A u \in Units \ {Unit(h)} : register[u].dev # New(h).dev
    BY <1>1, <1>2 DEF Lands, Holder
  <2>2. \A u \in Units \ {Unit(h)} :
            register[u].pon = New(h).pon => register[u].dev = New(h).dev
    BY <1>1 DEF Lands, Working
  <2>. QED
    BY <2>1, <2>2 DEF Alike
<1>4. register' = [r \in Rows |-> IF r = Unit(h) THEN New(h) ELSE register[r]]
  BY <1>1 DEF Lands, Commit, Target
<1>5. Unit(h) \in Units /\ New(h) \in Labels /\ Units \subseteq Rows /\ NoLabel \notin Labels
  BY <1>1, UnitFacts, ConstantFacts
<1>6. /\ register' \in [Rows -> Labels \cup {NoLabel}]
      /\ \A r \in Rows : register'[r] # NoLabel <=> r \in Units
  BY <1>4, <1>5 DEF EditInv, Agree
<1>7. device' = [u \in Customers |-> register'[u]]
  <2>1. Customers \subseteq Rows /\ held[h] = Customers \cap {Unit(h)}
    BY <1>1, <1>5, SerialAssumption DEF SerialAssumption, Lands, Working, InTransaction
  <2>2. device' = [u \in Customers |-> IF u \in held[h] THEN New(h) ELSE device[u]]
    BY DEF Lands, Commit
  <2>. QED
    BY <1>4, <2>1, <2>2 DEF EditInv, Agree
<1>8. Writes(h) = {d \in Docs : Unit(h) \in Lists[d]}
  BY <1>1, WriteFacts DEF Lands, InTransaction
<1>9. items' = [d \in Docs |-> IF Unit(h) \in Lists[d] THEN draft[h][d] ELSE items[d]]
  BY <1>8 DEF Lands, Commit
<1>10. items' = [d \in Docs |-> [u \in Lists[d] |-> register'[u]]]
  <2>1. ASSUME NEW d \in Docs
        PROVE  items'[d] = [u \in Lists[d] |-> register'[u]]
    <3>1. Lists[d] \subseteq Rows /\ items[d] = [u \in Lists[d] |-> register[u]]
      BY <1>5, SerialAssumption DEF SerialAssumption, EditInv, Agree
    <3>2. CASE Unit(h) \in Lists[d]
      <4>1. draft[h][d] = [items[d] EXCEPT ![Unit(h)] = New(h)]
        BY <1>1, <3>2 DEF Working, Lands
      <4>. QED
        BY <1>4, <1>9, <3>1, <3>2, <4>1
    <3>3. CASE Unit(h) \notin Lists[d]
      BY <1>4, <1>9, <3>1, <3>3
    <3>. QED
      BY <3>2, <3>3
  <2>. QED
    BY <1>9, <2>1
<1>11. Agree'
  BY <1>6, <1>7, <1>10 DEF Agree
<1>. QED
  BY <1>1, <1>3, <1>4, <1>9, <1>11

(* What a commit leaves to the other handlers.                             *)
LEMMA CommitUnmoved ==
    ASSUME EditInv, NEW h \in Handlers, Lands(h),
           NEW k \in Handlers, k # h, job[k] # NoEdit,
           outcome'[job[k]] = outcome[job[k]]
    PROVE  Unmoved(k)
<1>1. job[h] # NoEdit /\ Working(k) /\ pc[h] = "rename"
  BY CommitFacts DEF EditInv, Lands
<1>2. Pair(h, k)
  BY <1>1 DEF EditInv, Apart
<1>3. /\ job[k] \in Edits /\ Side(h) \in Sides /\ Unit(h) \in Units
      /\ \A s \in Sides : Edit[job[k]][s].unit \in Rows
  BY <1>1, UnitFacts, ConstantFacts
<1>4. \A s \in Sides : Edit[job[k]][s].unit # Unit(h)
  BY <1>2, <1>3 DEF Pair, Unit
<1>5. \A s \in Sides : register'[Edit[job[k]][s].unit] = register[Edit[job[k]][s].unit]
  BY <1>3, <1>4, CommitFacts
<1>6. pc[k] \in InTransaction => \A d \in Docs : Unit(k) \in Lists[d] => items'[d] = items[d]
  BY <1>1, <1>2, CommitFacts DEF Pair, InTransaction
<1>7. ASSUME pc[k] = "rename", NEW u \in Units \ {Unit(k)},
             register'[u].pon = New(k).pon
      PROVE  register'[u].dev = New(k).dev
  <2>1. CASE u = Unit(h)
    <3>1. register'[u] = New(h)
      BY <1>3, <2>1, CommitFacts, ConstantFacts
    <3>2. ~Twins(h, k)
      BY <1>1, <1>2, <1>7 DEF Pair
    <3>. QED
      BY <1>7, <3>1, <3>2 DEF Twins
  <2>2. CASE u # Unit(h)
    <3>1. register'[u] = register[u]
      BY <2>2, CommitFacts, ConstantFacts
    <3>. QED
      BY <1>1, <1>7, <3>1 DEF Working
  <2>. QED
    BY <2>1, <2>2
<1>. QED
  BY <1>5, <1>6, <1>7 DEF Unmoved

(* Two labels of which one is a park label.                                *)
LEMMA ParkFacts ==
    ASSUME NEW e \in Edits, NEW f \in Edits, NEW s \in Sides, NEW t \in Sides
    PROVE  /\ Park[e][s] = Park[f][t] => e = f /\ s = t
           /\ Park[e][s] # Edit[f][t].label
<1>1. Park[e][s] = Park[f][t] => Alike(Park[e][s], Park[f][t])
  BY DEF Alike
<1>2. Park[e][s] = Edit[f][t].label => Alike(Park[e][s], Edit[f][t].label)
  BY DEF Alike
<1>3. Units # {} => ~Alike(Park[e][s], Edit[f][t].label)
  BY SerialAssumption DEF SerialAssumption
<1>4. Units # {}
  BY ConstantFacts DEF Sides
<1>5. Alike(Park[e][s], Park[f][t]) => e = f /\ s = t
  BY SerialAssumption DEF SerialAssumption
<1>. QED
  BY <1>1, <1>2, <1>3, <1>4, <1>5

LEMMA RenameKeeps ==
    ASSUME EditInv, NEW h \in Handlers, Rename(h)
    PROVE  EditInv'
<1>1. job[h] # NoEdit /\ Working(h) /\ pc[h] = "rename"
  BY DEF EditInv, HandlerTypes, Rename
<1>2. CASE Fail(h)
  BY <1>1, <1>2, FailKeeps
<1>3. CASE ~Fail(h)
  <2>1. Lands(h) /\ IF NextStage(h) = "none" THEN Succeed(h) ELSE Advance(h)
    BY <1>1, <1>3 DEF Rename, Lands
  <2>2. /\ job[h] \in Edits /\ Side(h) \in Sides /\ Unit(h) \in Units /\ Unit(h) \in Rows
        /\ Edit[job[h]]["a"].unit \in Rows /\ Edit[job[h]]["b"].unit \in Rows
    BY <1>1, UnitFacts, ConstantFacts DEF Sides
  <2>3. /\ register' = [r \in Rows |-> IF r = Unit(h) THEN New(h) ELSE register[r]]
        /\ Agree'
    BY <2>1, CommitFacts
  <2>4. Distinct'
    <3>1. ASSUME NEW u \in Units, NEW v \in Units, Alike(register'[u], register'[v])
          PROVE  u = v
      <4>1. Alike(register[u], register[v]) => u = v
        BY DEF EditInv, Distinct
      <4>2. Units \subseteq Rows
        BY ConstantFacts
      <4>3. \A w \in Units \ {Unit(h)} :
                ~Alike(register[w], New(h)) /\ ~Alike(New(h), register[w])
        BY <2>1, CommitFacts DEF Alike
      <4>. QED
        BY <2>3, <3>1, <4>1, <4>2, <4>3
    <3>. QED
      BY <3>1 DEF Distinct, Alike
  <2>5. \A e \in Edits : e # job[h] => outcome'[e] = outcome[e]
    BY <2>1 DEF Succeed, Advance, EditInv, HandlerTypes
  <2>6. ASSUME NEW k \in Handlers \ {h}
        PROVE  SameHandler(k) /\ (job[k] # NoEdit => Unmoved(k))
    <3>1. SameHandler(k)
      BY <2>1 DEF EditInv, HandlerTypes, Succeed, Stop, Advance, SameHandler
    <3>2. ASSUME job[k] # NoEdit
          PROVE  Unmoved(k)
      <4>1. job[k] # job[h] /\ job[k] \in Edits
        BY <1>1, <3>2, OnlyJob, UnitFacts
      <4>. QED
        BY <2>1, <2>5, <3>2, <4>1, CommitUnmoved
    <3>. QED
      BY <3>1, <3>2
  <2>7. outcome[job[h]] = "OPEN" /\ stage[h] \in PlanStages(job[h])
    BY <1>1 DEF Working
  <2>8. ASSUME NEW e \in Edits, NEW s \in Sides, NEW u \in Units, register'[u] = Park[e][s]
        PROVE  /\ Edit[e].dual /\ u = Edit[e][s].unit
               /\ e = job[h] => NextStage(h) # "none"
               /\ outcome[e] \in {"OPEN", "FAILED", "CUT"}
    <3>1. CASE u = Unit(h)
      <4>1. New(h) = Park[e][s]
        BY <2>2, <2>3, <2>8, <3>1
      <4>2. Parks(h) /\ e = job[h] /\ s = Side(h)
        BY <2>2, <4>1, ParkFacts DEF New
      <4>. QED
        BY <2>7, <3>1, <4>2 DEF Parks, PlanStages, Unit, NextStage
    <3>2. CASE u # Unit(h)
      <4>1. register[u] = Park[e][s]
        BY <2>3, <2>8, <3>2, ConstantFacts
      <4>2. Edit[e].dual /\ u = Edit[e][s].unit /\ outcome[e] \in {"OPEN", "FAILED", "CUT"}
        BY <4>1 DEF EditInv, Parked
      <4>3. ASSUME e = job[h], NextStage(h) = "none"
            PROVE  FALSE
        <5>1. stage[h] = "apply-b"
          BY <2>7, <4>2, <4>3 DEF NextStage, PlanStages, Stages
        <5>2. s = "a"
          BY <3>2, <4>2, <4>3, <5>1 DEF Unit, Side, Sides
        <5>3. register[u] = Edit[e]["a"].label
          BY <1>1, <4>2, <4>3, <5>1, <5>2 DEF Working, Called
        <5>4. "a" \in Sides
          BY DEF Sides
        <5>5. Park[e][s] # Edit[job[h]]["a"].label
          BY <2>2, <5>4, ParkFacts
        <5>. QED
          BY <4>1, <4>3, <5>3, <5>5
      <4>. QED
        BY <4>2, <4>3
    <3>. QED
      BY <3>1, <3>2
  <2>9. CASE NextStage(h) = "none"
    <3>1. Succeed(h)
      BY <2>1, <2>9
    <3>2. HandlerTypes'
      BY <2>2, <3>1 DEF EditInv, HandlerTypes, Succeed, Stop, Outcomes, PCs, Stages, NoSides, Sides
    <3>3. Parked'
      BY <2>5, <2>8, <2>9 DEF Parked
    <3>4. job'[h] = NoEdit /\ Idle(h)'
      BY <3>1 DEF EditInv, HandlerTypes, Succeed, Stop, Idle, Blank
    <3>. QED
      BY <2>3, <2>4, <2>6, <3>2, <3>3, <3>4, StepKeeps
  <2>10. CASE NextStage(h) # "none"
    <3>1. Advance(h) /\ outcome' = outcome
      BY <2>1, <2>10 DEF Advance
    <3>2. NextStage(h) \in Stages
      BY DEF NextStage, Stages
    <3>3. HandlerTypes'
      BY <1>1, <3>1, <3>2 DEF EditInv, HandlerTypes, Advance, PCs
    <3>4. Parked'
      BY <2>8, <3>1 DEF Parked
    <3>5. /\ job'[h] = job[h] /\ seen'[h] = seen[h] /\ stage'[h] = NextStage(h)
          /\ pc'[h] = "check" /\ draft'[h] = Blank
      BY <3>1 DEF EditInv, HandlerTypes, Advance
    <3>6. Edit[job[h]].dual
      BY <2>7, <2>10 DEF NextStage, PlanStages
    <3>7. Edit[job[h]].a.unit # Edit[job[h]].b.unit
      BY <2>2, <3>6, SerialAssumption DEF SerialAssumption
    <3>8. \A s \in Sides : register[Edit[job[h]][s].unit] = Called(job[h], stage[h], s, seen[h])
      BY <1>1 DEF Working
    <3>9. stage[h] \in {"park-a", "park-b", "apply-a"} /\ NextStage(h) \in PlanStages(job[h])
      BY <2>7, <2>10, <3>6 DEF NextStage, PlanStages, Stages
    <3>10. \A s \in Sides : register'[Edit[job[h]][s].unit]
                              = IF s = Side(h) THEN New(h) ELSE Called(job[h], stage[h], s, seen[h])
      BY <2>2, <2>3, <3>7, <3>8 DEF Unit, Sides, Side
    <3>11. \A s \in Sides : register'[Edit[job[h]][s].unit]
                              = Called(job[h], NextStage(h), s, seen[h])
      BY <3>6, <3>9, <3>10 DEF Called, NextStage, Side, Sides, New, Parks
    <3>12. Working(h)'
      <4>1. outcome'[job'[h]] = "OPEN" /\ stage'[h] \in PlanStages(job'[h])
        BY <2>7, <3>1, <3>5, <3>9
      <4>2. \A s \in Sides : register'[Edit[job'[h]][s].unit]
                              = Called(job'[h], stage'[h], s, seen'[h])
        BY <3>5, <3>11
      <4>. QED
        BY <3>5, <4>1, <4>2 DEF Working, InTransaction, Called, PlanStages, Blank
    <3>13. ASSUME NEW k \in Handlers \ {h}, job[k] # NoEdit
           PROVE  Pair(h, k)'
      <4>1. Pair(h, k) /\ job'[k] = job[k]
        BY <1>1, <2>6, <3>13 DEF EditInv, Apart, SameHandler
      <4>. QED
        BY <3>5, <4>1 DEF Pair, InTransaction
    <3>. QED
      BY <1>1, <2>3, <2>4, <2>6, <3>3, <3>4, <3>5, <3>12, <3>13, StepKeeps
  <2>. QED
    BY <2>9, <2>10
<1>. QED
  BY <1>2, <1>3

LEMMA RestartKeeps ==
    ASSUME EditInv, Restart
    PROVE  EditInv'
<1>1. HandlerTypes'
  BY DEF EditInv, HandlerTypes, Restart, Outcomes, PCs, Stages, NoSides, Sides
<1>2. (Agree /\ Distinct)'
  BY DEF EditInv, Agree, Distinct, Restart, tables, Alike
<1>3. Parked'
  BY DEF EditInv, Parked, Restart, tables, HandlerTypes
<1>4. \A h \in Handlers : job'[h] = NoEdit /\ Idle(h)'
  BY DEF Restart, Idle, Blank
<1>. QED
  BY <1>1, <1>2, <1>3, <1>4 DEF EditInv, Apart

-----------------------------------------------------------------------------
LEMMA EditInvInit == Init => EditInv
<1>. SUFFICES ASSUME Init PROVE EditInv
  OBVIOUS
<1>1. HandlerTypes
  BY DEF Init, HandlerTypes, Outcomes, PCs, Stages, NoSides, Sides, Blank
<1>2. /\ Customers \subseteq Units /\ Lists \in [Docs -> SUBSET Units]
      /\ FirstLabel \in [Units -> Labels] /\ NoLabel \notin Labels
      /\ \A u, v \in Units : Alike(FirstLabel[u], FirstLabel[v]) => u = v
      /\ Units \subseteq Rows
  BY SerialAssumption, ConstantFacts DEF SerialAssumption
<1>3. \A u \in Units : register[u] = FirstLabel[u]
  BY <1>2 DEF Init
<1>4. Agree
  <2>1. /\ register \in [Rows -> Labels \cup {NoLabel}]
        /\ \A r \in Rows : register[r] # NoLabel <=> r \in Units
    BY <1>2 DEF Init
  <2>2. device = [u \in Customers |-> register[u]]
    BY <1>2, <1>3 DEF Init
  <2>3. \A d \in Docs : [u \in Lists[d] |-> FirstLabel[u]] = [u \in Lists[d] |-> register[u]]
    BY <1>2, <1>3
  <2>4. items = [d \in Docs |-> [u \in Lists[d] |-> register[u]]]
    BY <2>3 DEF Init
  <2>. QED
    BY <2>1, <2>2, <2>4 DEF Agree
<1>5. Distinct
  BY <1>2, <1>3 DEF Distinct, Alike
<1>6. Parked
  <2>1. ASSUME NEW e \in Edits, NEW s \in Sides, NEW u \in Units
        PROVE  FirstLabel[u] # Park[e][s]
    <3>1. ~Alike(Park[e][s], FirstLabel[u])
      BY SerialAssumption DEF SerialAssumption
    <3>. QED
      BY <3>1 DEF Alike
  <2>. QED
    BY <1>3, <2>1 DEF Parked
<1>7. \A h \in Handlers : job[h] = NoEdit /\ Idle(h)
  BY DEF Init, Idle
<1>. QED
  BY <1>1, <1>4, <1>5, <1>6, <1>7 DEF EditInv, Apart

LEMMA EditInvStep == Orderly /\ EditInv /\ [Next]_vars => EditInv'
<1>. SUFFICES ASSUME Orderly, EditInv, [Next]_vars PROVE EditInv'
  OBVIOUS
<1>1. ASSUME UNCHANGED vars PROVE EditInv'
  <2>1. (HandlerTypes /\ Agree /\ Distinct /\ Parked)'
    BY <1>1 DEF EditInv, HandlerTypes, Agree, Distinct, Parked, Alike,
                vars, tables, handling
  <2>2. Apart'
    <3>1. ASSUME NEW h \in Handlers, NEW k \in Handlers, Pair(h, k)
          PROVE  Pair(h, k)'
      <4>1. UNCHANGED <<job, stage, seen, pc>>
        BY <1>1 DEF vars, handling
      <4>2. /\ Unit(h)' = Unit(h) /\ New(h)' = New(h)
            /\ Unit(k)' = Unit(k) /\ New(k)' = New(k)
        BY <4>1, SameUnit
      <4>. QED
        BY <3>1, <4>1, <4>2 DEF Pair, Twins
    <3>. QED
      BY <1>1, <3>1 DEF EditInv, Apart, vars, handling
  <2>3. ASSUME NEW h \in Handlers
        PROVE  IF job'[h] = NoEdit THEN Idle(h)' ELSE Working(h)'
    <3>1. CASE job[h] = NoEdit
      BY <1>1, <3>1 DEF EditInv, Idle, Blank, vars, handling
    <3>2. CASE job[h] # NoEdit
      <4>1. Working(h)
        BY <3>2 DEF EditInv
      <4>2. pc[h] = "rename" => \A u \in Units \ {Unit(h)} :
                register'[u].pon = New(h).pon => register'[u].dev = New(h).dev
        BY <1>1, <4>1 DEF Working, vars, tables
      <4>3. Working(h)'
        BY <1>1, <4>1, <4>2, WorkFrame DEF vars, tables, handling
      <4>. QED
        BY <1>1, <3>2, <4>3 DEF vars, handling
    <3>. QED
      BY <3>1, <3>2
  <2>. QED
    BY <2>1, <2>2, <2>3 DEF EditInv
<1>2. ASSUME NEW h \in Handlers, NEW e \in Edits, Post(h, e) PROVE EditInv'
  BY <1>2, PostKeeps
<1>3. ASSUME NEW h \in Handlers, Check(h) PROVE EditInv'
  BY <1>3, CheckKeeps
<1>4. ASSUME NEW h \in Handlers, Mark(h) PROVE EditInv'
  BY <1>4, MarkKeeps
<1>5. ASSUME NEW h \in Handlers, Read(h) PROVE EditInv'
  BY <1>5, ReadKeeps
<1>6. ASSUME NEW h \in Handlers, Cascade(h) PROVE EditInv'
  BY <1>6, CascadeKeeps
<1>7. ASSUME NEW h \in Handlers, Verify(h) PROVE EditInv'
  BY <1>7, VerifyKeeps
<1>8. ASSUME NEW h \in Handlers, Rename(h) PROVE EditInv'
  BY <1>8, RenameKeeps
<1>9. ASSUME Restart PROVE EditInv'
  BY <1>9, RestartKeeps
<1>. QED
  BY <1>1, <1>2, <1>3, <1>4, <1>5, <1>6, <1>7, <1>8, <1>9 DEF Next

LEMMA EditInvHolds == ASSUME Orderly PROVE Spec => []EditInv
  BY EditInvInit, EditInvStep, PTL DEF Spec

(* The register, the customers' devices and the documents name every       *)
(* device alike, whatever fails or stops between two transactions          *)
(* (handleEditSerial), in orderly edits.                                   *)
THEOREM OrderlyEditsAgree == ASSUME Orderly PROVE Spec => []RecordsAgree
<1>1. EditInv => RecordsAgree
  <2>1. Customers \subseteq Units /\ \A d \in Docs : Lists[d] \subseteq Units
    BY SerialAssumption DEF SerialAssumption
  <2>. QED
    BY <2>1 DEF EditInv, Agree, RecordsAgree
<1>. QED
  BY <1>1, EditInvHolds, PTL

(* No two rows of the register share a serial, without an index on the PON *)
(* serial, in orderly edits.                                               *)
THEOREM OrderlyEditsKeepSerialsUnique == ASSUME Orderly PROVE Spec => []SerialsUnique
<1>1. EditInv => SerialsUnique
  BY DEF EditInv, Agree, Distinct, SerialsUnique, Live
<1>. QED
  BY <1>1, EditInvHolds, PTL

(* A swap answered with success has left no device under a temporary       *)
(* serial (handleDualEdit), in orderly edits.                              *)
THEOREM OrderlySwapsEndWhole == ASSUME Orderly PROVE Spec => []SwapsEndWhole
<1>1. EditInv => SwapsEndWhole
  BY DEF EditInv, Parked, SwapsEndWhole
<1>. QED
  BY <1>1, EditInvHolds, PTL
=============================================================================
