----------------------------- MODULE SerialEdits ------------------------------
(***************************************************************************)
(* Correction of device serials (services/serialEdit.handler.ts,           *)
(* serials.service.ts, serialEditCapture.service.ts): one edit renames a   *)
(* device in the register (serial_log), among the customers' devices and   *)
(* in every document that lists it; a dual edit parks two devices under    *)
(* temporary serials and then gives each its final ones, in four           *)
(* transactions.                                                           *)
(*                                                                         *)
(* A label is what identifies a device: its device serial and its PON      *)
(* serial (the MAC goes with the PON).  The documents are the invoices,    *)
(* shipments and stock operations with their items in one JSON column,     *)
(* read without a lock and written whole.  Left out: fixed assets, the     *)
(* mirrors (they only fill in serials a request leaves out), history.      *)
(* Definitions named ...Mutant are faulty variants of the definition that  *)
(* follows; nothing here uses them.                                        *)
(***************************************************************************)
EXTENDS Naturals, FiniteSets

CONSTANTS
    Units,        \* the devices, by the ids of their register rows
    Customers,    \* those with a row in customer_device_records
    Docs,         \* documents
    Lists,        \* Lists[d]: the devices document d lists
    Labels,       \* the serials in use, the new ones and the temporary ones
    FirstLabel,   \* the label of each device at the start
    Edits,        \* the edits that are posted
    Edit,         \* dual or not, and the device and label of each side
    Park,         \* Park[e][s]: the temporary label of side s of a dual edit
    Spare,        \* Spare[e][s]: the id of a row the edit may insert
    Handlers,     \* requests running at a time
    Mishaps,      \* what the run lets go wrong, see MayPost, Read and Verify
    NoEdit,
    NoLabel

Sides == {"a", "b"}
Rows == Units \cup {Spare[e][s] : e \in Edits, s \in Sides}
Temporary == {Park[e][s] : e \in Edits, s \in Sides}

(* Two labels are alike when they share a serial.                          *)
Alike(x, y) == x.dev = y.dev \/ x.pon = y.pon

(* The park tag is new, the row ids are, and no two devices start alike.   *)
ASSUME SerialAssumption ==
    /\ Labels \subseteq [dev : {x.dev : x \in Labels}, pon : {x.pon : x \in Labels}]
    /\ NoLabel \notin Labels
    /\ Customers \subseteq Units
    /\ Lists \in [Docs -> SUBSET Units]
    /\ FirstLabel \in [Units -> Labels]
    /\ \A u, v \in Units : Alike(FirstLabel[u], FirstLabel[v]) => u = v
    /\ Edit \in [Edits -> [dual : BOOLEAN, a : [unit : Units, label : Labels],
                                           b : [unit : Units, label : Labels]]]
    /\ NoEdit \notin Edits
    /\ Park \in [Edits -> [Sides -> Labels]]
    /\ Spare \in [Edits -> [Sides -> Rows \ Units]]
    /\ \A e, f \in Edits, s, t \in Sides :
          Alike(Park[e][s], Park[f][t]) \/ Spare[e][s] = Spare[f][t] => e = f /\ s = t
    /\ \A e, f \in Edits, s, t \in Sides, u \in Units :
          /\ ~Alike(Park[e][s], FirstLabel[u])
          /\ ~Alike(Park[e][s], Edit[f][t].label)
    (* validateDualEditPayload; a single edit has one side. *)
    /\ \A e \in Edits :
          IF Edit[e].dual
          THEN Edit[e].a.unit # Edit[e].b.unit /\ ~Alike(Edit[e].a.label, Edit[e].b.label)
          ELSE Edit[e].a = Edit[e].b

VARIABLES
    register,     \* serial_log: the label of every row, NoLabel for no row
    device,       \* customer_device_records: the label of every device
    items,        \* items[d]: the label under which document d lists a device
    outcome,      \* of each edit: NONE, OPEN, OK, FAILED or CUT
    pc, job, stage,
    seen,         \* seen[h]: the old serials of both sides, from the screen
    held,         \* the customers' devices this transaction has updated
    draft,        \* the documents as this transaction has read them
    found         \* the register rows its old device serial was found in

tables == <<register, device, items>>
handling == <<pc, job, stage, seen, held, draft, found>>
vars == <<tables, outcome, handling>>

NoSides == [s \in Sides |-> NoLabel]
Blank == [d \in Docs |-> [u \in Lists[d] |-> NoLabel]]

Init ==
    /\ register = [r \in Rows |-> IF r \in Units THEN FirstLabel[r] ELSE NoLabel]
    /\ device = [u \in Customers |-> FirstLabel[u]]
    /\ items = [d \in Docs |-> [u \in Lists[d] |-> FirstLabel[u]]]
    /\ outcome = [e \in Edits |-> "NONE"]
    /\ pc = [h \in Handlers |-> "idle"]
    /\ job = [h \in Handlers |-> NoEdit]
    /\ stage = [h \in Handlers |-> "none"]
    /\ seen = [h \in Handlers |-> NoSides]
    /\ held = [h \in Handlers |-> {}]
    /\ draft = [h \in Handlers |-> Blank]
    /\ found = [h \in Handlers |-> {}]

-----------------------------------------------------------------------------
(* The plan of a dual edit: park both, then apply both; a single edit only *)
(* applies.                                                                *)
FirstStage(e) == IF Edit[e].dual THEN "park-a" ELSE "apply-a"
NextStage(h) ==
    CASE stage[h] = "park-a" -> "park-b"
      [] stage[h] = "park-b" -> "apply-a"
      [] stage[h] = "apply-a" /\ Edit[job[h]].dual -> "apply-b"
      [] OTHER -> "none"
Side(h) == IF stage[h] \in {"park-a", "apply-a"} THEN "a" ELSE "b"
Parks(h) == stage[h] \in {"park-a", "park-b"}

(* What the step under way renames, and to what.                           *)
Old(h) == IF Parks(h) \/ ~Edit[job[h]].dual THEN seen[h][Side(h)]
                                           ELSE Park[job[h]][Side(h)]
New(h) == IF Parks(h) THEN Park[job[h]][Side(h)] ELSE Edit[job[h]][Side(h)].label

(* Rows with a serial of the new label, those of the device itself left    *)
(* out: by the device serial in the register, by any serial among the      *)
(* customers' devices, where a row without a MAC (a parked one) is not     *)
(* looked at.                                                              *)
Live == {r \in Rows : register[r] # NoLabel}
ClashingMutant(old, new) == {r \in Live : register[r].dev # old.dev /\ register[r].dev = new.dev}
Clashing(old, new) == {r \in Live : register[r].dev # old.dev /\ Alike(register[r], new)}
Taken(old, new) == {u \in Customers : /\ ~Alike(device[u], old)
                                      /\ device[u] \notin Temporary
                                      /\ Alike(device[u], new)}

Stop(h) ==
    /\ pc' = [pc EXCEPT ![h] = "idle"]
    /\ job' = [job EXCEPT ![h] = NoEdit]
    /\ stage' = [stage EXCEPT ![h] = "none"]
    /\ seen' = [seen EXCEPT ![h] = NoSides]
    /\ held' = [held EXCEPT ![h] = {}]
    /\ draft' = [draft EXCEPT ![h] = Blank]
    /\ found' = [found EXCEPT ![h] = {}]
(* A step that fails ends the edit; the steps before it stay applied.      *)
FailMutant(h) ==
    /\ outcome' = [outcome EXCEPT ![job[h]] = "OK"]
    /\ Stop(h)
    /\ UNCHANGED tables
Fail(h) ==
    /\ outcome' = [outcome EXCEPT ![job[h]] = "FAILED"]
    /\ Stop(h)
    /\ UNCHANGED tables

-----------------------------------------------------------------------------
(* The request: the old serials are those the screen shows, of the devices *)
(* as the register has them; or, for the mishap STALE, of devices another  *)
(* edit has renamed since or is about to.                                  *)
InHand(u) == \E h \in Handlers : job[h] # NoEdit /\ u \in {Edit[job[h]][s].unit : s \in Sides}
MayPost(e) ==
    "STALE" \in Mishaps \/ \A s \in Sides : ~InHand(Edit[e][s].unit)
Screen(u) == {register[u]} \cup IF "STALE" \in Mishaps THEN {FirstLabel[u]} ELSE {}
Post(h, e) ==
    /\ pc[h] = "idle" /\ outcome[e] = "NONE"
    /\ MayPost(e)
    /\ \E x \in Screen(Edit[e].a.unit), y \in Screen(Edit[e].b.unit) :
          seen' = [seen EXCEPT ![h] = [s \in Sides |-> IF s = "a" THEN x ELSE y]]
    /\ outcome' = [outcome EXCEPT ![e] = "OPEN"]
    /\ pc' = [pc EXCEPT ![h] = "check"]
    /\ job' = [job EXCEPT ![h] = e]
    /\ stage' = [stage EXCEPT ![h] = FirstStage(e)]
    /\ UNCHANGED <<tables, held, draft, found>>

(* "AUTHORITATIVE DUPLICATE CHECK", outside the transaction.               *)
Check(h) ==
    /\ pc[h] = "check"
    /\ IF Clashing(Old(h), New(h)) # {} \/ Taken(Old(h), New(h)) # {}
       THEN Fail(h)
       ELSE /\ pc' = [pc EXCEPT ![h] = "mark"]
            /\ UNCHANGED <<tables, outcome, job, stage, seen, held, draft, found>>

(* UPDATE customer_device_records: waits for rows another transaction has  *)
(* updated, or is giving a serial of the new label; a serial of another    *)
(* row breaks a unique index.                                              *)
Matching(h) == {u \in Customers : Alike(device[u], Old(h))}
Waits(h) == \E k \in Handlers \ {h} :
    \/ held[k] \cap Matching(h) # {}
    \/ held[k] # {} /\ Matching(h) # {} /\ Alike(New(k), New(h))
Mark(h) ==
    /\ pc[h] = "mark"
    /\ ~Waits(h)
    /\ IF \/ Cardinality(Matching(h)) > 1
          \/ Matching(h) # {} /\ \E u \in Customers \ Matching(h) : Alike(device[u], New(h))
       THEN Fail(h)
       ELSE /\ held' = [held EXCEPT ![h] = Matching(h)]
            /\ pc' = [pc EXCEPT ![h] = "read"]
            /\ UNCHANGED <<tables, outcome, job, stage, seen, draft, found>>

(* cascadeRenameJsonbTables reads the documents that mention an old serial *)
(* without locking them.  CROSS: two edits may read one document before    *)
(* either has written it.                                                  *)
Mentions(h) == {d \in Docs : \E u \in Lists[d] : Alike(items[d][u], Old(h))}
Writes(h) == {d \in Docs : \E u \in Lists[d] : draft[h][d][u] # NoLabel}
Read(h) ==
    /\ pc[h] = "read"
    /\ "CROSS" \in Mishaps \/ \A k \in Handlers : Writes(k) \cap Mentions(h) = {}
    /\ draft' = [draft EXCEPT ![h] =
          [d \in Docs |-> IF d \in Mentions(h) THEN items[d] ELSE Blank[d]]]
    /\ pc' = [pc EXCEPT ![h] = "cascade"]
    /\ UNCHANGED <<tables, outcome, job, stage, seen, held, found>>

(* It writes them back with the serials renamed: the row lock is held from *)
(* here to the commit, but what is written is what was read.               *)
Locked(d) == \E k \in Handlers : pc[k] \in {"verify", "rename"} /\ d \in Writes(k)
Renamed(x, old, new) == IF x # NoLabel /\ Alike(x, old) THEN new ELSE x
Cascade(h) ==
    /\ pc[h] = "cascade"
    /\ \A d \in Writes(h) : ~Locked(d)
    /\ draft' = [draft EXCEPT ![h] =
          [d \in Docs |-> [u \in Lists[d] |-> Renamed(@[d][u], Old(h), New(h))]]]
    /\ pc' = [pc EXCEPT ![h] = "verify"]
    /\ UNCHANGED <<tables, outcome, job, stage, seen, held, found>>

(* The register's row and clashes are read again inside the transaction,   *)
(* without a lock.  TWIN: two edits may verify one PON serial for two      *)
(* device serials before either has renamed its row; only device serials   *)
(* are unique in the register.                                             *)
Twins(h, k) == New(h).pon = New(k).pon /\ New(h).dev # New(k).dev
Verify(h) ==
    /\ pc[h] = "verify"
    /\ "TWIN" \in Mishaps \/ \A k \in Handlers : pc[k] = "rename" => ~Twins(h, k)
    /\ LET mine == {r \in Live : register[r].dev = Old(h).dev}
       IN  IF Clashing(Old(h), New(h)) # {}
           THEN Fail(h)
           ELSE /\ found' = [found EXCEPT ![h] = mine]
                /\ pc' = [pc EXCEPT ![h] = "rename"]
                /\ UNCHANGED <<tables, outcome, job, stage, seen, held, draft>>

(* The row found is renamed by its id, whatever it is called by now; if    *)
(* there was none, a new row in stock is inserted, or nothing if the       *)
(* device serial is there already.  Then the transaction commits, and the  *)
(* next step of the plan begins or the request is answered.                *)
Holder(x) == {r \in Live : register[r].dev = x.dev}
Target(h) == IF found[h] # {} THEN found[h]
             ELSE IF Holder(New(h)) = {} THEN {Spare[job[h]][Side(h)]} ELSE {}
Advance(h) ==
    /\ stage' = [stage EXCEPT ![h] = NextStage(h)]
    /\ pc' = [pc EXCEPT ![h] = "check"]
    /\ held' = [held EXCEPT ![h] = {}]
    /\ draft' = [draft EXCEPT ![h] = Blank]
    /\ found' = [found EXCEPT ![h] = {}]
    /\ UNCHANGED <<outcome, job, seen>>
Succeed(h) ==
    /\ outcome' = [outcome EXCEPT ![job[h]] = "OK"]
    /\ Stop(h)
Commit(h) ==
    /\ register' = [r \in Rows |-> IF r \in Target(h) THEN New(h) ELSE register[r]]
    /\ device' = [u \in Customers |-> IF u \in held[h] THEN New(h) ELSE device[u]]
    /\ items' = [d \in Docs |-> IF d \in Writes(h) THEN draft[h][d] ELSE items[d]]
RenameMutant(h) ==
    /\ pc[h] = "rename"
    /\ IF found[h] # {} /\ Holder(New(h)) \ found[h] # {}
       THEN /\ items' = [d \in Docs |-> IF d \in Writes(h) THEN draft[h][d] ELSE items[d]]
            /\ outcome' = [outcome EXCEPT ![job[h]] = "FAILED"]
            /\ Stop(h)
            /\ UNCHANGED <<register, device>>
       ELSE /\ Commit(h)
            /\ IF NextStage(h) = "none" THEN Succeed(h) ELSE Advance(h)
Rename(h) ==
    /\ pc[h] = "rename"
    /\ IF found[h] # {} /\ Holder(New(h)) \ found[h] # {}
       THEN Fail(h)
       ELSE /\ Commit(h)
            /\ IF NextStage(h) = "none" THEN Succeed(h) ELSE Advance(h)

(* The process stops between two statements: the open transaction is       *)
(* rolled back, the steps before it stay, nobody is answered.              *)
Restart ==
    /\ \E h \in Handlers : pc[h] # "idle"
    /\ outcome' = [e \in Edits |-> IF outcome[e] = "OPEN" THEN "CUT" ELSE outcome[e]]
    /\ pc' = [h \in Handlers |-> "idle"]
    /\ job' = [h \in Handlers |-> NoEdit]
    /\ stage' = [h \in Handlers |-> "none"]
    /\ seen' = [h \in Handlers |-> NoSides]
    /\ held' = [h \in Handlers |-> {}]
    /\ draft' = [h \in Handlers |-> Blank]
    /\ found' = [h \in Handlers |-> {}]
    /\ UNCHANGED tables

Next ==
    \/ \E h \in Handlers :
          \/ \E e \in Edits : Post(h, e)
          \/ Check(h) \/ Mark(h) \/ Read(h) \/ Cascade(h) \/ Verify(h) \/ Rename(h)
    \/ Restart
Spec == Init /\ [][Next]_vars

-----------------------------------------------------------------------------
(* Properties.                                                             *)

(* The register, the customers' devices and every document name a device   *)
(* alike, and the register has the rows it began with and no other: an     *)
(* edit renames everywhere or nowhere, parked or not, whichever step of a  *)
(* dual edit fails or is cut off.                                          *)
RecordsAgree ==
    /\ \A r \in Rows : register[r] # NoLabel <=> r \in Units
    /\ \A u \in Customers : device[u] = register[u]
    /\ \A d \in Docs : \A u \in Lists[d] : items[d][u] = register[u]

(* No two rows of the register share a serial ("must never be allowed to   *)
(* save a device serial, PON serial, or MAC address that already exists on *)
(* a DIFFERENT device"), although only device serials have an index.       *)
SerialsUnique == \A r, t \in Live : Alike(register[r], register[t]) => r = t

(* A dual edit answered with success leaves neither device parked: a       *)
(* temporary label in the register is that of a device of a dual edit      *)
(* under way, or of one that failed ("a failed step leaves prior steps     *)
(* applied") or was cut off between two of its four transactions.          *)
SwapsEndWhole ==
    \A e \in Edits, s \in Sides, u \in Units :
        register[u] = Park[e][s] =>
            outcome[e] \in {"OPEN", "FAILED", "CUT"} /\ u = Edit[e][s].unit
=============================================================================
