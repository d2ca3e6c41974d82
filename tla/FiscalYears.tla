----------------------------- MODULE FiscalYears -----------------------------
(***************************************************************************)
(* Fiscal years and their opening balances                                 *)
(* (controllers/admin.controller.ts 706-965, routes/fiscal.routes.ts,      *)
(* models/admin.repo.ts, the trigger assign_fiscal_year_id_from_date).     *)
(*                                                                         *)
(* Dates are days numbered from 1.  The vendor register is that of one     *)
(* supplier at one branch, the stock register that of one product at one   *)
(* branch; a document is a bill of that supplier (amount above zero), a    *)
(* payment to it (below), or of any other kind (zero).  Left out: codes,   *)
(* BS dates, the mirror of the years and the repair of links at boot.      *)
(* Definitions named ...Mutant are faulty variants of the definition that  *)
(* follows; nothing here uses them.                                        *)
(***************************************************************************)
EXTENDS Integers, FiniteSets, Functions

CONSTANTS
    Years,          \* the years there are or may be created
    Period,         \* Period[y]: [from, to], days
    Founded,        \* the years there are at the start
    FirstCurrent,   \* the current one
    Ended,          \* those whose last day is in the past
    Docs,           \* documents
    Doc,            \* Doc[d]: [day, amount, counted], counted: its table is one
                    \* of FY_REFERENCE_TABLES
    OnHand,         \* what the stock register finds on hand
    Corrected,      \* what a manual adjustment writes
    Limit,          \* bound: no roll-forward writes more than this, or less than -this
    Handlers,       \* requests open at a time
    Requests,       \* the kinds of request that are sent
    Lapses,         \* "TWICE" two years are created at a time
    NoYear, NoDoc, NoRow

Kinds == {"CREATE", "CURRENT", "DELETE", "CLOSE", "REOPEN", "ADJUST", "ROLL", "POST"}
Registers == {"stock", "vendor"}

ASSUME FiscalAssumption ==
    /\ Period \in [Years -> [from : Nat, to : Nat]]
    /\ \A y \in Years : Period[y].from <= Period[y].to
    /\ Founded \subseteq Years /\ FirstCurrent \in Founded /\ Ended \subseteq Years
    /\ \A y, z \in Founded : y # z =>
          Period[y].to < Period[z].from \/ Period[z].to < Period[y].from
    /\ Doc \in [Docs -> [day : Nat, amount : Int, counted : BOOLEAN]]
    /\ OnHand \in Nat /\ Corrected \in Nat /\ Limit \in Nat
    /\ Requests \subseteq Kinds /\ Lapses \subseteq {"TWICE"}
    /\ NoYear \notin Years /\ NoRow \notin Years \cup {NoYear} /\ NoDoc \notin Docs
    /\ NoRow \notin [amount : Int, manual : BOOLEAN]

VARIABLES
    year,       \* fiscal_years: NONE, OPEN, CLOSED or DELETED
    current,    \* the years flagged is_current
    owner,      \* fiscal_year_id of every document, NoRow before it is posted
    opening,    \* opening[k][y]: NoRow or [amount, manual]
    pc, kind,
    target,     \* the year a request is about
    doc         \* the document it posts
tables == <<year, current, owner, opening>>
yearVars == <<tables, pc, kind, target, doc>>

Exists(y) == year[y] \in {"OPEN", "CLOSED"}
Within(day, y) == Period[y].from <= day /\ day <= Period[y].to

YearsInit ==
    /\ year = [y \in Years |-> IF y \in Founded THEN "OPEN" ELSE "NONE"]
    /\ current = {FirstCurrent}
    /\ owner = [d \in Docs |-> NoRow]
    /\ opening = [k \in Registers |-> [y \in Years |-> NoRow]]
    /\ pc = [h \in Handlers |-> "idle"]
    /\ kind = [h \in Handlers |-> "NONE"]
    /\ target = [h \in Handlers |-> NoYear]
    /\ doc = [h \in Handlers |-> NoDoc]

Begin(h, k, y, d, first) ==
    /\ pc[h] = "idle" /\ k \in Requests
    /\ pc' = [pc EXCEPT ![h] = first]
    /\ kind' = [kind EXCEPT ![h] = k]
    /\ target' = [target EXCEPT ![h] = y]
    /\ doc' = [doc EXCEPT ![h] = d]
    /\ UNCHANGED tables
Finish(h) ==
    /\ pc' = [pc EXCEPT ![h] = "idle"]
    /\ kind' = [kind EXCEPT ![h] = "NONE"]
    /\ target' = [target EXCEPT ![h] = NoYear]
    /\ doc' = [doc EXCEPT ![h] = NoDoc]
Refuse(h) == Finish(h) /\ UNCHANGED tables
Proceed(h, p) == pc' = [pc EXCEPT ![h] = p] /\ UNCHANGED <<tables, kind, target, doc>>

(* Row locks on a year, held to the end of the transaction: by an update   *)
(* of every row (set-current) and by SELECT ... FOR UPDATE (deletion).     *)
(* The foreign key of a document or an opening row waits only for the      *)
(* latter.                                                                 *)
DeletingMutant(y) == FALSE
Deleting(y) == \E g \in Handlers : pc[g] = "delete" /\ target[g] = y
HeldMutant(y) == Deleting(y)
Held(y) == Deleting(y) \/ \E g \in Handlers : pc[g] = "set"

-----------------------------------------------------------------------------
(* A new year: its period may not meet that of another, which is checked   *)
(* some time before the row is inserted.                                   *)
Overlaps(y, z) ==
    Within(Period[y].from, z) \/ Within(Period[y].to, z) \/ Within(Period[z].from, y)
StartCreate(h, y) ==
    /\ year[y] = "NONE" /\ \A g \in Handlers : kind[g] = "CREATE" => target[g] # y
    /\ "TWICE" \in Lapses \/ \A g \in Handlers : kind[g] # "CREATE"
    /\ Begin(h, "CREATE", y, NoDoc, "check")
CheckCreate(h) ==
    /\ pc[h] = "check"
    /\ IF \E z \in Years : Exists(z) /\ Overlaps(target[h], z)
       THEN Refuse(h)
       ELSE Proceed(h, "create")
Create(h) ==
    /\ pc[h] = "create"
    /\ year' = [year EXCEPT ![target[h]] = "OPEN"]
    /\ Finish(h)
    /\ UNCHANGED <<current, owner, opening>>

-----------------------------------------------------------------------------
(* The current year: every flag is cleared, which locks every row, then    *)
(* the new one set, if the year is still there.                            *)
StartCurrent(h, y) == Exists(y) /\ Begin(h, "CURRENT", y, NoDoc, "clear")
Clear(h) ==
    /\ pc[h] = "clear"
    /\ \A y \in Years : Exists(y) => ~Held(y)
    /\ Proceed(h, "set")
SetCurrent(h) ==
    /\ pc[h] = "set"
    /\ IF Exists(target[h])
       THEN current' = {target[h]} /\ Finish(h) /\ UNCHANGED <<year, owner, opening>>
       ELSE Refuse(h)

(* Closing, once the year has ended, and reopening.                        *)
StartClose(h, y) == Exists(y) /\ Begin(h, "CLOSE", y, NoDoc, "close")
StartReopen(h, y) == Exists(y) /\ Begin(h, "REOPEN", y, NoDoc, "close")
CloseOrReopen(h) ==
    LET y == target[h]
    IN  /\ pc[h] = "close"
        /\ ~Held(y)
        /\ IF Exists(y) /\ (kind[h] = "CLOSE" => y \in Ended)
           THEN /\ year' = [year EXCEPT ![y] = IF kind[h] = "CLOSE" THEN "CLOSED" ELSE "OPEN"]
                /\ Finish(h)
                /\ UNCHANGED <<current, owner, opening>>
           ELSE Refuse(h)

-----------------------------------------------------------------------------
(* Deleting a year: its row is locked FOR UPDATE, then its flag and every  *)
(* counted table looked at; the links of other tables are set to NULL and  *)
(* opening rows would go with it.                                          *)
Referenced(y) ==
    \/ \E d \in Docs : owner[d] = y /\ Doc[d].counted
    \/ \E k \in Registers : opening[k][y] # NoRow
StartDelete(h, y) == Exists(y) /\ Begin(h, "DELETE", y, NoDoc, "lock")
LockForDelete(h) ==
    LET y == target[h]
    IN  /\ pc[h] = "lock"
        /\ ~Held(y)
        /\ IF ~Exists(y) \/ y \in current \/ Referenced(y)
           THEN Refuse(h)
           ELSE Proceed(h, "delete")
Delete(h) ==
    LET y == target[h]
    IN  /\ pc[h] = "delete"
        /\ year' = [year EXCEPT ![y] = "DELETED"]
        /\ current' = current \ {y}
        /\ owner' = [d \in Docs |-> IF owner[d] = y THEN NoYear ELSE owner[d]]
        /\ opening' = [k \in Registers |-> [opening[k] EXCEPT ![y] = NoRow]]
        /\ Finish(h)

-----------------------------------------------------------------------------
(* A document without a year is given the latest its date falls in as it   *)
(* is inserted or changed; the foreign key then waits for a deletion of    *)
(* that year, and the statement fails if the year is gone.                 *)
YearsOf(day) == {y \in Years : Exists(y) /\ Within(day, y)}
YearOf(day) ==
    IF YearsOf(day) = {} THEN NoYear
    ELSE CHOOSE y \in YearsOf(day) : \A z \in YearsOf(day) : Period[z].from <= Period[y].from
Post(h, d) ==
    /\ owner[d] \in {NoRow, NoYear} /\ \A g \in Handlers : doc[g] # d
    /\ Begin(h, "POST", YearOf(Doc[d].day), d, "insert")
Insert(h) ==
    /\ pc[h] = "insert"
    /\ ~Deleting(target[h])
    /\ IF target[h] # NoYear /\ ~Exists(target[h])
       THEN Refuse(h)
       ELSE /\ owner' = [owner EXCEPT ![doc[h]] = target[h]]
            /\ Finish(h)
            /\ UNCHANGED <<year, current, opening>>

(* A manual adjustment of an opening row: refused for a closed year, which *)
(* is checked before the transaction and not again.                        *)
StartAdjust(h, y) == year[y] = "OPEN" /\ Begin(h, "ADJUST", y, NoDoc, "adjust")
Adjust(h) ==
    LET y == target[h]
    IN  /\ pc[h] = "adjust"
        /\ ~Deleting(y)
        /\ IF ~Exists(y) THEN Refuse(h)
           ELSE \E k \in Registers :
                /\ opening' = [opening EXCEPT ![k][y] = [amount |-> Corrected, manual |-> TRUE]]
                /\ Finish(h)
                /\ UNCHANGED <<year, current, owner>>

-----------------------------------------------------------------------------
(* Roll-forward: the closed year and the one after it are locked FOR       *)
(* UPDATE, and the register of the latter written, but for manual rows.    *)
(* The stock register takes what is on hand now.  The vendor register adds *)
(* up the bills and payments dated in the source year and the opening of   *)
(* the target year, and has nothing to write when there are neither bills  *)
(* nor such an opening.                                                    *)
Later(y) == {z \in Years : Exists(z) /\ Period[z].from > Period[y].from}
Following(y) == CHOOSE z \in Later(y) : \A x \in Later(y) : Period[z].from <= Period[x].from
Posted(y) == {d \in Docs : owner[d] # NoRow /\ Within(Doc[d].day, y)}
Amount(k, y) == IF opening[k][y] = NoRow THEN 0 ELSE opening[k][y].amount
Turnover(y) == SumFunctionOnSet([d \in Docs |-> Doc[d].amount], Posted(y))
Moves(y, z) ==
    /\ \E d \in Posted(y) : Doc[d].amount # 0
    /\ opening["vendor"][z] # NoRow \/ \E d \in Posted(y) : Doc[d].amount > 0
Closing(k, y, z) ==
    IF k = "stock" THEN OnHand ELSE Amount(k, z) + Turnover(y)

Overwritable(k, z) == opening[k][z] # NoRow => ~opening[k][z].manual
StartRoll(h, y) == Exists(y) /\ Begin(h, "ROLL", y, NoDoc, "roll")
Roll(h) ==
    LET y == target[h]
        z == Following(y)
    IN  /\ pc[h] = "roll"
        /\ ~Held(y) /\ (Later(y) # {} => ~Held(z))
        /\ IF year[y] # "CLOSED" \/ Later(y) = {}
           THEN Refuse(h)
           ELSE \E k \in Registers :
                /\ Closing(k, y, z) \in -Limit .. Limit
                /\ opening' = IF Overwritable(k, z) /\ (k = "vendor" => Moves(y, z))
                      THEN [opening EXCEPT ![k][z] =
                              [amount |-> Closing(k, y, z), manual |-> FALSE]]
                      ELSE opening
                /\ Finish(h)
                /\ UNCHANGED <<year, current, owner>>

(* A lost connection, or a transaction the database ends.                  *)
Fail(h) == pc[h] # "idle" /\ Refuse(h)

Start(h) ==
    \/ \E y \in Years :
          \/ StartCreate(h, y) \/ StartCurrent(h, y) \/ StartClose(h, y) \/ StartReopen(h, y)
          \/ StartDelete(h, y) \/ StartAdjust(h, y) \/ StartRoll(h, y)
    \/ \E d \in Docs : Post(h, d)
Step(h) ==
    \/ CheckCreate(h) \/ Create(h) \/ Clear(h) \/ SetCurrent(h) \/ CloseOrReopen(h)
    \/ LockForDelete(h) \/ Delete(h) \/ Insert(h) \/ Adjust(h) \/ Roll(h) \/ Fail(h)
YearsNext == \E h \in Handlers : Start(h) \/ Step(h)
YearsSpec == YearsInit /\ [][YearsNext]_yearVars

-----------------------------------------------------------------------------
(* Properties.                                                             *)

(* Exactly one year is current ("Exactly one fiscal year may be flagged    *)
(* current"), also when deletions and changes of the current year overlap, *)
(* and no day belongs to two years ("every AD date belongs to exactly one  *)
(* fiscal year").                                                          *)
CalendarSound ==
    /\ Cardinality(current) = 1 /\ \A y \in current : Exists(y)
    /\ \A y, z \in Years : Exists(y) /\ Exists(z) /\ y # z =>
          Period[y].to < Period[z].from \/ Period[z].to < Period[y].from

(* A document of a counted table stays in the year it was given ("a fiscal *)
(* year that already carries ANY business records ... must never be        *)
(* deleted"), and a manual opening stays ("posted, corrected opening       *)
(* balances and must survive a re-initialization"), whatever deletions,    *)
(* postings, adjustments and roll-forwards overlap.                        *)
RecordsStay ==
    [][/\ \A d \in Docs : Doc[d].counted /\ owner[d] \in Years => owner'[d] = owner[d]
       /\ \A k \in Registers, y \in Years :
             opening[k][y] # NoRow /\ opening[k][y].manual
                => opening'[k][y] # NoRow /\ opening'[k][y].manual]_yearVars

(* What a roll-forward writes is "the net of all invoices (debits) minus   *)
(* posted payments (credits) dated within the source fiscal year, plus any *)
(* persisted opening balance carried into that source year".               *)
OpeningsCarried ==
    [][\A h \in Handlers :
          pc[h] = "roll" /\ pc'[h] = "idle" /\ opening'["vendor"] # opening["vendor"] =>
              LET y == target[h]
              IN  opening'["vendor"][Following(y)].amount = Amount("vendor", y) + Turnover(y)]_yearVars
=============================================================================
