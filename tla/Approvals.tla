------------------------------ MODULE Approvals ------------------------------
(***************************************************************************)
(* Approval requests on top of Deployments: a request to disconnect a      *)
(* customer's device, or to reconcile a stock audit, is submitted,         *)
(* withdrawn by its sender, or decided, and an approval executes it        *)
(* (post_approvalRequests, post_process and post_cancel of                 *)
(* misc.controller.ts).  They share the mirror, its refresh, the devices   *)
(* and the stock of Deployments, and the handlers that serve all of them.  *)
(* CLOSED stands for REJECTED and CANCELLED, which one statement writes.   *)
(***************************************************************************)
EXTENDS Deployments

CONSTANTS
    Applications,   \* the approval requests
    DeviceOf,       \* per application, its device; NoTarget for an audit
    Counted,        \* the quantity an audit has found
    Lapses          \* "STALE" a decision on, or withdrawal of, a request that
                    \*         is no longer pending but so on a screen,
                    \* "LATE"  other requests on the device in the meantime

ASSUME ApprovalsAssumption ==
    /\ DeviceOf \in [Applications -> Units \cup {NoTarget}]
    /\ Counted \in Nat
    /\ IsFiniteSet(Applications)
    /\ Applications \cap (Assets \cup Units \cup {NoTarget}) = {}
    /\ Units \cap {"APPROVED", "CLOSED"} = {}
    /\ Lapses \subseteq {"STALE", "LATE"}

VARIABLES
    filed,          \* approval_requests: status
    desk,           \* the cached array: status
    detailed,       \* cached requests that still carry their auditData
    deskSnapshot,   \* what the running refresh has read of filed
    granted,        \* history: how often an application was executed
    adjusted        \* history: what audits have added to the stock

registry == <<filed, desk, detailed, deskSnapshot, granted, adjusted>>
allVars == <<vars, registry>>

Nothing == [r \in Applications |-> "NONE"]
Audits == {r \in Applications : DeviceOf[r] = NoTarget}

ApprovalsInit ==
    /\ Init
    /\ filed = Nothing
    /\ desk = Nothing
    /\ detailed = {}
    /\ deskSnapshot = Nothing
    /\ granted = [r \in Applications |-> 0]
    /\ adjusted = 0

-----------------------------------------------------------------------------
(* The form offers a device in use that has no pending request.  The       *)
(* request is in the array before it is in the table.                      *)
DeviceFree(r) == "LATE" \notin Lapses => ~Busy(DeviceOf[r])
PendingOn(u) == \E r \in Applications : DeviceOf[r] = u /\ filed[r] = "PENDING"
StartSubmit(h, r) ==
    /\ filed[r] = "NONE" /\ desk[r] = "NONE" /\ DeviceFree(r)
    /\ r \notin Audits => device[DeviceOf[r]] = "RENTAL" /\ ~PendingOn(DeviceOf[r])
    /\ Open(h, "SUBMIT", r, "NONE", "submit")
    /\ desk' = [desk EXCEPT ![r] = "PENDING"]
    /\ detailed' = detailed \cup ({r} \cap Audits)
    /\ UNCHANGED <<tables, mirror, filed, deskSnapshot, granted, adjusted>>
Submit(h) ==
    /\ pc[h] = "submit"
    /\ filed' = [filed EXCEPT ![target[h]] = "PENDING"]
    /\ Answer(h)
    /\ UNCHANGED <<tables, mirror, desk, detailed, deskSnapshot, granted, adjusted>>

(* The verdict goes into the array at once, whatever the status was; the   *)
(* handler keeps the object it found, with its auditData or without.       *)
OnScreen(r) ==
    IF "STALE" \in Lapses THEN filed[r] # "NONE" \/ desk[r] # "NONE" ELSE filed[r] = "PENDING"
StartDecide(h, r, verdict) ==
    /\ OnScreen(r) /\ DeviceFree(r)
    /\ Open(h, "DECIDE", r, verdict,
            IF verdict = "APPROVED" /\ r \in detailed THEN "reconcile" ELSE "decide")
    /\ desk' = IF desk[r] = "NONE" THEN desk ELSE [desk EXCEPT ![r] = verdict]
    /\ UNCHANGED <<tables, mirror, filed, detailed, deskSnapshot, granted, adjusted>>

Recorded(r, verdict) ==
    filed' = IF filed[r] = "NONE" THEN filed ELSE [filed EXCEPT ![r] = verdict]

(* The verdict and what it executes: a device request marks the record     *)
(* collected and puts a unit back in stock.                                *)
DecideMutant(h) ==
    LET r == target[h]
        back == arg[h] = "APPROVED" /\ r \notin Audits
    IN  /\ pc[h] = "decide"
        /\ IF back THEN UNCHANGED filed ELSE Recorded(r, arg[h])
        /\ device' = IF back /\ device[DeviceOf[r]] # "NONE"
                     THEN [device EXCEPT ![DeviceOf[r]] = "ROUTER_COLLECTED"] ELSE device
        /\ stock' = IF back THEN stock + 1 ELSE stock
        /\ granted' = IF back THEN [granted EXCEPT ![r] = @ + 1] ELSE granted
        /\ Answer(h)
        /\ UNCHANGED <<asset, posted, count, serial, swapped, mirror, desk, detailed,
                       deskSnapshot, adjusted>>
Decide(h) ==
    LET r == target[h]
        back == arg[h] = "APPROVED" /\ r \notin Audits
    IN  /\ pc[h] = "decide"
        /\ Recorded(r, arg[h])
        /\ device' = IF back /\ device[DeviceOf[r]] # "NONE"
                     THEN [device EXCEPT ![DeviceOf[r]] = "ROUTER_COLLECTED"] ELSE device
        /\ stock' = IF back THEN stock + 1 ELSE stock
        /\ granted' = IF back THEN [granted EXCEPT ![r] = @ + 1] ELSE granted
        /\ Answer(h)
        /\ UNCHANGED <<asset, posted, count, serial, swapped, mirror, desk, detailed,
                       deskSnapshot, adjusted>>
(* An audit writes the counted quantity over whatever stock there is.      *)
Reconcile(h) ==
    LET r == target[h]
    IN  /\ pc[h] = "reconcile"
        /\ Recorded(r, "APPROVED")
        /\ stock' = Counted
        /\ adjusted' = adjusted + (Counted - stock)
        /\ granted' = [granted EXCEPT ![r] = @ + 1]
        /\ Answer(h)
        /\ UNCHANGED <<asset, posted, device, count, serial, swapped, mirror, desk,
                       detailed, deskSnapshot>>

(* Its sender withdraws a request, if the array has it as pending.         *)
StillPending(r) == IF desk[r] = "NONE" THEN filed[r] = "PENDING" ELSE desk[r] = "PENDING"
StartWithdraw(h, r) ==
    /\ OnScreen(r) /\ StillPending(r)
    /\ Open(h, "WITHDRAW", r, "CLOSED", "withdraw")
    /\ desk' = IF desk[r] = "NONE" THEN desk ELSE [desk EXCEPT ![r] = "CLOSED"]
    /\ UNCHANGED <<tables, mirror, filed, detailed, deskSnapshot, granted, adjusted>>
Withdraw(h) ==
    /\ pc[h] = "withdraw"
    /\ Recorded(target[h], arg[h])
    /\ Answer(h)
    /\ UNCHANGED <<tables, mirror, desk, detailed, deskSnapshot, granted, adjusted>>

-----------------------------------------------------------------------------
(* The refresh takes the table's rows with the mirror's other arrays; it   *)
(* keeps the old array if there is no row or the query of this table       *)
(* failed.  The table has no column for auditData.                         *)
ReadRows(h) ==
    /\ StartRefresh(h)
    /\ deskSnapshot' = filed
    /\ UNCHANGED <<filed, desk, detailed, granted, adjusted>>
Replace(h) ==
    /\ ApplyRefresh(h)
    /\ \/ UNCHANGED <<desk, detailed>>
       \/ deskSnapshot # Nothing /\ desk' = deskSnapshot /\ detailed' = {}
    /\ deskSnapshot' = Nothing
    /\ UNCHANGED <<filed, granted, adjusted>>

(* Nobody else works on a device while a request about it is pending or    *)
(* is being decided.                                                       *)
Undisturbed(h) ==
    "LATE" \notin Lapses =>
        \A r \in Applications \ Audits :
            /\ filed[r] = "PENDING" \/ \E g \in Handlers \ {h} : target[g] = r
            => DeviceOf[r] \notin Touches(target'[h]) \cup {arg'[h]}
UndisturbedStart(h) == DeploymentStart(h) /\ Undisturbed(h) /\ UNCHANGED registry

ApprovalStart(h) ==
    \E r \in Applications :
        \/ StartSubmit(h, r) \/ StartWithdraw(h, r)
        \/ \E verdict \in {"APPROVED", "CLOSED"} : StartDecide(h, r, verdict)
ApprovalStep(h) ==
    \/ Submit(h) \/ Decide(h) \/ Reconcile(h) \/ Withdraw(h)
    \/ ReadRows(h) \/ Replace(h)

ApprovalsNext ==
    \E h \in Handlers :
        \/ UndisturbedStart(h)
        \/ DeploymentWork(h) /\ UNCHANGED registry
        \/ ApprovalStart(h)
        \/ ApprovalStep(h)
ApprovalsSpec == ApprovalsInit /\ [][ApprovalsNext]_allVars

-----------------------------------------------------------------------------
(* Properties.                                                             *)

Verdicts == {"NONE", "PENDING", "APPROVED", "CLOSED"}
ApprovalKinds == {"SUBMIT", "DECIDE", "WITHDRAW"}
ApprovalPCs == {"submit", "decide", "reconcile", "withdraw"}

(* The types of all tables, of the mirror and of the handlers' states.     *)
ApprovalsTypeOK ==
    /\ TableTypes
    /\ pc \in [Handlers -> PCs \cup ApprovalPCs]
    /\ kind \in [Handlers -> Kinds \cup ApprovalKinds \cup {"NONE"}]
    /\ target \in [Handlers -> Assets \cup Units \cup Applications \cup {NoTarget}]
    /\ arg \in [Handlers -> Args \cup Verdicts]
    /\ filed \in [Applications -> Verdicts]
    /\ desk \in [Applications -> Verdicts]
    /\ deskSnapshot \in [Applications -> Verdicts]
    /\ detailed \subseteq Audits
    /\ granted \in [Applications -> Nat]
    /\ adjusted \in Int

(* An application is executed at most once, and only if its row says that  *)
(* it is approved: failures, refreshes and withdrawals in between leave no *)
(* executed request open for another decision.  Nothing in post_process    *)
(* looks at the status, and post_cancel looks at the mirror's, which a     *)
(* late refresh may have set back, so this rests on the screens: with      *)
(* "STALE" it fails.                                                       *)
ExecutedOnce ==
    \A r \in Applications : granted[r] <= 1 /\ (granted[r] = 1 => filed[r] = "APPROVED")

Restocks == Cardinality({r \in Applications \ Audits : granted[r] > 0})

(* Stock lacks one unit for every deployment the ledger has not seen come  *)
(* back and one for every device record with a customer, replacements      *)
(* apart; approved disconnections have put theirs back and audits have     *)
(* moved the rest.  A deployment is restocked once however often it is     *)
(* unassigned, a record posted again moves a unit only when it changes     *)
(* hands, an approval puts back one unit.                                  *)
StockExplained ==
    stock = InitStock + adjusted + Restocks - Cardinality(OutAssets) - Cardinality(Taken)
=============================================================================
