-------------------------------- MODULE Sync --------------------------------
(***************************************************************************)
(* Change notification: committed changes, the events broadcast about      *)
(* them, and what each tab shows (sse.ts, sync.controller.ts,              *)
(* audit.service.ts, bootstrap.controller.ts; the sync effect and          *)
(* refreshAllData of App.tsx).                                             *)
(*                                                                         *)
(* Two version counters: the one events carry is the clock at the          *)
(* broadcast, the one that the handshake, the poll and the loaded data     *)
(* carry is the clock at the start of the process, plus one for each       *)
(* change of Counted.  Within a boot the first is later than the second.   *)
(***************************************************************************)
EXTENDS Streams

CONSTANTS
    Changes,
    Early,          \* announced inside their transaction, before the commit
    Counted,        \* also raise the counter (put_companyProfile)
    Sliced,         \* their event names the slice of data to load
    Deferred,       \* changes of the three ledgers a full load does not carry
    MaxBoots,       \* bound on restarts
    Mishaps,        \* "SLOW"    a transaction commits more than 250 ms after
                    \*           its announcement,
                    \* "REORDER" answers overtake each other,
                    \* "QUICK"   a restart takes less than 250 ms
    Handshake

ASSUME SyncAssumption ==
    /\ IsFiniteSet(Changes) /\ Handshake \notin Changes
    /\ Early \subseteq Changes /\ Counted \subseteq Changes \ Early
    /\ Sliced \subseteq Changes /\ Deferred \subseteq Changes
    /\ MaxBoots \in Nat
    /\ Mishaps \subseteq {"SLOW", "REORDER", "QUICK"}

VARIABLES
    change,     \* "none", "told" (not committed), "kept" (not told), "done", "dropped"
    boot,       \* the process's number
    raised,     \* how far this boot has raised runtimeState's dataVersion
    queue,      \* events on the way to each tab
    known,      \* serverDataVersionRef
    shown,      \* the changes in the data each tab shows
    burst,      \* changes heard of since the debounce timer was last off
    asked,      \* requests for data, in the order sent
    due,        \* history: changes whose event a tab was sent, less those lost
                \*          with their event or with the load it called for
    owed        \* history: changes committed before the last restart, less
                \*          those a tab lost with a load that failed

server == <<change, boot, raised>>
tab == <<known, shown, burst, asked>>
vars == <<streams, server, queue, tab, due, owed>>

Committed == {c \in Changes : change[c] \in {"kept", "done"}}

(* Versions: all of a boot are later than those of the boot before it.     *)
Span == Cardinality(Changes) + 2
Runtime == boot * Span + raised
Broadcast == boot * Span + Span - 1

Init ==
    /\ StreamsInit
    /\ change = [c \in Changes |-> "none"]
    /\ boot = 1 /\ raised = 0
    /\ queue = [t \in Tabs |-> <<>>]
    /\ known = [t \in Tabs |-> Runtime]
    /\ shown = [t \in Tabs |-> {}]
    /\ burst = [t \in Tabs |-> {}]
    /\ asked = [t \in Tabs |-> <<>>]
    /\ due = [t \in Tabs |-> {}]
    /\ owed = [t \in Tabs |-> {}]

-----------------------------------------------------------------------------
(* The server: a change is written and announced, in one order or the      *)
(* other; the events go to the streams that are open.                      *)

Tell(c) ==
    LET event == [about |-> c, version |-> Broadcast]
    IN  /\ queue' = [t \in Tabs |-> IF t \in up THEN Append(queue[t], event) ELSE queue[t]]
        /\ due' = [t \in Tabs |-> IF t \in up THEN due[t] \cup {c} ELSE due[t]]
        /\ UNCHANGED <<streams, boot, tab, owed>>
Becomes(c, st) == change' = [change EXCEPT ![c] = st]

AnnounceEarly(c) ==
    /\ c \in Early /\ change[c] = "none"
    /\ Becomes(c, "told") /\ Tell(c)
    /\ UNCHANGED raised
Resolve(c) ==
    /\ change[c] = "told"
    /\ \E st \in {"done", "dropped"} : Becomes(c, st)
    /\ UNCHANGED <<streams, boot, raised, queue, tab, due, owed>>
Commit(c) ==
    /\ c \notin Early /\ change[c] = "none"
    /\ Becomes(c, "kept")
    /\ UNCHANGED <<streams, boot, raised, queue, tab, due, owed>>
Announce(c) ==
    /\ change[c] = "kept"
    /\ Becomes(c, "done") /\ Tell(c)
    /\ raised' = IF c \in Counted THEN raised + 1 ELSE raised

(* The process stops and starts: streams and requests break, open          *)
(* transactions roll back, announcements still to come never do.  Unless   *)
(* it is back in 250 ms, what the debounce timers load meanwhile fails.    *)
About(events) == {events[i].about : i \in DOMAIN events}
Restart ==
    /\ boot < MaxBoots
    /\ boot' = boot + 1 /\ raised' = 0
    /\ change' = [c \in Changes |->
          CASE change[c] = "told" -> "dropped" [] change[c] = "kept" -> "done"
            [] OTHER -> change[c]]
    /\ owed' = [t \in Tabs |-> Committed]
    /\ StreamsRestart
    /\ queue' = [t \in Tabs |-> <<>>]
    /\ due' = [t \in Tabs |-> due[t] \ About(queue[t])]
    /\ asked' = [t \in Tabs |-> <<>>]
    /\ burst' = IF "QUICK" \in Mishaps THEN burst ELSE [t \in Tabs |-> {}]
    /\ UNCHANGED <<known, shown>>

-----------------------------------------------------------------------------
(* A tab and its stream.                                                   *)

Connect(t) ==
    /\ Open(t)
    /\ queue' = [queue EXCEPT ![t] = <<[about |-> Handshake, version |-> Runtime]>>]
    /\ UNCHANGED <<server, tab, due, owed>>
Drop(t) ==
    /\ Lose(t)
    /\ queue' = [queue EXCEPT ![t] = <<>>]
    /\ due' = [due EXCEPT ![t] = @ \ About(queue[t])]
    /\ UNCHANGED <<server, tab, owed>>
Housekeeping ==
    /\ Close \/ Unauthorized \/ AgeOut
    /\ UNCHANGED <<server, queue, tab, due, owed>>

(* A burst loads the slices of what was heard, or everything if something  *)
(* has no slice; the slices of one plan, which the code asks for one by    *)
(* one, are one request here.  A full load makes the answers of earlier    *)
(* ones obsolete, and leaves three ledgers to a load of their own.         *)
Everything == [mode |-> "full", scope |-> Changes \ Deferred]
Ledgers == [mode |-> "ledger", scope |-> Deferred]
Plan(heard) == IF heard \subseteq Sliced THEN [mode |-> "slice", scope |-> heard] ELSE Everything
Request(plan) == [mode |-> plan.mode, scope |-> plan.scope, current |-> TRUE,
                  read |-> FALSE, data |-> {}, version |-> 0]
Obsolete(q) == IF q.mode = "full" THEN [q EXCEPT !.current = FALSE] ELSE q
After(t, plan) ==
    LET before == IF plan.mode = "full"
                  THEN [i \in DOMAIN asked[t] |-> Obsolete(asked[t][i])] ELSE asked[t]
    IN  Append(before, Request(plan))
Ask(t, plan) == asked' = [asked EXCEPT ![t] = After(t, plan)]

(* A later version than the tab's, at the handshake or at a poll, makes it *)
(* load everything.                                                        *)
CatchUpMutant(t, version) == known' = [known EXCEPT ![t] = version] /\ UNCHANGED asked
CatchUp(t, version) ==
    IF version > known[t] THEN known' = [known EXCEPT ![t] = version] /\ Ask(t, Everything)
                          ELSE UNCHANGED <<known, asked>>
Receive(t) ==
    /\ queue[t] # <<>>
    /\ queue' = [queue EXCEPT ![t] = Tail(@)]
    /\ LET event == Head(queue[t])
       IN  IF event.about = Handshake
           THEN CatchUp(t, event.version) /\ UNCHANGED burst
           ELSE /\ known' = [known EXCEPT ![t] = event.version]
                /\ burst' = [burst EXCEPT ![t] = @ \cup {event.about}]
                /\ UNCHANGED asked
    /\ UNCHANGED <<streams, server, shown, due, owed>>
Poll(t) ==
    /\ t \notin up /\ Runtime > known[t]
    /\ CatchUp(t, Runtime)
    /\ UNCHANGED <<streams, server, queue, shown, burst, due, owed>>

(* 250 ms without another event: the tab loads what the burst calls for.   *)
FireMutant(t) ==
    /\ burst[t] # {}
    /\ "SLOW" \notin Mishaps => \A c \in Changes : change[c] # "told"
    /\ IF asked[t] = <<>> THEN Ask(t, Plan(burst[t])) ELSE UNCHANGED asked
    /\ burst' = [burst EXCEPT ![t] = {}]
    /\ UNCHANGED <<streams, server, queue, known, shown, due, owed>>
Fire(t) ==
    /\ burst[t] # {}
    /\ "SLOW" \notin Mishaps => \A c \in Changes : change[c] # "told"
    /\ Ask(t, Plan(burst[t]))
    /\ burst' = [burst EXCEPT ![t] = {}]
    /\ UNCHANGED <<streams, server, queue, known, shown, due, owed>>

(* Requests are read and answered in the order sent; two full loads may    *)
(* overtake each other in any case.                                        *)
InTurn(t, i, passed) ==
    \A j \in 1..(i - 1) :
        \/ "REORDER" \in Mishaps \/ passed[j]
        \/ asked[t][i].mode = "full" /\ asked[t][j].mode = "full"
Read(t) ==
    \E i \in DOMAIN asked[t] :
        /\ ~asked[t][i].read
        /\ InTurn(t, i, [j \in DOMAIN asked[t] |-> asked[t][j].read])
        /\ asked' = [asked EXCEPT ![t][i] =
              [@ EXCEPT !.read = TRUE, !.data = Committed, !.version = Runtime]]
        /\ UNCHANGED <<streams, server, queue, known, shown, burst, due, owed>>
AppliesMutant(q) == TRUE
Applies(q) == q.mode # "full" \/ q.current
Merged(old, q) == (old \ q.scope) \cup (q.data \cap q.scope)
(* An answer is shown unless a newer full load was asked for.  The ledgers *)
(* are asked for when a full load is shown; their answers meet no guard,   *)
(* and leave the tab's version alone.                                      *)
Deliver(t) ==
    \E i \in DOMAIN asked[t] :
        LET q == asked[t][i]
            left == RemoveAt(asked[t], i)
        IN  /\ q.read
            /\ InTurn(t, i, [j \in DOMAIN asked[t] |-> FALSE])
            /\ asked' = [asked EXCEPT ![t] =
                  IF q.mode = "full" /\ q.current THEN Append(left, Request(Ledgers)) ELSE left]
            /\ shown' = IF Applies(q) THEN [shown EXCEPT ![t] = Merged(@, q)] ELSE shown
            /\ known' = IF Applies(q) /\ q.mode # "ledger"
                        THEN [known EXCEPT ![t] = q.version] ELSE known
            /\ UNCHANGED <<streams, server, queue, burst, due, owed>>

(* A load fails (503, a broken connection), or some of its slices do: the  *)
(* tab swallows the failure, asks for nothing again and keeps the version  *)
(* it advanced before it asked.  What nothing else on its way to the tab   *)
(* will bring is lost: what is heard of or asked for again is not.         *)
Brings(q) == LET reach == IF q.mode = "full" THEN Changes ELSE q.scope
             IN  IF ~Applies(q) THEN {} ELSE IF q.read THEN reach \cap q.data ELSE reach
Coming(t, i) ==
    About(queue[t]) \cup burst[t] \cup UNION {Brings(asked[t][j]) : j \in DOMAIN asked[t] \ {i}}
LoadFails(t) ==
    \E i \in DOMAIN asked[t] :
        LET q == asked[t][i]
        IN  \E failed \in (IF q.mode = "full" THEN {Changes} ELSE SUBSET q.scope \ {{}}) :
            LET lost == IF Applies(q) THEN failed \ Coming(t, i) ELSE {}
            IN  /\ asked' = [asked EXCEPT ![t] =
                      IF q.scope \subseteq failed THEN RemoveAt(asked[t], i)
                      ELSE [asked[t] EXCEPT ![i] = [q EXCEPT !.scope = q.scope \ failed]]]
                /\ due' = [due EXCEPT ![t] = @ \ lost]
                /\ owed' = [owed EXCEPT ![t] = @ \ lost]
                /\ UNCHANGED <<streams, server, queue, known, shown, burst>>

Next ==
    \/ \E c \in Changes : AnnounceEarly(c) \/ Resolve(c) \/ Commit(c) \/ Announce(c)
    \/ Restart \/ Housekeeping
    \/ \E t \in Tabs :
          \/ Connect(t) \/ Drop(t) \/ Receive(t) \/ Poll(t)
          \/ Fire(t) \/ Read(t) \/ Deliver(t) \/ LoadFails(t)
Spec == Init /\ [][Next]_vars

(* Transactions end and announce what they wrote; tabs reconnect, take     *)
(* events, load and show answers; lost streams are noticed.  Nobody is     *)
(* obliged to change anything, and neither connections nor loads need      *)
(* succeed: a load ends, shown or failed.                                  *)
Fairness ==
    /\ \A c \in Changes : WF_vars(Resolve(c)) /\ WF_vars(Announce(c))
    /\ WF_vars(Close /\ UNCHANGED <<server, queue, tab, due, owed>>)
    /\ \A t \in Tabs :
          /\ WF_vars(Connect(t)) /\ WF_vars(Receive(t)) /\ WF_vars(Poll(t))
          /\ WF_vars(Fire(t)) /\ WF_vars(Read(t)) /\ WF_vars(Deliver(t))
FairSpec == Spec /\ Fairness

-----------------------------------------------------------------------------
(* Properties.                                                             *)

Events == [about : Changes \cup {Handshake}, version : Nat]
Loads == [mode : {"slice", "full", "ledger"}, scope : SUBSET Changes, current : BOOLEAN,
          read : BOOLEAN, data : SUBSET Changes, version : Nat]

(* The types of the streams, the server's state and the tabs.              *)
TypeOK ==
    /\ up \subseteq Tabs /\ ghosts \in Nat /\ hits \in Nat /\ drops \in Nat
    /\ change \in [Changes -> {"none", "told", "kept", "done", "dropped"}]
    /\ boot \in Nat /\ raised \in Nat
    /\ known \in [Tabs -> Nat]
    /\ shown \in [Tabs -> SUBSET Changes]
    /\ burst \in [Tabs -> SUBSET Changes]
    /\ due \in [Tabs -> SUBSET Changes] /\ owed \in [Tabs -> SUBSET Changes]
    /\ DOMAIN queue = Tabs /\ DOMAIN asked = Tabs
    /\ \A t \in Tabs : \A i \in DOMAIN queue[t] : queue[t][i] \in Events
    /\ \A t \in Tabs : \A i \in DOMAIN asked[t] : asked[t][i] \in Loads

(* What only full loads bring never goes back: an answer to an earlier     *)
(* full load is discarded however late it comes ("a stale, slow response   *)
(* ... can never overwrite", refreshAllData).  Slices and the deferred     *)
(* ledgers have no such guard, and nothing is promised of them.            *)
Guarded == Changes \ (Sliced \cup Deferred)
NeverBackwards == [][\A t \in Tabs : shown[t] \cap Guarded \subseteq shown'[t]]_vars

(* A committed change whose event reaches a tab is shown there in the end, *)
(* through bursts, deferred ledgers, lost connections and restarts of the  *)
(* server, or a load that was to bring it failed and nothing else will.    *)
HeardIsShown ==
    \A t \in Tabs, c \in Changes :
        (c \in due[t] \cap Committed) ~> (c \in shown[t] \/ c \notin due[t])

(* After a restart of the server every tab comes to show what had been     *)
(* committed before it, told or not, unless the load failed: the new       *)
(* process's version is later than any version the tab has.                *)
RestartCatchesUp ==
    \A t \in Tabs, c \in Changes : (c \in owed[t]) ~> (c \in shown[t] \/ c \notin owed[t])
=============================================================================
