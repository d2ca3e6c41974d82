------------------------------ MODULE SyncProofs ------------------------------
(***************************************************************************)
(* Theorems about Sync for every set of tabs and changes: slots that never *)
(* leak, and tabs that never go backwards; and, from the second half on,   *)
(* about FiscalYears for every set of years, documents and requests: one   *)
(* year is current, no day is in two, and no record loses its year.  No    *)
(* statement is about both.                                                *)
(***************************************************************************)
EXTENDS Sync, FiscalYears, FiniteSetTheorems, SequenceTheorems, TLAPS

StreamTypes ==
    /\ up \subseteq Tabs /\ ghosts \in Nat /\ hits \in Nat /\ drops \in Nat

-----------------------------------------------------------------------------
(* Slots: each hit of the limiter belongs to a stream that is open, or     *)
(* whose end the server has still to notice.                               *)

SlotsInv == StreamTypes /\ SlotsNeverLeak

LEMMA UpFinite == up \subseteq Tabs => IsFiniteSet(up) /\ Cardinality(up) \in Nat
  BY StreamsAssumption, FS_Subset, FS_CardinalityType

LEMMA OpenSlots == ASSUME SlotsInv, NEW t \in Tabs, Open(t) PROVE SlotsInv'
<1>1. Cardinality(up \cup {t}) = Cardinality(up) + 1
  BY UpFinite, FS_AddElement DEF Open, SlotsInv, StreamTypes
<1>2. Cardinality(up) \in Nat
  BY UpFinite DEF SlotsInv, StreamTypes
<1>. QED
  BY <1>1, <1>2 DEF Open, SlotsInv, StreamTypes, SlotsNeverLeak

LEMMA LoseSlots == ASSUME SlotsInv, NEW t \in Tabs, Lose(t) PROVE SlotsInv'
<1>1. Cardinality(up \ {t}) = Cardinality(up) - 1
  BY UpFinite, FS_RemoveElement DEF Lose, SlotsInv, StreamTypes
<1>2. Cardinality(up) \in Nat /\ Cardinality(up \ {t}) \in Nat
  BY UpFinite, FS_RemoveElement, FS_CardinalityType DEF SlotsInv, StreamTypes
<1>. QED
  BY <1>1, <1>2 DEF Lose, SlotsInv, StreamTypes, SlotsNeverLeak

LEMMA CountingSlots ==
    ASSUME SlotsInv, Close \/ Unauthorized \/ AgeOut PROVE SlotsInv'
<1>1. Cardinality(up) \in Nat
  BY UpFinite DEF SlotsInv, StreamTypes
<1>2. UNCHANGED up
  BY DEF Close, Unauthorized, AgeOut
<1>. QED
  BY <1>1, <1>2
  DEF Close, Unauthorized, AgeOut, Revoked, SlotsInv, StreamTypes, SlotsNeverLeak

LEMMA RestartSlots == ASSUME SlotsInv, StreamsRestart PROVE SlotsInv'
  BY FS_EmptySet DEF StreamsRestart, SlotsInv, StreamTypes, SlotsNeverLeak

LEMMA SlotsStep == SlotsInv /\ [Next]_vars => SlotsInv'
<1>. SUFFICES ASSUME SlotsInv, [Next]_vars PROVE SlotsInv'
  OBVIOUS
<1>1. CASE UNCHANGED streams
  BY <1>1 DEF streams, SlotsInv, StreamTypes, SlotsNeverLeak
<1>2. ASSUME NEW c \in Changes, AnnounceEarly(c) \/ Resolve(c) \/ Commit(c) \/ Announce(c)
      PROVE  UNCHANGED streams
  BY <1>2 DEF AnnounceEarly, Resolve, Commit, Announce, Tell
<1>3. ASSUME NEW t \in Tabs,
             Receive(t) \/ Poll(t) \/ Fire(t) \/ Read(t) \/ Deliver(t) \/ LoadFails(t)
      PROVE  UNCHANGED streams
  BY <1>3 DEF Receive, Poll, Fire, Read, Deliver, LoadFails
<1>4. ASSUME NEW t \in Tabs, Connect(t) \/ Drop(t) PROVE SlotsInv'
  BY <1>4, OpenSlots, LoseSlots DEF Connect, Drop
<1>5. CASE Restart \/ Housekeeping
  BY <1>5, RestartSlots, CountingSlots DEF Restart, Housekeeping
<1>. QED
  BY <1>1, <1>2, <1>3, <1>4, <1>5 DEF Next, vars

(* No tab is refused for a stream that has ended: the limiter never counts *)
(* more than the streams there are, for any number of tabs and slots.      *)
THEOREM SlotsKept == Spec => []SlotsNeverLeak
<1>1. Init => SlotsInv
  BY StreamsAssumption, FS_EmptySet DEF Init, StreamsInit, SlotsInv, StreamTypes, SlotsNeverLeak
<1>2. SlotsInv => SlotsNeverLeak
  BY DEF SlotsInv
<1>. QED
  BY <1>1, <1>2, SlotsStep, PTL DEF Spec

-----------------------------------------------------------------------------
(* The requests of one tab, in the order sent.  Only full loads reach what *)
(* is guarded; a full load makes those before it obsolete; and the one     *)
(* that is current has read, if it is read, all that is guarded and shown. *)

Orderly(qs, d, kept) ==
    /\ d \cap Guarded \subseteq kept
    /\ \A i \in 1..Len(qs) : qs[i].mode # "full" => qs[i].scope \cap Guarded = {}
    /\ \A i \in 1..Len(qs) : qs[i].mode = "full" /\ qs[i].current /\ qs[i].read
          => d \cap Guarded \subseteq qs[i].data /\ qs[i].data \subseteq kept
    /\ \A i, j \in 1..Len(qs) : i < j /\ qs[i].mode = "full" /\ qs[j].mode = "full"
          => ~qs[i].current

LEMMA OrderlyLater ==
    ASSUME NEW qs, NEW d, NEW k, NEW k2, Orderly(qs, d, k), k \subseteq k2
    PROVE  Orderly(qs, d, k2)
  BY DEF Orderly

Plans == [mode : {"slice", "full", "ledger"}, scope : SUBSET Changes]
FairPlan(p) == p \in Plans /\ (p.mode # "full" => p.scope \cap Guarded = {})
LEMMA RequestType == \A p \in Plans : Request(p) \in Loads
  BY DEF Request, Loads, Plans
LEMMA PlansAreFair ==
    /\ FairPlan(Everything) /\ FairPlan(Ledgers)
    /\ \A heard : FairPlan(Plan(heard))
  BY SyncAssumption DEF FairPlan, Plans, Everything, Ledgers, Plan, Guarded

(* A newer full load makes an answer obsolete and changes nothing else.    *)
LEMMA ObsoleteFields ==
    ASSUME NEW q \in Loads
    PROVE  /\ Obsolete(q) \in Loads
           /\ Obsolete(q).mode = q.mode /\ Obsolete(q).read = q.read /\ Obsolete(q).data = q.data
           /\ Obsolete(q).scope = q.scope
           /\ Obsolete(q).current => q.current
           /\ q.mode = "full" => ~Obsolete(q).current
<1>1. CASE q.mode = "full"
  <2>1. Obsolete(q) = [q EXCEPT !.current = FALSE]
    BY <1>1 DEF Obsolete
  <2>. QED
    BY <2>1 DEF Loads
<1>2. CASE q.mode # "full"
  <2>1. Obsolete(q) = q
    BY <1>2 DEF Obsolete
  <2>. QED
    BY <1>2, <2>1
<1>. QED
  BY <1>1, <1>2

(* A request that is sent joins the others last, unread.                   *)
LEMMA SentOrderly ==
    ASSUME NEW qs \in Seq(Loads), NEW before \in Seq(Loads), NEW d, NEW k,
           NEW p \in Plans, FairPlan(p), Orderly(qs, d, k), Len(before) = Len(qs),
           \A i \in 1..Len(qs) :
               before[i] = IF p.mode = "full" THEN Obsolete(qs[i]) ELSE qs[i]
    PROVE  Append(before, Request(p)) \in Seq(Loads) /\ Orderly(Append(before, Request(p)), d, k)
<1>. DEFINE new == Append(before, Request(p))
<1>1. /\ new \in Seq(Loads) /\ Len(new) = Len(qs) + 1 /\ Len(qs) \in Nat
      /\ \A i \in 1..Len(qs) : new[i] = before[i] /\ qs[i] \in Loads
      /\ new[Len(qs) + 1] = Request(p)
  BY RequestType
<1>2. ASSUME NEW i \in 1..Len(qs)
      PROVE  /\ new[i].mode = qs[i].mode /\ new[i].read = qs[i].read /\ new[i].data = qs[i].data
             /\ new[i].current => qs[i].current
             /\ new[i].scope = qs[i].scope
             /\ p.mode = "full" /\ qs[i].mode = "full" => ~new[i].current
  <2>1. qs[i] \in Loads /\ new[i] = IF p.mode = "full" THEN Obsolete(qs[i]) ELSE qs[i]
    BY <1>1
  <2>2. CASE p.mode = "full"
    BY <2>1, <2>2, ObsoleteFields
  <2>3. CASE p.mode # "full"
    BY <2>1, <2>3
  <2>. QED
    BY <2>2, <2>3
<1>3. Request(p).mode = p.mode /\ ~Request(p).read /\ Request(p).scope = p.scope
  BY DEF Request
<1>4. \A i \in 1..Len(new) : i \in 1..Len(qs) \/ i = Len(qs) + 1
  BY <1>1
<1>. HIDE DEF new
<1>5. ASSUME NEW i \in 1..Len(new), NEW j \in 1..Len(new), i < j,
             new[i].mode = "full", new[j].mode = "full"
      PROVE  ~new[i].current
  <2>1. i \in 1..Len(qs)
    BY <1>1, <1>5
  <2>2. CASE j \in 1..Len(qs)
    BY <1>2, <1>5, <2>1, <2>2 DEF Orderly
  <2>3. CASE j = Len(qs) + 1
    BY <1>1, <1>2, <1>3, <1>5, <2>1, <2>3
  <2>. QED
    BY <1>4, <2>2, <2>3
<1>6. \A i \in 1..Len(new) : new[i].read => i \in 1..Len(qs)
  BY <1>1, <1>3, <1>4
<1>7. \A i \in 1..Len(new) : new[i].mode # "full" => new[i].scope \cap Guarded = {}
  BY <1>1, <1>2, <1>3, <1>4 DEF Orderly, FairPlan
<1>8. \A i \in 1..Len(new) : new[i].mode = "full" /\ new[i].current /\ new[i].read
          => d \cap Guarded \subseteq new[i].data /\ new[i].data \subseteq k
  BY <1>2, <1>6 DEF Orderly
<1>9. Orderly(new, d, k)
  BY <1>5, <1>7, <1>8 DEF Orderly
<1>. QED
  BY <1>1, <1>9 DEF new

LEMMA Replaced ==
    ASSUME NEW S, NEW qs \in Seq(S), NEW i \in 1..Len(qs), NEW q \in S
    PROVE  /\ [qs EXCEPT ![i] = q] \in Seq(S)
           /\ Len([qs EXCEPT ![i] = q]) = Len(qs)
           /\ [qs EXCEPT ![i] = q][i] = q
           /\ \A a \in 1..Len(qs) : a # i => [qs EXCEPT ![i] = q][a] = qs[a]
  BY ExceptSeq

(* A request that is read has all that is committed; one that fails in     *)
(* part asks for less.                                                     *)
LEMMA ReplacedOrderly ==
    ASSUME NEW qs \in Seq(Loads), NEW d, NEW k, NEW i \in 1..Len(qs), NEW q \in Loads,
           Orderly(qs, d, k), q.mode = qs[i].mode, q.current = qs[i].current,
           q.scope \subseteq qs[i].scope,
           q.mode = "full" => q.read /\ q.data = k
    PROVE  [qs EXCEPT ![i] = q] \in Seq(Loads) /\ Orderly([qs EXCEPT ![i] = q], d, k)
<1>. DEFINE new == [qs EXCEPT ![i] = q]
<1>1. /\ new \in Seq(Loads) /\ Len(new) = Len(qs) /\ new[i] = q
      /\ \A a \in 1..Len(qs) : a # i => new[a] = qs[a]
  BY Replaced
<1>. HIDE DEF new
<1>2. \A a \in 1..Len(new) : new[a].mode = qs[a].mode /\ new[a].current = qs[a].current
  BY <1>1
<1>3. \A a \in 1..Len(new) : new[a].mode # "full" => new[a].scope \cap Guarded = {}
  BY <1>1 DEF Orderly
<1>4. \A a \in 1..Len(new) : new[a].mode = "full" /\ new[a].current /\ new[a].read
          => d \cap Guarded \subseteq new[a].data /\ new[a].data \subseteq k
  BY <1>1 DEF Orderly
<1>5. Orderly(new, d, k)
  BY <1>1, <1>2, <1>3, <1>4 DEF Orderly
<1>. QED
  BY <1>1, <1>5 DEF new

(* What is left of a sequence without its i-th element.                    *)
LEMMA Removed ==
    ASSUME NEW S, NEW qs \in Seq(S), NEW i \in 1..Len(qs)
    PROVE  /\ RemoveAt(qs, i) \in Seq(S)
           /\ Len(RemoveAt(qs, i)) = Len(qs) - 1
           /\ \A a \in 1..(Len(qs) - 1) :
                 RemoveAt(qs, i)[a] = IF a < i THEN qs[a] ELSE qs[a + 1]
<1>. DEFINE head == SubSeq(qs, 1, i - 1)
            rest == SubSeq(qs, i + 1, Len(qs))
<1>1. /\ head \in Seq(S) /\ Len(head) = i - 1
      /\ \A a \in 1..(i - 1) : head[a] = qs[a]
  OBVIOUS
<1>2. /\ rest \in Seq(S) /\ Len(rest) = Len(qs) - i
      /\ \A a \in 1..(Len(qs) - i) : rest[a] = qs[i + a]
  OBVIOUS
<1>. HIDE DEF head, rest
<1>3. /\ head \o rest \in Seq(S) /\ Len(head \o rest) = Len(qs) - 1
      /\ \A a \in 1..(Len(qs) - 1) :
            (head \o rest)[a] = IF a < i THEN qs[a] ELSE qs[a + 1]
  <2>1. /\ head \o rest \in Seq(S) /\ Len(head \o rest) = Len(head) + Len(rest)
        /\ \A a \in 1..(Len(head) + Len(rest)) :
              (head \o rest)[a] = IF a <= Len(head) THEN head[a] ELSE rest[a - Len(head)]
    BY <1>1, <1>2, ConcatProperties
  <2>. QED
    BY <1>1, <1>2, <2>1
<1>. QED
  BY <1>3 DEF RemoveAt, head, rest

(* A request that is answered or has failed leaves the others; when it was *)
(* the current full load, none of those left is current.                   *)
LEMMA LeftOrderly ==
    ASSUME NEW qs \in Seq(Loads), NEW d, NEW k, NEW i \in 1..Len(qs), Orderly(qs, d, k),
           NEW e, \/ e \cap Guarded = d \cap Guarded
                  \/ qs[i].mode = "full" /\ qs[i].current /\ e \cap Guarded \subseteq k
    PROVE  RemoveAt(qs, i) \in Seq(Loads) /\ Orderly(RemoveAt(qs, i), e, k)
<1>. DEFINE new == RemoveAt(qs, i)
            was(a) == IF a < i THEN a ELSE a + 1
<1>1. /\ new \in Seq(Loads) /\ Len(new) = Len(qs) - 1
      /\ \A a \in 1..Len(new) : was(a) \in 1..Len(qs) /\ was(a) # i /\ new[a] = qs[was(a)]
      /\ \A a, b \in 1..Len(new) : a < b => was(a) < was(b)
  <2>1. /\ new \in Seq(Loads) /\ Len(new) = Len(qs) - 1
        /\ \A a \in 1..(Len(qs) - 1) : new[a] = IF a < i THEN qs[a] ELSE qs[a + 1]
    BY Removed
  <2>. HIDE DEF new
  <2>. QED
    BY <2>1
<1>. HIDE DEF new, was
<1>2. e \cap Guarded \subseteq k
  BY DEF Orderly
<1>3. \A a \in 1..Len(new) : new[a].mode # "full" => new[a].scope \cap Guarded = {}
  BY <1>1 DEF Orderly
<1>4. \A a, b \in 1..Len(new) : a < b /\ new[a].mode = "full" /\ new[b].mode = "full"
          => ~new[a].current
  BY <1>1 DEF Orderly
<1>5. ASSUME NEW a \in 1..Len(new), new[a].mode = "full", new[a].current, new[a].read
      PROVE  e \cap Guarded \subseteq new[a].data /\ new[a].data \subseteq k
  <2>1. was(a) \in 1..Len(qs) /\ was(a) # i /\ new[a] = qs[was(a)]
    BY <1>1
  <2>2. ~(qs[i].mode = "full" /\ qs[i].current)
    <3>1. was(a) < i \/ i < was(a)
      BY <2>1
    <3>. QED
      BY <1>5, <2>1, <3>1 DEF Orderly
  <2>. QED
    BY <1>5, <2>1, <2>2 DEF Orderly
<1>6. Orderly(new, e, k)
  BY <1>2, <1>3, <1>4, <1>5 DEF Orderly
<1>. QED
  BY <1>1, <1>6 DEF new

(* Every tab's requests are orderly, and no committed change is undone.    *)
RequestsInv ==
    /\ change \in [Changes -> {"none", "told", "kept", "done", "dropped"}]
    /\ boot \in Nat /\ raised \in Nat
    /\ shown \in [Tabs -> SUBSET Changes]
    /\ asked \in [Tabs -> Seq(Loads)]
    /\ \A t \in Tabs : Orderly(asked[t], shown[t], Committed)
Grows == \A t \in Tabs : shown[t] \cap Guarded \subseteq shown'[t]

LEMMA ServerRequests ==
    ASSUME RequestsInv, NEW c \in Changes,
           AnnounceEarly(c) \/ Resolve(c) \/ Commit(c) \/ Announce(c)
    PROVE  RequestsInv' /\ Grows
<1>1. UNCHANGED <<boot, shown, asked>> /\ raised' \in Nat
  BY DEF RequestsInv, AnnounceEarly, Resolve, Commit, Announce, Tell, tab
<1>2. PICK st \in {"told", "done", "dropped", "kept"} :
          /\ Becomes(c, st)
          /\ change[c] \in {"kept", "done"} => st \in {"kept", "done"}
  BY DEF AnnounceEarly, Resolve, Commit, Announce
<1>3. /\ change' \in [Changes -> {"none", "told", "kept", "done", "dropped"}]
      /\ Committed \subseteq Committed'
  BY <1>2 DEF RequestsInv, Becomes, Committed
<1>4. \A t \in Tabs : Orderly(asked'[t], shown'[t], Committed')
  BY <1>1, <1>3, OrderlyLater DEF RequestsInv
<1>. QED
  BY <1>1, <1>3, <1>4 DEF RequestsInv, Grows

LEMMA RestartRequests == ASSUME RequestsInv, Restart PROVE RequestsInv' /\ Grows
<1>1. /\ change' \in [Changes -> {"none", "told", "kept", "done", "dropped"}]
      /\ Committed \subseteq Committed'
  BY DEF RequestsInv, Restart, Committed
<1>2. \A t \in Tabs : shown[t] \cap Guarded \subseteq Committed'
  BY <1>1 DEF RequestsInv, Orderly
<1>3. \A t \in Tabs : Orderly(<<>>, shown[t], Committed')
  BY <1>2 DEF Orderly
<1>. QED
  BY <1>1, <1>3 DEF RequestsInv, Restart, Grows

(* A tab sends a request.                                                  *)
LEMMA AskRequests ==
    ASSUME RequestsInv, NEW t \in Tabs, NEW p \in Plans, FairPlan(p), Ask(t, p)
    PROVE  /\ asked' \in [Tabs -> Seq(Loads)]
           /\ \A u \in Tabs : Orderly(asked'[u], shown[u], Committed)
<1>. DEFINE before == IF p.mode = "full"
                      THEN [i \in DOMAIN asked[t] |-> Obsolete(asked[t][i])] ELSE asked[t]
<1>1. asked[t] \in Seq(Loads) /\ DOMAIN asked[t] = 1..Len(asked[t]) /\ Len(asked[t]) \in Nat
  BY DEF RequestsInv
<1>2. \A i \in 1..Len(asked[t]) : asked[t][i] \in Loads /\ Obsolete(asked[t][i]) \in Loads
  BY <1>1, ObsoleteFields
<1>3. /\ before \in Seq(Loads) /\ Len(before) = Len(asked[t])
      /\ \A i \in 1..Len(asked[t]) :
            before[i] = IF p.mode = "full" THEN Obsolete(asked[t][i]) ELSE asked[t][i]
  <2>1. CASE p.mode = "full"
    <3>1. before = [i \in 1..Len(asked[t]) |-> Obsolete(asked[t][i])]
      BY <1>1, <2>1
    <3>. QED
      BY <1>1, <1>2, <2>1, <3>1
  <2>2. CASE p.mode # "full"
    BY <1>1, <2>2
  <2>. QED
    BY <2>1, <2>2
<1>. HIDE DEF before
<1>4. /\ Append(before, Request(p)) \in Seq(Loads)
      /\ Orderly(Append(before, Request(p)), shown[t], Committed)
  BY <1>1, <1>3, SentOrderly DEF RequestsInv
<1>5. asked' = [asked EXCEPT ![t] = Append(before, Request(p))]
  BY DEF Ask, After, before
<1>. QED
  BY <1>4, <1>5 DEF RequestsInv

LEMMA TabRequests ==
    ASSUME RequestsInv, NEW t \in Tabs, Receive(t) \/ Poll(t) \/ Fire(t)
    PROVE  RequestsInv' /\ Grows
<1>1. UNCHANGED <<change, boot, raised, shown>>
  BY DEF Receive, Poll, Fire, server
<1>2. UNCHANGED asked \/ \E p \in Plans : FairPlan(p) /\ Ask(t, p)
  BY PlansAreFair DEF FairPlan, Receive, Poll, Fire, CatchUp
<1>3. /\ asked' \in [Tabs -> Seq(Loads)]
      /\ \A u \in Tabs : Orderly(asked'[u], shown[u], Committed)
  BY <1>2, AskRequests DEF RequestsInv
<1>. QED
  BY <1>1, <1>3 DEF RequestsInv, Grows, Committed

LEMMA RuntimeType == RequestsInv => Runtime \in Nat
<1>1. Span \in Nat
  BY SyncAssumption, FS_CardinalityType DEF Span
<1>2. \A m, n, r \in Nat : m * n + r \in Nat
  OBVIOUS
<1>. QED
  BY <1>1, <1>2 DEF RequestsInv, Runtime

LEMMA ReadRequests ==
    ASSUME RequestsInv, NEW t \in Tabs, Read(t)
    PROVE  RequestsInv' /\ Grows
<1>1. PICK i \in DOMAIN asked[t] :
          asked' = [asked EXCEPT ![t][i] =
              [@ EXCEPT !.read = TRUE, !.data = Committed, !.version = Runtime]]
  BY DEF Read
<1>. DEFINE q == [asked[t][i] EXCEPT !.read = TRUE, !.data = Committed, !.version = Runtime]
<1>2. asked[t] \in Seq(Loads) /\ i \in 1..Len(asked[t]) /\ asked[t][i] \in Loads
  BY <1>1 DEF RequestsInv
<1>3. /\ q \in Loads /\ q.mode = asked[t][i].mode /\ q.current = asked[t][i].current
      /\ q.scope = asked[t][i].scope /\ q.read /\ q.data = Committed
  BY <1>2, RuntimeType DEF Loads, Committed
<1>4. asked' = [asked EXCEPT ![t] = [asked[t] EXCEPT ![i] = q]]
  BY <1>1
<1>. HIDE DEF q
<1>5. /\ [asked[t] EXCEPT ![i] = q] \in Seq(Loads)
      /\ Orderly([asked[t] EXCEPT ![i] = q], shown[t], Committed)
  BY <1>2, <1>3, ReplacedOrderly DEF RequestsInv
<1>6. UNCHANGED <<change, boot, raised, shown>>
  BY DEF Read, server
<1>. QED
  BY <1>4, <1>5, <1>6 DEF RequestsInv, Grows, Committed

LEMMA DeliverRequests ==
    ASSUME RequestsInv, NEW t \in Tabs, Deliver(t)
    PROVE  RequestsInv' /\ Grows
<1>1. PICK i \in DOMAIN asked[t] :
          /\ asked[t][i].read
          /\ asked' = [asked EXCEPT ![t] =
                IF asked[t][i].mode = "full" /\ asked[t][i].current
                THEN Append(RemoveAt(asked[t], i), Request(Ledgers)) ELSE RemoveAt(asked[t], i)]
          /\ shown' = IF Applies(asked[t][i])
                      THEN [shown EXCEPT ![t] = Merged(@, asked[t][i])] ELSE shown
  BY DEF Deliver
<1>. DEFINE q == asked[t][i]
            d == shown[t]
            e == IF Applies(q) THEN Merged(d, q) ELSE d
            left == RemoveAt(asked[t], i)
<1>2. asked[t] \in Seq(Loads) /\ i \in 1..Len(asked[t]) /\ q \in Loads
  BY <1>1 DEF RequestsInv
<1>3. Orderly(asked[t], d, Committed) /\ d \subseteq Changes /\ q.read
  BY <1>1 DEF RequestsInv
<1>4. /\ d \cap Guarded \subseteq e
      /\ \/ e \cap Guarded = d \cap Guarded
         \/ q.mode = "full" /\ q.current /\ e \cap Guarded \subseteq Committed
  <2>1. CASE q.mode # "full"
    <3>1. q.scope \cap Guarded = {} /\ e = (d \ q.scope) \cup (q.data \cap q.scope)
      BY <1>2, <1>3, <2>1 DEF Orderly, Applies, Merged
    <3>. HIDE DEF d, e, q
    <3>. QED
      BY <3>1
  <2>2. CASE q.mode = "full" /\ q.current
    <3>1. /\ d \cap Guarded \subseteq q.data /\ q.data \subseteq Committed
          /\ d \cap Guarded \subseteq Committed
      BY <1>2, <1>3, <2>2 DEF Orderly
    <3>. QED
      BY <2>2, <3>1 DEF Merged
  <2>3. CASE q.mode = "full" /\ ~q.current
    <3>1. e = d
      BY <2>3 DEF Applies
    <3>. HIDE DEF d, e
    <3>. QED
      BY <3>1
  <2>. QED
    BY <2>1, <2>2, <2>3
<1>5. e \subseteq Changes
  BY <1>2, <1>3 DEF Merged, Loads
<1>. HIDE DEF e
<1>6. left \in Seq(Loads) /\ Orderly(left, e, Committed)
  BY <1>2, <1>3, <1>4, LeftOrderly
<1>7. /\ Append(left, Request(Ledgers)) \in Seq(Loads)
      /\ Orderly(Append(left, Request(Ledgers)), e, Committed)
  <2>1. Ledgers \in Plans /\ FairPlan(Ledgers) /\ Ledgers.mode # "full"
    BY PlansAreFair DEF FairPlan, Ledgers
  <2>. HIDE DEF left
  <2>. QED
    BY <1>6, <2>1, SentOrderly
<1>8. shown' = [shown EXCEPT ![t] = e]
  BY <1>1 DEF RequestsInv, e
<1>9. \/ asked' = [asked EXCEPT ![t] = Append(left, Request(Ledgers))]
      \/ asked' = [asked EXCEPT ![t] = left]
  BY <1>1
<1>10. UNCHANGED <<change, boot, raised>>
  BY DEF Deliver, server
<1>. HIDE DEF left
<1>. QED
  BY <1>4, <1>5, <1>6, <1>7, <1>8, <1>9, <1>10 DEF RequestsInv, Grows, Committed

LEMMA FailRequests ==
    ASSUME RequestsInv, NEW t \in Tabs, LoadFails(t)
    PROVE  RequestsInv' /\ Grows
<1>1. PICK i \in DOMAIN asked[t] :
          \E failed \in (IF asked[t][i].mode = "full" THEN {Changes}
                        ELSE SUBSET asked[t][i].scope \ {{}}) :
              asked' = [asked EXCEPT ![t] =
                  IF asked[t][i].scope \subseteq failed THEN RemoveAt(asked[t], i)
                  ELSE [asked[t] EXCEPT ![i] =
                           [asked[t][i] EXCEPT !.scope = asked[t][i].scope \ failed]]]
  BY DEF LoadFails
<1>2. PICK failed \in (IF asked[t][i].mode = "full" THEN {Changes}
                       ELSE SUBSET asked[t][i].scope \ {{}}) :
          asked' = [asked EXCEPT ![t] =
              IF asked[t][i].scope \subseteq failed THEN RemoveAt(asked[t], i)
              ELSE [asked[t] EXCEPT ![i] =
                       [asked[t][i] EXCEPT !.scope = asked[t][i].scope \ failed]]]
  BY <1>1
<1>. DEFINE q == [asked[t][i] EXCEPT !.scope = asked[t][i].scope \ failed]
            new == IF asked[t][i].scope \subseteq failed THEN RemoveAt(asked[t], i)
                   ELSE [asked[t] EXCEPT ![i] = q]
<1>3. asked[t] \in Seq(Loads) /\ i \in 1..Len(asked[t]) /\ asked[t][i] \in Loads
  BY <1>1 DEF RequestsInv
<1>4. Orderly(asked[t], shown[t], Committed)
  BY DEF RequestsInv
<1>5. new \in Seq(Loads) /\ Orderly(new, shown[t], Committed)
  <2>1. CASE asked[t][i].scope \subseteq failed
    <3>1. /\ RemoveAt(asked[t], i) \in Seq(Loads)
          /\ Orderly(RemoveAt(asked[t], i), shown[t], Committed)
      BY <1>3, <1>4, LeftOrderly
    <3>. QED
      BY <2>1, <3>1
  <2>2. CASE ~(asked[t][i].scope \subseteq failed)
    <3>1. asked[t][i].mode # "full"
      BY <1>2, <1>3, <2>2 DEF Loads
    <3>2. /\ q \in Loads /\ q.mode = asked[t][i].mode /\ q.current = asked[t][i].current
          /\ q.scope \subseteq asked[t][i].scope
      BY <1>3 DEF Loads
    <3>. HIDE DEF q
    <3>3. /\ [asked[t] EXCEPT ![i] = q] \in Seq(Loads)
          /\ Orderly([asked[t] EXCEPT ![i] = q], shown[t], Committed)
      BY <1>3, <1>4, <3>1, <3>2, ReplacedOrderly
    <3>. QED
      BY <2>2, <3>3
  <2>. QED
    BY <2>1, <2>2
<1>6. asked' = [asked EXCEPT ![t] = new]
  BY <1>2
<1>7. UNCHANGED <<change, boot, raised, shown>>
  BY DEF LoadFails, server
<1>. HIDE DEF new
<1>. QED
  BY <1>5, <1>6, <1>7 DEF RequestsInv, Grows, Committed

LEMMA RequestsStep == RequestsInv /\ [Next]_vars => RequestsInv' /\ Grows
<1>. SUFFICES ASSUME RequestsInv, [Next]_vars PROVE RequestsInv' /\ Grows
  OBVIOUS
<1>1. ASSUME UNCHANGED <<server, tab>> PROVE RequestsInv' /\ Grows
  BY <1>1 DEF server, tab, RequestsInv, Grows, Committed
<1>2. CASE UNCHANGED vars \/ Housekeeping
  BY <1>1, <1>2 DEF vars, Housekeeping
<1>3. ASSUME NEW t \in Tabs, Connect(t) \/ Drop(t) PROVE RequestsInv' /\ Grows
  BY <1>1, <1>3 DEF Connect, Drop
<1>4. ASSUME NEW t \in Tabs,
             Receive(t) \/ Poll(t) \/ Fire(t) \/ Read(t) \/ Deliver(t) \/ LoadFails(t)
      PROVE  RequestsInv' /\ Grows
  BY <1>4, TabRequests, ReadRequests, DeliverRequests, FailRequests
<1>. QED
  BY <1>2, <1>3, <1>4, ServerRequests, RestartRequests DEF Next

(* What only full loads bring to a tab never goes back, for any number of  *)
(* tabs and changes, whatever fails and in whatever order the requests are *)
(* read and answered: the sequence guard alone sees to it.                 *)
THEOREM TabsNeverGoBack == Spec => NeverBackwards
<1>1. Init => RequestsInv
  BY DEF Init, RequestsInv, Orderly, Committed
<1>2. RequestsInv /\ [Next]_vars => RequestsInv' /\ [Grows]_vars
  BY RequestsStep
<1>. QED
  BY <1>1, <1>2, PTL DEF Spec, NeverBackwards, Grows

-----------------------------------------------------------------------------
(* Fiscal years.  Types, and what the point a request has reached says of  *)
(* its year and its document.                                              *)

YearPoints == {"idle", "check", "create", "clear", "set", "close", "lock", "delete", "insert",
               "adjust", "roll"}
YearKinds == {"NONE", "CREATE", "CURRENT", "DELETE", "CLOSE", "REOPEN", "ADJUST", "ROLL", "POST"}
YearStates == {"NONE", "OPEN", "CLOSED", "DELETED"}
Openings == {NoRow} \cup [amount : Int, manual : BOOLEAN]

(* What the point a request has reached says of it.                        *)
YearWork(h) ==
    /\ pc[h] \in {"check", "create"} <=> kind[h] = "CREATE"
    /\ pc[h] \in {"check", "create"} => year[target[h]] = "NONE"
    /\ pc[h] = "delete" => year[target[h]] # "NONE"
    /\ pc[h] \notin {"idle", "insert"} => target[h] \in Years
    /\ doc[h] # NoDoc => pc[h] = "insert"
    /\ pc[h] = "insert" => doc[h] \in Docs /\ owner[doc[h]] \notin Years
YearTypes ==
    /\ year \in [Years -> YearStates]
    /\ current \in SUBSET Years
    /\ owner \in [Docs -> Years \cup {NoYear, NoRow}]
    /\ opening \in [Registers -> [Years -> Openings]]
    /\ pc \in [Handlers -> YearPoints]
    /\ kind \in [Handlers -> YearKinds]
    /\ target \in [Handlers -> Years \cup {NoYear}]
    /\ doc \in [Handlers -> Docs \cup {NoDoc}]
(* No two requests create one year or post one document.                   *)
Separately(g, h) ==
    /\ kind[g] = "CREATE" /\ kind[h] = "CREATE" /\ target[g] = target[h] => g = h
    /\ doc[g] = doc[h] /\ doc[g] # NoDoc => g = h
YearsInv == /\ YearTypes
            /\ \A h \in Handlers : YearWork(h)
            /\ \A g, h \in Handlers : Separately(g, h)

YearActs(h) == Start(h) \/ Step(h)

(* A request's step is one of these: it opens, moves on with the tables as *)
(* they are, or ends; the other requests stay as they are.                 *)
LEMMA YearMoves ==
    ASSUME YearTypes, NEW h \in Handlers, YearActs(h), NEW g \in Handlers, g # h
    PROVE  pc'[g] = pc[g] /\ kind'[g] = kind[g] /\ target'[g] = target[g] /\ doc'[g] = doc[g]
<1>1. CASE Start(h)
  <2>1. \E k, y, d, p : Begin(h, k, y, d, p)
    BY <1>1 DEF Start, StartCreate, StartCurrent, StartClose,
                StartReopen, StartDelete, StartAdjust,
                StartRoll, Post
  <2>. QED
    BY <2>1 DEF Begin, YearTypes
<1>2. CASE Step(h)
  <2>1. Finish(h) \/ \E p : Proceed(h, p)
    BY <1>2 DEF Step, CheckCreate, Create, Clear,
                SetCurrent, CloseOrReopen, LockForDelete, Delete,
                Insert, Adjust, Roll, Fail, Refuse
  <2>. QED
    BY <2>1 DEF Finish, Proceed, YearTypes
<1>. QED
  BY <1>1, <1>2 DEF YearActs

LEMMA YearEnds ==
    ASSUME YearTypes, NEW h \in Handlers, Finish(h)
    PROVE  /\ pc'[h] = "idle" /\ kind'[h] = "NONE" /\ doc'[h] = NoDoc
           /\ pc' \in [Handlers -> YearPoints] /\ kind' \in [Handlers -> YearKinds]
           /\ target' \in [Handlers -> Years \cup {NoYear}]
           /\ doc' \in [Handlers -> Docs \cup {NoDoc}]
<1>1. /\ pc \in [Handlers -> YearPoints] /\ kind \in [Handlers -> YearKinds]
      /\ target \in [Handlers -> Years \cup {NoYear}]
      /\ doc \in [Handlers -> Docs \cup {NoDoc}]
  BY DEF YearTypes
<1>2. /\ pc' = [pc EXCEPT ![h] = "idle"] /\ kind' = [kind EXCEPT ![h] = "NONE"]
      /\ target' = [target EXCEPT ![h] = NoYear] /\ doc' = [doc EXCEPT ![h] = NoDoc]
  BY DEF Finish
<1>3. /\ NoYear \in Years \cup {NoYear} /\ NoDoc \in Docs \cup {NoDoc}
      /\ "idle" \in YearPoints /\ "NONE" \in YearKinds
  BY DEF YearPoints, YearKinds
<1>4. pc'[h] = "idle" /\ pc' \in [Handlers -> YearPoints]
  BY <1>1, <1>2, <1>3
<1>5. kind'[h] = "NONE" /\ kind' \in [Handlers -> YearKinds]
  BY <1>1, <1>2, <1>3
<1>6. target' \in [Handlers -> Years \cup {NoYear}]
  BY <1>1, <1>2, <1>3
<1>7. doc'[h] = NoDoc /\ doc' \in [Handlers -> Docs \cup {NoDoc}]
  BY <1>1, <1>2, <1>3
<1>. QED
  BY <1>4, <1>5, <1>6, <1>7

LEMMA YearOpens ==
    ASSUME YearTypes, NEW h \in Handlers, NEW k \in YearKinds, NEW y \in Years \cup {NoYear},
           NEW d \in Docs \cup {NoDoc}, NEW p \in YearPoints, Begin(h, k, y, d, p)
    PROVE  /\ pc'[h] = p /\ kind'[h] = k /\ target'[h] = y /\ doc'[h] = d
           /\ UNCHANGED <<year, current, owner, opening>>
           /\ YearTypes'
  BY DEF Begin, tables, YearTypes

(* The year a document is given is one there is, if any: of those its day  *)
(* falls in, the one that begins the fewest days before.                   *)
LEMMA YearOfDay ==
    ASSUME YearTypes, NEW d \in Docs
    PROVE  YearOf(Doc[d].day) \in Years \cup {NoYear}
<1>1. /\ Period \in [Years -> [from : Nat, to : Nat]]
      /\ Doc \in [Docs -> [day : Nat, amount : Int, counted : BOOLEAN]]
  BY FiscalAssumption
<1>. DEFINE day == Doc[d].day
            ys == YearsOf(day)
            ages == {day - Period[y].from : y \in ys}
<1>2. day \in Nat /\ ys \in SUBSET Years
  BY <1>1 DEF YearsOf
<1>3. \A y \in ys : Period[y].from \in Nat /\ Period[y].from <= day
  BY <1>1, <1>2 DEF YearsOf, Within
<1>4. CASE ys # {}
  <2>1. ages \in SUBSET Nat /\ ages # {}
    BY <1>2, <1>3, <1>4
  <2>2. PICK n \in ages : \A m \in ages : ~ (<<m, n>> \in OpToRel(<, Nat))
    <3>. HIDE DEF ages
    <3>. QED
      BY <2>1, NatLessThanWellFounded, WFMin
  <2>3. \A m \in ages : ~ (m < n)
    BY <2>1, <2>2 DEF OpToRel
  <2>4. PICK y \in ys : n = day - Period[y].from
    OBVIOUS
  <2>5. \A z \in ys : Period[z].from <= Period[y].from
    <3>1. SUFFICES ASSUME NEW z \in ys PROVE Period[z].from <= Period[y].from
      OBVIOUS
    <3>2. ~ (day - Period[z].from < day - Period[y].from)
      BY <2>3, <2>4, <3>1
    <3>. HIDE DEF day, ys
    <3>. QED
      BY <1>2, <1>3, <3>1, <3>2
  <2>6. YearOf(day) \in ys
    BY <1>4, <2>5 DEF YearOf
  <2>. QED
    BY <1>2, <2>6
<1>5. CASE ys = {}
  BY <1>5 DEF YearOf
<1>. QED
  BY <1>4, <1>5

(* The year after another is one there is.                                 *)
LEMMA YearFollowing ==
    ASSUME NEW y \in Years, Later(y) # {}
    PROVE  Following(y) \in Years
<1>. DEFINE later == Later(y)
            starts == {Period[z].from : z \in later}
<1>1. later \in SUBSET Years /\ \A z \in Years : Period[z].from \in Nat
  BY FiscalAssumption DEF Later
<1>2. starts \in SUBSET Nat /\ starts # {}
  BY <1>1
<1>3. PICK n \in starts : \A m \in starts : ~ (<<m, n>> \in OpToRel(<, Nat))
  <2>. HIDE DEF starts
  <2>. QED
    BY <1>2, NatLessThanWellFounded, WFMin
<1>4. \A m \in starts : ~ (m < n)
  BY <1>2, <1>3 DEF OpToRel
<1>5. PICK z \in later : n = Period[z].from
  OBVIOUS
<1>6. \A x \in later : Period[z].from <= Period[x].from
  <2>1. SUFFICES ASSUME NEW x \in later PROVE Period[z].from <= Period[x].from
    OBVIOUS
  <2>2. ~ (Period[x].from < Period[z].from)
    BY <1>4, <1>5, <2>1
  <2>. HIDE DEF later
  <2>. QED
    BY <1>1, <1>5, <2>1, <2>2
<1>7. Following(y) \in later
  BY <1>6 DEF Following
<1>. QED
  BY <1>1, <1>7

LEMMA YearsStart ==
    YearsInit => YearsInv
<1>. SUFFICES ASSUME YearsInit PROVE YearsInv
  OBVIOUS
<1>1. /\ FirstCurrent \in Years /\ NoYear \notin Years /\ NoRow \notin Years /\ NoDoc \notin Docs
  BY FiscalAssumption
<1>2. YearTypes
  <2>1. year \in [Years -> YearStates] /\ current \in SUBSET Years
    BY <1>1 DEF YearsInit, YearStates
  <2>2. owner \in [Docs -> Years \cup {NoYear, NoRow}]
    BY DEF YearsInit
  <2>3. opening \in [Registers -> [Years -> Openings]]
    <3>1. [y \in Years |-> NoRow] \in [Years -> Openings]
      BY DEF Openings
    <3>. QED
      BY <3>1 DEF YearsInit
  <2>4. pc \in [Handlers -> YearPoints] /\ kind \in [Handlers -> YearKinds]
    BY DEF YearsInit, YearPoints, YearKinds
  <2>5. target \in [Handlers -> Years \cup {NoYear}] /\ doc \in [Handlers -> Docs \cup {NoDoc}]
    BY DEF YearsInit
  <2>. QED
    BY <2>1, <2>2, <2>3, <2>4, <2>5 DEF YearTypes
<1>3. ASSUME NEW h \in Handlers PROVE YearWork(h)
  BY DEF YearWork, YearsInit
<1>4. ASSUME NEW g \in Handlers, NEW h \in Handlers PROVE Separately(g, h)
  BY DEF Separately, YearsInit
<1>. QED
  BY <1>2, <1>3, <1>4 DEF YearsInv

(* How a request opens.                                                    *)
Opens(h, k, y, d, p) ==
    /\ Begin(h, k, y, d, p)
    /\ p \notin {"idle", "create", "set", "delete"}
    /\ p = "check" <=> k = "CREATE"
    /\ p = "insert" <=> k = "POST"
    /\ k = "CREATE" => /\ year[y] = "NONE"
                      /\ (\A g \in Handlers : kind[g] = "CREATE" => target[g] # y)
                      /\ (Lapses = {} => \A g \in Handlers : kind[g] # "CREATE")
    /\ k = "POST" => /\ d \in Docs /\ owner[d] \notin Years
                    /\ (\A g \in Handlers : doc[g] # d)
    /\ k # "POST" => d = NoDoc /\ y \in Years
LEMMA YearStarts ==
    ASSUME YearsInv, NEW h \in Handlers, Start(h)
    PROVE  \E k \in YearKinds, y \in Years \cup {NoYear}, d \in Docs \cup {NoDoc}, p \in YearPoints :
              Opens(h, k, y, d, p)
<1>1. /\ NoYear \notin Years /\ NoRow \notin Years
      /\ NoDoc \in Docs \cup {NoDoc}
  BY FiscalAssumption
<1>2. ASSUME NEW y \in Years, StartCreate(h, y) PROVE Opens(h, "CREATE", y, NoDoc, "check")
  BY <1>2 DEF StartCreate, Opens
<1>3. ASSUME NEW y \in Years, StartCurrent(h, y) PROVE Opens(h, "CURRENT", y, NoDoc, "clear")
  BY <1>3 DEF StartCurrent, Opens
<1>4. ASSUME NEW y \in Years, StartClose(h, y) PROVE Opens(h, "CLOSE", y, NoDoc, "close")
  BY <1>4 DEF StartClose, Opens
<1>5. ASSUME NEW y \in Years, StartReopen(h, y) PROVE Opens(h, "REOPEN", y, NoDoc, "close")
  BY <1>5 DEF StartReopen, Opens
<1>6. ASSUME NEW y \in Years, StartDelete(h, y) PROVE Opens(h, "DELETE", y, NoDoc, "lock")
  BY <1>6 DEF StartDelete, Opens
<1>7. ASSUME NEW y \in Years, StartAdjust(h, y) PROVE Opens(h, "ADJUST", y, NoDoc, "adjust")
  BY <1>7 DEF StartAdjust, Opens
<1>8. ASSUME NEW y \in Years, StartRoll(h, y) PROVE Opens(h, "ROLL", y, NoDoc, "roll")
  BY <1>8 DEF StartRoll, Opens
<1>9. ASSUME NEW d \in Docs, Post(h, d)
      PROVE  Opens(h, "POST", YearOf(Doc[d].day), d, "insert")
  BY <1>1, <1>9 DEF Post, Opens
<1>10. ASSUME NEW d \in Docs PROVE YearOf(Doc[d].day) \in Years \cup {NoYear}
  BY YearOfDay DEF YearsInv
<1>11. /\ {"CREATE", "CURRENT", "CLOSE", "REOPEN", "DELETE", "ADJUST", "ROLL", "POST"} \subseteq YearKinds
       /\ {"check", "clear", "close", "lock", "adjust", "roll", "insert"} \subseteq YearPoints
  BY DEF YearKinds, YearPoints
<1>12. CASE \E d \in Docs : Post(h, d)
  BY <1>9, <1>10, <1>11, <1>12
<1>13. ASSUME NEW y \in Years,
              \/ StartCreate(h, y) \/ StartCurrent(h, y) \/ StartClose(h, y)
              \/ StartReopen(h, y) \/ StartDelete(h, y) \/ StartAdjust(h, y)
              \/ StartRoll(h, y)
       PROVE  \E k \in YearKinds, p \in YearPoints : Opens(h, k, y, NoDoc, p)
  BY <1>2, <1>3, <1>4, <1>5, <1>6, <1>7, <1>8, <1>11, <1>13
<1>. QED
  BY <1>1, <1>12, <1>13 DEF Start

(* A request that opens keeps the invariant.                               *)
LEMMA YearsStarted ==
    ASSUME YearsInv, NEW h \in Handlers, Start(h)
    PROVE  YearsInv'
<1>1. PICK k \in YearKinds, y \in Years \cup {NoYear}, d \in Docs \cup {NoDoc}, p \in YearPoints :
         Opens(h, k, y, d, p)
  BY YearStarts
<1>2. /\ pc'[h] = p /\ kind'[h] = k /\ target'[h] = y /\ doc'[h] = d
      /\ UNCHANGED <<year, current, owner, opening>>
      /\ YearTypes'
  BY <1>1, YearOpens DEF Opens, YearsInv
<1>3. \A g \in Handlers : g # h => /\ pc'[g] = pc[g] /\ kind'[g] = kind[g]
                                  /\ target'[g] = target[g] /\ doc'[g] = doc[g]
  BY YearMoves DEF YearsInv, YearActs
<1>4. YearWork(h)'
  BY <1>1, <1>2 DEF Opens, YearWork
<1>5. ASSUME NEW g \in Handlers, g # h PROVE YearWork(g)'
  <2>1. YearWork(g)
    BY DEF YearsInv
  <2>. QED
    BY <1>2, <1>3, <1>5, <2>1 DEF YearWork
<1>6. ASSUME NEW a \in Handlers, NEW b \in Handlers PROVE Separately(a, b)'
  <2>1. Separately(a, b)
    BY DEF YearsInv
  <2>2. /\ k = "CREATE" => \A g \in Handlers : kind[g] = "CREATE" => target[g] # y
        /\ d # NoDoc => \A g \in Handlers : doc[g] # d
    <3>1. k = "CREATE" => \A g \in Handlers : kind[g] = "CREATE" => target[g] # y
      BY <1>1 DEF Opens
    <3>2. CASE k = "POST"
      BY <1>1, <3>2 DEF Opens
    <3>3. CASE k # "POST"
      BY <1>1, <3>3 DEF Opens
    <3>. QED
      BY <3>1, <3>2, <3>3
  <2>3. CASE a # h /\ b # h
    BY <1>3, <2>1, <2>3 DEF Separately
  <2>4. CASE a = h /\ b # h
    BY <1>2, <1>3, <2>2, <2>4 DEF Separately
  <2>5. CASE a # h /\ b = h
    BY <1>2, <1>3, <2>2, <2>5 DEF Separately
  <2>6. CASE a = h /\ b = h
    BY <2>6 DEF Separately
  <2>. QED
    BY <2>3, <2>4, <2>5, <2>6
<1>. QED
  BY <1>2, <1>4, <1>5, <1>6 DEF YearsInv

(* A request that moves on, and one that ends, with what it leaves of the  *)
(* tables, keep it.                                                        *)
LEMMA YearsProceeded ==
    ASSUME YearsInv, NEW h \in Handlers, NEW p \in YearPoints,
           Proceed(h, p),
           p \in {"create", "set", "delete"}, pc[h] \notin {"idle", "insert"},
           p = "create" <=> kind[h] = "CREATE",
           p = "delete" => year[target[h]] # "NONE"
    PROVE  YearsInv'
<1>1. /\ pc' = [pc EXCEPT ![h] = p] /\ kind' = kind /\ target' = target /\ doc' = doc
      /\ UNCHANGED <<year, current, owner, opening>>
  BY DEF Proceed, tables
<1>2. YearTypes'
  BY <1>1 DEF YearsInv, YearTypes
<1>3. ASSUME NEW g \in Handlers PROVE YearWork(g)'
  <2>1. YearWork(g) /\ pc \in [Handlers -> YearPoints]
    BY DEF YearsInv, YearTypes
  <2>2. CASE g = h
    BY <1>1, <2>1, <2>2 DEF YearWork
  <2>3. CASE g # h
    BY <1>1, <2>1, <2>3 DEF YearWork
  <2>. QED
    BY <2>2, <2>3
<1>4. ASSUME NEW a \in Handlers, NEW b \in Handlers PROVE Separately(a, b)'
  BY <1>1 DEF YearsInv, Separately
<1>. QED
  BY <1>2, <1>3, <1>4 DEF YearsInv

TableTypes == /\ year \in [Years -> YearStates]
              /\ current \in SUBSET Years
              /\ owner \in [Docs -> Years \cup {NoYear, NoRow}]
              /\ opening \in [Registers -> [Years -> Openings]]
LEMMA YearsEnded ==
    ASSUME YearsInv, NEW h \in Handlers, Finish(h),
           TableTypes',
           \A g \in Handlers : g # h =>
              /\ pc[g] \in {"check", "create"} => year'[target[g]] = "NONE"
              /\ pc[g] = "delete" => year'[target[g]] # "NONE"
              /\ pc[g] = "insert" => owner'[doc[g]] \notin Years
    PROVE  YearsInv'
<1>1. /\ pc'[h] = "idle" /\ kind'[h] = "NONE" /\ doc'[h] = NoDoc
      /\ YearTypes'
  BY YearEnds DEF YearsInv, YearTypes, TableTypes
<1>2. ASSUME NEW g \in Handlers, g # h
      PROVE  pc'[g] = pc[g] /\ kind'[g] = kind[g] /\ target'[g] = target[g] /\ doc'[g] = doc[g]
  BY <1>2 DEF Finish, YearsInv, YearTypes
<1>3. ASSUME NEW g \in Handlers PROVE YearWork(g)'
  <2>1. YearWork(g)
    BY DEF YearsInv
  <2>2. CASE g = h
    BY <1>1, <2>2 DEF YearWork
  <2>3. CASE g # h
    BY <1>2, <2>1, <2>3 DEF YearWork
  <2>. QED
    BY <2>2, <2>3
<1>4. ASSUME NEW a \in Handlers, NEW b \in Handlers PROVE Separately(a, b)'
  <2>1. Separately(a, b)
    BY DEF YearsInv
  <2>2. CASE a # h /\ b # h
    BY <1>2, <2>1, <2>2 DEF Separately
  <2>3. CASE a = h \/ b = h
    BY <1>1, <1>2, <2>3 DEF Separately
  <2>. QED
    BY <2>2, <2>3
<1>. QED
  BY <1>1, <1>3, <1>4 DEF YearsInv

LEMMA YearsRefused ==
    ASSUME YearsInv, NEW h \in Handlers, Refuse(h)
    PROVE  YearsInv'
<1>1. Finish(h) /\ UNCHANGED <<year, current, owner, opening>>
  BY DEF Refuse, tables
<1>2. TableTypes'
  BY <1>1 DEF TableTypes, YearsInv, YearTypes
<1>3. \A g \in Handlers : YearWork(g)
  BY DEF YearsInv
<1>4. \A g \in Handlers : g # h =>
        /\ pc[g] \in {"check", "create"} => year'[target[g]] = "NONE"
        /\ pc[g] = "delete" => year'[target[g]] # "NONE"
        /\ pc[g] = "insert" => owner'[doc[g]] \notin Years
  BY <1>1, <1>3 DEF YearWork
<1>. QED
  BY <1>1, <1>2, <1>4, YearsEnded

(* What a step does to the tables, when it does something.                 *)
YearWritten(h) ==
    /\ pc[h] = "create" /\ year' = [year EXCEPT ![target[h]] = "OPEN"]
    /\ UNCHANGED <<current, owner, opening>>
CurrentWritten(h) ==
    /\ pc[h] = "set" /\ Exists(target[h]) /\ current' = {target[h]}
    /\ UNCHANGED <<year, owner, opening>>
StateWritten(h) ==
    /\ pc[h] = "close" /\ Exists(target[h]) /\ ~Held(target[h])
    /\ (\E st \in {"OPEN", "CLOSED"} : year' = [year EXCEPT ![target[h]] = st])
    /\ UNCHANGED <<current, owner, opening>>
YearDropped(h) ==
    /\ pc[h] = "delete"
    /\ year' = [year EXCEPT ![target[h]] = "DELETED"]
    /\ current' = current \ {target[h]}
    /\ owner' = [d \in Docs |-> IF owner[d] = target[h] THEN NoYear ELSE owner[d]]
    /\ opening' = [k \in Registers |-> [opening[k] EXCEPT ![target[h]] = NoRow]]
OwnerWritten(h) ==
    /\ pc[h] = "insert" /\ ~Deleting(target[h])
    /\ (target[h] # NoYear => Exists(target[h]))
    /\ owner' = [owner EXCEPT ![doc[h]] = target[h]]
    /\ UNCHANGED <<year, current, opening>>
Entry(k, z, amount, manual) ==
    opening' = [opening EXCEPT ![k][z] = [amount |-> amount, manual |-> manual]]
OpeningAdjusted(h) ==
    /\ pc[h] = "adjust" /\ ~Deleting(target[h]) /\ Exists(target[h])
    /\ (\E k \in Registers : Entry(k, target[h], Corrected, TRUE))
    /\ UNCHANGED <<year, current, owner>>
OpeningRolled(h) ==
    /\ pc[h] = "roll"
    /\ (\E k \in Registers, z \in Years, amount \in Int :
          /\ ~Held(z) /\ Overwritable(k, z)
          /\ Entry(k, z, amount, FALSE))
    /\ UNCHANGED <<year, current, owner>>
Effective(h) == \/ YearWritten(h) \/ CurrentWritten(h) \/ StateWritten(h) \/ YearDropped(h)
                \/ OwnerWritten(h) \/ OpeningAdjusted(h) \/ OpeningRolled(h)
Advances(h) ==
    \E p \in {"create", "set", "delete"} :
       /\ Proceed(h, p)
       /\ (p = "create" =>
            /\ pc[h] = "check"
            /\ \A z \in Years : Exists(z) => ~Overlaps(target[h], z))
       /\ (p = "set" =>
            /\ pc[h] = "clear"
            /\ \A y \in Years : Exists(y) => ~Held(y))
       /\ (p = "delete" =>
            /\ pc[h] = "lock" /\ ~Held(target[h]) /\ Exists(target[h])
            /\ target[h] \notin current /\ ~Referenced(target[h]))
LEMMA YearSteps ==
    ASSUME YearsInv, NEW h \in Handlers, Step(h)
    PROVE  Advances(h) \/ Refuse(h) \/ (Finish(h) /\ Effective(h))
<1>1. ASSUME CheckCreate(h) PROVE Advances(h) \/ Refuse(h)
  BY <1>1 DEF CheckCreate, Advances
<1>2. ASSUME Create(h) PROVE Finish(h) /\ YearWritten(h)
  BY <1>2 DEF Create, YearWritten
<1>3. ASSUME Clear(h) PROVE Advances(h)
  BY <1>3 DEF Clear, Advances
<1>4. ASSUME SetCurrent(h)
      PROVE  Refuse(h) \/ (Finish(h) /\ CurrentWritten(h))
  BY <1>4 DEF SetCurrent, CurrentWritten
<1>5. ASSUME CloseOrReopen(h)
      PROVE  Refuse(h) \/ (Finish(h) /\ StateWritten(h))
  BY <1>5 DEF CloseOrReopen, StateWritten
<1>6. ASSUME LockForDelete(h) PROVE Advances(h) \/ Refuse(h)
  BY <1>6 DEF LockForDelete, Advances
<1>7. ASSUME Delete(h) PROVE Finish(h) /\ YearDropped(h)
  BY <1>7 DEF Delete, YearDropped
<1>8. ASSUME Insert(h)
      PROVE  Refuse(h) \/ (Finish(h) /\ OwnerWritten(h))
  BY <1>8 DEF Insert, OwnerWritten
<1>9. ASSUME Adjust(h)
      PROVE  Refuse(h) \/ (Finish(h) /\ OpeningAdjusted(h))
  BY <1>9 DEF Adjust, OpeningAdjusted, Entry
<1>10. ASSUME Roll(h)
       PROVE  Refuse(h) \/ (Finish(h) /\ OpeningRolled(h))
  <2>. DEFINE y == target[h]
              z == Following(y)
  <2>1. pc[h] = "roll" /\ y \in Years
    BY <1>10 DEF Roll, YearsInv, YearWork
  <2>2. SUFFICES ASSUME ~Refuse(h) PROVE Finish(h) /\ OpeningRolled(h)
    OBVIOUS
  <2>3. Later(y) # {} /\ ~Held(z)
    BY <1>10, <2>2 DEF Roll
  <2>4. z \in Years
    BY <2>1, <2>3, YearFollowing
  <2>5. PICK k \in Registers :
          /\ Closing(k, y, z) \in -Limit .. Limit
          /\ opening' = IF Overwritable(k, z) /\ (k = "vendor" => Moves(y, z))
                THEN [opening EXCEPT ![k][z] =
                        [amount |-> Closing(k, y, z), manual |-> FALSE]]
                ELSE opening
          /\ Finish(h)
          /\ UNCHANGED <<year, current, owner>>
    BY <1>10, <2>2, <2>3 DEF Roll
  <2>6. Overwritable(k, z) /\ (k = "vendor" => Moves(y, z))
    BY <2>2, <2>5 DEF Refuse, tables
  <2>7. Closing(k, y, z) \in Int
    <3>1. Limit \in Nat
      BY FiscalAssumption
    <3>. QED
      BY <2>5, <3>1
  <2>8. Entry(k, z, Closing(k, y, z), FALSE)
    BY <2>5, <2>6 DEF Entry
  <2>. HIDE DEF z
  <2>. QED
    BY <2>1, <2>3, <2>4, <2>5, <2>6, <2>7, <2>8 DEF OpeningRolled
<1>. QED
  BY <1>1, <1>2, <1>3, <1>4, <1>5, <1>6, <1>7, <1>8, <1>9, <1>10 DEF Step, Fail, Effective

LEMMA YearsAdvanced ==
    ASSUME YearsInv, NEW h \in Handlers, Advances(h)
    PROVE  YearsInv'
<1>1. PICK p \in {"create", "set", "delete"} :
        /\ Proceed(h, p)
        /\ p = "create" => pc[h] = "check"
        /\ p = "set" => pc[h] = "clear"
        /\ p = "delete" => pc[h] = "lock" /\ Exists(target[h])
  BY DEF Advances
<1>2. YearWork(h) /\ p \in YearPoints
  BY DEF YearsInv, YearPoints
<1>3. /\ pc[h] \notin {"idle", "insert"}
      /\ p = "create" <=> kind[h] = "CREATE"
      /\ p = "delete" => year[target[h]] # "NONE"
  BY <1>1, <1>2 DEF YearWork, Exists
<1>. QED
  BY <1>1, <1>2, <1>3, YearsProceeded

LEMMA EntryTypes ==
    ASSUME YearTypes, NEW k \in Registers, NEW z \in Years, NEW amount \in Int,
           NEW manual \in BOOLEAN, Entry(k, z, amount, manual)
    PROVE  /\ opening' \in [Registers -> [Years -> Openings]]
           /\ opening'[k][z] = [amount |-> amount, manual |-> manual]
           /\ \A l \in Registers, y \in Years :
                l # k \/ y # z => opening'[l][y] = opening[l][y]
<1>1. opening \in [Registers -> [Years -> Openings]]
  BY DEF YearTypes
<1>2. [amount |-> amount, manual |-> manual] \in Openings
  BY DEF Openings
<1>3. [opening[k] EXCEPT ![z] = [amount |-> amount, manual |-> manual]] \in [Years -> Openings]
  BY <1>1, <1>2
<1>. QED
  BY <1>1, <1>2, <1>3 DEF Entry

LEMMA EffectTypes ==
    ASSUME YearsInv, NEW h \in Handlers, Effective(h)
    PROVE  TableTypes'
<1>1. /\ year \in [Years -> YearStates] /\ current \in SUBSET Years
      /\ owner \in [Docs -> Years \cup {NoYear, NoRow}]
      /\ opening \in [Registers -> [Years -> Openings]]
      /\ target[h] \in Years \cup {NoYear}
  BY DEF YearsInv, YearTypes
<1>2. pc[h] \notin {"idle", "insert"} => target[h] \in Years
  BY DEF YearsInv, YearWork
<1>3. CASE YearWritten(h)
  BY <1>1, <1>2, <1>3 DEF YearWritten, TableTypes, YearStates
<1>4. CASE CurrentWritten(h)
  BY <1>1, <1>2, <1>4 DEF CurrentWritten, TableTypes
<1>5. CASE StateWritten(h)
  BY <1>1, <1>2, <1>5 DEF StateWritten, TableTypes, YearStates
<1>6. CASE YearDropped(h)
  <2>1. year' \in [Years -> YearStates] /\ current' \in SUBSET Years
    BY <1>1, <1>6 DEF YearDropped, YearStates
  <2>2. owner' \in [Docs -> Years \cup {NoYear, NoRow}]
    BY <1>1, <1>6 DEF YearDropped
  <2>3. ASSUME NEW k \in Registers
        PROVE  [opening[k] EXCEPT ![target[h]] = NoRow] \in [Years -> Openings]
    BY <1>1 DEF Openings
  <2>4. opening' \in [Registers -> [Years -> Openings]]
    BY <1>6, <2>3 DEF YearDropped
  <2>. QED
    BY <2>1, <2>2, <2>4 DEF TableTypes
<1>7. CASE OwnerWritten(h)
  BY <1>1, <1>7 DEF OwnerWritten, TableTypes
<1>8. CASE OpeningAdjusted(h)
  <2>1. target[h] \in Years /\ Corrected \in Int
    BY <1>2, <1>8, FiscalAssumption DEF OpeningAdjusted
  <2>2. opening' \in [Registers -> [Years -> Openings]]
    BY <1>8, <2>1, EntryTypes DEF OpeningAdjusted, YearsInv
  <2>. QED
    BY <1>1, <1>8, <2>2 DEF OpeningAdjusted, TableTypes
<1>9. CASE OpeningRolled(h)
  <2>1. opening' \in [Registers -> [Years -> Openings]]
    BY <1>9, EntryTypes DEF OpeningRolled, YearsInv
  <2>. QED
    BY <1>1, <1>9, <2>1 DEF OpeningRolled, TableTypes
<1>. QED
  BY <1>3, <1>4, <1>5, <1>6, <1>7, <1>8, <1>9 DEF Effective

LEMMA YearsEffected ==
    ASSUME YearsInv, NEW h \in Handlers, Finish(h), Effective(h)
    PROVE  YearsInv'
<1>1. /\ year \in [Years -> YearStates] /\ owner \in [Docs -> Years \cup {NoYear, NoRow}]
      /\ NoYear \notin Years
  BY FiscalAssumption DEF YearsInv, YearTypes
<1>2. pc[h] \notin {"idle", "insert"} => target[h] \in Years
  BY DEF YearsInv, YearWork
<1>3. ASSUME NEW g \in Handlers, g # h, pc[g] \in {"check", "create"}
      PROVE  year'[target[g]] = "NONE"
  <2>1. year[target[g]] = "NONE" /\ kind[g] = "CREATE" /\ target[g] \in Years
    BY <1>3 DEF YearsInv, YearWork
  <2>2. CASE YearWritten(h)
    <3>1. kind[h] = "CREATE" /\ Separately(g, h)
      BY <2>2 DEF YearWritten, YearsInv, YearWork
    <3>. QED
      BY <1>1, <1>3, <2>1, <2>2, <3>1 DEF YearWritten, Separately
  <2>3. CASE StateWritten(h)
    BY <1>1, <2>1, <2>3 DEF StateWritten, Exists
  <2>4. CASE YearDropped(h)
    <3>1. year[target[h]] # "NONE"
      BY <2>4 DEF YearDropped, YearsInv, YearWork
    <3>. QED
      BY <1>1, <2>1, <2>4, <3>1 DEF YearDropped
  <2>. QED
    BY <2>1, <2>2, <2>3, <2>4
    DEF Effective, CurrentWritten, OwnerWritten, OpeningAdjusted, OpeningRolled
<1>4. ASSUME NEW g \in Handlers, g # h, pc[g] = "delete" PROVE year'[target[g]] # "NONE"
  <2>1. year[target[g]] # "NONE" /\ target[g] \in Years
    BY <1>4 DEF YearsInv, YearWork
  <2>2. CASE YearWritten(h)
    BY <1>1, <2>1, <2>2 DEF YearWritten
  <2>3. CASE StateWritten(h)
    BY <1>1, <2>1, <2>3 DEF StateWritten
  <2>4. CASE YearDropped(h)
    BY <1>1, <2>1, <2>4 DEF YearDropped
  <2>. QED
    BY <2>1, <2>2, <2>3, <2>4
    DEF Effective, CurrentWritten, OwnerWritten, OpeningAdjusted, OpeningRolled
<1>5. ASSUME NEW g \in Handlers, g # h, pc[g] = "insert" PROVE owner'[doc[g]] \notin Years
  <2>1. owner[doc[g]] \notin Years /\ doc[g] \in Docs
    BY <1>5 DEF YearsInv, YearWork
  <2>2. CASE YearDropped(h)
    BY <1>1, <2>1, <2>2 DEF YearDropped
  <2>3. CASE OwnerWritten(h)
    <3>1. doc[h] \in Docs /\ Separately(g, h)
      BY <2>3 DEF OwnerWritten, YearsInv, YearWork
    <3>2. doc[g] # doc[h]
      BY <1>5, <2>1, <3>1, FiscalAssumption DEF Separately
    <3>. QED
      BY <1>1, <2>1, <2>3, <3>1, <3>2 DEF OwnerWritten
  <2>. QED
    BY <2>1, <2>2, <2>3
    DEF Effective, YearWritten, CurrentWritten, StateWritten, OpeningAdjusted, OpeningRolled
<1>6. TableTypes'
  BY EffectTypes
<1>. QED
  BY <1>3, <1>4, <1>5, <1>6, YearsEnded

LEMMA YearsStay ==
    YearsInv /\ [YearsNext]_yearVars => YearsInv'
<1>. SUFFICES ASSUME YearsInv, [YearsNext]_yearVars PROVE YearsInv'
  OBVIOUS
<1>1. ASSUME NEW h \in Handlers, Start(h) PROVE YearsInv'
  BY <1>1, YearsStarted
<1>2. ASSUME NEW h \in Handlers, Step(h) PROVE YearsInv'
  BY <1>2, YearSteps, YearsAdvanced, YearsRefused, YearsEffected
<1>3. CASE UNCHANGED yearVars
  BY <1>3 DEF yearVars, tables, YearsInv, YearTypes, YearWork, Separately
<1>. QED
  BY <1>1, <1>2, <1>3 DEF YearsNext

LEMMA YearsAlways == YearsSpec => []YearsInv
  BY YearsStart, YearsStay, PTL DEF YearsSpec

-----------------------------------------------------------------------------
(* A deletion past its lock: the year it found without records has none    *)
(* still, since whoever would write one waits for the lock; and it is not  *)
(* current, since a change of the current year waits for it, or was        *)
(* waited for.                                                             *)

Removable(h) == pc[h] = "delete" =>
    /\ Exists(target[h]) /\ target[h] \notin current
    /\ ~Referenced(target[h])
LocksApart(g, h) == (g # h /\ pc[g] = "delete") =>
    /\ pc[h] # "set"
    /\ pc[h] = "delete" => target[g] # target[h]
OneCurrent == \E c \in Years : current = {c} /\ Exists(c)
DeletionInv == /\ OneCurrent
               /\ \A h \in Handlers : Removable(h)
               /\ \A g, h \in Handlers : LocksApart(g, h)

LEMMA DeletionStart == YearsInit => DeletionInv
<1>. SUFFICES ASSUME YearsInit PROVE DeletionInv
  OBVIOUS
<1>1. OneCurrent
  BY FiscalAssumption DEF YearsInit, OneCurrent, Exists
<1>2. \A h \in Handlers : pc[h] = "idle"
  BY DEF YearsInit
<1>. QED
  BY <1>1, <1>2 DEF DeletionInv, Removable, LocksApart

(* A request that opens, is refused or ends elsewhere than in a deletion,  *)
(* and leaves the years under deletion alone.                              *)
LEMMA DeletionOther ==
    ASSUME DeletionInv, YearsInv, NEW h \in Handlers, YearActs(h), pc'[h] \notin {"set", "delete"},
           OneCurrent',
           \A g \in Handlers : g # h /\ pc[g] = "delete" =>
              /\ Exists(target[g])' /\ target[g] \notin current'
              /\ \A d \in Docs : Doc[d].counted => owner'[d] # target[g]
              /\ \A k \in Registers : opening'[k][target[g]] = NoRow
    PROVE  DeletionInv'
<1>1. \A g \in Handlers : g # h => pc'[g] = pc[g] /\ target'[g] = target[g]
  BY YearMoves DEF YearsInv
<1>2. ASSUME NEW g \in Handlers PROVE Removable(g)'
  <2>1. CASE g = h
    BY <2>1 DEF Removable
  <2>2. CASE g # h
    BY <1>1, <2>2 DEF Removable, Exists, Referenced
  <2>. QED
    BY <2>1, <2>2
<1>3. ASSUME NEW g \in Handlers, NEW f \in Handlers PROVE LocksApart(g, f)'
  <2>1. LocksApart(g, f)
    BY DEF DeletionInv
  <2>. QED
    BY <1>1, <2>1 DEF LocksApart
<1>. QED
  BY <1>2, <1>3 DEF DeletionInv

LEMMA DeletionAdvanced ==
    ASSUME DeletionInv, YearsInv, NEW h \in Handlers, Advances(h)
    PROVE  DeletionInv'
<1>1. PICK p \in {"create", "set", "delete"} :
       /\ Proceed(h, p)
       /\ (p = "set" => \A y \in Years : Exists(y) => ~Held(y))
       /\ (p = "delete" =>
            /\ ~Held(target[h]) /\ Exists(target[h])
            /\ target[h] \notin current /\ ~Referenced(target[h]))
  BY DEF Advances
<1>2. /\ pc' = [pc EXCEPT ![h] = p] /\ target' = target
      /\ UNCHANGED <<year, current, owner, opening>>
      /\ pc \in [Handlers -> YearPoints]
  BY <1>1 DEF Proceed, tables, YearsInv, YearTypes
<1>3. OneCurrent'
  BY <1>2 DEF DeletionInv, OneCurrent, Exists
<1>4. ASSUME NEW g \in Handlers PROVE Removable(g)'
  <2>1. Removable(g)
    BY DEF DeletionInv
  <2>. QED
    BY <1>1, <1>2, <2>1 DEF Removable, Exists, Referenced
<1>5. ASSUME NEW g \in Handlers, NEW f \in Handlers PROVE LocksApart(g, f)'
  <2>1. LocksApart(g, f) /\ Removable(g)
    BY DEF DeletionInv
  <2>2. pc[g] = "delete" => target[g] \in Years
    BY DEF YearsInv, YearWork
  <2>3. CASE g # h /\ f # h
    BY <1>2, <2>1, <2>3 DEF LocksApart
  <2>4. CASE g # h /\ f = h
    BY <1>1, <1>2, <2>1, <2>2, <2>4 DEF LocksApart, Removable, Held, Deleting
  <2>5. CASE g = h /\ f # h
    BY <1>1, <1>2, <2>5 DEF LocksApart, Held, Deleting
  <2>6. CASE g = f
    BY <2>6 DEF LocksApart
  <2>. QED
    BY <2>3, <2>4, <2>5, <2>6
<1>. QED
  BY <1>3, <1>4, <1>5 DEF DeletionInv

LEMMA DeletionEffected ==
    ASSUME DeletionInv, YearsInv, NEW h \in Handlers, Step(h),
           Finish(h), Effective(h)
    PROVE  DeletionInv'
<1>1. /\ year \in [Years -> YearStates] /\ owner \in [Docs -> Years \cup {NoYear, NoRow}]
      /\ opening \in [Registers -> [Years -> Openings]]
      /\ NoYear \notin Years
  BY FiscalAssumption DEF YearsInv, YearTypes
<1>2. pc[h] \notin {"idle", "insert"} => target[h] \in Years
  BY DEF YearsInv, YearWork
<1>3. pc'[h] = "idle"
  BY YearEnds DEF YearsInv
<1>4. OneCurrent'
  <2>1. PICK c \in Years : current = {c} /\ Exists(c)
    BY DEF DeletionInv, OneCurrent
  <2>2. CASE YearWritten(h)
    BY <1>1, <2>1, <2>2 DEF YearWritten, OneCurrent, Exists
  <2>3. CASE CurrentWritten(h)
    BY <1>2, <2>3 DEF CurrentWritten, OneCurrent, Exists
  <2>4. CASE StateWritten(h)
    BY <1>1, <2>1, <2>4 DEF StateWritten, OneCurrent, Exists
  <2>5. CASE YearDropped(h)
    <3>1. target[h] \notin current
      BY <2>5 DEF YearDropped, DeletionInv, Removable
    <3>. QED
      BY <1>1, <2>1, <2>5, <3>1 DEF YearDropped, OneCurrent, Exists
  <2>. QED
    BY <2>1, <2>2, <2>3, <2>4, <2>5
    DEF Effective, OwnerWritten, OpeningAdjusted, OpeningRolled, OneCurrent, Exists
<1>5. ASSUME NEW g \in Handlers, g # h, pc[g] = "delete"
      PROVE  /\ Exists(target[g])' /\ target[g] \notin current'
             /\ \A d \in Docs : Doc[d].counted => owner'[d] # target[g]
             /\ \A k \in Registers : opening'[k][target[g]] = NoRow
  <2>1. PICK x \in Years : x = target[g]
    BY <1>5 DEF YearsInv, YearWork
  <2>2. /\ year[x] \in {"OPEN", "CLOSED"} /\ x \notin current
        /\ \A d \in Docs : Doc[d].counted => owner[d] # x
        /\ \A k \in Registers : opening[k][x] = NoRow
    BY <1>5, <2>1 DEF DeletionInv, Removable, Referenced, Exists
  <2>3. Deleting(x)
    BY <1>5, <2>1 DEF Deleting
  <2>4. pc[h] # "set" /\ (pc[h] = "delete" => target[h] # x)
    BY <1>5, <2>1 DEF DeletionInv, LocksApart
  <2>5. SUFFICES /\ year'[x] \in {"OPEN", "CLOSED"} /\ x \notin current'
                 /\ \A d \in Docs : Doc[d].counted => owner'[d] # x
                 /\ \A k \in Registers : opening'[k][x] = NoRow
    <3>1. target'[g] = x
      BY <1>5, <2>1, YearMoves DEF YearActs, YearsInv
    <3>. QED
      BY <2>1, <3>1 DEF Exists
  <2>6. CASE YearWritten(h)
    BY <1>1, <2>2, <2>6 DEF YearWritten
  <2>7. CASE CurrentWritten(h)
    BY <2>4, <2>7 DEF CurrentWritten
  <2>8. CASE StateWritten(h)
    BY <1>1, <2>2, <2>8 DEF StateWritten
  <2>9. CASE YearDropped(h)
    BY <1>1, <2>2, <2>4, <2>9 DEF YearDropped
  <2>10. CASE OwnerWritten(h)
    <3>1. target[h] # x
      BY <2>3, <2>10 DEF OwnerWritten
    <3>. QED
      BY <1>1, <2>2, <2>10, <3>1 DEF OwnerWritten
  <2>11. CASE OpeningAdjusted(h)
    <3>1. target[h] # x /\ target[h] \in Years /\ Corrected \in Int
      BY <1>2, <2>3, <2>11, FiscalAssumption DEF OpeningAdjusted
    <3>2. PICK k \in Registers : Entry(k, target[h], Corrected, TRUE)
      BY <2>11 DEF OpeningAdjusted
    <3>3. \A l \in Registers : opening'[l][x] = opening[l][x]
      <4>1. \A l \in Registers, y \in Years :
              l # k \/ y # target[h] => opening'[l][y] = opening[l][y]
        BY <3>1, <3>2, EntryTypes DEF YearsInv
      <4>. QED
        BY <3>1, <4>1
    <3>. QED
      BY <2>2, <2>11, <3>3 DEF OpeningAdjusted
  <2>12. CASE OpeningRolled(h)
    <3>1. PICK k \in Registers, z \in Years, amount \in Int :
             ~Held(z) /\ Entry(k, z, amount, FALSE)
      BY <2>12 DEF OpeningRolled
    <3>2. z # x
      BY <2>3, <3>1 DEF Held
    <3>3. \A l \in Registers : opening'[l][x] = opening[l][x]
      <4>1. \A l \in Registers, y \in Years :
              l # k \/ y # z => opening'[l][y] = opening[l][y]
        BY <3>1, EntryTypes DEF YearsInv
      <4>. QED
        BY <3>2, <4>1
    <3>. QED
      BY <2>2, <2>12, <3>3 DEF OpeningRolled
  <2>. QED
    BY <2>6, <2>7, <2>8, <2>9, <2>10, <2>11, <2>12 DEF Effective
<1>. QED
  BY <1>3, <1>4, <1>5, DeletionOther DEF YearActs

LEMMA DeletionQuiet ==
    ASSUME DeletionInv, YearsInv, NEW h \in Handlers, YearActs(h), pc'[h] \notin {"set", "delete"},
           UNCHANGED <<year, current, owner, opening>>
    PROVE  DeletionInv'
<1>1. OneCurrent'
  BY DEF DeletionInv, OneCurrent, Exists
<1>2. ASSUME NEW g \in Handlers, g # h, pc[g] = "delete"
      PROVE  /\ Exists(target[g])' /\ target[g] \notin current'
             /\ \A d \in Docs : Doc[d].counted => owner'[d] # target[g]
             /\ \A k \in Registers : opening'[k][target[g]] = NoRow
  <2>1. Removable(g) /\ target'[g] = target[g]
    BY <1>2, YearMoves DEF DeletionInv, YearsInv
  <2>. QED
    BY <1>2, <2>1 DEF Removable, Exists, Referenced
<1>. QED
  BY <1>1, <1>2, DeletionOther

LEMMA DeletionNext ==
    YearsInv /\ DeletionInv /\ [YearsNext]_yearVars => DeletionInv'
<1>. SUFFICES ASSUME YearsInv, DeletionInv, [YearsNext]_yearVars PROVE DeletionInv'
  OBVIOUS
<1>1. ASSUME NEW h \in Handlers, Start(h) PROVE DeletionInv'
  <2>1. PICK k \in YearKinds, y \in Years \cup {NoYear}, d \in Docs \cup {NoDoc}, p \in YearPoints :
           Opens(h, k, y, d, p)
    BY <1>1, YearStarts
  <2>2. pc'[h] \notin {"set", "delete"} /\ UNCHANGED <<year, current, owner, opening>>
    BY <2>1, YearOpens DEF Opens, YearsInv
  <2>. QED
    BY <1>1, <2>2, DeletionQuiet DEF YearActs
<1>2. ASSUME NEW h \in Handlers, Step(h) PROVE DeletionInv'
  <2>1. CASE Refuse(h)
    <3>1. pc'[h] = "idle" /\ UNCHANGED <<year, current, owner, opening>>
      BY <2>1, YearEnds DEF Refuse, tables, YearsInv
    <3>. QED
      BY <1>2, <3>1, DeletionQuiet DEF YearActs
  <2>. QED
    BY <1>2, <2>1, YearSteps, DeletionAdvanced, DeletionEffected
<1>3. CASE UNCHANGED yearVars
  BY <1>3 DEF yearVars, tables, DeletionInv, OneCurrent, Removable, LocksApart,
              Exists, Referenced
<1>. QED
  BY <1>1, <1>2, <1>3 DEF YearsNext

LEMMA DeletionAlways == YearsSpec => []DeletionInv
  BY DeletionStart, DeletionNext, YearsAlways, PTL DEF YearsSpec

-----------------------------------------------------------------------------
(* Periods.  Where one year is created at a time, nothing comes to be      *)
(* between the check and the insertion that could meet the new period.     *)

Disjoint(y, z) == Period[y].to < Period[z].from \/ Period[z].to < Period[y].from
PeriodsInv ==
    /\ \A y, z \in Years : Exists(y) /\ Exists(z) /\ y # z => Disjoint(y, z)
    /\ \A h \in Handlers : pc[h] = "create" =>
          \A z \in Years : Exists(z) => Disjoint(target[h], z)
    /\ \A g, h \in Handlers : kind[g] = "CREATE" /\ kind[h] = "CREATE" => g = h

LEMMA ChecksDisjoint ==
    ASSUME NEW y \in Years, NEW z \in Years, ~Overlaps(y, z)
    PROVE  Disjoint(y, z)
<1>1. /\ Period[y].from \in Nat /\ Period[y].to \in Nat /\ Period[y].from <= Period[y].to
      /\ Period[z].from \in Nat /\ Period[z].to \in Nat /\ Period[z].from <= Period[z].to
  BY FiscalAssumption
<1>. QED
  BY <1>1 DEF Overlaps, Within, Disjoint

LEMMA PeriodsStart == YearsInit => PeriodsInv
<1>. SUFFICES ASSUME YearsInit PROVE PeriodsInv
  OBVIOUS
<1>1. \A y \in Years : Exists(y) => y \in Founded
  BY DEF YearsInit, Exists
<1>2. \A y, z \in Founded : y # z => Disjoint(y, z)
  BY FiscalAssumption DEF Disjoint
<1>3. \A h \in Handlers : pc[h] = "idle" /\ kind[h] = "NONE"
  BY DEF YearsInit
<1>. QED
  BY <1>1, <1>2, <1>3 DEF PeriodsInv

(* Only the insertion of a year adds to the years there are.               *)
LEMMA NoNewYear ==
    ASSUME YearsInv, NEW h \in Handlers, Effective(h), ~YearWritten(h), NEW y \in Years,
           Exists(y)'
    PROVE  Exists(y)
<1>1. year \in [Years -> YearStates]
  BY DEF YearsInv, YearTypes
<1>2. CASE StateWritten(h)
  BY <1>1, <1>2 DEF StateWritten, Exists
<1>3. CASE YearDropped(h)
  BY <1>1, <1>3 DEF YearDropped, Exists
<1>. QED
  BY <1>2, <1>3 DEF Effective, CurrentWritten, OwnerWritten, OpeningAdjusted, OpeningRolled,
                    Exists

LEMMA PeriodsStepped ==
    ASSUME PeriodsInv, YearsInv, NEW h \in Handlers, Step(h)
    PROVE  PeriodsInv'
<1>1. \A g \in Handlers : g # h => pc'[g] = pc[g] /\ kind'[g] = kind[g] /\ target'[g] = target[g]
  BY YearMoves DEF YearActs, YearsInv
<1>2. ASSUME Advances(h) PROVE PeriodsInv'
  <2>1. PICK p \in {"create", "set", "delete"} :
          /\ Proceed(h, p)
          /\ (p = "create" =>
               /\ pc[h] = "check"
               /\ \A z \in Years : Exists(z) => ~Overlaps(target[h], z))
    BY <1>2 DEF Advances
  <2>2. /\ pc' = [pc EXCEPT ![h] = p] /\ target' = target /\ kind' = kind /\ year' = year
        /\ pc \in [Handlers -> YearPoints]
    BY <2>1 DEF Proceed, tables, YearsInv, YearTypes
  <2>3. p = "create" => \A z \in Years : Exists(z) => Disjoint(target[h], z)
    <3>1. p = "create" => target[h] \in Years
      BY <2>1 DEF YearsInv, YearWork
    <3>. QED
      BY <2>1, <3>1, ChecksDisjoint
  <2>4. ASSUME NEW g \in Handlers, pc'[g] = "create", NEW z \in Years, Exists(z)'
        PROVE  Disjoint(target'[g], z)
    <3>1. Exists(z) /\ target'[g] = target[g]
      BY <2>2, <2>4 DEF Exists
    <3>2. CASE g = h
      BY <2>2, <2>3, <2>4, <3>1, <3>2
    <3>3. CASE g # h
      BY <2>2, <2>4, <3>1, <3>3 DEF PeriodsInv
    <3>. QED
      BY <3>2, <3>3
  <2>5. \A g \in Handlers : pc'[g] = "create" =>
           \A z \in Years : Exists(z)' => Disjoint(target'[g], z)
    BY <2>4
  <2>. QED
    BY <2>2, <2>5 DEF PeriodsInv, Exists, Disjoint
<1>3. ASSUME Finish(h), \A y \in Years : Exists(y)' => Exists(y) PROVE PeriodsInv'
  <2>1. pc'[h] = "idle" /\ kind'[h] = "NONE"
    BY <1>3, YearEnds DEF YearsInv
  <2>2. \A y, z \in Years : Exists(y)' /\ Exists(z)' /\ y # z => Disjoint(y, z)
    BY <1>3 DEF PeriodsInv
  <2>3. \A g \in Handlers : pc'[g] = "create" =>
          \A z \in Years : Exists(z)' => Disjoint(target'[g], z)
    BY <1>1, <1>3, <2>1 DEF PeriodsInv
  <2>4. \A f, g \in Handlers : kind'[f] = "CREATE" /\ kind'[g] = "CREATE" => f = g
    BY <1>1, <2>1 DEF PeriodsInv
  <2>. QED
    BY <2>2, <2>3, <2>4 DEF PeriodsInv, Disjoint
<1>4. ASSUME Finish(h), YearWritten(h) PROVE PeriodsInv'
  <2>1. pc'[h] = "idle" /\ kind'[h] = "NONE"
    BY <1>4, YearEnds DEF YearsInv
  <2>2. kind[h] = "CREATE" /\ target[h] \in Years /\ year \in [Years -> YearStates]
    BY <1>4 DEF YearWritten, YearsInv, YearWork, YearTypes
  <2>3. \A g \in Handlers : kind'[g] # "CREATE" /\ pc'[g] # "create"
    <3>1. ASSUME NEW g \in Handlers, g # h PROVE kind[g] # "CREATE" /\ pc[g] # "create"
      BY <2>2, <3>1 DEF PeriodsInv, YearsInv, YearWork
    <3>. QED
      BY <1>1, <2>1, <3>1
  <2>4. ASSUME NEW y \in Years, Exists(y)' PROVE y = target[h] \/ Exists(y)
    BY <1>4, <2>2, <2>4 DEF YearWritten, Exists
  <2>5. \A z \in Years : Exists(z) => Disjoint(target[h], z) /\ Disjoint(z, target[h])
    BY <1>4 DEF YearWritten, PeriodsInv, Disjoint
  <2>6. \A y, z \in Years : Exists(y)' /\ Exists(z)' /\ y # z => Disjoint(y, z)
    BY <2>4, <2>5 DEF PeriodsInv
  <2>. QED
    BY <2>3, <2>6 DEF PeriodsInv, Disjoint
<1>5. CASE Refuse(h)
  BY <1>3, <1>5 DEF Refuse, tables, Exists
<1>6. CASE Finish(h) /\ Effective(h) /\ ~YearWritten(h)
  <2>1. \A y \in Years : Exists(y)' => Exists(y)
    BY <1>6, NoNewYear
  <2>. QED
    BY <1>3, <1>6, <2>1
<1>. QED
  BY <1>2, <1>4, <1>5, <1>6, YearSteps

LEMMA PeriodsNext ==
    ASSUME Lapses = {}
    PROVE  YearsInv /\ PeriodsInv /\ [YearsNext]_yearVars => PeriodsInv'
<1>. SUFFICES ASSUME YearsInv, PeriodsInv, [YearsNext]_yearVars PROVE PeriodsInv'
  OBVIOUS
<1>1. ASSUME NEW h \in Handlers, Start(h) PROVE PeriodsInv'
  <2>1. PICK k \in YearKinds, y \in Years \cup {NoYear}, d \in Docs \cup {NoDoc}, p \in YearPoints :
           Opens(h, k, y, d, p)
    BY <1>1, YearStarts
  <2>2. /\ pc'[h] = p /\ kind'[h] = k /\ p # "create" /\ UNCHANGED year
        /\ k = "CREATE" => \A g \in Handlers : kind[g] # "CREATE"
    BY <2>1, YearOpens DEF Opens, YearsInv
  <2>3. \A g \in Handlers : g # h => pc'[g] = pc[g] /\ kind'[g] = kind[g] /\ target'[g] = target[g]
    BY <1>1, YearMoves DEF YearActs, YearsInv
  <2>4. \A f, g \in Handlers : kind'[f] = "CREATE" /\ kind'[g] = "CREATE" => f = g
    BY <2>2, <2>3 DEF PeriodsInv
  <2>5. \A g \in Handlers : pc'[g] = "create" =>
          \A z \in Years : Exists(z)' => Disjoint(target'[g], z)
    BY <2>2, <2>3 DEF PeriodsInv, Exists
  <2>. QED
    BY <2>2, <2>4, <2>5 DEF PeriodsInv, Exists, Disjoint
<1>2. ASSUME NEW h \in Handlers, Step(h) PROVE PeriodsInv'
  BY <1>2, PeriodsStepped
<1>3. CASE UNCHANGED yearVars
  BY <1>3 DEF yearVars, tables, PeriodsInv, Exists, Disjoint
<1>. QED
  BY <1>1, <1>2, <1>3 DEF YearsNext

(* Where one year is created at a time, exactly one year is current and no *)
(* day belongs to two, whatever changes of the current year, closings,     *)
(* deletions, postings and roll-forwards overlap or fail.                  *)
THEOREM CalendarStaysSound ==
    ASSUME Lapses = {}
    PROVE  YearsSpec => []CalendarSound
<1>1. YearsSpec => []PeriodsInv
  BY PeriodsStart, PeriodsNext, YearsAlways, PTL DEF YearsSpec
<1>2. PeriodsInv /\ DeletionInv => CalendarSound
  <2>1. SUFFICES ASSUME PeriodsInv, DeletionInv PROVE CalendarSound
    OBVIOUS
  <2>2. PICK c \in Years : current = {c} /\ Exists(c)
    BY <2>1 DEF DeletionInv, OneCurrent
  <2>3. Cardinality(current) = 1
    BY <2>2, FS_Singleton
  <2>. QED
    <3>1. \A y \in current : Exists(y)
      BY <2>2
    <3>2. \A y, z \in Years : Exists(y) /\ Exists(z) /\ y # z =>
            Period[y].to < Period[z].from \/ Period[z].to < Period[y].from
      BY <2>1 DEF PeriodsInv, Disjoint
    <3>. QED
      BY <2>3, <3>1, <3>2 DEF CalendarSound
<1>. QED
  BY <1>1, <1>2, DeletionAlways, PTL

OwnersKept == \A d \in Docs : Doc[d].counted /\ owner[d] \in Years => owner'[d] = owner[d]
ManualKept == \A k \in Registers, y \in Years :
    opening[k][y] # NoRow /\ opening[k][y].manual
       => opening'[k][y] # NoRow /\ opening'[k][y].manual

LEMMA EffectKeepsRecords ==
    ASSUME YearsInv, DeletionInv, NEW h \in Handlers, Effective(h)
    PROVE  OwnersKept /\ ManualKept
<1>1. /\ owner \in [Docs -> Years \cup {NoYear, NoRow}]
      /\ opening \in [Registers -> [Years -> Openings]]
  BY DEF YearsInv, YearTypes
<1>2. CASE YearDropped(h)
  <2>1. ~Referenced(target[h])
    BY <1>2 DEF YearDropped, DeletionInv, Removable
  <2>2. OwnersKept
    BY <1>1, <1>2, <2>1 DEF YearDropped, OwnersKept, Referenced
  <2>3. ASSUME NEW k \in Registers, NEW y \in Years, opening[k][y] # NoRow
        PROVE  opening'[k][y] = opening[k][y]
    <3>1. y # target[h]
      BY <2>1, <2>3 DEF Referenced
    <3>2. opening[k] \in [Years -> Openings]
      BY <1>1
    <3>. QED
      BY <1>2, <3>1, <3>2 DEF YearDropped
  <2>. QED
    BY <2>2, <2>3 DEF ManualKept
<1>3. CASE OwnerWritten(h)
  <2>1. owner[doc[h]] \notin Years /\ doc[h] \in Docs
    BY <1>3 DEF OwnerWritten, YearsInv, YearWork
  <2>2. OwnersKept
    BY <1>1, <1>3, <2>1 DEF OwnerWritten, OwnersKept
  <2>. QED
    BY <1>3, <2>2 DEF OwnerWritten, ManualKept
<1>4. CASE OpeningAdjusted(h)
  <2>1. target[h] \in Years /\ Corrected \in Int
    BY <1>4, FiscalAssumption DEF OpeningAdjusted, YearsInv, YearWork
  <2>2. PICK k \in Registers : Entry(k, target[h], Corrected, TRUE)
    BY <1>4 DEF OpeningAdjusted
  <2>3. /\ opening'[k][target[h]] = [amount |-> Corrected, manual |-> TRUE]
        /\ \A l \in Registers, y \in Years :
             l # k \/ y # target[h] => opening'[l][y] = opening[l][y]
    BY <2>1, <2>2, EntryTypes DEF YearsInv
  <2>4. [amount |-> Corrected, manual |-> TRUE] # NoRow
    <3>1. [amount |-> Corrected, manual |-> TRUE] \in [amount : Int, manual : BOOLEAN]
      BY <2>1
    <3>2. NoRow \notin [amount : Int, manual : BOOLEAN]
      BY FiscalAssumption
    <3>. QED
      BY <3>1, <3>2
  <2>. QED
    BY <1>4, <2>3, <2>4 DEF OpeningAdjusted, OwnersKept, ManualKept
<1>5. CASE OpeningRolled(h)
  <2>1. PICK k \in Registers, z \in Years, amount \in Int :
           Overwritable(k, z) /\ Entry(k, z, amount, FALSE)
    BY <1>5 DEF OpeningRolled
  <2>2. \A l \in Registers, y \in Years :
           l # k \/ y # z => opening'[l][y] = opening[l][y]
    BY <2>1, EntryTypes DEF YearsInv
  <2>. QED
    BY <1>5, <2>1, <2>2 DEF OpeningRolled, OwnersKept, ManualKept, Overwritable
<1>. QED
  BY <1>2, <1>3, <1>4, <1>5
  DEF Effective, YearWritten, CurrentWritten, StateWritten, OwnersKept, ManualKept

(* A counted document keeps the year it was given, and a manual opening    *)
(* stays and stays manual, in every step: a deletion past its lock finds   *)
(* none of them, and a roll-forward writes over no manual row.             *)
THEOREM RecordsAreKept ==
    YearsSpec => RecordsStay
<1>1. ASSUME YearsInv, DeletionInv, [YearsNext]_yearVars
      PROVE  [OwnersKept /\ ManualKept]_yearVars
  <2>1. ASSUME UNCHANGED <<owner, opening>> PROVE OwnersKept /\ ManualKept
    BY <2>1 DEF OwnersKept, ManualKept
  <2>2. ASSUME NEW h \in Handlers, Start(h) PROVE OwnersKept /\ ManualKept
    <3>1. UNCHANGED <<owner, opening>>
      BY <1>1, <2>2, YearStarts, YearOpens DEF Opens, YearsInv
    <3>. QED
      BY <2>1, <3>1
  <2>3. ASSUME NEW h \in Handlers, Step(h) PROVE OwnersKept /\ ManualKept
    <3>1. CASE Advances(h)
      BY <2>1, <3>1 DEF Advances, Proceed, tables
    <3>2. CASE Refuse(h)
      BY <2>1, <3>2 DEF Refuse, tables
    <3>. QED
      BY <1>1, <2>3, <3>1, <3>2, YearSteps, EffectKeepsRecords
  <2>. QED
    BY <1>1, <2>2, <2>3 DEF YearsNext
<1>2. [OwnersKept /\ ManualKept]_yearVars
         <=> [/\ \A d \in Docs : Doc[d].counted /\ owner[d] \in Years => owner'[d] = owner[d]
              /\ \A k \in Registers, y \in Years :
                   opening[k][y] # NoRow /\ opening[k][y].manual
                      => opening'[k][y] # NoRow /\ opening'[k][y].manual]_yearVars
  BY DEF OwnersKept, ManualKept
<1>. QED
  BY <1>1, <1>2, YearsAlways, DeletionAlways, PTL DEF YearsSpec, RecordsStay
=============================================================================
