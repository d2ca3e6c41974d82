------------------------------ MODULE DocNumbers ------------------------------
(***************************************************************************)
(* Document numbers (server/src/utils/docNumber.ts, issueNextDocNumber).   *)
(* A sequence is a branch, a type code and a day.  Its counter is a row of *)
(* document_sequence_daily, claimed by one statement; when that statement  *)
(* fails the number comes from a map in the memory of the process, in the  *)
(* same format.  How often each number was issued is kept, for what is     *)
(* said about it.                                                          *)
(***************************************************************************)
EXTENDS Naturals

CONSTANTS
    Sequences,
    MaxNumber       \* numbers issued per sequence, at most (a bound)

ASSUME NumbersAssumption == MaxNumber \in Nat

VARIABLES
    counter,        \* document_sequence_daily.next_number, 0 when there is no row
    memory,         \* transactionSequenceMap
    claimed,        \* how often the database issued each number
    made            \* how often the memory did

numbers == <<counter, memory, claimed, made>>
Numbers == 1..MaxNumber
None == [s \in Sequences |-> 0]
NoneIssued == [s \in Sequences |-> [n \in Numbers |-> 0]]

NumbersInit == counter = None /\ memory = None /\ claimed = NoneIssued /\ made = NoneIssued

(* INSERT ... ON CONFLICT DO UPDATE SET next_number = next_number + 1      *)
(* RETURNING next_number; the faulty variant inserts and then returns what *)
(* is there.                                                               *)
ClaimMutant(s, n) ==
    /\ n = 1
    /\ counter' = [counter EXCEPT ![s] = 1]
    /\ claimed' = [claimed EXCEPT ![s][n] = @ + 1]
    /\ UNCHANGED <<memory, made>>
Claim(s, n) ==
    /\ n = counter[s] + 1 /\ n <= MaxNumber
    /\ counter' = [counter EXCEPT ![s] = n]
    /\ claimed' = [claimed EXCEPT ![s][n] = @ + 1]
    /\ UNCHANGED <<memory, made>>

(* The database is not connected, or the claim fails.                      *)
FallBack(s, n) ==
    /\ n = memory[s] + 1 /\ n <= MaxNumber
    /\ memory' = [memory EXCEPT ![s] = n]
    /\ made' = [made EXCEPT ![s][n] = @ + 1]
    /\ UNCHANGED <<counter, claimed>>

Issue(s, n) == Claim(s, n) \/ FallBack(s, n)

(* The process ends and starts again: the map is empty.                    *)
Forget == memory' = None /\ UNCHANGED <<counter, claimed, made>>

NumbersNext == Forget \/ \E s \in Sequences, n \in Numbers : Issue(s, n)
NumbersSpec == NumbersInit /\ [][NumbersNext]_numbers

-----------------------------------------------------------------------------
(* The types of the counters.                                              *)
NumbersTypeOK ==
    /\ counter \in [Sequences -> 0..MaxNumber]
    /\ memory \in [Sequences -> 0..MaxNumber]
    /\ claimed \in [Sequences -> [Numbers -> Nat]]
    /\ made \in [Sequences -> [Numbers -> Nat]]

(* "two concurrent users (or server restarts) can never receive the same   *)
(* number", and none is left out: the database issues each number up to    *)
(* its counter once, and no other.                                         *)
ClaimedOnceInOrder ==
    \A s \in Sequences, n \in Numbers : claimed[s][n] = IF n <= counter[s] THEN 1 ELSE 0
=============================================================================
