------------------------------- MODULE MCSync -------------------------------
(* Instances of Sync for TLC: "bill" is announced before its commit        *)
(* and names its slice of data, a deferred ledger; "profile" raises the     *)
(* counter, and only a full load brings it.                                *)
EXTENDS Sync

MCEarly == {"bill"} \cap Changes
MCCounted == {"profile"} \cap Changes
MCDeferred == {"bill"} \cap Changes
MCSliced == {"bill"} \cap Changes
=============================================================================
