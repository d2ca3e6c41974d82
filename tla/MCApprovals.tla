---------------------------- MODULE MCApprovals ----------------------------
(* Instances of Approvals for TLC: "mast" is deployed from stock, "van" is  *)
(* registered without stock, both under the serial of one unit; "leave"    *)
(* asks to disconnect the device of that unit, "recount" to reconcile a    *)
(* stock audit.                                                            *)
EXTENDS Approvals, TLC

MCUnitOf == [a \in Assets |-> "olt"]
MCDeviceOf == [r \in Applications |-> IF r = "leave" THEN "olt" ELSE NoTarget]

HandlerSymmetry == Permutations(Handlers)
=============================================================================
