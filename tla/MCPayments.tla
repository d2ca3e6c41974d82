----------------------------- MODULE MCPayments -------------------------------
(* Instances of VendorPayments for TLC: one bill paid in parts, two of     *)
(* them on the same day and so from the same sequence of numbers.          *)
EXTENDS VendorPayments, TLC

MCTotal == [b \in Bills |-> 3]
MCPayment == [p \in Payments |->
    [bill |-> "pi", amount |-> IF p = "rest" THEN 2 ELSE 1,
     sequence |-> IF p = "late" THEN "cash tomorrow" ELSE "cash today"]]
HandlerSymmetry == Permutations(Handlers)
=============================================================================
