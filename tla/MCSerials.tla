------------------------------ MODULE MCSerials -------------------------------
(* Instances of SerialEdits for TLC: the onus "u1" and "u2" swap labels    *)
(* while "u3" is given serials of "u1", and one of them is renamed again.  *)
EXTENDS SerialEdits, Sequences, TLC

MCUnits == {"u1", "u2", "u3"}
Label(d, p) == [dev |-> d, pon |-> p]
One == Label("d1", "p1")
Two == Label("d2", "p2")
Three == Label("d3", "p3")
MCFirst == [u \in MCUnits |-> CASE u = "u1" -> One [] u = "u2" -> Two [] u = "u3" -> Three]
MCLists == [d \in {"bill", "shipment"} |-> IF d = "bill" THEN {"u1", "u3"} ELSE {"u2"}]

To(u, x) == [unit |-> u, label |-> x]
Single(x) == [dual |-> FALSE, a |-> x, b |-> x]
MCEdit == [e \in Edits |->
    CASE e = "swap" -> [dual |-> TRUE, a |-> To("u1", Two), b |-> To("u2", One)]
      [] e = "claim" -> Single(To("u3", One))
      [] e = "mixed" -> Single(To("u3", Label("d6", "p1")))
      [] e = "other" -> Single(To("u2", Label("d5", "p1")))
      [] e = "fresh" -> Single(To("u1", Label("d4", "p4")))]
(* The park tag is new for every edit and side.                            *)
MCPark == [e \in Edits |-> [s \in Sides |-> Label("tmp-" \o e \o s, "tmp-pon-" \o e \o s)]]
MCSpare == [e \in Edits |-> [s \in Sides |-> "row-" \o e \o s]]
MCLabels == {One, Two, Three} \cup {Edit[e][s].label : e \in Edits, s \in Sides}
              \cup {Park[e][s] : e \in Edits, s \in Sides}

HandlerSymmetry == Permutations(Handlers)
=============================================================================
