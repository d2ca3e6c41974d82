------------------------------- MODULE MCStock -------------------------------
(* Instances of StockAudit for TLC: one branch, one warehouse, two         *)
(* products, and the bodies of the operations the runs post.               *)
EXTENDS StockAudit, TLC

MCBranches == {"br", "wh"}
MCProducts == {1, 2}

Item(p, q) == [product |-> p, qty |-> q, damagedStock |-> FALSE, serial |-> NoSerial]
Unit(p, s) == [product |-> p, qty |-> 1, damagedStock |-> FALSE, serial |-> s]
Broken(p, q) == [product |-> p, qty |-> q, damagedStock |-> TRUE, serial |-> NoSerial]
Body(t, b, ls) == [type |-> t, branch |-> b, dest |-> "wh", lines |-> ls]

Bodies ==
    [damage      |-> Body("DAMAGE", "br", <<Unit(2, "s"), Item(1, 1)>>),
     damage1     |-> Body("DAMAGE", "br", <<Item(1, 1)>>),
     damageAgain |-> Body("DAMAGE", "br", <<Unit(2, "s")>>),
     damageTwice |-> Body("DAMAGE", "br", <<Item(1, 1), Item(1, 1)>>),
     pullout     |-> Body("PULLOUT", "br", <<Item(2, 1), Item(1, 1)>>),
     pullout1    |-> Body("PULLOUT", "br", <<Item(1, 1)>>),
     pulloutBack |-> Body("PULLOUT", "br", <<Item(1, 1), Item(2, 1)>>),
     scrap       |-> Body("PULLOUT", "br", <<Broken(1, 1)>>),
     issue       |-> Body("CONSUMABLE_ISSUE", "br", <<Item(2, 1), Item(1, 1)>>),
     sale        |-> Body("STOCK_OUT", "br", <<Item(1, 2)>>),
     saleWh      |-> Body("STOCK_OUT", "wh", <<Item(2, 1), Item(1, 1)>>)]

MCReq == [o \in Ops |-> Bodies[o]]
MCSerials == {"s"}
(* Scarce: the requests compete for the last units.  Ample: they need not. *)
ScarceStock == [r \in MCBranches \X MCProducts |->
                    [qoh |-> IF r = <<"br", 1>> THEN 2 ELSE 1, damaged |-> 0]]
AmpleStock == [r \in MCBranches \X MCProducts |-> [qoh |-> 3, damaged |-> 0]]

HandlerSymmetry == Permutations(Handlers)
=============================================================================
