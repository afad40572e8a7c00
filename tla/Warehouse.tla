----------------------------- MODULE Warehouse -----------------------------
(***************************************************************************)
(* What the inventory promises about goods, with no transaction, lock or   *)
(* reservation row in sight: an order takes its whole basket off the shelf *)
(* or nothing, and only what is there; closing orders puts their baskets   *)
(* back, whole and once; anything else that changes the shelf is somebody  *)
(* counting it.  Inventory implements it.                                  *)
(***************************************************************************)
EXTENDS Integers, Sums

CONSTANTS
    Orders, Products,
    Baskets     \* what an order may take: how many of each product

VARIABLES
    onShelf,     \* how many of each product can be sold
    holding,     \* does an order hold its basket: "absent", "held", "returned"
    basket       \* how many of each product an order takes

vars == <<onShelf, holding, basket>>

\* What the baskets of a set of orders hold of a product, together.
Together(orders, p) ==
    SumOver([o \in Orders |-> basket[o][p]], {o \in orders : basket[o][p] > 0})

Init ==
    /\ onShelf \in [Products -> Nat]
    /\ holding = [o \in Orders |-> "absent"]
    /\ basket = [o \in Orders |-> [p \in Products |-> 0]]

Take(o, wanted) ==
    /\ holding[o] = "absent"
    /\ \A p \in Products : wanted[p] > 0 => wanted[p] <= onShelf[p]
    /\ onShelf' = [p \in Products |-> onShelf[p] - wanted[p]]
    /\ holding' = [holding EXCEPT ![o] = "held"]
    /\ basket' = [basket EXCEPT ![o] = wanted]

GiveBack(closing) ==
    /\ \A o \in closing : holding[o] = "held"
    /\ onShelf' = [p \in Products |-> onShelf[p] + Together(closing, p)]
    /\ holding' = [o \in Orders |-> IF o \in closing THEN "returned" ELSE holding[o]]
    /\ UNCHANGED basket

\* A count of one product may find anything.
Count(p) ==
    /\ onShelf' = [onShelf EXCEPT ![p] = onShelf'[p]]
    /\ UNCHANGED <<holding, basket>>

Next ==
    \/ \E o \in Orders, wanted \in Baskets : Take(o, wanted)
    \/ \E closing \in SUBSET Orders : GiveBack(closing)
    \/ \E p \in Products : Count(p)

Spec == Init /\ [][Next]_vars
=============================================================================
