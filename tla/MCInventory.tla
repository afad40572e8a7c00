---------------------------- MODULE MCInventory ----------------------------
(***************************************************************************)
(* Small instances of Inventory for TLC.                                   *)
(***************************************************************************)
EXTENDS Inventory, TLC

\* Two carts with both products, filled in different orders.
BothWays == {<< <<1, 1>>, <<2, 1>> >>, << <<2, 1>>, <<1, 1>> >>}
OneProduct == {<< <<1, 1>> >>}

OnlySave == {0}
TwoOfEach == [p \in Products |-> 2]
OneOfEach == [p \in Products |-> 1]

WorkerSymmetry == Permutations(Workers)
=============================================================================
