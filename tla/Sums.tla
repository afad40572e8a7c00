-------------------------------- MODULE Sums --------------------------------
(***************************************************************************)
(* The sum of natural numbers over a finite set, as the number of the      *)
(* units they consist of: what an aggregate query of the database returns, *)
(* and 0 when it finds no row.                                             *)
(***************************************************************************)
EXTENDS Integers, FiniteSets

Units(f, x) == {x} \X (1 .. f[x])
SumOver(f, S) == Cardinality(UNION {Units(f, x) : x \in S})
=============================================================================
