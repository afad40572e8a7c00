------------------------------ MODULE MCRefund ------------------------------
(***************************************************************************)
(* Small instances of Refund for TLC.                                      *)
(***************************************************************************)
EXTENDS Refund, TLC

CONSTANTS k1, i1, i2

TwoUnits == [p \in Payments |-> 2]

\* A gateway that gives one of the refunds an identity of its own, and takes the
\* others for the same refund.
SomeShared == [k \in Keys |-> IF k = k1 THEN i1 ELSE i2]

\* Workers are interchangeable, and so are the keys that share an identity: no
\* other constant tells them apart.
Symmetry == Permutations(Workers) \cup Permutations(Keys \ {k1})
=============================================================================
