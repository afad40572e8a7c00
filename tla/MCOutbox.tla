------------------------------ MODULE MCOutbox ------------------------------
(***************************************************************************)
(* Small instances of Outbox for TLC.                                      *)
(***************************************************************************)
EXTENDS Outbox, TLC

\* order.cancelled has several handlers, user.otp one, and a topic that ROUTES
\* does not know has none.
Routes == [e \in Events |-> CASE e = 1 -> 2 [] e = 2 -> 1 [] OTHER -> 0]
=============================================================================
