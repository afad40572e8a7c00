---------------------------- MODULE RefundLedger ----------------------------
(***************************************************************************)
(* What the refund services promise about money, with no worker, no lock   *)
(* and no answer in sight: every refund first takes its part of the        *)
(* payment aside, and then that part is either paid out by the gateway or  *)
(* given back to the balance, once and for all.                            *)
(***************************************************************************)
EXTENDS Sums

CONSTANTS Payments, Keys, Amount, NoPayment

VARIABLES
    entry,    \* per refund: its payment, its amount and what became of it
    full      \* payments known to be refunded in full

vars == <<entry, full>>

Blank == [payment |-> NoPayment, amount |-> 0, state |-> "none"]

EntriesOf(p, states) == {k \in Keys : entry[k].payment = p /\ entry[k].state \in states}
Total(keys) == SumOver([k \in Keys |-> entry[k].amount], keys)
Available(p) == Amount[p] - Total(EntriesOf(p, {"held", "paid"}))

Init ==
    /\ entry = [k \in Keys |-> Blank]
    /\ full = {}

Hold(p, k, a) ==
    /\ entry[k].state = "none"
    /\ p \notin full
    /\ a > 0 /\ a <= Available(p)
    /\ entry' = [entry EXCEPT ![k] = [payment |-> p, amount |-> a, state |-> "held"]]
    /\ UNCHANGED full

Decide(k, state) ==
    /\ entry[k].state = "held"
    /\ entry' = [entry EXCEPT ![k] = [payment |-> entry[k].payment,
                                      amount |-> entry[k].amount, state |-> state]]
    /\ UNCHANGED full

\* The payment is marked refunded once all of it has been paid out.
Complete(p) ==
    /\ p \notin full
    /\ Total(EntriesOf(p, {"paid"})) = Amount[p]
    /\ full' = full \cup {p}
    /\ UNCHANGED entry

Next ==
    \/ \E p \in Payments, k \in Keys : \E a \in 1 .. Amount[p] : Hold(p, k, a)
    \/ \E k \in Keys : Decide(k, "paid") \/ Decide(k, "released")
    \/ \E p \in Payments : Complete(p)

Spec == Init /\ [][Next]_vars
=============================================================================
