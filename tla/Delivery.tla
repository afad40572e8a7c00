------------------------------ MODULE Delivery ------------------------------
(***************************************************************************)
(* What the outbox promises, with no batch, no lock and no retry in sight: *)
(* an event that was committed is owed to its handlers, it counts as       *)
(* delivered only after each of them has had it, and the decision to stop  *)
(* trying, either way, is taken once.                                      *)
(***************************************************************************)
EXTENDS Naturals

CONSTANTS Events, Handlers

VARIABLES
    outcome,    \* "none", "owed", "delivered" or "abandoned"
    told        \* which of its handlers have had the event at least once

vars == <<outcome, told>>

Init ==
    /\ outcome = [e \in Events |-> "none"]
    /\ told = [e \in Events |-> {}]

Owe(e) ==
    /\ outcome[e] = "none"
    /\ outcome' = [outcome EXCEPT ![e] = "owed"]
    /\ UNCHANGED told

Tell(e, i) ==
    /\ outcome[e] = "owed"
    /\ told' = [told EXCEPT ![e] = told[e] \cup {i}]
    /\ UNCHANGED outcome

\* A batch settles its events together.
Settle(delivered, abandoned) ==
    /\ \A e \in delivered \cup abandoned : outcome[e] = "owed"
    /\ \A e \in delivered : 1 .. Handlers[e] \subseteq told[e]
    /\ outcome' = [e \in Events |-> IF e \in delivered THEN "delivered"
                                    ELSE IF e \in abandoned THEN "abandoned"
                                    ELSE outcome[e]]
    /\ UNCHANGED told

Next ==
    \/ \E e \in Events : Owe(e) \/ \E i \in 1 .. Handlers[e] : Tell(e, i)
    \/ \E delivered, abandoned \in SUBSET Events : Settle(delivered, abandoned)

Spec == Init /\ [][Next]_vars
=============================================================================
