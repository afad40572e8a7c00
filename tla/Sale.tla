-------------------------------- MODULE Sale --------------------------------
(***************************************************************************)
(* What is promised about an order, with no worker, gateway or database    *)
(* row in sight: an order is opened, may be held and opened again, and is  *)
(* sold or closed.  It is charged by at most one payment, ever.  It is     *)
(* sold only as a charged, open order, once, and in the same step its      *)
(* coupon is redeemed within the coupon's limit.  A sale may be undone     *)
(* afterwards (the order refunded, or cancelled while it is processed):    *)
(* neither the charge nor the use of the coupon is taken back by that, and *)
(* the order is never sold again.  A charge that finds the order closed    *)
(* stays on the books.  OrderPayment implements it.                        *)
(***************************************************************************)
EXTENDS Integers

CONSTANTS Orders, Payments, Coupons, CouponOf, MaxUsage

VARIABLES
    sale,        \* absent, open, held, sold, undone or closed
    charges,     \* the payments that have charged the order
    redeemed     \* how often each coupon has been redeemed

vars == <<sale, charges, redeemed>>

Init ==
    /\ sale \in [Orders -> {"absent", "open"}]
    /\ charges = [o \in Orders |-> {}]
    /\ redeemed = [c \in Coupons |-> 0]

Becomes(o, from, to) ==
    /\ sale[o] = from
    /\ sale' = [sale EXCEPT ![o] = to]
    /\ UNCHANGED <<charges, redeemed>>

Open(o) == Becomes(o, "absent", "open")
Hold(o) == Becomes(o, "open", "held")
Resume(o) == Becomes(o, "held", "open")
Undo(o) == Becomes(o, "sold", "undone")

\* The customer may still pay at the gateway while the order is being closed.
Charge(o, p) ==
    /\ sale[o] # "absent"
    /\ charges[o] = {}
    /\ charges' = [charges EXCEPT ![o] = {p}]
    /\ UNCHANGED <<sale, redeemed>>

Fulfil(o) ==
    /\ sale[o] = "open"
    /\ charges[o] # {}
    /\ CouponOf[o] \in Coupons => redeemed[CouponOf[o]] < MaxUsage[CouponOf[o]]
    /\ sale' = [sale EXCEPT ![o] = "sold"]
    /\ redeemed' = [c \in Coupons |-> IF c = CouponOf[o]
                      THEN redeemed[c] + 1 ELSE redeemed[c]]
    /\ UNCHANGED charges

\* Orders are closed one by one, or all overdue ones at once.
Close(closing) ==
    /\ \A o \in closing : sale[o] \in {"open", "held"}
    /\ sale' = [o \in Orders |-> IF o \in closing THEN "closed" ELSE sale[o]]
    /\ UNCHANGED <<charges, redeemed>>

Next ==
    \/ \E closing \in SUBSET Orders : Close(closing)
    \/ \E o \in Orders :
          \/ Open(o) \/ Hold(o) \/ Resume(o) \/ Fulfil(o) \/ Undo(o)
          \/ \E p \in Payments : Charge(o, p)

Spec == Init /\ [][Next]_vars
=============================================================================
