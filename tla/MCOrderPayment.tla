--------------------------- MODULE MCOrderPayment ---------------------------
(***************************************************************************)
(* Small instances of OrderPayment for TLC.                                *)
(***************************************************************************)
EXTENDS OrderPayment, TLC

CONSTANTS p1, o1, c1

NoCouponOrders == [o \in Orders |-> NoCoupon]
NoLimits == [c \in Coupons |-> 0]

\* Every order carries the one coupon, and the coupon may be used once.
SharedCoupon == [o \in Orders |-> c1]
OneUse == [c \in Coupons |-> 1]

NoLegacy == [p \in {} |-> o1]
OneLegacy == [p \in {p1} |-> o1]

WorkerSymmetry == Permutations(Workers)
=============================================================================
