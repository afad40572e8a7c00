----------------------------- MODULE OrderStates -----------------------------
(***************************************************************************)
(* The life of an order: OrderStateMachine.TRANSITIONS of                  *)
(* core/order/services/state_machine.py.  "none" is an order that has not  *)
(* been created yet.                                                       *)
(***************************************************************************)

TRANSITIONS ==
    [none             |-> {},
     pending          |-> {"paid", "failed", "cancelled"},
     failed           |-> {"pending", "cancelled"},
     paid             |-> {"processing", "refunded"},
     processing       |-> {"shipped", "cancelled"},
     shipped          |-> {"delivered", "return_requested"},
     return_requested |-> {"returned"},
     returned         |-> {"refunded"},
     delivered        |-> {},
     cancelled        |-> {},
     refunded         |-> {}]

OrderStatus == DOMAIN TRANSITIONS

\* OrderModel.is_paid: the sale has been made, whatever has become of it since.
PaidLike == {"paid", "processing", "shipped", "delivered",
             "return_requested", "returned", "refunded"}
=============================================================================
