---------------------------- MODULE OrderPaymentData ----------------------------
(***************************************************************************)
(* The rows of core/order/models.py and core/payment/models, the requests  *)
(* in flight, and the queries the services and the policies ask of them.   *)
(***************************************************************************)
EXTENDS Integers, FiniteSets, OrderStates

CONSTANTS
    Orders, Payments, Workers, Coupons,
    MaxAttempts,       \* bound: execution attempts of one payment
    MaxCrashes,        \* bound: workers that die in the middle of a request
    CouponOf,          \* the coupon snapshot of each order, or NoCoupon
    MaxUsage,          \* CouponModel.max_limit_usage
    Moves,             \* bound: the statuses the staff gives an order
    Legacy,            \* pending payments found in the database at the start
    CanInquire,        \* does the gateway offer payment inquiry (Zarinpal: no)
    NoOrder, NoPayment, NoCoupon

Numbers == 1 .. MaxAttempts

ASSUME ConstantsAssumption ==
    /\ MaxAttempts \in Nat \ {0}
    /\ MaxCrashes \in Nat
    /\ CanInquire \in BOOLEAN
    /\ Moves \subseteq OrderStatus
    /\ NoOrder \notin Orders
    /\ NoPayment \notin Payments
    /\ NoCoupon \notin Coupons

ASSUME CouponAssumption ==
    /\ CouponOf \in [Orders -> Coupons \cup {NoCoupon}]
    /\ MaxUsage \in [Coupons -> Nat]

ASSUME LegacyAssumption ==
    /\ DOMAIN Legacy \subseteq Payments
    /\ \A p \in DOMAIN Legacy : Legacy[p] \in Orders
    /\ \A p, q \in DOMAIN Legacy : Legacy[p] = Legacy[q] => p = q

VARIABLES
    order,       \* OrderModel rows: status, and whether expire_at has passed
    payment,     \* PaymentModel rows: order, status, is_consumed
    attempt,     \* PaymentAttempt rows by payment and attempt_number
    coupon,      \* CouponModel rows: used_count, and active and not expired
    gateway,     \* what the payment gateway knows of each attempt (external)
    worker,      \* the request each worker is serving
    crashes      \* how many workers have died so far

rows == <<order, payment, attempt, coupon>>
vars == <<order, payment, attempt, coupon, gateway, worker, crashes>>

PaymentStatus == {"none", "PENDING", "SUCCESS", "FAILED"}
GatewayState == {"none", "open", "declined", "approved", "settled"}
Operation == {"start", "retry", "verify", "reconcile"}
Answer == {"none", "accepted", "rejected", "success", "failure"}

(***************************************************************************)
(* Rows and requests.                                                      *)
(***************************************************************************)
OrderRow == [status : OrderStatus, expired : BOOLEAN]
PaymentRow == [order : Orders \cup {NoOrder}, status : PaymentStatus, consumed : BOOLEAN]
AttemptRow == [status : PaymentStatus, authority : BOOLEAN]
CouponRow == [used : Nat, live : BOOLEAN]
Session == [requests : Nat, state : GatewayState, denied : BOOLEAN]
Requests == [phase : {"gateway", "persist", "consume"}, op : Operation,
             payment : Payments, number : Numbers, answer : Answer]

NoRow == [order |-> NoOrder, status |-> "none", consumed |-> FALSE]
PendingRow(o) == [order |-> o, status |-> "PENDING", consumed |-> FALSE]

NoAttempt == [status |-> "none", authority |-> FALSE]
PendingAttempt == [status |-> "PENDING", authority |-> FALSE]
FailedAttempt == [status |-> "FAILED", authority |-> FALSE]

NoSession == [requests |-> 0, state |-> "none", denied |-> FALSE]

Idle == [phase |-> "idle", op |-> "start", payment |-> NoPayment,
         number |-> 1, answer |-> "none"]
Request(op, phase, p, n) ==
    [phase |-> phase, op |-> op, payment |-> p, number |-> n, answer |-> "none"]

\* Saving a row, and what the gateway notes of a session.
SaveOrder(o, row) == order' = [order EXCEPT ![o] = row]
SavePayment(p, row) == payment' = [payment EXCEPT ![p] = row]
SaveAttempt(p, n, row) == attempt' = [attempt EXCEPT ![p][n] = row]
NoteSession(p, n, session) == gateway' = [gateway EXCEPT ![p][n] = session]

WithStatus(row, status) == [row EXCEPT !.status = status]
Asked(session) == [session EXCEPT !.requests = session.requests + 1]
Denied(session) == [session EXCEPT !.denied = TRUE]
Redeemed(row) == [row EXCEPT !.used = row.used + 1]
InState(session, state) == [session EXCEPT !.state = state]

(***************************************************************************)
(* Queries of the repositories and of the policies.                        *)
(***************************************************************************)
PaymentsOf(o, status) ==
    {p \in Payments : payment[p].order = o /\ payment[p].status = status}
AttemptsOf(p, status) == {n \in Numbers : attempt[p][n].status = status}

\* next_attempt_number: one more than the largest number used so far.
IsNextNumber(p, n) ==
    \A m \in Numbers : attempt[p][m].status # "none" <=> m < n

\* OrderStateMachine.transition refuses every other move.
MayBecome(o, status) == status \in TRANSITIONS[order[o].status]

\* OrderModel.is_payable, which is also PaymentPolicy.can_create_payment.
IsPayable(o) == order[o].status = "pending" /\ ~order[o].expired

\* What expire_pending_orders selects.
Overdue == {o \in Orders : order[o].status = "pending" /\ order[o].expired}

\* CouponModel.is_valid at checkout and the conditional UPDATE of
\* CouponService.consume look at the same three facts.
CouponUsable(c) == coupon[c].live /\ coupon[c].used < MaxUsage[c]

CouponOfAvailable(o) == CouponOf[o] # NoCoupon => CouponUsable(CouponOf[o])

IsIdle(w) == worker[w].phase = "idle"
Serves(w, op, phase) == worker[w].op = op /\ worker[w].phase = phase
Proceed(w, request) == worker' = [worker EXCEPT ![w] = request]
Begin(w, request) == IsIdle(w) /\ Proceed(w, request)
Finish(w) == Proceed(w, Idle)
Answered(w, answer) ==
    Proceed(w, [phase |-> "persist", op |-> worker[w].op, payment |-> worker[w].payment,
                number |-> worker[w].number, answer |-> answer])

\* Phase C of every service re-reads both rows under their locks.
StillPending(p, n) ==
    payment[p].status = "PENDING" /\ attempt[p][n].status = "PENDING"

Settleable(p, n) == gateway[p][n].state \in {"approved", "settled"}

\* PaymentAttempt and Payment become SUCCESS, or FAILED, in one transaction.
RecordSuccess(p, n) ==
    /\ SaveAttempt(p, n, WithStatus(attempt[p][n], "SUCCESS"))
    /\ SavePayment(p, WithStatus(payment[p], "SUCCESS"))

RecordFailure(p, n) ==
    /\ SaveAttempt(p, n, WithStatus(attempt[p][n], "FAILED"))
    /\ SavePayment(p, WithStatus(payment[p], "FAILED"))

\* What confirm_order_payment checks before it changes anything; a failing
\* check, or the coupon's, raises and rolls the whole transaction back.
CanConfirm(p) ==
    LET o == payment[p].order IN
    /\ IsPayable(o)
    /\ PaymentsOf(o, "SUCCESS") = {p}
    /\ ~payment[p].consumed
    /\ \E n \in Numbers : AttemptsOf(p, "SUCCESS") = {n}
    /\ CouponOfAvailable(o)
=============================================================================
