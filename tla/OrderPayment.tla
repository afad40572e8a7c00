---------------------------- MODULE OrderPayment ----------------------------
(***************************************************************************)
(* The payment of an order: core/payment/services and core/order/services. *)
(*                                                                         *)
(* Every service runs as a request of a web or management worker.  It      *)
(* never talks to the gateway inside a database transaction: a first       *)
(* transaction takes a snapshot (Phase A), the gateway is called with no   *)
(* lock held (Phase B), a second transaction re-reads the rows and applies *)
(* the answer (Phase C), and a third one consumes a successful payment     *)
(* (Phase D).  A transaction locks the rows it touches in the order        *)
(* Order -> Payment -> PaymentAttempt, so it is one action here; anything  *)
(* may happen between two of them, a crash of the worker included.         *)
(***************************************************************************)
EXTENDS OrderPaymentData

TypeOK ==
    /\ order \in [Orders -> OrderRow]
    /\ payment \in [Payments -> PaymentRow]
    /\ attempt \in [Payments -> [Numbers -> AttemptRow]]
    /\ coupon \in [Coupons -> CouponRow]
    /\ gateway \in [Payments -> [Numbers -> Session]]
    /\ worker \in [Workers -> Requests \cup {Idle}]
    /\ crashes \in Nat

\* A legacy row was written by "an older local path": its payment is pending
\* with no attempt, or with a first attempt that failed.
Init ==
    /\ order = [o \in Orders |->
                  [status |-> IF \E p \in DOMAIN Legacy : Legacy[p] = o
                              THEN "pending" ELSE "none",
                   expired |-> FALSE]]
    /\ payment = [p \in Payments |-> IF p \in DOMAIN Legacy
                                     THEN PendingRow(Legacy[p]) ELSE NoRow]
    /\ \E tried \in SUBSET DOMAIN Legacy :
          attempt = [p \in Payments |-> [n \in Numbers |->
                       IF p \in tried /\ n = 1 THEN FailedAttempt ELSE NoAttempt]]
    /\ coupon = [c \in Coupons |-> [used |-> 0, live |-> TRUE]]
    /\ gateway = [p \in Payments |-> [n \in Numbers |-> NoSession]]
    /\ worker = [w \in Workers |-> Idle]
    /\ crashes = 0

(***************************************************************************)
(* Plausible mistakes: each of these is one of the actions below with a    *)
(* guard, a check or an assignment changed.  No specification uses them;   *)
(* they show that every property can be broken.                            *)
(***************************************************************************)
\* The command stores the name of its event where the status belongs.
ExpireAsEventName ==
    /\ Overdue # {}
    /\ order' = [o \in Orders |-> IF o \in Overdue
                    THEN WithStatus(order[o], "expired") ELSE order[o]]
    /\ UNCHANGED <<payment, attempt, coupon, gateway, worker, crashes>>

\* Only a pending payment is looked for, not a successful unconsumed one.
StartDespiteSuccess(w, o, p) ==
    /\ IsPayable(o)
    /\ PaymentsOf(o, "PENDING") = {}
    /\ payment[p].status = "none"
    /\ SavePayment(p, PendingRow(o))
    /\ SaveAttempt(p, 1, PendingAttempt)
    /\ Begin(w, Request("start", "gateway", p, 1))
    /\ UNCHANGED <<order, coupon, gateway, crashes>>

\* A pending attempt whose initiation answer was lost is executed again.
StartExecutesAgain(w, o, p) ==
    /\ IsPayable(o)
    /\ PaymentsOf(o, "PENDING") = {p}
    /\ PaymentsOf(o, "SUCCESS") = {}
    /\ ~attempt[p][1].authority
    /\ SaveAttempt(p, 1, PendingAttempt)
    /\ Begin(w, Request("start", "gateway", p, 1))
    /\ UNCHANGED <<order, payment, coupon, gateway, crashes>>

\* A retry does not wait for the previous attempt to fail.
RetryWithoutFailure(w, o, p, n) ==
    /\ IsPayable(o)
    /\ PaymentsOf(o, "PENDING") = {p}
    /\ n > 1 /\ IsNextNumber(p, n)
    /\ SaveAttempt(p, n, PendingAttempt)
    /\ Begin(w, Request("retry", "gateway", p, n))
    /\ UNCHANGED <<order, payment, coupon, gateway, crashes>>

\* "SUCCESS is terminal" read as "there is nothing left to do".
VerifySkipsConsumption(w, p, n) ==
    /\ attempt[p][n].authority
    /\ payment[p].status = "SUCCESS" /\ attempt[p][n].status = "SUCCESS"
    /\ IsIdle(w)
    /\ UNCHANGED vars

\* A communication failure is taken for a rejection.
LossTakenForDenial(w) ==
    LET p == worker[w].payment  n == worker[w].number IN
    /\ Serves(w, "verify", "gateway")
    /\ \/ UNCHANGED gateway
       \/ /\ Settleable(p, n)
          /\ NoteSession(p, n, InState(gateway[p][n], "settled"))
    /\ Answered(w, "failure")
    /\ UNCHANGED <<rows, crashes>>

\* A denial raises before it is stored.
FailureRolledBack(w) ==
    LET p == worker[w].payment  n == worker[w].number IN
    /\ Serves(w, "verify", "persist") /\ worker[w].answer = "failure"
    /\ StillPending(p, n)
    /\ Finish(w)
    /\ UNCHANGED <<rows, gateway, crashes>>

\* A late positive inquiry is applied to the rows of its snapshot.
ReconciliationFromSnapshot(w) ==
    LET p == worker[w].payment  n == worker[w].number IN
    /\ Serves(w, "reconcile", "persist")
    /\ RecordSuccess(p, n)
    /\ Proceed(w, Request("reconcile", "consume", p, n))
    /\ UNCHANGED <<order, coupon, gateway, crashes>>

\* The coupon's counter is raised by an unconditional UPDATE.
ConsumeAnyCoupon(w) ==
    LET p == worker[w].payment  o == payment[p].order IN
    /\ worker[w].phase = "consume"
    /\ IsPayable(o)
    /\ PaymentsOf(o, "SUCCESS") = {p}
    /\ ~payment[p].consumed
    /\ SavePayment(p, [payment[p] EXCEPT !.consumed = TRUE])
    /\ SaveOrder(o, WithStatus(order[o], "paid"))
    /\ coupon' = [c \in Coupons |-> IF c = CouponOf[o]
                     THEN Redeemed(coupon[c]) ELSE coupon[c]]
    /\ Finish(w)
    /\ UNCHANGED <<attempt, gateway, crashes>>

(***************************************************************************)
(* Orders.                                                                 *)
(***************************************************************************)
\* OrderService.create_online_order: the coupon is validated, not consumed.
CreateOrder(o) ==
    /\ order[o].status = "none"
    /\ CouponOfAvailable(o)
    /\ SaveOrder(o, [status |-> "pending", expired |-> FALSE])
    /\ UNCHANGED <<payment, attempt, coupon, gateway, worker, crashes>>

\* The clock passes expire_at, which no code ever extends; it makes a difference
\* only to an order that is or may again be pending.
DeadlinePasses(o) ==
    /\ order[o].status \in {"pending", "failed"} /\ ~order[o].expired
    /\ SaveOrder(o, [order[o] EXCEPT !.expired = TRUE])
    /\ UNCHANGED <<payment, attempt, coupon, gateway, worker, crashes>>

\* The command expire_pending_orders: all overdue orders in one transaction.
ExpirePendingOrders ==
    /\ Overdue # {}
    /\ order' = [o \in Orders |-> IF o \in Overdue
                    THEN WithStatus(order[o], "cancelled") ELSE order[o]]
    /\ UNCHANGED <<payment, attempt, coupon, gateway, worker, crashes>>

\* OrderStateMachine.transition, in the hands of the staff: every legal move but
\* the one to paid, which is confirm_order_payment's alone.  No payment and no
\* coupon is touched by it, not even when a sold order is cancelled or refunded.
MoveOrder(o, status) ==
    /\ MayBecome(o, status) /\ status # "paid"
    /\ SaveOrder(o, WithStatus(order[o], status))
    /\ UNCHANGED <<payment, attempt, coupon, gateway, worker, crashes>>

\* A coupon is deactivated or its expiration_date passes.
CouponLapses(c) ==
    /\ coupon[c].live
    /\ coupon' = [coupon EXCEPT ![c].live = FALSE]
    /\ UNCHANGED <<order, payment, attempt, gateway, worker, crashes>>

(***************************************************************************)
(* PaymentService.start_payment, Phase A.  A pending attempt is never      *)
(* executed again: with an authority its URL is returned, without one the  *)
(* call is refused; neither changes a row, so they are not actions.        *)
(***************************************************************************)
StartNewPayment(w, o, p) ==
    /\ IsPayable(o)
    /\ PaymentsOf(o, "PENDING") = {}
    /\ PaymentsOf(o, "SUCCESS") = {}
    /\ payment[p].status = "none"
    /\ SavePayment(p, PendingRow(o))
    /\ SaveAttempt(p, 1, PendingAttempt)
    /\ Begin(w, Request("start", "gateway", p, 1))
    /\ UNCHANGED <<order, coupon, gateway, crashes>>

\* "Compatibility recovery for a pending Payment created by an older local
\* path": only attempt 1 passes PaymentAttempt.clean without a retry_of.
StartRecoveredPayment(w, o, p) ==
    /\ IsPayable(o)
    /\ PaymentsOf(o, "PENDING") = {p}
    /\ PaymentsOf(o, "SUCCESS") = {}
    /\ AttemptsOf(p, "PENDING") = {}
    /\ IsNextNumber(p, 1)
    /\ SaveAttempt(p, 1, PendingAttempt)
    /\ Begin(w, Request("start", "gateway", p, 1))
    /\ UNCHANGED <<order, payment, coupon, gateway, crashes>>

\* RetryPaymentService._prepare_retry: a new attempt after a failed one.
RetryPayment(w, o, p, n) ==
    /\ IsPayable(o)
    /\ PaymentsOf(o, "PENDING") = {p}
    /\ AttemptsOf(p, "PENDING") = {}
    /\ n > 1 /\ IsNextNumber(p, n)
    /\ attempt[p][n - 1].status = "FAILED"
    /\ SaveAttempt(p, n, PendingAttempt)
    /\ Begin(w, Request("retry", "gateway", p, n))
    /\ UNCHANGED <<order, payment, coupon, gateway, crashes>>

(***************************************************************************)
(* Phase B of start_payment and retry: the gateway is asked to open a      *)
(* session.  A lost answer raises, and leaves the attempt as it is.        *)
(***************************************************************************)
Initiates(w) == worker[w].op \in {"start", "retry"} /\ worker[w].phase = "gateway"

GatewayAccepts(w) ==
    LET p == worker[w].payment  n == worker[w].number IN
    /\ Initiates(w)
    /\ NoteSession(p, n, InState(Asked(gateway[p][n]), "open"))
    /\ Answered(w, "accepted")
    /\ UNCHANGED <<rows, crashes>>

GatewayRejects(w) ==
    LET p == worker[w].payment  n == worker[w].number IN
    /\ Initiates(w)
    /\ NoteSession(p, n, Denied(Asked(gateway[p][n])))
    /\ Answered(w, "rejected")
    /\ UNCHANGED <<rows, crashes>>

InitiationLost(w) ==
    LET p == worker[w].payment  n == worker[w].number IN
    /\ Initiates(w)
    /\ NoteSession(p, n, Asked(gateway[p][n]))
    /\ Finish(w)
    /\ UNCHANGED <<rows, crashes>>

(***************************************************************************)
(* Phase C of start_payment and retry.  Both insist that payment and       *)
(* attempt are still pending; a rejection of the first execution fails the *)
(* payment with its attempt, a rejected retry fails the attempt alone.     *)
(***************************************************************************)
PersistAuthority(w) ==
    LET p == worker[w].payment  n == worker[w].number IN
    /\ worker[w].phase = "persist" /\ worker[w].answer = "accepted"
    /\ StillPending(p, n)
    /\ SaveAttempt(p, n, [attempt[p][n] EXCEPT !.authority = TRUE])
    /\ Finish(w)
    /\ UNCHANGED <<order, payment, coupon, gateway, crashes>>

PersistRejection(w) ==
    LET p == worker[w].payment  n == worker[w].number IN
    /\ worker[w].phase = "persist" /\ worker[w].answer = "rejected"
    /\ StillPending(p, n)
    /\ \/ worker[w].op = "start" /\ RecordFailure(p, n)
       \/ /\ worker[w].op = "retry"
          /\ SaveAttempt(p, n, WithStatus(attempt[p][n], "FAILED"))
          /\ UNCHANGED payment
    /\ Finish(w)
    /\ UNCHANGED <<order, coupon, gateway, crashes>>

(***************************************************************************)
(* The customer at the gateway: reached through the URL of the authority.  *)
(***************************************************************************)
CustomerActs(p, n, decision) ==
    /\ attempt[p][n].authority /\ gateway[p][n].state = "open"
    /\ NoteSession(p, n, InState(gateway[p][n], decision))
    /\ UNCHANGED <<rows, worker, crashes>>

CustomerPays(p, n) == CustomerActs(p, n, "approved")
CustomerDeclines(p, n) == CustomerActs(p, n, "declined")

(***************************************************************************)
(* verify_payment, Phase A: a callback names the attempt of its authority  *)
(* and may come at any time, any number of times.  On a payment that is    *)
(* already successful the gateway is not asked again.                      *)
(***************************************************************************)
VerifyPending(w, p, n) ==
    /\ attempt[p][n].authority
    /\ StillPending(p, n)
    /\ Begin(w, Request("verify", "gateway", p, n))
    /\ UNCHANGED <<rows, gateway, crashes>>

VerifySuccessful(w, p, n) ==
    /\ attempt[p][n].authority
    /\ payment[p].status = "SUCCESS" /\ attempt[p][n].status = "SUCCESS"
    /\ Begin(w, Request("verify", "consume", p, n))
    /\ UNCHANGED <<rows, gateway, crashes>>

\* Phase B: verifying an approved session is what settles it; the gateway
\* answers a settled one with success again (codes 100 and 101).
GatewayConfirms(w) ==
    LET p == worker[w].payment  n == worker[w].number IN
    /\ Serves(w, "verify", "gateway") /\ Settleable(p, n)
    /\ NoteSession(p, n, InState(gateway[p][n], "settled"))
    /\ Answered(w, "success")
    /\ UNCHANGED <<rows, crashes>>

GatewayDenies(w) ==
    LET p == worker[w].payment  n == worker[w].number IN
    /\ Serves(w, "verify", "gateway") /\ ~Settleable(p, n)
    /\ NoteSession(p, n, Denied(gateway[p][n]))
    /\ Answered(w, "failure")
    /\ UNCHANGED <<rows, crashes>>

\* The request or the answer is lost: PaymentGatewayError, nothing is stored.
VerificationLost(w) ==
    LET p == worker[w].payment  n == worker[w].number IN
    /\ Serves(w, "verify", "gateway")
    /\ \/ UNCHANGED gateway
       \/ /\ Settleable(p, n)
          /\ NoteSession(p, n, InState(gateway[p][n], "settled"))
    /\ Finish(w)
    /\ UNCHANGED <<rows, crashes>>

(***************************************************************************)
(* verify_payment, Phase C.                                                *)
(***************************************************************************)
PersistSuccess(w) ==
    LET p == worker[w].payment  n == worker[w].number IN
    /\ Serves(w, "verify", "persist") /\ worker[w].answer = "success"
    /\ StillPending(p, n)
    /\ RecordSuccess(p, n)
    /\ Proceed(w, Request("verify", "consume", p, n))
    /\ UNCHANGED <<order, coupon, gateway, crashes>>

PersistFailure(w) ==
    LET p == worker[w].payment  n == worker[w].number IN
    /\ Serves(w, "verify", "persist") /\ worker[w].answer = "failure"
    /\ StillPending(p, n)
    /\ RecordFailure(p, n)
    /\ Finish(w)
    /\ UNCHANGED <<order, coupon, gateway, crashes>>

\* Another verifier was faster and the evidence agrees: on to consumption.
PersistDuplicate(w) ==
    LET p == worker[w].payment  n == worker[w].number IN
    /\ Serves(w, "verify", "persist") /\ worker[w].answer = "success"
    /\ payment[p].status = "SUCCESS" /\ attempt[p][n].status = "SUCCESS"
    /\ Proceed(w, Request("verify", "consume", p, n))
    /\ UNCHANGED <<rows, gateway, crashes>>

\* PaymentInvariantViolation in Phase C, of this and of the other services:
\* the payment or the attempt changed while the gateway was being asked.
PersistRefused(w) ==
    LET p == worker[w].payment  n == worker[w].number IN
    /\ worker[w].phase = "persist"
    /\ ~StillPending(p, n)
    /\ ~(Serves(w, "verify", "persist") /\ worker[w].answer = "success"
         /\ payment[p].status = "SUCCESS" /\ attempt[p][n].status = "SUCCESS")
    /\ Finish(w)
    /\ UNCHANGED <<rows, gateway, crashes>>

(***************************************************************************)
(* PaymentReconciliationService.reconcile_payment: the gateway is asked    *)
(* what became of a session whose authority is known.  Only "it was paid"  *)
(* changes anything; every other answer leaves the payment pending.        *)
(***************************************************************************)
ReconcilePending(w, p, n) ==
    /\ StillPending(p, n)
    /\ attempt[p][n].authority
    /\ Begin(w, Request("reconcile", "gateway", p, n))
    /\ UNCHANGED <<rows, gateway, crashes>>

InquiryConfirms(w) ==
    LET p == worker[w].payment  n == worker[w].number IN
    /\ Serves(w, "reconcile", "gateway")
    /\ CanInquire /\ gateway[p][n].state = "settled"
    /\ Answered(w, "success")
    /\ UNCHANGED <<rows, gateway, crashes>>

InquiryInconclusive(w) ==
    /\ Serves(w, "reconcile", "gateway")
    /\ Finish(w)
    /\ UNCHANGED <<rows, gateway, crashes>>

PersistReconciliation(w) ==
    LET p == worker[w].payment  n == worker[w].number IN
    /\ Serves(w, "reconcile", "persist")
    /\ StillPending(p, n)
    /\ RecordSuccess(p, n)
    /\ Proceed(w, Request("reconcile", "consume", p, n))
    /\ UNCHANGED <<order, coupon, gateway, crashes>>

(***************************************************************************)
(* Phase D: confirm_order_payment, one transaction over the order, its     *)
(* payment, the attempt and the coupon.  Any failing check rolls all back. *)
(***************************************************************************)
Consume(w) ==
    LET p == worker[w].payment  o == payment[p].order IN
    /\ worker[w].phase = "consume"
    /\ CanConfirm(p)
    /\ SavePayment(p, [payment[p] EXCEPT !.consumed = TRUE])
    /\ SaveOrder(o, WithStatus(order[o], "paid"))
    /\ coupon' = [c \in Coupons |-> IF c = CouponOf[o]
                     THEN Redeemed(coupon[c]) ELSE coupon[c]]
    /\ Finish(w)
    /\ UNCHANGED <<attempt, gateway, crashes>>

\* Already consumed (the call is idempotent), or refused: the order expired
\* or was cancelled, the coupon is gone.  The request ends, no row changes.
ConsumeRefused(w) ==
    /\ worker[w].phase = "consume"
    /\ ~CanConfirm(worker[w].payment)
    /\ Finish(w)
    /\ UNCHANGED <<rows, gateway, crashes>>

\* A worker dies between two transactions, or loses its database connection.
Crash(w) ==
    /\ ~IsIdle(w)
    /\ crashes < MaxCrashes
    /\ crashes' = crashes + 1
    /\ Finish(w)
    /\ UNCHANGED <<rows, gateway>>

(***************************************************************************)
(* The specification.                                                      *)
(***************************************************************************)
OrderStep ==
    \/ \E o \in Orders :
          \/ CreateOrder(o) \/ DeadlinePasses(o)
          \/ \E status \in Moves : MoveOrder(o, status)
    \/ ExpirePendingOrders
    \/ \E c \in Coupons : CouponLapses(c)

RequestArrives(w) ==
    \/ \E o \in Orders, p \in Payments :
          \/ StartNewPayment(w, o, p)
          \/ StartRecoveredPayment(w, o, p)
          \/ \E n \in Numbers : RetryPayment(w, o, p, n)
    \/ \E p \in Payments, n \in Numbers :
          \/ VerifyPending(w, p, n)
          \/ VerifySuccessful(w, p, n)
          \/ ReconcilePending(w, p, n)

GatewayAnswers(w) ==
    \/ GatewayAccepts(w) \/ GatewayRejects(w) \/ InitiationLost(w)
    \/ GatewayConfirms(w) \/ GatewayDenies(w) \/ VerificationLost(w)
    \/ InquiryConfirms(w) \/ InquiryInconclusive(w)

AnswerPersisted(w) ==
    \/ PersistAuthority(w) \/ PersistRejection(w)
    \/ PersistSuccess(w) \/ PersistFailure(w) \/ PersistDuplicate(w)
    \/ PersistReconciliation(w) \/ PersistRefused(w)

PaymentConsumed(w) == Consume(w) \/ ConsumeRefused(w)

Next ==
    \/ OrderStep
    \/ \E w \in Workers :
          RequestArrives(w) \/ GatewayAnswers(w) \/ AnswerPersisted(w)
          \/ PaymentConsumed(w) \/ Crash(w)
    \/ \E p \in Payments, n \in Numbers : CustomerPays(p, n) \/ CustomerDeclines(p, n)

Spec == Init /\ [][Next]_vars

\* A worker that has begun a request goes on to its end, unless it dies.
FairSpec ==
    /\ Spec
    /\ \A w \in Workers :
          WF_vars(GatewayAnswers(w) \/ AnswerPersisted(w) \/ PaymentConsumed(w))

\* The environment at its best: the gateway repeats a callback as long as it
\* changes something, reconciliation is tried again and again, and a gateway
\* that is asked again and again gives a definite answer in the end.
RepeatedSpec ==
    /\ FairSpec
    /\ \A p \in Payments, n \in Numbers :
          /\ SF_vars(\E w \in Workers : VerifyPending(w, p, n))
          /\ SF_vars(\E w \in Workers : VerifySuccessful(w, p, n))
          /\ SF_vars(\E w \in Workers : ReconcilePending(w, p, n))
    /\ \A w \in Workers : SF_vars(GatewayConfirms(w) \/ GatewayDenies(w)
                                   \/ InquiryConfirms(w))

(***************************************************************************)
(* Safety.                                                                 *)
(***************************************************************************)
\* start_payment refuses an order with a pending or a successful payment, so
\* however callbacks, crashes and checkouts interleave, no order ever has two
\* payments that are or may become charged.
OneActivePayment ==
    \A o \in Orders, p, q \in Payments :
        {p, q} \subseteq PaymentsOf(o, "PENDING") \cup PaymentsOf(o, "SUCCESS")
            => p = q

\* A payment and its attempts tell one story although they are written by
\* different requests: a successful payment has exactly one successful
\* attempt and none under way, a pending one has none successful and at most
\* one under way, a failed one has neither.
ExecutionAgreement ==
    \A p \in Payments :
        LET pending == AttemptsOf(p, "PENDING")
            success == AttemptsOf(p, "SUCCESS")
        IN  /\ payment[p].status = "SUCCESS" =>
                  pending = {} /\ \E n \in Numbers : success = {n}
            /\ payment[p].status = "PENDING" =>
                  success = {} /\ \A m, n \in pending : m = n
            /\ payment[p].status \in {"none", "FAILED"} =>
                  pending = {} /\ success = {}

\* No payment is recorded as successful that the gateway has not settled,
\* whichever of verify_payment and reconcile_payment recorded it.
SuccessIsSettled ==
    \A p \in Payments, n \in Numbers :
        attempt[p][n].status = "SUCCESS" => gateway[p][n].state = "settled"

\* "Unknown gateway outcomes never become confirmed failures": behind every
\* failed execution there is an explicit no of the gateway (legacy rows, which
\* were written by other code, were never sent to it).
FailureIsEvidenced ==
    \A p \in Payments, n \in Numbers :
        attempt[p][n].status = "FAILED" =>
            \/ gateway[p][n].denied
            \/ p \in DOMAIN Legacy /\ gateway[p][n].requests = 0

\* What the rows say of an execution is what the gateway said of it, yes or no,
\* however late the answer met the rows and whichever request brought it.
OutcomesHaveEvidence == SuccessIsSettled /\ FailureIsEvidenced

\* An attempt is one gateway execution: its initiation is sent at most once,
\* whatever answers are lost and whichever worker dies.
OneInitiation ==
    \A p \in Payments, n \in Numbers : gateway[p][n].requests <= 1

\* The order has been sold: one of its payments was consumed for it.
Sold(o) == \E p \in Payments : payment[p].order = o /\ payment[p].consumed

\* Order and payment are consumed together: no order goes through the paid part
\* of its life without a successful payment consumed for it, and a consumed
\* payment never stands beside an order that may still be paid (only a sold
\* order that was cancelled while it was processed has left that part again).
PaidOrderBacked ==
    /\ \A o \in Orders : order[o].status \in PaidLike => Sold(o)
    /\ \A p \in Payments : payment[p].consumed =>
          /\ payment[p].status = "SUCCESS"
          /\ payment[p].order \in Orders
          /\ order[payment[p].order].status \in PaidLike \cup {"cancelled"}

\* The customer's money: a second settled session of one order is possible
\* only after the gateway said no to all but one of them (a callback verified
\* before the customer has paid fails the payment and opens the way to the
\* next); lost answers, crashes and retries alone never charge twice.
ChargedOncePerOrder ==
    \A p, q \in Payments, m, n \in Numbers :
        LET settled(r, k) == gateway[r][k].state = "settled" /\ ~gateway[r][k].denied
        IN  /\ payment[p].order = payment[q].order
            /\ settled(p, m) /\ settled(q, n)
            => p = q /\ m = n

\* A coupon is counted once for every sold order that carries it, also when the
\* order has been refunded or cancelled since (nothing ever takes a use back), and
\* its limit holds although it is checked at checkout and consumed much later.
CouponAccounting ==
    \A c \in Coupons :
        /\ coupon[c].used = Cardinality({o \in Orders : CouponOf[o] = c /\ Sold(o)})
        /\ coupon[c].used <= MaxUsage[c]

\* The three aggregates that confirm_order_payment writes agree: what was sold was
\* consumed for it and counted, and nothing else was.
PaidOrdersAccounted == PaidOrderBacked /\ CouponAccounting

\* What cannot be taken back, whatever answers arrive late and whatever becomes
\* of the order: a payment or an attempt that succeeded or failed never changes
\* its status, a consumed payment stays consumed, an order that has been paid is
\* never up for payment again, neither is a cancelled one, and the authority of
\* an attempt is never withdrawn.
TerminalKept ==
    /\ \A o \in Orders :
          /\ order[o].status \in PaidLike => order'[o].status \in PaidLike \cup {"cancelled"}
          /\ order[o].status = "cancelled" => order'[o].status = "cancelled"
    /\ \A p \in Payments :
          /\ payment[p].status \in {"SUCCESS", "FAILED"} =>
                payment'[p].status = payment[p].status
          /\ payment[p].consumed => payment'[p].consumed
          /\ \A n \in Numbers :
                /\ attempt[p][n].status \in {"SUCCESS", "FAILED"} =>
                      attempt'[p][n].status = attempt[p][n].status
                /\ attempt[p][n].authority => attempt'[p][n].authority

TerminalIsFinal == [][TerminalKept]_vars

\* confirm_order_payment on a payment that is consumed already: "idempotently
\* complete only when the Order is already PAID too.  Any other combination is a
\* broken cross-aggregate invariant".  A repeated callback after the order has
\* moved on to processing meets such a combination and is refused.
ConsumedIsPaid ==
    \A p \in Payments : payment[p].consumed => order[payment[p].order].status = "paid"

(***************************************************************************)
(* Why it works: what is true of rows, sessions and requests at any time.  *)
(***************************************************************************)
\* A payment belongs to an order that exists; one not created has no attempt.
RowsLinked ==
    \A p \in Payments :
        /\ payment[p].status # "none" =>
              payment[p].order \in Orders /\ order[payment[p].order].status # "none"
        /\ payment[p].status = "none" => \A n \in Numbers : attempt[p][n].status = "none"

\* The gateway knows only of attempts that exist and that it was asked about.
SessionsLinked ==
    \A p \in Payments, n \in Numbers :
        /\ attempt[p][n].status = "none" =>
              attempt[p][n] = NoAttempt /\ gateway[p][n] = NoSession
        /\ gateway[p][n].requests = 0 => gateway[p][n].state = "none"

\* While an initiation is under way nobody else works on its attempt, which
\* is unknown to the outside; a verification works on a known authority; and
\* an answer on its way to the rows is what the gateway said.
CoherentRequest(w) ==
    LET p == worker[w].payment  n == worker[w].number IN
    /\ worker[w].op \in {"start", "retry"} =>
          /\ worker[w].phase # "consume"
          /\ attempt[p][n] = PendingAttempt
          /\ worker[w].phase = "gateway" => gateway[p][n] = NoSession
          /\ \A v \in Workers :
                ~IsIdle(v) /\ worker[v].payment = p /\ worker[v].number = n => v = w
    /\ worker[w].op \in {"verify", "reconcile"} => attempt[p][n].authority
    /\ worker[w].phase = "persist" =>
          /\ worker[w].op \in {"start", "retry"} =>
                worker[w].answer \in {"accepted", "rejected"}
          /\ worker[w].op = "verify" => worker[w].answer \in {"success", "failure"}
          /\ worker[w].op = "reconcile" => worker[w].answer = "success"
          /\ worker[w].answer = "success" => gateway[p][n].state = "settled"
          /\ worker[w].answer \in {"failure", "rejected"} => gateway[p][n].denied

RequestsCoherent == \A w \in Workers : ~IsIdle(w) => CoherentRequest(w)

\* Inductive: every conjunct holds after a step because all hold before it.
PaymentInvariant ==
    /\ TypeOK
    /\ RowsLinked
    /\ SessionsLinked
    /\ RequestsCoherent
    /\ OneActivePayment
    /\ ExecutionAgreement
    /\ SuccessIsSettled
    /\ FailureIsEvidenced
    /\ OneInitiation
    /\ PaidOrderBacked

(***************************************************************************)
(* The services implement the promise of Sale: rows, workers, gateway and  *)
(* crashes are hidden, what is left is the sale, the payments that charge  *)
(* its order and the use of its coupon.                                    *)
(***************************************************************************)
Stage == [status \in OrderStatus |->
    CASE status = "none"      -> "absent"
      [] status = "pending"   -> "open"
      [] status = "failed"    -> "held"
      [] status = "cancelled" -> "closed"
      [] status = "refunded"  -> "undone"
      [] OTHER                -> "sold"]

SaleStatus(o) ==
    IF order[o].status = "cancelled" /\ Sold(o) THEN "undone" ELSE Stage[order[o].status]

Promise == INSTANCE Sale WITH
    sale     <- [o \in Orders |-> SaleStatus(o)],
    charges  <- [o \in Orders |-> PaymentsOf(o, "SUCCESS")],
    redeemed <- [c \in Coupons |-> coupon[c].used]

\* Every step of the services is a step of Sale or invisible to it; an order
\* is never charged by two payments, nor paid without a charge or a coupon.
ImplementsSale == Promise!Spec

(***************************************************************************)
(* Liveness.                                                               *)
(***************************************************************************)
\* What lets confirm_order_payment refuse a successful payment for good.
NoLongerConfirmable(o) == ~IsPayable(o) \/ ~CouponOfAvailable(o)

\* A recorded success is consumed, or its order can no longer take it: the
\* money of a customer is never simply forgotten between Phase C and Phase D.
ChargedIsConsumed ==
    \A p \in Payments, o \in Orders :
        payment[p].status = "SUCCESS" /\ payment[p].order = o
            ~> payment[p].consumed \/ NoLongerConfirmable(o)

\* An execution whose authority is stored is decided in the end.
AuthorityIsResolved ==
    \A p \in Payments, n \in Numbers :
        attempt[p][n].authority ~> attempt[p][n].status # "PENDING"

\* start_payment on an initiation with no usable answer: "Reconciliation can
\* safely resolve that attempt later."
EveryAttemptIsResolved ==
    \A p \in Payments, n \in Numbers :
        attempt[p][n].status = "PENDING" ~>
            attempt[p][n].authority \/ attempt[p][n].status # "PENDING"
=============================================================================
