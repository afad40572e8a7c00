------------------------------- MODULE Refund -------------------------------
(***************************************************************************)
(* Refunds of a payment: core/payment/services/refund.py.                  *)
(*                                                                         *)
(* A refund is reserved and committed (Phase A), the gateway is asked with *)
(* no lock held (Phase B), and its answer is applied to the row as it is   *)
(* by then (Phase C).  Every transaction locks the Order, the Payment and  *)
(* the Refund, so each is one action.  A row is identified by its          *)
(* idempotency key, which is unique in the whole table.                    *)
(***************************************************************************)
EXTENDS Sums

CONSTANTS
    Payments, Keys, Workers,
    Amount,            \* the amount of each payment
    Identities,        \* what a gateway may use to identify a refund
    IdentityOf,        \* the identity the gateway gives to each refund
    NoPayment, NoKey

ASSUME RefundAssumption ==
    /\ Amount \in [Payments -> Nat \ {0}]
    /\ IdentityOf \in [Keys -> Identities]
    /\ NoPayment \notin Payments /\ NoKey \notin Keys
    /\ IsFiniteSet(Keys)

VARIABLES
    order,       \* per payment: how far its order has come
    payment,     \* PaymentModel rows: is_consumed and is_refunded
    refund,      \* Refund rows by idempotency key
    gateway,     \* what the gateway knows of each refund (external)
    worker       \* the request each worker is serving

rows == <<order, payment, refund>>
vars == <<order, payment, refund, gateway, worker>>

\* "processing" stands for every status from processing on that allows no refund:
\* shipped, delivered, return_requested and cancelled as well.
OrderStatus == {"pending", "paid", "processing", "returned"}
RefundStatus == {"none", "PENDING", "SUCCESS", "FAILED"}
GatewayState == {"none", "received", "executed", "declined"}
Phase == {"idle", "measured", "gateway", "inquiry", "persist"}
Answer == {"none", "success", "failure", "unknown"}

PaymentRow == [consumed : BOOLEAN, refunded : BOOLEAN]
RefundRow == [payment : Payments \cup {NoPayment}, amount : Nat,
              status : RefundStatus, noted : BOOLEAN]
Execution == [asked : Nat, state : GatewayState]
Job == [phase : Phase, payment : Payments \cup {NoPayment}, amount : Nat,
        key : Keys \cup {NoKey}, answer : Answer]

NoRefund == [payment |-> NoPayment, amount |-> 0, status |-> "none", noted |-> FALSE]
Reservation(p, a) == [payment |-> p, amount |-> a, status |-> "PENDING", noted |-> FALSE]
Idle == [phase |-> "idle", payment |-> NoPayment, amount |-> 0, key |-> NoKey,
         answer |-> "none"]
NewJob(phase, p, a, k) ==
    [phase |-> phase, payment |-> p, amount |-> a, key |-> k, answer |-> "none"]

WithStatus(row, status) ==
    [payment |-> row.payment, amount |-> row.amount, status |-> status, noted |-> row.noted]
Noted(row) ==
    [payment |-> row.payment, amount |-> row.amount, status |-> row.status, noted |-> TRUE]

TypeOK ==
    /\ order \in [Payments -> OrderStatus]
    /\ payment \in [Payments -> PaymentRow]
    /\ refund \in [Keys -> RefundRow]
    /\ gateway \in [Keys -> Execution]
    /\ worker \in [Workers -> Job]

Init ==
    /\ order = [p \in Payments |-> "pending"]
    /\ payment = [p \in Payments |-> [consumed |-> FALSE, refunded |-> FALSE]]
    /\ refund = [k \in Keys |-> NoRefund]
    /\ gateway = [k \in Keys |-> [asked |-> 0, state |-> "none"]]
    /\ worker = [w \in Workers |-> Idle]

(***************************************************************************)
(* Queries of the repository and of the policies.                          *)
(***************************************************************************)
RefundsOf(p, statuses) ==
    {k \in Keys : refund[k].payment = p /\ refund[k].status \in statuses}
Total(keys) == SumOver([k \in Keys |-> refund[k].amount], keys)

ReservedAmount(p) == Total(RefundsOf(p, {"PENDING", "SUCCESS"}))
SuccessfulAmount(p) == Total(RefundsOf(p, {"SUCCESS"}))

Balance(p) == Amount[p] - ReservedAmount(p)

\* OrderPolicy.can_refund and PaymentPolicy.can_refund.
OrderRefundable(p) == order[p] \in {"paid", "returned"}
PaymentRefundable(p) == payment[p].consumed /\ ~payment[p].refunded

\* Phase A of RefundService.refund, up to the creation of the row.
CanReserve(p, a, k) ==
    /\ OrderRefundable(p)
    /\ refund[k].status = "none"
    /\ PaymentRefundable(p)
    /\ a > 0 /\ a <= Balance(p)

\* Only a pending refund may change, whatever the answer.
StillPending(k) == refund[k].status = "PENDING"

\* _sync_payment_refund_state: the flag follows the sum, up or down.
Synchronised(p, successful) ==
    [consumed |-> payment[p].consumed, refunded |-> successful = Amount[p]]

IsIdle(w) == worker[w].phase = "idle"
Proceed(w, job) == worker' = [worker EXCEPT ![w] = job]
Finish(w) == Proceed(w, Idle)
Answered(w, answer) ==
    Proceed(w, [phase |-> "persist", payment |-> worker[w].payment,
                amount |-> worker[w].amount, key |-> worker[w].key, answer |-> answer])
SaveRefund(k, row) == refund' = [refund EXCEPT ![k] = row]
SaveExecution(k, n, state) == gateway' = [gateway EXCEPT ![k] = [asked |-> n, state |-> state]]

\* No other refund of the payment holds the identity the gateway gave this one.
IdentityIsFree(k) ==
    \A j \in RefundsOf(refund[k].payment, {"SUCCESS"}) : j # k => IdentityOf[j] # IdentityOf[k]

(***************************************************************************)
(* Plausible mistakes, used by no specification: each shows that a         *)
(* property can be broken.                                                 *)
(***************************************************************************)
\* The amount measured by refund_order is trusted by the second transaction.
ReserveAsMeasured(w) ==
    LET p == worker[w].payment  a == worker[w].amount  k == worker[w].key IN
    /\ worker[w].phase = "measured"
    /\ OrderRefundable(p) /\ refund[k].status = "none" /\ payment[p].consumed
    /\ SaveRefund(k, Reservation(p, a))
    /\ Proceed(w, NewJob("gateway", p, a, k))
    /\ UNCHANGED <<order, payment, gateway>>

\* Only successful refunds count against the balance.
RequestAgainstSuccesses(w, p, a, k) ==
    /\ IsIdle(w)
    /\ OrderRefundable(p) /\ refund[k].status = "none"
    /\ PaymentRefundable(p)
    /\ a > 0 /\ a <= Amount[p] - SuccessfulAmount(p)
    /\ SaveRefund(k, Reservation(p, a))
    /\ Proceed(w, NewJob("gateway", p, a, k))
    /\ UNCHANGED <<order, payment, gateway>>

\* A lost answer is taken for a rejection.
RefundUnansweredFails(w) ==
    LET k == worker[w].key IN
    /\ worker[w].phase = "gateway"
    /\ \E state \in GatewayState : SaveExecution(k, gateway[k].asked + 1, state)
    /\ Answered(w, "failure")
    /\ UNCHANGED rows

\* Inconclusive evidence becomes a status of its own.
PersistUnknownAsStatus(w) ==
    LET k == worker[w].key IN
    /\ worker[w].phase = "persist" /\ worker[w].answer = "unknown"
    /\ StillPending(k)
    /\ SaveRefund(k, WithStatus(refund[k], "UNKNOWN"))
    /\ Finish(w)
    /\ UNCHANGED <<order, payment, gateway>>

(***************************************************************************)
(* The order moves on while refunds are under way.                         *)
(***************************************************************************)
\* Paying the order consumes its payment; it is shipped, and may come back.
OrderAdvances(p) ==
    \/ /\ order[p] = "pending"
       /\ order' = [order EXCEPT ![p] = "paid"]
       /\ payment' = [payment EXCEPT ![p] = [consumed |-> TRUE, refunded |-> payment[p].refunded]]
       /\ UNCHANGED <<refund, gateway, worker>>
    \/ /\ order[p] = "paid"
       /\ order' = [order EXCEPT ![p] = "processing"]
       /\ UNCHANGED <<payment, refund, gateway, worker>>
    \/ /\ order[p] = "processing"
       /\ order' = [order EXCEPT ![p] = "returned"]
       /\ UNCHANGED <<payment, refund, gateway, worker>>

(***************************************************************************)
(* Phase A.  A request with the key of an existing refund returns that     *)
(* row, or raises, and changes nothing: it is no step here.                *)
(***************************************************************************)
RequestRefund(w, p, a, k) ==
    /\ IsIdle(w)
    /\ CanReserve(p, a, k)
    /\ SaveRefund(k, Reservation(p, a))
    /\ Proceed(w, NewJob("gateway", p, a, k))
    /\ UNCHANGED <<order, payment, gateway>>

\* refund_order reads the whole balance under the locks and gives them up ...
MeasureBalance(w, p, k) ==
    /\ IsIdle(w)
    /\ OrderRefundable(p)
    /\ refund[k].status = "none"
    /\ Balance(p) > 0
    /\ Proceed(w, NewJob("measured", p, Balance(p), k))
    /\ UNCHANGED <<rows, gateway>>

\* ... before refund takes them again, with the amount that was read.
ReserveMeasured(w) ==
    LET p == worker[w].payment  a == worker[w].amount  k == worker[w].key IN
    /\ worker[w].phase = "measured"
    /\ CanReserve(p, a, k)
    /\ SaveRefund(k, Reservation(p, a))
    /\ Proceed(w, NewJob("gateway", p, a, k))
    /\ UNCHANGED <<order, payment, gateway>>

RefuseMeasured(w) ==
    /\ worker[w].phase = "measured"
    /\ ~CanReserve(worker[w].payment, worker[w].amount, worker[w].key)
    /\ Finish(w)
    /\ UNCHANGED <<rows, gateway>>

(***************************************************************************)
(* Phase B: the gateway is asked to execute the refund.                    *)
(***************************************************************************)
Asks(w) == worker[w].phase = "gateway"

RefundExecuted(w) ==
    LET k == worker[w].key IN
    /\ Asks(w)
    /\ SaveExecution(k, gateway[k].asked + 1, "executed")
    /\ Answered(w, "success")
    /\ UNCHANGED rows

RefundDeclined(w) ==
    LET k == worker[w].key IN
    /\ Asks(w)
    /\ SaveExecution(k, gateway[k].asked + 1, "declined")
    /\ Answered(w, "failure")
    /\ UNCHANGED rows

\* No answer, or none that counts (an error of the provider, no identity): the
\* request may have been lost, may still be on its way, or may have been served.
RefundUnanswered(w) ==
    LET k == worker[w].key IN
    /\ Asks(w)
    /\ \E state \in GatewayState : SaveExecution(k, gateway[k].asked + 1, state)
    /\ Answered(w, "unknown")
    /\ UNCHANGED rows

\* An answer of another gateway raises an error no handler of refund catches.
RefundAnswerRaises(w) ==
    LET k == worker[w].key IN
    /\ Asks(w)
    /\ \E state \in {"executed", "declined"} : SaveExecution(k, gateway[k].asked + 1, state)
    /\ Finish(w)
    /\ UNCHANGED rows

\* The gateway of the payment offers no refunds (ZarinPal), or is not registered
\* any more: nothing is sent.
RefundUnsupported(w) ==
    /\ Asks(w)
    /\ Answered(w, "unknown")
    /\ UNCHANGED <<rows, gateway>>

\* The gateway works through what it has received.
GatewayProcesses(k) ==
    /\ gateway[k].state = "received"
    /\ \E state \in {"executed", "declined"} : SaveExecution(k, gateway[k].asked, state)
    /\ UNCHANGED <<rows, worker>>

(***************************************************************************)
(* Reconciliation: the gateway is asked what became of a pending refund,   *)
(* even while another worker is executing it.  FAILED is a definitive      *)
(* outcome (GatewayRefundInquiryResult): of a refund it has not seen, the  *)
(* gateway only says that it is pending.  An inquiry the gateway does not  *)
(* offer raises and changes nothing: it is no step here.                   *)
(***************************************************************************)
ReconcilePending(w, k) ==
    /\ IsIdle(w)
    /\ StillPending(k)
    /\ Proceed(w, NewJob("inquiry", refund[k].payment, refund[k].amount, k))
    /\ UNCHANGED <<rows, gateway>>

InquiryAnswered(w) ==
    LET state == gateway[worker[w].key].state IN
    /\ worker[w].phase = "inquiry"
    /\ \/ state = "executed" /\ Answered(w, "success")
       \/ state = "declined" /\ Answered(w, "failure")
       \/ state \in {"none", "received"} /\ Answered(w, "unknown")
    /\ UNCHANGED <<rows, gateway>>

InquiryUnanswered(w) ==
    /\ worker[w].phase = "inquiry"
    /\ Answered(w, "unknown")
    /\ UNCHANGED <<rows, gateway>>

(***************************************************************************)
(* Phase C: the answer meets the row as it is now.                         *)
(***************************************************************************)
Persists(w, answer) == worker[w].phase = "persist" /\ worker[w].answer = answer

\* The sum of the successful refunds is read after the row has been saved.
PersistSuccess(w) ==
    LET k == worker[w].key
        p == refund[k].payment
        successful == SuccessfulAmount(p) + refund[k].amount IN
    /\ Persists(w, "success")
    /\ StillPending(k)
    /\ IdentityIsFree(k)
    /\ successful <= Amount[p]
    /\ SaveRefund(k, WithStatus(refund[k], "SUCCESS"))
    /\ payment' = [payment EXCEPT ![p] = Synchronised(p, successful)]
    /\ Finish(w)
    /\ UNCHANGED <<order, gateway>>

\* A constraint or the sum is violated: the transaction rolls back.
PersistSuccessRefused(w) ==
    LET k == worker[w].key  p == refund[k].payment IN
    /\ Persists(w, "success")
    /\ StillPending(k)
    /\ ~IdentityIsFree(k) \/ SuccessfulAmount(p) + refund[k].amount > Amount[p]
    /\ Finish(w)
    /\ UNCHANGED <<rows, gateway>>

PersistFailure(w) ==
    LET k == worker[w].key IN
    /\ Persists(w, "failure")
    /\ StillPending(k)
    /\ SaveRefund(k, WithStatus(refund[k], "FAILED"))
    /\ Finish(w)
    /\ UNCHANGED <<order, payment, gateway>>

PersistUnknown(w) ==
    LET k == worker[w].key IN
    /\ Persists(w, "unknown")
    /\ StillPending(k)
    /\ SaveRefund(k, Noted(refund[k]))
    /\ Finish(w)
    /\ UNCHANGED <<order, payment, gateway>>

\* Another worker was faster: its outcome stands, whatever this answer says.
PersistDiscarded(w) ==
    /\ worker[w].phase = "persist"
    /\ refund[worker[w].key].status \in {"SUCCESS", "FAILED"}
    /\ Finish(w)
    /\ UNCHANGED <<rows, gateway>>

Crash(w) ==
    /\ ~IsIdle(w)
    /\ Finish(w)
    /\ UNCHANGED <<rows, gateway>>

PhaseB(w) ==
    \/ RefundExecuted(w) \/ RefundDeclined(w) \/ RefundUnanswered(w)
    \/ RefundAnswerRaises(w) \/ RefundUnsupported(w)
PhaseC(w) ==
    \/ PersistSuccess(w) \/ PersistSuccessRefused(w) \/ PersistFailure(w)
    \/ PersistUnknown(w) \/ PersistDiscarded(w)

WorkerStep(w) ==
    \/ ReserveMeasured(w) \/ RefuseMeasured(w)
    \/ PhaseB(w) \/ InquiryAnswered(w) \/ InquiryUnanswered(w) \/ PhaseC(w)

Next ==
    \/ \E p \in Payments : OrderAdvances(p)
    \/ \E k \in Keys : GatewayProcesses(k)
    \/ \E w \in Workers :
          \/ \E p \in Payments, k \in Keys :
                \/ \E a \in 1 .. Amount[p] : RequestRefund(w, p, a, k)
                \/ MeasureBalance(w, p, k)
          \/ \E k \in Keys : ReconcilePending(w, k)
          \/ WorkerStep(w)
          \/ Crash(w)

Spec == Init /\ [][Next]_vars

(***************************************************************************)
(* Properties.                                                             *)
(***************************************************************************)
ExecutedFor(p) == {k \in Keys : refund[k].payment = p /\ gateway[k].state = "executed"}

\* However many refunds of one payment run at once, whatever answers are lost
\* and whoever crashes, the gateway never hands back more than was paid.
MoneyWithinPayment == \A p \in Payments : Total(ExecutedFor(p)) <= Amount[p]

\* The rows tell the truth: SUCCESS has been executed, and FAILED neither was
\* nor will be, so the balance a FAILED refund gives back is really there.
OutcomesAgree ==
    \A k \in Keys :
        /\ refund[k].status = "SUCCESS" => gateway[k].state = "executed"
        /\ refund[k].status = "FAILED" =>
              /\ gateway[k].state \in {"none", "declined"}
              /\ \A w \in Workers : worker[w].key = k => worker[w].phase # "gateway"

\* No refund reaches the gateway twice, neither by a retry with its key nor by
\* its reconciliation.
ExecutedOnce == \A k \in Keys : gateway[k].asked <= 1

\* The flag of the payment, which forbids further refunds, is raised exactly
\* when its successful refunds add up to the payment.
FlagMatchesSum ==
    \A p \in Payments : payment[p].refunded <=> SuccessfulAmount(p) = Amount[p]

\* The balance of a payment, in money and in its flag: what has been handed back,
\* what may still be, and whether anything may.
BalanceAgrees == MoneyWithinPayment /\ FlagMatchesSum

\* Rows and gateway tell one story of every refund, and it is executed once in it.
ExecutionAgrees == OutcomesAgree /\ ExecutedOnce

\* A terminal refund is never resurrected, and no refund changes hands.
RefundIsFinal ==
    [][\A k \in Keys :
          /\ refund[k].status \in {"SUCCESS", "FAILED"} => refund'[k] = refund[k]
          /\ refund[k].status # "none" =>
                /\ refund'[k].payment = refund[k].payment
                /\ refund'[k].amount = refund[k].amount]_vars

(***************************************************************************)
(* The services implement the ledger.                                      *)
(***************************************************************************)
EntryState(k) ==
    IF refund[k].status = "none" THEN "none"
    ELSE IF refund[k].status = "FAILED" THEN "released"
    ELSE IF gateway[k].state = "executed" THEN "paid" ELSE "held"
entry == [k \in Keys |-> [payment |-> refund[k].payment, amount |-> refund[k].amount,
                          state |-> EntryState(k)]]
full == {p \in Payments : payment[p].refunded}

Ledger == INSTANCE RefundLedger WITH entry <- entry, full <- full

\* Seen from the balance, a refund is one decision: its part of the payment is
\* held, and then paid out or released for good.
ImplementsLedger == Ledger!Spec
=============================================================================
