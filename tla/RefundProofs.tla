---------------------------- MODULE RefundProofs ----------------------------
(***************************************************************************)
(* Proofs about Refund, for any number of payments, refunds, workers and   *)
(* crashes, any amounts and any gateway the assumptions allow.             *)
(***************************************************************************)
EXTENDS Refund, SumsProofs

(***************************************************************************)
(* The inductive invariant.                                                *)
(***************************************************************************)
AtGateway(w, k) == worker[w].phase = "gateway" /\ worker[w].key = k

\* What a worker knows of the refund it serves, and what it may rely on.
WorkersAgree ==
    \A w \in Workers :
        /\ worker[w].phase = "measured" => worker[w].payment \in Payments /\ worker[w].key \in Keys
        /\ worker[w].phase \in {"gateway", "inquiry", "persist"} =>
              worker[w].key \in Keys /\ refund[worker[w].key].status # "none"
        /\ worker[w].phase = "gateway" =>
              /\ refund[worker[w].key].status = "PENDING"
              /\ gateway[worker[w].key].asked = 0 /\ gateway[worker[w].key].state = "none"
              /\ \A v \in Workers : AtGateway(v, worker[w].key) => v = w

\* No answer outlives its truth.
AnswersAgree ==
    \A w \in Workers :
        /\ Persists(w, "success") => gateway[worker[w].key].state = "executed"
        /\ Persists(w, "failure") =>
              /\ gateway[worker[w].key].state \in {"none", "declined"}
              /\ \A v \in Workers : ~AtGateway(v, worker[w].key)

RowsAgree ==
    \A k \in Keys :
        /\ refund[k].status = "none" => gateway[k].asked = 0 /\ gateway[k].state = "none"
        /\ refund[k].status # "none" => refund[k].payment \in Payments /\ refund[k].amount > 0

ExecutionInvariant ==
    TypeOK /\ WorkersAgree /\ AnswersAgree /\ RowsAgree /\ ExecutedOnce /\ OutcomesAgree

ReservedWithinPayment == \A p \in Payments : ReservedAmount(p) <= Amount[p]
BalanceInvariant == ReservedWithinPayment /\ FlagMatchesSum

(***************************************************************************)
(* Rows, jobs and tables.                                                  *)
(***************************************************************************)
LEMMA RowsTyped ==
  /\ \A p \in Payments, a \in Nat : Reservation(p, a) \in RefundRow
  /\ \A row \in RefundRow, s \in RefundStatus :
        /\ WithStatus(row, s) \in RefundRow
        /\ WithStatus(row, s).status = s
        /\ WithStatus(row, s).payment = row.payment /\ WithStatus(row, s).amount = row.amount
  /\ \A row \in RefundRow :
        /\ Noted(row) \in RefundRow /\ Noted(row).status = row.status
        /\ Noted(row).payment = row.payment /\ Noted(row).amount = row.amount
  BY DEF Reservation, WithStatus, Noted, RefundRow, RefundStatus

LEMMA JobsTyped ==
  /\ Idle \in Job /\ Idle.phase = "idle" /\ Idle.answer = "none"
  /\ \A phase \in Phase, p \in Payments \cup {NoPayment}, a \in Nat, k \in Keys :
        /\ NewJob(phase, p, a, k) \in Job
        /\ NewJob(phase, p, a, k).phase = phase /\ NewJob(phase, p, a, k).key = k
        /\ NewJob(phase, p, a, k).payment = p /\ NewJob(phase, p, a, k).answer = "none"
        /\ NewJob(phase, p, a, k).amount = a
  BY DEF Idle, NewJob, Job, Phase, Answer

LEMMA ProceedEffect ==
  ASSUME TypeOK, NEW w \in Workers, NEW job \in Job, Proceed(w, job)
  PROVE  /\ worker' \in [Workers -> Job]
         /\ worker'[w] = job
         /\ \A v \in Workers : v # w => worker'[v] = worker[v]
  BY DEF TypeOK, Proceed

LEMMA AnsweredEffect ==
  ASSUME TypeOK, NEW w \in Workers, NEW answer \in Answer, Answered(w, answer)
  PROVE  /\ worker' \in [Workers -> Job]
         /\ worker'[w].phase = "persist" /\ worker'[w].answer = answer
         /\ worker'[w].key = worker[w].key /\ worker'[w].payment = worker[w].payment
         /\ \A v \in Workers : v # w => worker'[v] = worker[v]
<1> DEFINE job == [phase |-> "persist", payment |-> worker[w].payment,
                   amount |-> worker[w].amount, key |-> worker[w].key, answer |-> answer]
<1>1. job \in Job
  BY DEF TypeOK, Job, Phase
<1>2. /\ job.phase = "persist" /\ job.answer = answer
      /\ job.key = worker[w].key /\ job.payment = worker[w].payment
  OBVIOUS
<1>3. Proceed(w, job)
  BY DEF Answered
<1> HIDE DEF job
<1>4. QED
  BY <1>1, <1>2, <1>3, ProceedEffect

LEMMA FinishEffect ==
  ASSUME TypeOK, NEW w \in Workers, Finish(w)
  PROVE  /\ worker' \in [Workers -> Job]
         /\ worker'[w].phase = "idle"
         /\ \A v \in Workers : v # w => worker'[v] = worker[v]
  BY JobsTyped, ProceedEffect DEF Finish

LEMMA SaveRefundEffect ==
  ASSUME TypeOK, NEW k \in Keys, NEW row \in RefundRow, SaveRefund(k, row)
  PROVE  /\ refund' \in [Keys -> RefundRow]
         /\ refund'[k] = row
         /\ \A j \in Keys : j # k => refund'[j] = refund[j]
  BY DEF TypeOK, SaveRefund

LEMMA SaveExecutionEffect ==
  ASSUME TypeOK, NEW k \in Keys, NEW n \in Nat, NEW state \in GatewayState,
         SaveExecution(k, n, state)
  PROVE  /\ gateway' \in [Keys -> Execution]
         /\ gateway'[k].asked = n /\ gateway'[k].state = state
         /\ \A j \in Keys : j # k => gateway'[j] = gateway[j]
  BY DEF TypeOK, SaveExecution, Execution

(***************************************************************************)
(* Every action keeps the invariant.                                       *)
(***************************************************************************)
LEMMA ExecutionInit == Init => ExecutionInvariant
<1> SUFFICES ASSUME Init PROVE ExecutionInvariant
  OBVIOUS
<1>1. TypeOK
  BY JobsTyped DEF Init, TypeOK, OrderStatus, PaymentRow, RefundRow, NoRefund, RefundStatus,
                   Execution, GatewayState
<1>2. \A w \in Workers : worker[w].phase = "idle"
  BY JobsTyped DEF Init
<1>3. \A k \in Keys : /\ refund[k].status = "none"
                      /\ gateway[k].asked = 0 /\ gateway[k].state = "none"
  BY DEF Init, NoRefund
<1>4. QED
  BY <1>1, <1>2, <1>3 DEF ExecutionInvariant, WorkersAgree, AnswersAgree, RowsAgree,
                          ExecutedOnce, OutcomesAgree, Persists, AtGateway

\* A reservation is committed before its worker turns to the gateway.
LEMMA ReservationKeeps ==
  ASSUME ExecutionInvariant, NEW w \in Workers, NEW p \in Payments, NEW k \in Keys,
         NEW a \in Nat \ {0}, refund[k].status = "none",
         SaveRefund(k, Reservation(p, a)), Proceed(w, NewJob("gateway", p, a, k)),
         UNCHANGED <<order, payment, gateway>>
  PROVE  ExecutionInvariant'
<1>1. /\ refund' \in [Keys -> RefundRow]
      /\ refund'[k].status = "PENDING" /\ refund'[k].payment = p /\ refund'[k].amount = a
      /\ \A j \in Keys : j # k => refund'[j] = refund[j]
  BY RowsTyped, SaveRefundEffect DEF ExecutionInvariant, Reservation
<1>2. /\ worker' \in [Workers -> Job]
      /\ worker'[w].phase = "gateway" /\ worker'[w].key = k
      /\ \A v \in Workers : v # w => worker'[v] = worker[v]
  BY JobsTyped, ProceedEffect DEF ExecutionInvariant, Phase
<1>3. \A v \in Workers : worker[v].phase \in {"gateway", "inquiry", "persist"} => worker[v].key # k
  BY DEF ExecutionInvariant, WorkersAgree
<1>4. gateway[k].asked = 0 /\ gateway[k].state = "none"
  BY DEF ExecutionInvariant, RowsAgree
<1>5. TypeOK'
  BY <1>1, <1>2 DEF ExecutionInvariant, TypeOK
<1>6. WorkersAgree'
  BY <1>1, <1>2, <1>3, <1>4 DEF ExecutionInvariant, WorkersAgree, AtGateway
<1>7. AnswersAgree'
  BY <1>1, <1>2, <1>3 DEF ExecutionInvariant, AnswersAgree, WorkersAgree, AtGateway, Persists
<1>8. RowsAgree' /\ ExecutedOnce'
  BY <1>1, <1>4 DEF ExecutionInvariant, RowsAgree, ExecutedOnce
<1>9. OutcomesAgree'
  BY <1>1, <1>2, <1>3 DEF ExecutionInvariant, OutcomesAgree
<1>10. QED
  BY <1>5, <1>6, <1>7, <1>8, <1>9 DEF ExecutionInvariant

\* A worker that leaves the gateway has had its refund executed at most once.
LEMMA GatewayAnswersKeeps ==
  ASSUME ExecutionInvariant, NEW w \in Workers, worker[w].phase = "gateway",
         NEW state \in GatewayState, NEW k \in Keys, k = worker[w].key,
         SaveExecution(k, gateway[k].asked + 1, state),
         worker' \in [Workers -> Job],
         \A v \in Workers : v # w => worker'[v] = worker[v],
         \/ worker'[w].phase = "idle"
         \/ /\ worker'[w].phase = "persist" /\ worker'[w].key = k
            /\ \/ worker'[w].answer = "success" /\ state = "executed"
               \/ worker'[w].answer = "failure" /\ state = "declined"
               \/ worker'[w].answer = "unknown",
         UNCHANGED rows
  PROVE  ExecutionInvariant'
<1>1. /\ refund[k].status = "PENDING" /\ gateway[k].asked = 0 /\ gateway[k].state = "none"
      /\ \A v \in Workers : AtGateway(v, k) => v = w
  BY DEF ExecutionInvariant, WorkersAgree
<1>2. /\ gateway' \in [Keys -> Execution]
      /\ gateway'[k].asked = 1 /\ gateway'[k].state = state
      /\ \A j \in Keys : j # k => gateway'[j] = gateway[j]
  BY <1>1, SaveExecutionEffect DEF ExecutionInvariant
<1>3. TypeOK'
  BY <1>2 DEF ExecutionInvariant, TypeOK, rows
<1>4. WorkersAgree'
  BY <1>1, <1>2 DEF ExecutionInvariant, WorkersAgree, AtGateway, rows
<1>5. \A v \in Workers : v # w /\ worker[v].key = k => ~Persists(v, "success") /\ ~Persists(v, "failure")
  BY <1>1 DEF ExecutionInvariant, AnswersAgree, AtGateway
<1>6. \A j \in Keys : \A v \in Workers : AtGateway(v, j)' => AtGateway(v, j)
  BY DEF AtGateway
<1>7. AnswersAgree'
  BY <1>1, <1>2, <1>5, <1>6 DEF ExecutionInvariant, WorkersAgree, AnswersAgree, AtGateway, Persists, rows
<1>8. RowsAgree' /\ ExecutedOnce'
  BY <1>1, <1>2 DEF ExecutionInvariant, RowsAgree, ExecutedOnce, rows
<1>9. OutcomesAgree'
  BY <1>1, <1>2 DEF ExecutionInvariant, OutcomesAgree, rows
<1>10. QED
  BY <1>3, <1>4, <1>7, <1>8, <1>9 DEF ExecutionInvariant

\* A worker that changes no row and asks for no execution.
LEMMA QuietWorkerKeeps ==
  ASSUME ExecutionInvariant, NEW w \in Workers,
         worker' \in [Workers -> Job],
         \A v \in Workers : v # w => worker'[v] = worker[v],
         \/ worker'[w].phase = "idle"
         \/ worker'[w].phase = "measured" /\ worker'[w].payment \in Payments /\ worker'[w].key \in Keys
         \/ /\ worker'[w].phase = "inquiry" /\ worker'[w].key \in Keys
            /\ refund[worker'[w].key].status # "none"
         \/ /\ worker'[w].phase = "persist" /\ worker'[w].key \in Keys
            /\ refund[worker'[w].key].status # "none"
            /\ worker'[w].answer = "success" => gateway[worker'[w].key].state = "executed"
            /\ worker'[w].answer = "failure" =>
                  /\ gateway[worker'[w].key].state \in {"none", "declined"}
                  /\ \A v \in Workers : ~AtGateway(v, worker'[w].key),
         UNCHANGED <<rows, gateway>>
  PROVE  ExecutionInvariant'
<1>1. TypeOK'
  BY DEF ExecutionInvariant, TypeOK, rows
<1>2. \A j \in Keys : \A v \in Workers : AtGateway(v, j)' => AtGateway(v, j)
  BY DEF AtGateway
<1>3. WorkersAgree'
  BY <1>2 DEF ExecutionInvariant, WorkersAgree, AtGateway, rows
<1>4. AnswersAgree'
  BY <1>2 DEF ExecutionInvariant, WorkersAgree, AnswersAgree, Persists, AtGateway, rows
<1>5. RowsAgree' /\ ExecutedOnce'
  BY DEF ExecutionInvariant, RowsAgree, ExecutedOnce, rows
<1>6. OutcomesAgree'
  BY DEF ExecutionInvariant, OutcomesAgree, rows
<1>7. QED
  BY <1>1, <1>3, <1>4, <1>5, <1>6 DEF ExecutionInvariant

\* A pending refund is noted, or decided by an answer that agrees with the gateway.
LEMMA DecisionKeeps ==
  ASSUME ExecutionInvariant, NEW w \in Workers, NEW k \in Keys,
         worker[w].phase = "persist", worker[w].key = k, StillPending(k),
         NEW row \in RefundRow, SaveRefund(k, row), Finish(w),
         row.payment = refund[k].payment, row.amount = refund[k].amount,
         \/ row.status = "PENDING"
         \/ row.status = "SUCCESS" /\ Persists(w, "success")
         \/ row.status = "FAILED" /\ Persists(w, "failure"),
         payment' \in [Payments -> PaymentRow],
         UNCHANGED <<order, gateway>>
  PROVE  ExecutionInvariant'
<1>1. /\ refund' \in [Keys -> RefundRow] /\ refund'[k] = row
      /\ \A j \in Keys : j # k => refund'[j] = refund[j]
  BY SaveRefundEffect DEF ExecutionInvariant
<1>2. /\ worker' \in [Workers -> Job] /\ worker'[w].phase = "idle"
      /\ \A v \in Workers : v # w => worker'[v] = worker[v]
  BY FinishEffect DEF ExecutionInvariant
<1>3. TypeOK'
  BY <1>1, <1>2 DEF ExecutionInvariant, TypeOK
<1>4. row.status # "none" /\ refund[k].status = "PENDING"
  BY DEF StillPending
<1>5. \A v \in Workers : worker'[v].phase # "idle" => worker'[v] = worker[v] /\ v # w
  BY <1>2
<1>6. row.status # "PENDING" => \A v \in Workers : ~AtGateway(v, k)
  <2>1. CASE row.status = "SUCCESS"
    <3>1. gateway[k].state = "executed"
      BY <2>1 DEF ExecutionInvariant, AnswersAgree
    <3>2. QED
      BY <3>1 DEF ExecutionInvariant, WorkersAgree, AtGateway
  <2>2. CASE row.status = "FAILED"
    BY <2>2 DEF ExecutionInvariant, AnswersAgree
  <2>3. QED
    BY <2>1, <2>2
<1>7. WorkersAgree'
  BY <1>1, <1>2, <1>4, <1>5, <1>6 DEF ExecutionInvariant, WorkersAgree, AtGateway
<1>8. AnswersAgree'
  BY <1>5 DEF ExecutionInvariant, AnswersAgree, Persists, AtGateway
<1>9. RowsAgree' /\ ExecutedOnce'
  BY <1>1, <1>4 DEF ExecutionInvariant, RowsAgree, ExecutedOnce
<1>10. /\ row.status = "SUCCESS" => gateway[k].state = "executed"
       /\ row.status = "FAILED" => gateway[k].state \in {"none", "declined"}
  BY DEF ExecutionInvariant, AnswersAgree
<1>11. OutcomesAgree'
  <2>1. SUFFICES ASSUME NEW j \in Keys
                 PROVE  /\ refund'[j].status = "SUCCESS" => gateway[j].state = "executed"
                        /\ refund'[j].status = "FAILED" =>
                              /\ gateway[j].state \in {"none", "declined"}
                              /\ \A v \in Workers : worker'[v].key = j => worker'[v].phase # "gateway"
    BY DEF OutcomesAgree
  <2>2. CASE j = k
    BY <1>1, <1>4, <1>5, <1>6, <1>10, <2>2 DEF AtGateway
  <2>3. CASE j # k
    BY <1>1, <1>2, <2>3 DEF ExecutionInvariant, OutcomesAgree
  <2>4. QED
    BY <2>2, <2>3
<1>12. QED
  BY <1>3, <1>7, <1>8, <1>9, <1>11 DEF ExecutionInvariant

LEMMA GatewayProcessesKeeps ==
  ASSUME ExecutionInvariant, NEW k \in Keys, GatewayProcesses(k)
  PROVE  ExecutionInvariant'
<1>1. PICK state \in {"executed", "declined"} : SaveExecution(k, gateway[k].asked, state)
  BY DEF GatewayProcesses
<1>2. gateway[k].state = "received" /\ gateway[k].asked \in Nat
  BY DEF GatewayProcesses, ExecutionInvariant, TypeOK, Execution
<1>3. /\ gateway' \in [Keys -> Execution]
      /\ gateway'[k].asked = gateway[k].asked /\ gateway'[k].state = state
      /\ \A j \in Keys : j # k => gateway'[j] = gateway[j]
  BY <1>1, <1>2, SaveExecutionEffect DEF ExecutionInvariant, GatewayState
<1>4. UNCHANGED <<order, payment, refund, worker>>
  BY DEF GatewayProcesses, rows
<1>5. TypeOK' /\ WorkersAgree' /\ AnswersAgree'
  BY <1>2, <1>3, <1>4 DEF ExecutionInvariant, TypeOK, WorkersAgree, AnswersAgree, AtGateway, Persists
<1>6. RowsAgree' /\ ExecutedOnce' /\ OutcomesAgree'
  BY <1>2, <1>3, <1>4 DEF ExecutionInvariant, RowsAgree, ExecutedOnce, OutcomesAgree
<1>7. QED
  BY <1>5, <1>6 DEF ExecutionInvariant

LEMMA OrderAdvancesKeeps ==
  ASSUME ExecutionInvariant, NEW p \in Payments, OrderAdvances(p)
  PROVE  /\ ExecutionInvariant' /\ UNCHANGED <<refund, gateway, worker>>
         /\ \A q \in Payments : payment'[q].refunded = payment[q].refunded
<1>1. UNCHANGED <<refund, gateway, worker>>
  BY DEF OrderAdvances
<1>2. order' \in [Payments -> OrderStatus]
  BY DEF OrderAdvances, ExecutionInvariant, TypeOK, OrderStatus
<1>3. /\ payment' \in [Payments -> PaymentRow]
      /\ \A q \in Payments : payment'[q].refunded = payment[q].refunded
  <2> DEFINE row == [consumed |-> TRUE, refunded |-> payment[p].refunded]
  <2>1. row \in PaymentRow /\ row.refunded = payment[p].refunded
    BY DEF ExecutionInvariant, TypeOK, PaymentRow
  <2>2. payment' = payment \/ payment' = [payment EXCEPT ![p] = row]
    BY DEF OrderAdvances
  <2> HIDE DEF row
  <2>3. QED
    BY <2>1, <2>2 DEF ExecutionInvariant, TypeOK
<1>4. QED
  BY <1>1, <1>2, <1>3 DEF ExecutionInvariant, TypeOK, WorkersAgree, AnswersAgree, RowsAgree,
                          ExecutedOnce, OutcomesAgree, AtGateway, Persists

LEMMA KeysTyped ==
  ASSUME ExecutionInvariant
  PROVE  /\ \A k \in Keys : /\ refund[k] \in RefundRow /\ refund[k].amount \in Nat
                            /\ refund[k].payment \in Payments \cup {NoPayment}
                            /\ refund[k].status \in RefundStatus
                            /\ gateway[k].asked \in Nat /\ gateway[k].state \in GatewayState
         /\ \A w \in Workers : worker[w] \in Job /\ worker[w].amount \in Nat
         /\ \A p \in Payments : payment[p] \in PaymentRow /\ payment[p].consumed \in BOOLEAN
                                /\ payment[p].refunded \in BOOLEAN /\ Amount[p] \in Nat \ {0}
       BY RefundAssumption DEF ExecutionInvariant, TypeOK, RefundRow, Execution, Job, PaymentRow

LEMMA PhaseBKeeps ==
  ASSUME ExecutionInvariant, NEW w \in Workers, PhaseB(w)
  PROVE  ExecutionInvariant' /\ UNCHANGED rows
<1> DEFINE k == worker[w].key
<1>1. worker[w].phase = "gateway" /\ k \in Keys /\ refund[k].status = "PENDING"
  BY DEF PhaseB, RefundExecuted, RefundDeclined, RefundUnanswered, RefundAnswerRaises,
         RefundUnsupported, Asks, ExecutionInvariant, WorkersAgree
<1>2. ASSUME NEW state \in GatewayState, NEW answer \in {"success", "failure", "unknown"},
             answer = "success" => state = "executed",
             answer = "failure" => state = "declined",
             SaveExecution(k, gateway[k].asked + 1, state),
             Answered(w, answer), UNCHANGED rows
      PROVE  ExecutionInvariant'
  <2>1. /\ worker' \in [Workers -> Job]
        /\ worker'[w].phase = "persist" /\ worker'[w].answer = answer /\ worker'[w].key = k
        /\ \A v \in Workers : v # w => worker'[v] = worker[v]
    BY <1>2, AnsweredEffect DEF ExecutionInvariant, Answer
  <2>2. QED
    BY <1>1, <1>2, <2>1, GatewayAnswersKeeps
<1>3. CASE RefundExecuted(w)
  BY <1>2, <1>3 DEF RefundExecuted, GatewayState
<1>4. CASE RefundDeclined(w)
  BY <1>2, <1>4 DEF RefundDeclined, GatewayState
<1>5. CASE RefundUnanswered(w)
  BY <1>2, <1>5 DEF RefundUnanswered
<1>6. CASE RefundAnswerRaises(w)
  <2>1. PICK state \in {"executed", "declined"} : SaveExecution(k, gateway[k].asked + 1, state)
    BY <1>6 DEF RefundAnswerRaises
  <2>2. /\ worker' \in [Workers -> Job] /\ worker'[w].phase = "idle"
        /\ \A v \in Workers : v # w => worker'[v] = worker[v]
        /\ UNCHANGED rows
    BY <1>6, FinishEffect DEF RefundAnswerRaises, ExecutionInvariant
  <2>3. state \in GatewayState
    BY DEF GatewayState
  <2>4. QED
    BY <1>1, <2>1, <2>2, <2>3, GatewayAnswersKeeps
<1>7. CASE RefundUnsupported(w)
  <2>1. /\ worker' \in [Workers -> Job]
        /\ worker'[w].phase = "persist" /\ worker'[w].answer = "unknown" /\ worker'[w].key = k
        /\ \A v \in Workers : v # w => worker'[v] = worker[v]
        /\ UNCHANGED <<rows, gateway>>
    BY <1>7, AnsweredEffect DEF RefundUnsupported, ExecutionInvariant, Answer
  <2>2. QED
    BY <1>1, <2>1, KeysTyped, QuietWorkerKeeps
<1>8. UNCHANGED rows
  BY DEF PhaseB, RefundExecuted, RefundDeclined, RefundUnanswered, RefundAnswerRaises,
         RefundUnsupported
<1>9. QED
  BY <1>3, <1>4, <1>5, <1>6, <1>7, <1>8 DEF PhaseB

LEMMA InquiryKeeps ==
  ASSUME ExecutionInvariant, NEW w \in Workers,
         \/ InquiryAnswered(w) \/ InquiryUnanswered(w)
         \/ \E k \in Keys : ReconcilePending(w, k)
  PROVE  ExecutionInvariant' /\ UNCHANGED <<rows, gateway>>
<1>1. UNCHANGED <<rows, gateway>>
  BY DEF InquiryAnswered, InquiryUnanswered, ReconcilePending
<1>2. CASE \E k \in Keys : ReconcilePending(w, k)
  <2>1. PICK k \in Keys : ReconcilePending(w, k)
    BY <1>2
  <2>2. refund[k].status # "none"
    BY <2>1 DEF ReconcilePending, StillPending
  <2> DEFINE job == NewJob("inquiry", refund[k].payment, refund[k].amount, k)
  <2>3. job \in Job /\ job.phase = "inquiry" /\ job.key = k
    <3>1. "inquiry" \in Phase /\ refund[k].payment \in Payments \cup {NoPayment} /\ refund[k].amount \in Nat
      BY KeysTyped DEF Phase, ExecutionInvariant
    <3>2. \A p \in Payments \cup {NoPayment}, a \in Nat :
             /\ NewJob("inquiry", p, a, k) \in Job
             /\ NewJob("inquiry", p, a, k).phase = "inquiry"
             /\ NewJob("inquiry", p, a, k).key = k
      BY JobsTyped DEF Phase
    <3>3. QED
      BY <3>1, <3>2
  <2>4. Proceed(w, job)
    BY <2>1 DEF ReconcilePending
  <2> HIDE DEF job
  <2>5. /\ worker' \in [Workers -> Job]
        /\ worker'[w].phase = "inquiry" /\ worker'[w].key = k
        /\ \A v \in Workers : v # w => worker'[v] = worker[v]
    BY <2>3, <2>4, ProceedEffect DEF ExecutionInvariant
  <2>6. QED
    BY <1>1, <2>2, <2>5, KeysTyped, QuietWorkerKeeps
<1>3. ASSUME InquiryAnswered(w) \/ InquiryUnanswered(w) PROVE ExecutionInvariant'
  <2> DEFINE k == worker[w].key
  <2>1. k \in Keys /\ refund[k].status # "none"
    BY <1>3 DEF InquiryAnswered, InquiryUnanswered, ExecutionInvariant, WorkersAgree
  <2>2. PICK answer \in {"success", "failure", "unknown"} :
          /\ Answered(w, answer)
          /\ answer = "success" => gateway[k].state = "executed"
          /\ answer = "failure" => gateway[k].state = "declined"
    BY <1>3 DEF InquiryAnswered, InquiryUnanswered
  <2>3. gateway[k].state = "declined" => \A v \in Workers : ~AtGateway(v, k)
    BY DEF ExecutionInvariant, WorkersAgree, AtGateway
  <2>4. /\ worker' \in [Workers -> Job]
        /\ worker'[w].phase = "persist" /\ worker'[w].answer = answer /\ worker'[w].key = k
        /\ \A v \in Workers : v # w => worker'[v] = worker[v]
    BY <2>2, AnsweredEffect DEF ExecutionInvariant, Answer
  <2> HIDE DEF k
  <2>5. QED
    BY <1>1, <2>1, <2>2, <2>3, <2>4, KeysTyped, QuietWorkerKeeps
<1>4. QED
  BY <1>1, <1>2, <1>3

LEMMA QuietEndKeeps ==
  ASSUME ExecutionInvariant, NEW w \in Workers, Finish(w), UNCHANGED <<rows, gateway>>
  PROVE  ExecutionInvariant'
<1>1. /\ worker' \in [Workers -> Job] /\ worker'[w].phase = "idle"
      /\ \A v \in Workers : v # w => worker'[v] = worker[v]
  BY FinishEffect DEF ExecutionInvariant
<1>2. QED
  BY <1>1, QuietWorkerKeeps

\* What a saved decision does to the table.
Becomes(k, status) ==
    /\ refund' \in [Keys -> RefundRow]
    /\ refund'[k].status = status
    /\ refund'[k].payment = refund[k].payment /\ refund'[k].amount = refund[k].amount
    /\ \A j \in Keys : j # k => refund'[j] = refund[j]

LEMMA PersistingRow ==
  ASSUME ExecutionInvariant, NEW w \in Workers, worker[w].phase = "persist"
  PROVE  /\ worker[w].key \in Keys
         /\ refund[worker[w].key] \in RefundRow
         /\ refund[worker[w].key].payment \in Payments
         /\ refund[worker[w].key].status # "none"
  BY KeysTyped DEF ExecutionInvariant, WorkersAgree, RowsAgree

LEMMA PersistSuccessKeeps ==
  ASSUME ExecutionInvariant, NEW w \in Workers, PersistSuccess(w)
  PROVE  /\ ExecutionInvariant'
         /\ Becomes(worker[w].key, "SUCCESS")
<1> DEFINE k == worker[w].key
           row == WithStatus(refund[k], "SUCCESS")
           p == refund[k].payment
           synced == Synchronised(p, SuccessfulAmount(p) + refund[k].amount)
<1>1. /\ k \in Keys /\ refund[k] \in RefundRow /\ p \in Payments
      /\ worker[w].phase = "persist" /\ StillPending(k) /\ Persists(w, "success")
      /\ SaveRefund(k, row) /\ Finish(w) /\ UNCHANGED <<order, gateway>>
      /\ payment' = [payment EXCEPT ![p] = synced]
  BY PersistingRow DEF PersistSuccess, Persists
<1>2. /\ row \in RefundRow /\ row.status = "SUCCESS"
      /\ row.payment = refund[k].payment /\ row.amount = refund[k].amount
  BY <1>1, RowsTyped DEF RefundStatus
<1>3. synced \in PaymentRow
  BY <1>1, KeysTyped DEF Synchronised, PaymentRow
<1> HIDE DEF row, synced
<1>4. payment' \in [Payments -> PaymentRow]
  BY <1>1, <1>3 DEF ExecutionInvariant, TypeOK
<1>5. ExecutionInvariant'
  BY <1>1, <1>2, <1>4, DecisionKeeps
<1>6. Becomes(k, "SUCCESS")
  BY <1>1, <1>2, SaveRefundEffect DEF Becomes, ExecutionInvariant
<1>7. QED
  BY <1>5, <1>6

LEMMA PersistFailureKeeps ==
  ASSUME ExecutionInvariant, NEW w \in Workers, PersistFailure(w)
  PROVE  ExecutionInvariant' /\ Becomes(worker[w].key, "FAILED")
<1> DEFINE k == worker[w].key
           row == WithStatus(refund[k], "FAILED")
<1>1. /\ k \in Keys /\ refund[k] \in RefundRow
      /\ worker[w].phase = "persist" /\ StillPending(k) /\ Persists(w, "failure")
      /\ SaveRefund(k, row) /\ Finish(w) /\ UNCHANGED <<order, payment, gateway>>
      /\ payment' \in [Payments -> PaymentRow]
  BY PersistingRow DEF PersistFailure, Persists, ExecutionInvariant, TypeOK
<1>2. /\ row \in RefundRow /\ row.status = "FAILED"
      /\ row.payment = refund[k].payment /\ row.amount = refund[k].amount
  BY <1>1, RowsTyped DEF RefundStatus
<1> HIDE DEF row
<1>3. ExecutionInvariant'
  BY <1>1, <1>2, DecisionKeeps
<1>4. Becomes(k, "FAILED")
  BY <1>1, <1>2, SaveRefundEffect DEF Becomes, ExecutionInvariant
<1>5. QED
  BY <1>3, <1>4

LEMMA PersistUnknownKeeps ==
  ASSUME ExecutionInvariant, NEW w \in Workers, PersistUnknown(w)
  PROVE  ExecutionInvariant' /\ Becomes(worker[w].key, "PENDING")
<1> DEFINE k == worker[w].key
           row == Noted(refund[k])
<1>1. /\ k \in Keys /\ refund[k] \in RefundRow
      /\ worker[w].phase = "persist" /\ StillPending(k)
      /\ SaveRefund(k, row) /\ Finish(w) /\ UNCHANGED <<order, payment, gateway>>
      /\ payment' \in [Payments -> PaymentRow]
  BY PersistingRow DEF PersistUnknown, Persists, ExecutionInvariant, TypeOK
<1>2. /\ row \in RefundRow /\ row.status = "PENDING"
      /\ row.payment = refund[k].payment /\ row.amount = refund[k].amount
  BY <1>1, RowsTyped DEF StillPending
<1> HIDE DEF row
<1>3. ExecutionInvariant'
  BY <1>1, <1>2, DecisionKeeps
<1>4. Becomes(k, "PENDING")
  BY <1>1, <1>2, SaveRefundEffect DEF Becomes, ExecutionInvariant
<1>5. QED
  BY <1>3, <1>4

LEMMA MeasureKeeps ==
  ASSUME ExecutionInvariant, NEW w \in Workers, NEW p \in Payments, NEW k \in Keys,
         MeasureBalance(w, p, k), Balance(p) \in Nat
  PROVE  ExecutionInvariant' /\ UNCHANGED <<rows, gateway>>
<1>1. /\ Proceed(w, NewJob("measured", p, Balance(p), k)) /\ UNCHANGED <<rows, gateway>>
  BY DEF MeasureBalance
<1>2. /\ worker' \in [Workers -> Job]
      /\ worker'[w].phase = "measured" /\ worker'[w].payment = p /\ worker'[w].key = k
      /\ \A v \in Workers : v # w => worker'[v] = worker[v]
  BY <1>1, JobsTyped, ProceedEffect DEF ExecutionInvariant, Phase
<1>3. QED
  BY <1>1, <1>2, KeysTyped, QuietWorkerKeeps

(***************************************************************************)
(* Sums over the refunds of a payment.                                     *)
(***************************************************************************)
LEMMA TotalsTyped ==
  ASSUME ExecutionInvariant
  PROVE  /\ [k \in Keys |-> refund[k].amount] \in [Keys -> Nat]
         /\ \A S \in SUBSET Keys : IsFiniteSet(S) /\ Total(S) \in Nat
         /\ \A S \in SUBSET Keys, T \in SUBSET Keys : S \subseteq T => Total(S) <= Total(T)
         /\ \A S \in SUBSET Keys, k \in Keys :
               k \notin S => Total(S \cup {k}) = Total(S) + refund[k].amount
<1>1. [k \in Keys |-> refund[k].amount] \in [Keys -> Nat]
  BY KeysTyped
<1>2. \A S \in SUBSET Keys : IsFiniteSet(S)
  BY RefundAssumption, FS_Subset
<1> DEFINE f == [k \in Keys |-> refund[k].amount]
<1>3. \A k \in Keys : f[k] = refund[k].amount
  OBVIOUS
<1>4. f \in [Keys -> Nat]
  BY <1>1
<1>5. \A S \in SUBSET Keys : Total(S) = SumOver(f, S)
  BY DEF Total
<1> HIDE DEF f
<1>6. \A S \in SUBSET Keys : Total(S) \in Nat
  BY <1>2, <1>4, <1>5, SumType
<1>7. \A S \in SUBSET Keys, T \in SUBSET Keys : S \subseteq T => Total(S) <= Total(T)
  BY <1>2, <1>4, <1>5, SumGrows
<1>8. ASSUME NEW S \in SUBSET Keys, NEW k \in Keys, k \notin S
      PROVE  Total(S \cup {k}) = Total(S) + refund[k].amount
  <2>1. S \cup {k} \in SUBSET Keys
    OBVIOUS
  <2>2. SumOver(f, S \cup {k}) = SumOver(f, S) + f[k]
    BY <1>2, <1>4, <1>8, SumAdd
  <2>3. QED
    BY <1>3, <1>5, <2>1, <2>2
<1>9. QED
  BY <1>1, <1>2, <1>6, <1>7, <1>8

\* Only the rows that are added up count.
LEMMA TotalsKept ==
  ASSUME NEW S \in SUBSET Keys, \A k \in S : refund'[k].amount = refund[k].amount
  PROVE  SumOver([k \in Keys |-> refund'[k].amount], S) = Total(S)
  BY SumSame DEF Total

\* A new reservation takes its amount from its payment, and from no other.
LEMMA ReservationTotals ==
  ASSUME ExecutionInvariant, ExecutionInvariant',
         NEW p \in Payments, NEW k \in Keys, NEW a \in Nat \ {0},
         refund[k].status = "none", SaveRefund(k, Reservation(p, a))
  PROVE  /\ ReservedAmount(p)' = ReservedAmount(p) + a
         /\ \A q \in Payments : q # p => ReservedAmount(q)' = ReservedAmount(q)
         /\ \A q \in Payments : SuccessfulAmount(q)' = SuccessfulAmount(q)
<1> DEFINE f == [j \in Keys |-> refund'[j].amount]
<1>1. /\ refund'[k].status = "PENDING" /\ refund'[k].payment = p /\ refund'[k].amount = a
      /\ \A j \in Keys : j # k => refund'[j] = refund[j]
  BY RowsTyped, SaveRefundEffect DEF ExecutionInvariant, Reservation
<1>2. f \in [Keys -> Nat] /\ f[k] = a
  BY <1>1, KeysTyped DEF ExecutionInvariant, TypeOK, RefundRow
<1>3. \A q \in Payments, S \in SUBSET RefundStatus : RefundsOf(q, S) \in SUBSET Keys
  BY DEF RefundsOf
<1>4. \A q \in Payments : k \notin RefundsOf(q, {"PENDING", "SUCCESS"}) /\ k \notin RefundsOf(q, {"SUCCESS"})
  BY DEF RefundsOf
<1>5. RefundsOf(p, {"PENDING", "SUCCESS"})' = RefundsOf(p, {"PENDING", "SUCCESS"}) \cup {k}
  BY <1>1 DEF RefundsOf
<1>6. \A q \in Payments : q # p => RefundsOf(q, {"PENDING", "SUCCESS"})' = RefundsOf(q, {"PENDING", "SUCCESS"})
  BY <1>1 DEF RefundsOf
<1>7. \A q \in Payments : RefundsOf(q, {"SUCCESS"})' = RefundsOf(q, {"SUCCESS"})
  BY <1>1 DEF RefundsOf
<1>8. \A T \in SUBSET Keys : k \notin T => SumOver(f, T) = Total(T)
  BY <1>1, TotalsKept
<1>10. ReservedAmount(p)' = SumOver(f, RefundsOf(p, {"PENDING", "SUCCESS"}) \cup {k})
  BY <1>5 DEF ReservedAmount, Total
<1>11. \A q \in Payments : q # p => ReservedAmount(q)' = SumOver(f, RefundsOf(q, {"PENDING", "SUCCESS"}))
  BY <1>6 DEF ReservedAmount, Total
<1>12. \A q \in Payments : SuccessfulAmount(q)' = SumOver(f, RefundsOf(q, {"SUCCESS"}))
  BY <1>7 DEF SuccessfulAmount, Total
<1> HIDE DEF f
<1>13. ReservedAmount(p)' = ReservedAmount(p) + a
  <2> DEFINE T == RefundsOf(p, {"PENDING", "SUCCESS"})
  <2>1. T \in SUBSET Keys /\ IsFiniteSet(T) /\ k \notin T
    BY <1>3, <1>4, TotalsTyped DEF RefundStatus
  <2> HIDE DEF T
  <2>2. SumOver(f, T \cup {k}) = SumOver(f, T) + f[k]
    BY <1>2, <2>1, SumAdd
  <2>3. QED
    BY <1>2, <1>8, <1>10, <2>1, <2>2 DEF ReservedAmount, T
<1>14. QED
  BY <1>3, <1>4, <1>8, <1>11, <1>12, <1>13 DEF ReservedAmount, SuccessfulAmount, RefundStatus

\* A decision never takes more from a payment than its reservation did.
LEMMA DecisionTotals ==
  ASSUME ExecutionInvariant, ExecutionInvariant', NEW k \in Keys,
         refund[k].status = "PENDING",
         NEW status \in {"PENDING", "SUCCESS", "FAILED"}, Becomes(k, status)
  PROVE  /\ \A q \in Payments : ReservedAmount(q)' <= ReservedAmount(q)
         /\ \A q \in Payments :
               SuccessfulAmount(q)' =
                  IF status = "SUCCESS" /\ q = refund[k].payment
                  THEN SuccessfulAmount(q) + refund[k].amount ELSE SuccessfulAmount(q)
<1>1. \A j \in Keys : /\ refund'[j].amount = refund[j].amount
                      /\ refund'[j].payment = refund[j].payment
                      /\ j # k => refund'[j].status = refund[j].status
  BY DEF Becomes
<1>2. \A S \in SUBSET Keys : SumOver([j \in Keys |-> refund'[j].amount], S) = Total(S)
  BY <1>1, TotalsKept
<1>3. ASSUME NEW q \in Payments PROVE ReservedAmount(q)' <= ReservedAmount(q)
  <2>1. RefundsOf(q, {"PENDING", "SUCCESS"})' \subseteq RefundsOf(q, {"PENDING", "SUCCESS"})
    BY <1>1 DEF RefundsOf
  <2>2. /\ RefundsOf(q, {"PENDING", "SUCCESS"}) \in SUBSET Keys
        /\ RefundsOf(q, {"PENDING", "SUCCESS"})' \in SUBSET Keys
    BY DEF RefundsOf
  <2>3. ReservedAmount(q)' = Total(RefundsOf(q, {"PENDING", "SUCCESS"})')
    BY <1>2, <2>2 DEF ReservedAmount, Total
  <2>4. QED
    BY <2>1, <2>2, <2>3, TotalsTyped DEF ReservedAmount
<1>4. ASSUME NEW q \in Payments
      PROVE  SuccessfulAmount(q)' =
                IF status = "SUCCESS" /\ q = refund[k].payment
                THEN SuccessfulAmount(q) + refund[k].amount ELSE SuccessfulAmount(q)
  <2>1. RefundsOf(q, {"SUCCESS"})' =
           IF status = "SUCCESS" /\ q = refund[k].payment
           THEN RefundsOf(q, {"SUCCESS"}) \cup {k} ELSE RefundsOf(q, {"SUCCESS"})
    BY <1>1 DEF RefundsOf, Becomes
  <2>2. /\ RefundsOf(q, {"SUCCESS"}) \in SUBSET Keys /\ k \notin RefundsOf(q, {"SUCCESS"})
        /\ RefundsOf(q, {"SUCCESS"})' \in SUBSET Keys
    BY DEF RefundsOf
  <2>3. SuccessfulAmount(q)' = Total(RefundsOf(q, {"SUCCESS"})')
    BY <1>2, <2>2 DEF SuccessfulAmount, Total
  <2>4. Total(RefundsOf(q, {"SUCCESS"}) \cup {k}) = Total(RefundsOf(q, {"SUCCESS"})) + refund[k].amount
    BY <2>2, TotalsTyped
  <2>5. QED
    BY <2>1, <2>3, <2>4 DEF SuccessfulAmount
<1>5. QED
  BY <1>3, <1>4

LEMMA TotalsStand ==
  ASSUME UNCHANGED refund
  PROVE  \A q \in Payments : /\ ReservedAmount(q)' = ReservedAmount(q)
                             /\ SuccessfulAmount(q)' = SuccessfulAmount(q)
  BY DEF ReservedAmount, SuccessfulAmount, Total, RefundsOf

LEMMA SuccessfulIsReserved ==
  ASSUME ExecutionInvariant, NEW p \in Payments
  PROVE  /\ ReservedAmount(p) \in Nat /\ SuccessfulAmount(p) \in Nat
         /\ SuccessfulAmount(p) <= ReservedAmount(p)
<1>1. /\ RefundsOf(p, {"SUCCESS"}) \in SUBSET Keys
      /\ RefundsOf(p, {"PENDING", "SUCCESS"}) \in SUBSET Keys
      /\ RefundsOf(p, {"SUCCESS"}) \subseteq RefundsOf(p, {"PENDING", "SUCCESS"})
  BY DEF RefundsOf
<1>2. QED
  BY <1>1, TotalsTyped DEF ReservedAmount, SuccessfulAmount

\* A pending refund of a payment is not yet among its successes.
LEMMA PendingIsReserved ==
  ASSUME ExecutionInvariant, NEW k \in Keys, refund[k].status = "PENDING",
         NEW p \in Payments, p = refund[k].payment
  PROVE  SuccessfulAmount(p) + refund[k].amount <= ReservedAmount(p)
<1>1. /\ RefundsOf(p, {"SUCCESS"}) \in SUBSET Keys /\ k \notin RefundsOf(p, {"SUCCESS"})
      /\ RefundsOf(p, {"PENDING", "SUCCESS"}) \in SUBSET Keys
      /\ RefundsOf(p, {"SUCCESS"}) \cup {k} \in SUBSET Keys
      /\ RefundsOf(p, {"SUCCESS"}) \cup {k} \subseteq RefundsOf(p, {"PENDING", "SUCCESS"})
  BY DEF RefundsOf
<1>2. Total(RefundsOf(p, {"SUCCESS"}) \cup {k}) = Total(RefundsOf(p, {"SUCCESS"})) + refund[k].amount
  BY <1>1, TotalsTyped
<1>3. QED
  BY <1>1, <1>2, TotalsTyped DEF ReservedAmount, SuccessfulAmount

(***************************************************************************)
(* Steps that change neither a row nor the flag of a payment.              *)
(***************************************************************************)
Reserves(w, p, k, a) ==
    /\ CanReserve(p, a, k) /\ SaveRefund(k, Reservation(p, a))
    /\ Proceed(w, NewJob("gateway", p, a, k))
    /\ UNCHANGED <<order, payment, gateway>>

Quiet ==
    /\ UNCHANGED refund
    /\ \A q \in Payments : payment'[q].refunded = payment[q].refunded

\* Every step is a reservation, a decision, or leaves the refunds alone.
LEMMA StepCases ==
  ASSUME ExecutionInvariant, Next
  PROVE  /\ ExecutionInvariant'
         /\ \/ \E w \in Workers, p \in Payments, k \in Keys : \E a \in 1 .. Amount[p] :
                  Reserves(w, p, k, a)
            \/ \E w \in Workers : PersistSuccess(w) \/ PersistFailure(w) \/ PersistUnknown(w)
            \/ Quiet
<1>1. ASSUME NEW p \in Payments, OrderAdvances(p) PROVE ExecutionInvariant' /\ Quiet
  BY <1>1, OrderAdvancesKeeps DEF Quiet
<1>2. ASSUME NEW k \in Keys, GatewayProcesses(k) PROVE ExecutionInvariant' /\ Quiet
  BY <1>2, GatewayProcessesKeeps DEF GatewayProcesses, Quiet, rows
<1>3. ASSUME NEW w \in Workers, NEW p \in Payments, NEW k \in Keys, NEW a \in Nat,
             Reserves(w, p, k, a)
      PROVE  ExecutionInvariant' /\ a \in 1 .. Amount[p]
  <2>1. a \in Nat \ {0} /\ refund[k].status = "none" /\ a <= Balance(p)
    BY <1>3 DEF Reserves, CanReserve
  <2>2. Balance(p) <= Amount[p]
    BY SuccessfulIsReserved, KeysTyped DEF Balance
  <2>3. ExecutionInvariant'
    BY <1>3, <2>1, ReservationKeeps DEF Reserves
  <2>4. a <= Amount[p]
    BY <2>1, <2>2, SuccessfulIsReserved, KeysTyped DEF Balance
  <2>5. QED
    BY <2>1, <2>3, <2>4, KeysTyped
<1>4. ASSUME NEW w \in Workers, NEW p \in Payments, NEW k \in Keys, NEW a \in 1 .. Amount[p],
             RequestRefund(w, p, a, k)
      PROVE  ExecutionInvariant' /\ Reserves(w, p, k, a)
  BY <1>3, <1>4, KeysTyped DEF RequestRefund, Reserves
<1>5. ASSUME NEW w \in Workers, NEW p \in Payments, NEW k \in Keys, MeasureBalance(w, p, k)
      PROVE  ExecutionInvariant' /\ Quiet
  <2>1. Balance(p) \in Nat
    BY <1>5, SuccessfulIsReserved, KeysTyped DEF MeasureBalance, Balance
  <2>2. QED
    BY <1>5, <2>1, MeasureKeeps DEF Quiet, rows
<1>6. ASSUME NEW w \in Workers, NEW k \in Keys, ReconcilePending(w, k)
      PROVE  ExecutionInvariant' /\ Quiet
  BY <1>6, InquiryKeeps DEF Quiet, rows
<1>7. ASSUME NEW w \in Workers, Finish(w), UNCHANGED <<rows, gateway>>
      PROVE  ExecutionInvariant' /\ Quiet
  BY <1>7, QuietEndKeeps DEF Quiet, rows
<1>8. ASSUME NEW w \in Workers, Crash(w) PROVE ExecutionInvariant' /\ Quiet
  BY <1>7, <1>8, KeysTyped DEF Crash
<1>9. ASSUME NEW w \in Workers, ReserveMeasured(w)
      PROVE  \E p \in Payments, k \in Keys : \E a \in Nat : Reserves(w, p, k, a)
  BY <1>9, KeysTyped DEF ReserveMeasured, Reserves, ExecutionInvariant, WorkersAgree
<1>10. ASSUME NEW w \in Workers, RefuseMeasured(w) \/ PersistSuccessRefused(w) \/ PersistDiscarded(w)
       PROVE  ExecutionInvariant' /\ Quiet
  BY <1>7, <1>10, KeysTyped DEF RefuseMeasured, PersistSuccessRefused, PersistDiscarded
<1>11. ASSUME NEW w \in Workers, PhaseB(w) PROVE ExecutionInvariant' /\ Quiet
  BY <1>11, PhaseBKeeps DEF Quiet, rows
<1>12. ASSUME NEW w \in Workers, InquiryAnswered(w) \/ InquiryUnanswered(w)
       PROVE  ExecutionInvariant' /\ Quiet
  BY <1>12, InquiryKeeps DEF Quiet, rows
<1>13. ASSUME NEW w \in Workers, PersistSuccess(w) \/ PersistFailure(w) \/ PersistUnknown(w)
       PROVE  ExecutionInvariant'
  BY <1>13, PersistSuccessKeeps, PersistFailureKeeps, PersistUnknownKeeps
<1>14. ASSUME NEW w \in Workers, WorkerStep(w)
       PROVE  \/ \E p \in Payments, k \in Keys : \E a \in Nat : Reserves(w, p, k, a)
              \/ PersistSuccess(w) \/ PersistFailure(w) \/ PersistUnknown(w)
              \/ ExecutionInvariant' /\ Quiet
  BY <1>9, <1>10, <1>11, <1>12, <1>14 DEF WorkerStep, PhaseC
<1>15. ASSUME NEW w \in Workers, WorkerStep(w)
       PROVE  /\ ExecutionInvariant'
              /\ \/ \E p \in Payments, k \in Keys : \E a \in 1 .. Amount[p] : Reserves(w, p, k, a)
                 \/ PersistSuccess(w) \/ PersistFailure(w) \/ PersistUnknown(w)
                 \/ Quiet
  BY <1>3, <1>13, <1>14, <1>15
<1>16. QED
  BY <1>1, <1>2, <1>4, <1>5, <1>6, <1>8, <1>15 DEF Next

(***************************************************************************)
(* The theorems.                                                           *)
(***************************************************************************)
LEMMA ExecutionStep ==
  ExecutionInvariant /\ [Next]_vars => ExecutionInvariant'
<1>1. ExecutionInvariant /\ Next => ExecutionInvariant'
  BY StepCases
<1>2. ExecutionInvariant /\ UNCHANGED vars => ExecutionInvariant'
  BY DEF vars, ExecutionInvariant, TypeOK, WorkersAgree, AnswersAgree, RowsAgree,
         ExecutedOnce, OutcomesAgree, AtGateway, Persists
<1>3. QED
  BY <1>1, <1>2

LEMMA ExecutionAlways == Spec => []ExecutionInvariant
  BY ExecutionInit, ExecutionStep, PTL DEF Spec

\* The tables, the workers and the gateway's book keep their shape.
THEOREM RefundTypes == Spec => []TypeOK
  BY ExecutionAlways, PTL DEF ExecutionInvariant

\* What the rows of RefundService say is what the gateway did: a SUCCESS was
\* executed, a FAILED one neither was nor ever will be.
THEOREM RefundOutcomesAgree == Spec => []OutcomesAgree
  BY ExecutionAlways, PTL DEF ExecutionInvariant

\* No refund is sent to its gateway a second time.
THEOREM RefundExecutedOnce == Spec => []ExecutedOnce
  BY ExecutionAlways, PTL DEF ExecutionInvariant

\* A decided refund stays as it is.
LEMMA FinalStep ==
  ASSUME ExecutionInvariant, [Next]_vars
  PROVE  \A k \in Keys :
            /\ refund[k].status \in {"SUCCESS", "FAILED"} => refund'[k] = refund[k]
            /\ refund[k].status # "none" =>
                  /\ refund'[k].payment = refund[k].payment
                  /\ refund'[k].amount = refund[k].amount
<1>1. CASE Next
  <2>1. ASSUME NEW w \in Workers, NEW p \in Payments, NEW k \in Keys, NEW a \in 1 .. Amount[p],
               Reserves(w, p, k, a)
        PROVE  refund[k].status = "none" /\ \A j \in Keys : j # k => refund'[j] = refund[j]
    BY <2>1, KeysTyped, RowsTyped, SaveRefundEffect DEF Reserves, CanReserve, ExecutionInvariant
  <2>2. ASSUME NEW w \in Workers, PersistSuccess(w) \/ PersistFailure(w) \/ PersistUnknown(w)
        PROVE  \E k \in Keys : /\ refund[k].status = "PENDING"
                               /\ refund'[k].payment = refund[k].payment
                               /\ refund'[k].amount = refund[k].amount
                               /\ \A j \in Keys : j # k => refund'[j] = refund[j]
    <3>1. worker[w].phase = "persist" /\ refund[worker[w].key].status = "PENDING"
      BY <2>2 DEF PersistSuccess, PersistFailure, PersistUnknown, Persists, StillPending
    <3>2. \E status \in RefundStatus : Becomes(worker[w].key, status)
      BY <2>2, PersistSuccessKeeps, PersistFailureKeeps, PersistUnknownKeeps DEF RefundStatus
    <3>3. QED
      BY <3>1, <3>2, PersistingRow DEF Becomes
  <2>3. QED
    BY <1>1, <2>1, <2>2, StepCases DEF Quiet
<1>2. CASE UNCHANGED vars
  BY <1>2 DEF vars
<1>3. QED
  BY <1>1, <1>2

\* A terminal refund is never reopened and no refund changes its payment or its
\* amount, whatever answers arrive late.
THEOREM RefundFinality == Spec => RefundIsFinal
<1>1. ExecutionInvariant /\ [Next]_vars =>
        [\A k \in Keys :
            /\ refund[k].status \in {"SUCCESS", "FAILED"} => refund'[k] = refund[k]
            /\ refund[k].status # "none" =>
                  /\ refund'[k].payment = refund[k].payment
                  /\ refund'[k].amount = refund[k].amount]_vars
  BY FinalStep
<1>2. QED
  BY <1>1, ExecutionAlways, PTL DEF Spec, RefundIsFinal

LEMMA BalanceInit == Init => BalanceInvariant
<1> SUFFICES ASSUME Init PROVE BalanceInvariant
  OBVIOUS
<1>1. \A p \in Payments : /\ RefundsOf(p, {"PENDING", "SUCCESS"}) = {}
                          /\ RefundsOf(p, {"SUCCESS"}) = {}
                          /\ payment[p].refunded = FALSE
  BY DEF Init, RefundsOf, NoRefund
<1>2. Total({}) = 0
  BY SumEmpty DEF Total
<1>3. \A p \in Payments : 0 <= Amount[p] /\ 0 # Amount[p]
  BY RefundAssumption
<1>4. \A p \in Payments : ReservedAmount(p) = 0 /\ SuccessfulAmount(p) = 0
  BY <1>1, <1>2 DEF ReservedAmount, SuccessfulAmount
<1>5. ReservedWithinPayment
  BY <1>3, <1>4 DEF ReservedWithinPayment
<1>6. FlagMatchesSum
  BY <1>1, <1>3, <1>4, Zenon DEF FlagMatchesSum
<1>7. QED
  BY <1>5, <1>6 DEF BalanceInvariant

LEMMA ReservationBalances ==
  ASSUME ExecutionInvariant, ExecutionInvariant', BalanceInvariant,
         NEW w \in Workers, NEW p \in Payments, NEW k \in Keys, NEW a \in 1 .. Amount[p],
         Reserves(w, p, k, a)
  PROVE  BalanceInvariant'
<1>1. /\ a \in Nat \ {0} /\ refund[k].status = "none" /\ a <= Balance(p)
      /\ SaveRefund(k, Reservation(p, a)) /\ UNCHANGED payment
  BY KeysTyped DEF Reserves, CanReserve
<1>2. /\ ReservedAmount(p)' = ReservedAmount(p) + a
      /\ \A q \in Payments : q # p => ReservedAmount(q)' = ReservedAmount(q)
      /\ \A q \in Payments : SuccessfulAmount(q)' = SuccessfulAmount(q)
  BY <1>1, ReservationTotals
<1>3. ReservedAmount(p) + a <= Amount[p]
  BY <1>1, SuccessfulIsReserved, KeysTyped DEF Balance
<1>4. ReservedWithinPayment'
  BY <1>2, <1>3 DEF BalanceInvariant, ReservedWithinPayment
<1>5. FlagMatchesSum'
  BY <1>1, <1>2 DEF BalanceInvariant, FlagMatchesSum
<1>6. QED
  BY <1>4, <1>5 DEF BalanceInvariant

\* What Phase C does to the flag of the payment.
LEMMA SynchronisedFlag ==
  ASSUME ExecutionInvariant, NEW w \in Workers, PersistSuccess(w)
  PROVE  LET k == worker[w].key  p == refund[k].payment IN
         /\ k \in Keys /\ p \in Payments /\ refund[k].status = "PENDING"
         /\ payment'[p].refunded <=> SuccessfulAmount(p) + refund[k].amount = Amount[p]
         /\ \A q \in Payments : q # p => payment'[q] = payment[q]
<1> DEFINE k == worker[w].key
           p == refund[k].payment
           synced == Synchronised(p, SuccessfulAmount(p) + refund[k].amount)
<1>1. /\ k \in Keys /\ p \in Payments /\ refund[k].status = "PENDING"
      /\ payment' = [payment EXCEPT ![p] = synced]
  BY PersistingRow DEF PersistSuccess, Persists, StillPending
<1>2. synced.refunded <=> SuccessfulAmount(p) + refund[k].amount = Amount[p]
  BY DEF Synchronised
<1> HIDE DEF synced
<1>3. payment'[p] = synced /\ \A q \in Payments : q # p => payment'[q] = payment[q]
  BY <1>1 DEF ExecutionInvariant, TypeOK
<1>4. QED
  BY <1>1, <1>2, <1>3

LEMMA ReservedNatural ==
  ExecutionInvariant => \A q \in Payments : ReservedAmount(q) \in Nat
  BY SuccessfulIsReserved

LEMMA ReservedTyped ==
  ASSUME ExecutionInvariant, ExecutionInvariant'
  PROVE  \A q \in Payments : ReservedAmount(q) \in Nat /\ ReservedAmount(q)' \in Nat
<1>1. (ExecutionInvariant => \A q \in Payments : ReservedAmount(q) \in Nat)'
  BY ReservedNatural, PTL
<1>2. QED
  BY <1>1, ReservedNatural

LEMMA DecisionBalances ==
  ASSUME ExecutionInvariant, ExecutionInvariant', BalanceInvariant, NEW w \in Workers,
         PersistSuccess(w) \/ PersistFailure(w) \/ PersistUnknown(w)
  PROVE  BalanceInvariant'
<1> DEFINE k == worker[w].key
<1>1. k \in Keys /\ refund[k].status = "PENDING" /\ refund[k].payment \in Payments
  BY PersistingRow DEF PersistSuccess, PersistFailure, PersistUnknown, Persists, StillPending
<1>2. ASSUME NEW status \in {"PENDING", "SUCCESS", "FAILED"}, Becomes(k, status)
      PROVE  ReservedWithinPayment'
  <2>1. \A q \in Payments : ReservedAmount(q)' <= ReservedAmount(q)
    BY <1>1, <1>2, DecisionTotals
  <2>2. \A q \in Payments : ReservedAmount(q) \in Nat /\ ReservedAmount(q)' \in Nat
    BY ReservedTyped
  <2>3. QED
    BY <2>1, <2>2, KeysTyped DEF BalanceInvariant, ReservedWithinPayment
<1>3. CASE PersistSuccess(w)
  <2>1. Becomes(k, "SUCCESS")
    BY <1>3, PersistSuccessKeeps
  <2>2. \A q \in Payments :
           SuccessfulAmount(q)' = IF q = refund[k].payment
                                  THEN SuccessfulAmount(q) + refund[k].amount
                                  ELSE SuccessfulAmount(q)
    BY <1>1, <2>1, DecisionTotals
  <2>3. FlagMatchesSum'
    BY <1>3, <2>2, SynchronisedFlag DEF BalanceInvariant, FlagMatchesSum
  <2>4. QED
    BY <1>2, <2>1, <2>3 DEF BalanceInvariant
<1>4. ASSUME NEW status \in {"PENDING", "FAILED"}, Becomes(k, status), UNCHANGED payment
      PROVE  BalanceInvariant'
  <2>1. \A q \in Payments : SuccessfulAmount(q)' = SuccessfulAmount(q)
    BY <1>1, <1>4, DecisionTotals
  <2>2. FlagMatchesSum'
    BY <1>4, <2>1 DEF BalanceInvariant, FlagMatchesSum
  <2>3. QED
    BY <1>2, <1>4, <2>2 DEF BalanceInvariant
<1>5. CASE PersistFailure(w)
  BY <1>4, <1>5, PersistFailureKeeps DEF PersistFailure
<1>6. CASE PersistUnknown(w)
  BY <1>4, <1>6, PersistUnknownKeeps DEF PersistUnknown
<1>7. QED
  BY <1>3, <1>5, <1>6

LEMMA QuietBalances ==
  ASSUME BalanceInvariant, Quiet PROVE BalanceInvariant'
  BY TotalsStand DEF Quiet, BalanceInvariant, ReservedWithinPayment, FlagMatchesSum

LEMMA BalanceStep ==
  ExecutionInvariant /\ BalanceInvariant /\ [Next]_vars => BalanceInvariant'
<1>1. ExecutionInvariant /\ BalanceInvariant /\ Next => BalanceInvariant'
  BY StepCases, ReservationBalances, DecisionBalances, QuietBalances
<1>2. UNCHANGED vars => Quiet
  BY DEF vars, Quiet
<1>3. QED
  BY <1>1, <1>2, QuietBalances

LEMMA BalanceAlways == Spec => [](ExecutionInvariant /\ BalanceInvariant)
<1>1. Init => ExecutionInvariant /\ BalanceInvariant
  BY ExecutionInit, BalanceInit
<1>2. (ExecutionInvariant /\ BalanceInvariant) /\ [Next]_vars
        => (ExecutionInvariant /\ BalanceInvariant)'
  BY ExecutionStep, BalanceStep
<1>3. QED
  BY <1>1, <1>2, PTL DEF Spec

\* A payment is marked refunded exactly when its successful refunds add up to it.
THEOREM RefundFlagMatchesSum == Spec => []FlagMatchesSum
  BY BalanceAlways, PTL DEF BalanceInvariant

\* What the gateway has handed back was reserved, so it never exceeds the payment.
THEOREM RefundMoneyWithinPayment == Spec => []MoneyWithinPayment
<1>1. ExecutionInvariant /\ BalanceInvariant => MoneyWithinPayment
  <2> SUFFICES ASSUME ExecutionInvariant, BalanceInvariant, NEW p \in Payments
               PROVE  Total(ExecutedFor(p)) <= Amount[p]
    BY DEF MoneyWithinPayment
  <2>1. /\ RefundsOf(p, {"PENDING", "SUCCESS"}) \in SUBSET Keys
        /\ ExecutedFor(p) \in SUBSET Keys
    BY DEF RefundsOf, ExecutedFor
  <2>2. ExecutedFor(p) \subseteq RefundsOf(p, {"PENDING", "SUCCESS"})
    BY KeysTyped DEF RefundsOf, ExecutedFor, ExecutionInvariant, RowsAgree, OutcomesAgree, RefundStatus
  <2>3. Total(ExecutedFor(p)) <= ReservedAmount(p)
    BY <2>1, <2>2, TotalsTyped DEF ReservedAmount
  <2>4. QED
    BY <2>1, <2>3, TotalsTyped, SuccessfulIsReserved, KeysTyped
       DEF BalanceInvariant, ReservedWithinPayment
<1>2. QED
  BY <1>1, BalanceAlways, PTL

(***************************************************************************)
(* The services implement RefundLedger.                                    *)
(***************************************************************************)
LEMMA LedgerSums ==
  ASSUME NEW f, NEW S PROVE Ledger!SumOver(f, S) = SumOver(f, S)
<1>1. \A x \in S : Ledger!Units(f, x) = Units(f, x)
  BY DEF Ledger!Units, Units
<1>2. {Ledger!Units(f, x) : x \in S} = {Units(f, x) : x \in S}
  BY <1>1
<1>3. \A T : Ledger!Cardinality(T) = Cardinality(T)
  BY Zenon DEF Ledger!Cardinality, Cardinality
<1>4. QED
  BY <1>2, <1>3 DEF Ledger!SumOver, SumOver

LEMMA EntriesTyped ==
  ASSUME ExecutionInvariant
  PROVE  /\ \A k \in Keys : /\ entry[k].payment = refund[k].payment
                            /\ entry[k].amount = refund[k].amount
                            /\ entry[k].state = EntryState(k)
         /\ \A k \in Keys : entry[k].state \in {"held", "paid"}
                               <=> refund[k].status \in {"PENDING", "SUCCESS"}
         /\ \A k \in Keys : entry[k].state = "held"
                               <=> refund[k].status = "PENDING" /\ gateway[k].state # "executed"
         /\ \A k \in Keys : refund[k].status = "SUCCESS" => entry[k].state = "paid"
         /\ \A S \in SUBSET Keys : Ledger!Total(S) = Total(S)
<1>1. \A k \in Keys : /\ entry[k].payment = refund[k].payment
                      /\ entry[k].amount = refund[k].amount
                      /\ entry[k].state = EntryState(k)
  BY DEF entry
<1>2. \A S \in SUBSET Keys : Ledger!Total(S) = Total(S)
  <2>1. [k \in Keys |-> entry[k].amount] = [k \in Keys |-> refund[k].amount]
    BY <1>1
  <2>2. QED
    BY <2>1, LedgerSums DEF Ledger!Total, Total
<1>3. \A k \in Keys : refund[k].status \in RefundStatus
                      /\ (refund[k].status = "SUCCESS" => gateway[k].state = "executed")
  BY KeysTyped DEF ExecutionInvariant, OutcomesAgree
<1>4. QED
  BY <1>1, <1>2, <1>3 DEF EntryState, RefundStatus

LEMMA LedgerBalance ==
  ASSUME ExecutionInvariant, NEW p \in Payments
  PROVE  /\ Ledger!Available(p) = Balance(p)
         /\ SuccessfulAmount(p) <= Ledger!Total(Ledger!EntriesOf(p, {"paid"}))
         /\ Ledger!Total(Ledger!EntriesOf(p, {"paid"})) <= ReservedAmount(p)
         /\ Ledger!Total(Ledger!EntriesOf(p, {"paid"})) \in Nat
<1> DEFINE paid == Ledger!EntriesOf(p, {"paid"})
<1>1. Ledger!EntriesOf(p, {"held", "paid"}) = RefundsOf(p, {"PENDING", "SUCCESS"})
  BY EntriesTyped DEF Ledger!EntriesOf, RefundsOf
<1>2. /\ paid \in SUBSET Keys
      /\ RefundsOf(p, {"PENDING", "SUCCESS"}) \in SUBSET Keys
      /\ RefundsOf(p, {"SUCCESS"}) \in SUBSET Keys
  BY DEF Ledger!EntriesOf, RefundsOf
<1>3. RefundsOf(p, {"SUCCESS"}) \subseteq paid
  BY EntriesTyped DEF Ledger!EntriesOf, RefundsOf
<1>4. paid \subseteq RefundsOf(p, {"PENDING", "SUCCESS"})
  BY EntriesTyped DEF Ledger!EntriesOf, RefundsOf
<1>5. Ledger!Total(paid) = Total(paid)
  BY <1>2, EntriesTyped
<1> HIDE DEF paid
<1>6. /\ Total(RefundsOf(p, {"SUCCESS"})) <= Total(paid)
      /\ Total(paid) <= Total(RefundsOf(p, {"PENDING", "SUCCESS"}))
      /\ Total(paid) \in Nat
  BY <1>2, <1>3, <1>4, TotalsTyped
<1>7. Ledger!Available(p) = Balance(p)
  BY <1>1, <1>2, EntriesTyped DEF Ledger!Available, Balance, ReservedAmount
<1>8. QED
  BY <1>5, <1>6, <1>7 DEF ReservedAmount, SuccessfulAmount, paid

\* The entry of one refund changes, the others stay.
EntryMoves(k, p, a, state) ==
    entry' = [entry EXCEPT ![k] = [payment |-> p, amount |-> a, state |-> state]]

LEMMA EntryMovesRule ==
  ASSUME NEW k \in Keys, NEW p, NEW a, NEW state,
         refund'[k].payment = p, refund'[k].amount = a, EntryState(k)' = state,
         \A j \in Keys : j # k => refund'[j] = refund[j] /\ gateway'[j] = gateway[j]
  PROVE  EntryMoves(k, p, a, state)
<1> DEFINE row(j) == [payment |-> refund[j].payment, amount |-> refund[j].amount,
                      state |-> EntryState(j)]
           new(j) == [payment |-> refund'[j].payment, amount |-> refund'[j].amount,
                      state |-> EntryState(j)']
<1>1. entry = [j \in Keys |-> row(j)] /\ entry' = [j \in Keys |-> new(j)]
  BY DEF entry
<1>2. \A j \in Keys : j # k => new(j) = row(j)
  BY DEF EntryState
<1>3. new(k) = [payment |-> p, amount |-> a, state |-> state]
  OBVIOUS
<1> HIDE DEF row, new
<1>4. QED
  BY <1>1, <1>2, <1>3 DEF EntryMoves

LEMMA EntriesStand ==
  ASSUME \A j \in Keys : /\ refund'[j].payment = refund[j].payment
                         /\ refund'[j].amount = refund[j].amount
                         /\ EntryState(j)' = EntryState(j)
  PROVE  UNCHANGED entry
  BY DEF entry

LEMMA FullStands ==
  ASSUME \A q \in Payments : payment'[q].refunded = payment[q].refunded
  PROVE  UNCHANGED full
  BY DEF full

LEMMA LedgerInit == Init => Ledger!Init
<1> SUFFICES ASSUME Init PROVE Ledger!Init
  OBVIOUS
<1>1. \A k \in Keys : refund[k] = NoRefund
  BY DEF Init
<1>2. entry = [k \in Keys |-> Ledger!Blank]
  BY <1>1 DEF entry, EntryState, NoRefund, Ledger!Blank
<1>3. full = {}
  BY DEF Init, full
<1>4. QED
  BY <1>2, <1>3 DEF Ledger!Init

LEMMA ReservationHolds ==
  ASSUME ExecutionInvariant, NEW w \in Workers, NEW p \in Payments, NEW k \in Keys,
         NEW a \in 1 .. Amount[p], Reserves(w, p, k, a)
  PROVE  Ledger!Hold(p, k, a)
<1>1. /\ refund[k].status = "none" /\ a <= Balance(p) /\ a \in Nat \ {0}
      /\ ~payment[p].refunded /\ UNCHANGED <<payment, gateway>>
      /\ SaveRefund(k, Reservation(p, a))
  BY KeysTyped DEF Reserves, CanReserve, PaymentRefundable
<1>2. /\ refund'[k].status = "PENDING" /\ refund'[k].payment = p /\ refund'[k].amount = a
      /\ \A j \in Keys : j # k => refund'[j] = refund[j]
  BY <1>1, RowsTyped, SaveRefundEffect DEF ExecutionInvariant, Reservation
<1>3. gateway[k].state = "none"
  BY <1>1 DEF ExecutionInvariant, RowsAgree
<1>4. EntryState(k)' = "held"
  BY <1>1, <1>2, <1>3 DEF EntryState
<1>5. EntryMoves(k, p, a, "held")
  BY <1>1, <1>2, <1>4, EntryMovesRule
<1>6. entry[k].state = "none"
  BY <1>1, EntriesTyped DEF EntryState
<1>7. p \notin full /\ UNCHANGED full
  BY <1>1, FullStands DEF full
<1>8. a > 0 /\ a <= Ledger!Available(p)
  BY <1>1, LedgerBalance
<1>9. QED
  BY <1>5, <1>6, <1>7, <1>8 DEF Ledger!Hold, EntryMoves

\* The gateway's book moves on while the rows stand still.
LEMMA GatewayMoves ==
  ASSUME ExecutionInvariant, ExecutionInvariant', UNCHANGED rows, NEW k \in Keys,
         gateway[k].state # "executed",
         refund[k].status \notin {"SUCCESS", "none"},
         NEW n \in Nat, NEW state \in GatewayState, SaveExecution(k, n, state)
  PROVE  Ledger!Decide(k, "paid") \/ UNCHANGED <<entry, full>>
<1>1. /\ gateway'[k].state = state
      /\ \A j \in Keys : j # k => gateway'[j] = gateway[j]
      /\ UNCHANGED <<refund, payment>>
  BY SaveExecutionEffect DEF ExecutionInvariant, rows
<1>2. UNCHANGED full
  BY <1>1, FullStands
<1>3. CASE refund[k].status = "PENDING" /\ state = "executed"
  <2>1. EntryState(k)' = "paid" /\ entry[k].state = "held"
    BY <1>1, <1>3, EntriesTyped DEF EntryState
  <2>2. EntryMoves(k, entry[k].payment, entry[k].amount, "paid")
    BY <1>1, <2>1, EntryMovesRule, EntriesTyped
  <2>3. QED
    BY <1>2, <2>1, <2>2 DEF Ledger!Decide, EntryMoves
<1>4. CASE ~(refund[k].status = "PENDING" /\ state = "executed")
  <2>1. EntryState(k)' = EntryState(k)
    BY <1>1, <1>4, KeysTyped DEF EntryState, RefundStatus
  <2>2. UNCHANGED entry
    BY <1>1, <2>1, EntriesStand DEF EntryState
  <2>3. QED
    BY <1>2, <2>2
<1>5. QED
  BY <1>3, <1>4

PaidCoversSuccesses ==
    \A p \in Payments : SuccessfulAmount(p) <= Ledger!Total(Ledger!EntriesOf(p, {"paid"}))

LEMMA LedgerPaid == ExecutionInvariant => PaidCoversSuccesses
  BY LedgerBalance DEF PaidCoversSuccesses

LEMMA LedgerPaidNext ==
  ASSUME ExecutionInvariant', NEW p \in Payments
  PROVE  SuccessfulAmount(p)' <= Ledger!Total(Ledger!EntriesOf(p, {"paid"}))'
<1>1. (ExecutionInvariant => PaidCoversSuccesses)'
  BY LedgerPaid, PTL
<1>2. QED
  BY <1>1 DEF PaidCoversSuccesses

LEMMA SuccessCompletes ==
  ASSUME ExecutionInvariant, ExecutionInvariant', BalanceInvariant, BalanceInvariant',
         NEW w \in Workers, PersistSuccess(w)
  PROVE  UNCHANGED entry /\ (UNCHANGED full \/ \E p \in Payments : Ledger!Complete(p))
<1> PICK k \in Keys : k = worker[w].key
  BY PersistingRow DEF PersistSuccess, Persists
<1> PICK p \in Payments : p = refund[k].payment
  BY SynchronisedFlag
<1>1. /\ refund[k].status = "PENDING"
      /\ payment'[p].refunded <=> SuccessfulAmount(p) + refund[k].amount = Amount[p]
      /\ \A q \in Payments : q # p => payment'[q] = payment[q]
  BY SynchronisedFlag
<1>2. Becomes(k, "SUCCESS") /\ UNCHANGED gateway
  BY PersistSuccessKeeps DEF PersistSuccess
<1>3. gateway[k].state = "executed"
  BY DEF PersistSuccess, ExecutionInvariant, AnswersAgree
<1>4. UNCHANGED entry
  <2>1. \A j \in Keys : EntryState(j)' = EntryState(j)
    BY <1>1, <1>2, <1>3 DEF EntryState, Becomes
  <2>2. QED
    BY <1>2, <2>1, EntriesStand DEF Becomes
<1>5. /\ SuccessfulAmount(p) + refund[k].amount <= ReservedAmount(p)
      /\ ReservedAmount(p) <= Amount[p]
      /\ refund[k].amount \in Nat /\ refund[k].amount > 0
      /\ SuccessfulAmount(p) \in Nat /\ ReservedAmount(p) \in Nat /\ Amount[p] \in Nat
  BY <1>1, PendingIsReserved, SuccessfulIsReserved, KeysTyped
     DEF BalanceInvariant, ReservedWithinPayment, ExecutionInvariant, RowsAgree
<1>6. ~payment[p].refunded
  <2>1. SuccessfulAmount(p) # Amount[p]
    BY <1>5
  <2>2. QED
    BY <1>1, <2>1 DEF BalanceInvariant, FlagMatchesSum
<1>7. CASE ~payment'[p].refunded
  <2>1. \A q \in Payments : payment'[q].refunded = payment[q].refunded
    BY <1>1, <1>6, <1>7, KeysTyped DEF ExecutionInvariant, TypeOK, PaymentRow
  <2>2. QED
    BY <1>4, <2>1, FullStands
<1>8. CASE payment'[p].refunded
  <2>1. full' = full \cup {p} /\ p \notin full
    BY <1>1, <1>6, <1>8 DEF full
  <2>2. Ledger!Total(Ledger!EntriesOf(p, {"paid"})) = Amount[p]
    <3>1. SuccessfulAmount(p)' = Amount[p]
      <4>1. SuccessfulAmount(p)' = SuccessfulAmount(p) + refund[k].amount
        BY <1>1, <1>2, DecisionTotals
      <4>2. QED
        BY <1>1, <1>8, <4>1
    <3>2. SuccessfulAmount(p)' <= Ledger!Total(Ledger!EntriesOf(p, {"paid"}))'
      BY <1>1, LedgerPaidNext
    <3>3. Ledger!Total(Ledger!EntriesOf(p, {"paid"}))' = Ledger!Total(Ledger!EntriesOf(p, {"paid"}))
      BY <1>4 DEF Ledger!Total, Ledger!EntriesOf, Ledger!SumOver, Ledger!Units
    <3>4. QED
      BY <1>1, <1>5, <3>1, <3>2, <3>3, LedgerBalance
  <2>3. QED
    BY <1>1, <1>4, <2>1, <2>2 DEF Ledger!Complete
<1>9. QED
  BY <1>7, <1>8

LEMMA FailureReleases ==
  ASSUME ExecutionInvariant, NEW w \in Workers, PersistFailure(w)
  PROVE  \E k \in Keys : Ledger!Decide(k, "released")
<1> PICK k \in Keys : k = worker[w].key
  BY PersistingRow DEF PersistFailure, Persists
<1>1. /\ Becomes(k, "FAILED") /\ UNCHANGED <<gateway, payment>>
      /\ refund[k].status = "PENDING" /\ gateway[k].state # "executed"
  BY PersistFailureKeeps DEF PersistFailure, StillPending, ExecutionInvariant, AnswersAgree
<1>2. EntryState(k)' = "released" /\ entry[k].state = "held"
  BY <1>1, EntriesTyped DEF EntryState, Becomes
<1>3. EntryMoves(k, entry[k].payment, entry[k].amount, "released")
  BY <1>1, <1>2, EntryMovesRule, EntriesTyped DEF Becomes
<1>4. QED
  BY <1>1, <1>2, <1>3, FullStands DEF Ledger!Decide, EntryMoves

LEMMA UnknownStands ==
  ASSUME ExecutionInvariant, NEW w \in Workers, PersistUnknown(w)
  PROVE  UNCHANGED <<entry, full>>
<1> PICK k \in Keys : k = worker[w].key
  BY PersistingRow DEF PersistUnknown, Persists
<1>1. /\ Becomes(k, "PENDING") /\ UNCHANGED <<gateway, payment>> /\ refund[k].status = "PENDING"
  BY PersistUnknownKeeps DEF PersistUnknown, StillPending
<1>2. \A j \in Keys : EntryState(j)' = EntryState(j)
  BY <1>1 DEF EntryState, Becomes
<1>3. QED
  BY <1>1, <1>2, EntriesStand, FullStands DEF Becomes

LEMMA QuietStands ==
  ASSUME Quiet, UNCHANGED gateway
  PROVE  UNCHANGED <<entry, full>>
<1>1. \A j \in Keys : EntryState(j)' = EntryState(j)
  BY DEF Quiet, EntryState
<1>2. QED
  BY <1>1, EntriesStand, FullStands DEF Quiet

LedgerStep == Ledger!Next \/ UNCHANGED <<entry, full>>

\* Only the gateway's own steps move its book.
LEMMA GatewayCases ==
  ASSUME ExecutionInvariant, Next
  PROVE  \/ UNCHANGED gateway
         \/ \E w \in Workers : PhaseB(w)
         \/ \E k \in Keys : GatewayProcesses(k)
  BY DEF Next, OrderAdvances, RequestRefund, MeasureBalance, ReconcilePending, WorkerStep, Crash,
         ReserveMeasured, RefuseMeasured, InquiryAnswered, InquiryUnanswered, PhaseC,
         PersistSuccess, PersistSuccessRefused, PersistFailure, PersistUnknown, PersistDiscarded

LEMMA GatewayStepsDecide ==
  ASSUME ExecutionInvariant, ExecutionInvariant',
         \/ \E w \in Workers : PhaseB(w)
         \/ \E k \in Keys : GatewayProcesses(k)
  PROVE  LedgerStep
<1>1. ASSUME NEW w \in Workers, PhaseB(w) PROVE LedgerStep
  <2> PICK k \in Keys : k = worker[w].key
    BY <1>1 DEF PhaseB, RefundExecuted, RefundDeclined, RefundUnanswered, RefundAnswerRaises,
                RefundUnsupported, Asks, ExecutionInvariant, WorkersAgree
  <2>1. /\ gateway[k].state = "none" /\ refund[k].status = "PENDING" /\ UNCHANGED rows
        /\ \/ UNCHANGED gateway
           \/ \E state \in GatewayState : SaveExecution(k, gateway[k].asked + 1, state)
    BY <1>1 DEF PhaseB, RefundExecuted, RefundDeclined, RefundUnanswered, RefundAnswerRaises,
                RefundUnsupported, Asks, ExecutionInvariant, WorkersAgree, GatewayState
  <2>2. gateway[k].asked + 1 \in Nat
    BY KeysTyped
  <2>3. CASE UNCHANGED gateway
    BY <2>1, <2>3, QuietStands DEF Quiet, rows, LedgerStep
  <2>4. CASE \E state \in GatewayState : SaveExecution(k, gateway[k].asked + 1, state)
    BY <2>1, <2>2, <2>4, GatewayMoves DEF LedgerStep, Ledger!Next
  <2>5. QED
    BY <2>1, <2>3, <2>4
<1>2. ASSUME NEW k \in Keys, GatewayProcesses(k) PROVE LedgerStep
  <2>1. /\ gateway[k].state = "received" /\ UNCHANGED rows
        /\ \E state \in GatewayState : SaveExecution(k, gateway[k].asked, state)
    BY <1>2 DEF GatewayProcesses, GatewayState
  <2>2. refund[k].status \notin {"SUCCESS", "none"} /\ gateway[k].asked \in Nat
    BY <2>1, KeysTyped DEF ExecutionInvariant, OutcomesAgree, RowsAgree
  <2>3. QED
    BY <2>1, <2>2, GatewayMoves DEF LedgerStep, Ledger!Next
<1>3. QED
  BY <1>1, <1>2

LEMMA ServiceStepsMap ==
  ASSUME ExecutionInvariant, ExecutionInvariant', BalanceInvariant, BalanceInvariant',
         Next, UNCHANGED gateway
  PROVE  LedgerStep
<1>1. ASSUME NEW w \in Workers, NEW p \in Payments, NEW k \in Keys, NEW a \in 1 .. Amount[p],
             Reserves(w, p, k, a)
      PROVE  LedgerStep
  BY <1>1, ReservationHolds DEF LedgerStep, Ledger!Next
<1>2. ASSUME NEW w \in Workers, PersistSuccess(w) PROVE LedgerStep
  BY <1>2, SuccessCompletes DEF LedgerStep, Ledger!Next
<1>3. ASSUME NEW w \in Workers, PersistFailure(w) PROVE LedgerStep
  BY <1>3, FailureReleases DEF LedgerStep, Ledger!Next
<1>4. ASSUME NEW w \in Workers, PersistUnknown(w) PROVE LedgerStep
  BY <1>4, UnknownStands DEF LedgerStep
<1>5. ASSUME Quiet PROVE LedgerStep
  BY <1>5, QuietStands DEF LedgerStep
<1>6. QED
  BY <1>1, <1>2, <1>3, <1>4, <1>5, StepCases

LEMMA LedgerNext ==
  /\ ExecutionInvariant /\ BalanceInvariant
  /\ (ExecutionInvariant /\ BalanceInvariant)'
  /\ [Next]_vars
  => [Ledger!Next]_(Ledger!vars)
<1> SUFFICES ASSUME ExecutionInvariant, BalanceInvariant, ExecutionInvariant',
                    BalanceInvariant', [Next]_vars
             PROVE  LedgerStep
  BY DEF LedgerStep, Ledger!vars
<1>1. CASE Next
  BY <1>1, GatewayCases, GatewayStepsDecide, ServiceStepsMap
<1>2. CASE UNCHANGED vars
  BY <1>2, QuietStands DEF Quiet, vars, LedgerStep
<1>3. QED
  BY <1>1, <1>2

\* Seen from the balance, every refund is one decision: its part of the payment
\* is held, and then paid out or released for good.
THEOREM RefundImplementsLedger == Spec => ImplementsLedger
  BY LedgerInit, LedgerNext, BalanceAlways, PTL DEF Spec, ImplementsLedger, Ledger!Spec

\* No payment hands back more than it took, and its flag says when it is all.
THEOREM RefundBalanceAgrees == Spec => []BalanceAgrees
  BY RefundMoneyWithinPayment, RefundFlagMatchesSum, PTL DEF BalanceAgrees

\* Every refund is executed at most once, and exactly if its row may say so.
THEOREM RefundExecutionAgrees == Spec => []ExecutionAgrees
  BY RefundOutcomesAgree, RefundExecutedOnce, PTL DEF ExecutionAgrees
=============================================================================
