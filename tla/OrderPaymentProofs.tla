------------------------- MODULE OrderPaymentProofs -------------------------
(***************************************************************************)
(* Proofs about OrderPayment, for any number of orders, payments, attempts,*)
(* workers, coupons and crashes: first its own invariants, then the count  *)
(* of the coupons, and that it implements Sale.                            *)
(***************************************************************************)
EXTENDS OrderPayment, FiniteSetTheorems, TLAPS

(***************************************************************************)
(* What saving a row does to the table.                                    *)
(***************************************************************************)
LEMMA SavePaymentEffect ==
  ASSUME payment \in [Payments -> PaymentRow], NEW p \in Payments,
         NEW row \in PaymentRow, SavePayment(p, row)
  PROVE  /\ payment' \in [Payments -> PaymentRow]
         /\ \A q \in Payments : payment'[q] = IF q = p THEN row ELSE payment[q]
  BY DEF SavePayment

LEMMA SaveOrderEffect ==
  ASSUME order \in [Orders -> OrderRow], NEW o \in Orders,
         NEW row \in OrderRow, SaveOrder(o, row)
  PROVE  /\ order' \in [Orders -> OrderRow]
         /\ \A q \in Orders : order'[q] = IF q = o THEN row ELSE order[q]
  BY DEF SaveOrder

LEMMA SaveAttemptEffect ==
  ASSUME attempt \in [Payments -> [Numbers -> AttemptRow]], NEW p \in Payments,
         NEW n \in Numbers, NEW row \in AttemptRow, SaveAttempt(p, n, row)
  PROVE  /\ attempt' \in [Payments -> [Numbers -> AttemptRow]]
         /\ \A q \in Payments, m \in Numbers :
              attempt'[q][m] = IF q = p /\ m = n THEN row ELSE attempt[q][m]
  BY DEF SaveAttempt

LEMMA NoteSessionEffect ==
  ASSUME gateway \in [Payments -> [Numbers -> Session]], NEW p \in Payments,
         NEW n \in Numbers, NEW session \in Session, NoteSession(p, n, session)
  PROVE  /\ gateway' \in [Payments -> [Numbers -> Session]]
         /\ \A q \in Payments, m \in Numbers :
              gateway'[q][m] = IF q = p /\ m = n THEN session ELSE gateway[q][m]
  BY DEF NoteSession

LEMMA ProceedEffect ==
  ASSUME worker \in [Workers -> Requests \cup {Idle}], NEW w \in Workers,
         NEW request \in Requests \cup {Idle}, Proceed(w, request)
  PROVE  /\ worker' \in [Workers -> Requests \cup {Idle}]
         /\ \A v \in Workers : worker'[v] = IF v = w THEN request ELSE worker[v]
  BY DEF Proceed

(***************************************************************************)
(* The life of an order.                                                   *)
(***************************************************************************)
LEMMA StatusFacts ==
  /\ OrderStatus = {"none", "pending", "failed", "cancelled"} \cup PaidLike
  /\ {"none", "pending", "failed", "cancelled"} \cap PaidLike = {}
  /\ {"paid", "refunded"} \subseteq PaidLike
  /\ TRANSITIONS["none"] = {}
  BY DEF OrderStatus, TRANSITIONS, PaidLike

LEMMA LegalMoves ==
  ASSUME NEW s \in OrderStatus, NEW t \in TRANSITIONS[s], t # "paid"
  PROVE  \/ s \in {"pending", "failed"} /\ t \in {"pending", "failed", "cancelled"}
         \/ s \in PaidLike \ {"refunded"} /\ t \in PaidLike \cup {"cancelled"}
  BY DEF OrderStatus, TRANSITIONS, PaidLike

(***************************************************************************)
(* The rows that are saved.                                                *)
(***************************************************************************)
LEMMA OrderRowTyped ==
  ASSUME NEW row \in OrderRow, NEW s \in OrderStatus
  PROVE  /\ WithStatus(row, s) \in OrderRow
         /\ WithStatus(row, s).status = s
  BY DEF OrderRow, WithStatus

LEMMA ExpiredRowTyped ==
  ASSUME NEW row \in OrderRow
  PROVE  /\ [row EXCEPT !.expired = TRUE] \in OrderRow
         /\ [row EXCEPT !.expired = TRUE].status = row.status
  BY DEF OrderRow

LEMMA PaymentRowTyped ==
  ASSUME NEW row \in PaymentRow, NEW s \in PaymentStatus
  PROVE  /\ WithStatus(row, s) \in PaymentRow
         /\ WithStatus(row, s).order = row.order
         /\ WithStatus(row, s).status = s
         /\ WithStatus(row, s).consumed = row.consumed
  BY DEF PaymentRow, WithStatus

LEMMA ConsumedRowTyped ==
  ASSUME NEW row \in PaymentRow
  PROVE  /\ [row EXCEPT !.consumed = TRUE] \in PaymentRow
         /\ [row EXCEPT !.consumed = TRUE].order = row.order
         /\ [row EXCEPT !.consumed = TRUE].status = row.status
         /\ [row EXCEPT !.consumed = TRUE].consumed
  BY DEF PaymentRow

LEMMA AttemptRowTyped ==
  ASSUME NEW row \in AttemptRow, NEW s \in PaymentStatus
  PROVE  /\ WithStatus(row, s) \in AttemptRow
         /\ WithStatus(row, s).status = s
         /\ row.authority => WithStatus(row, s).authority
  BY DEF AttemptRow, WithStatus

LEMMA AuthorizedRowTyped ==
  ASSUME NEW row \in AttemptRow
  PROVE  /\ [row EXCEPT !.authority = TRUE] \in AttemptRow
         /\ [row EXCEPT !.authority = TRUE].status = row.status
         /\ [row EXCEPT !.authority = TRUE].authority
  BY DEF AttemptRow

LEMMA AskedTyped ==
  ASSUME NEW s \in Session
  PROVE  /\ Asked(s) \in Session
         /\ Asked(s).requests = s.requests + 1
         /\ Asked(s).state = s.state
  BY DEF Session, Asked

LEMMA DeniedTyped ==
  ASSUME NEW s \in Session
  PROVE  /\ Denied(s) \in Session
         /\ Denied(s).requests = s.requests
         /\ Denied(s).state = s.state
         /\ Denied(s).denied
  BY DEF Session, Denied

LEMMA InStateTyped ==
  ASSUME NEW s \in Session, NEW state \in GatewayState
  PROVE  /\ InState(s, state) \in Session
         /\ InState(s, state).requests = s.requests
         /\ InState(s, state).state = state
         /\ s.denied => InState(s, state).denied
  BY DEF Session, InState

LEMMA RedeemedTyped ==
  ASSUME NEW row \in CouponRow
  PROVE  /\ Redeemed(row) \in CouponRow
         /\ Redeemed(row).used = row.used + 1
  BY DEF CouponRow, Redeemed

LEMMA LapsedTyped ==
  ASSUME NEW row \in CouponRow
  PROVE  /\ [row EXCEPT !.live = FALSE] \in CouponRow
         /\ [row EXCEPT !.live = FALSE].used = row.used
  BY DEF CouponRow

LEMMA RequestTyped ==
  ASSUME NEW p \in Payments, NEW n \in Numbers, NEW op \in Operation,
         NEW phase \in {"gateway", "persist", "consume"}
  PROVE  Request(op, phase, p, n) \in Requests
  BY DEF Request, Requests, Answer

LEMMA Serving ==
  ASSUME TypeOK, NEW w \in Workers, ~IsIdle(w)
  PROVE  /\ worker[w] \in Requests
         /\ worker[w].payment \in Payments
         /\ worker[w].number \in Numbers
  BY DEF TypeOK, IsIdle, Idle, Requests

LEMMA FirstNumber == 1 \in Numbers
  BY ConstantsAssumption DEF Numbers

LEMMA AnsweredEffect ==
  ASSUME TypeOK, NEW w \in Workers, ~IsIdle(w), NEW answer \in Answer, Answered(w, answer)
  PROVE  /\ worker' \in [Workers -> Requests \cup {Idle}]
         /\ \A v \in Workers : v # w => worker'[v] = worker[v]
         /\ worker'[w] = [phase |-> "persist", op |-> worker[w].op,
                          payment |-> worker[w].payment,
                          number |-> worker[w].number, answer |-> answer]
<1>1. [phase |-> "persist", op |-> worker[w].op, payment |-> worker[w].payment,
       number |-> worker[w].number, answer |-> answer] \in Requests
  BY Serving DEF Requests
<1>2. QED
  BY <1>1, ProceedEffect DEF Answered, TypeOK

LEMMA FinishEffect ==
  ASSUME TypeOK, NEW w \in Workers, Finish(w)
  PROVE  /\ worker' \in [Workers -> Requests \cup {Idle}]
         /\ \A v \in Workers : worker'[v] = IF v = w THEN Idle ELSE worker[v]
  BY ProceedEffect DEF Finish, TypeOK

(***************************************************************************)
(* Type correctness.                                                       *)
(***************************************************************************)
LEMMA TypeInit == Init => TypeOK
<1> SUFFICES ASSUME Init PROVE TypeOK
  OBVIOUS
<1>1. order \in [Orders -> OrderRow]
  BY DEF Init, OrderRow, OrderStatus, TRANSITIONS
<1>2. payment \in [Payments -> PaymentRow]
  BY LegacyAssumption DEF Init, PaymentRow, PaymentStatus, PendingRow, NoRow
<1>3. attempt \in [Payments -> [Numbers -> AttemptRow]]
  BY DEF Init, AttemptRow, PaymentStatus, FailedAttempt, NoAttempt
<1>4. coupon \in [Coupons -> CouponRow] /\ crashes \in Nat
  BY DEF Init, CouponRow
<1>5. gateway \in [Payments -> [Numbers -> Session]]
  BY DEF Init, Session, NoSession, GatewayState
<1>6. worker \in [Workers -> Requests \cup {Idle}]
  BY DEF Init
<1>7. QED
  BY <1>1, <1>2, <1>3, <1>4, <1>5, <1>6 DEF TypeOK

LEMMA OrderStepType == ASSUME TypeOK, OrderStep PROVE TypeOK'
<1>1. ASSUME NEW o \in Orders, CreateOrder(o) PROVE TypeOK'
  <2>1. [status |-> "pending", expired |-> FALSE] \in OrderRow
    BY DEF OrderRow, OrderStatus, TRANSITIONS
  <2>2. QED
    BY <1>1, <2>1, SaveOrderEffect DEF CreateOrder, TypeOK
<1>2. ASSUME NEW o \in Orders, DeadlinePasses(o) PROVE TypeOK'
  BY <1>2, ExpiredRowTyped, SaveOrderEffect DEF DeadlinePasses, TypeOK
<1>3. ASSUME NEW o \in Orders, NEW s \in Moves, MoveOrder(o, s) PROVE TypeOK'
  <2>1. WithStatus(order[o], s) \in OrderRow
    BY OrderRowTyped, ConstantsAssumption DEF TypeOK
  <2>2. QED
    BY <1>3, <2>1, SaveOrderEffect DEF MoveOrder, TypeOK
<1>4. CASE ExpirePendingOrders
  <2>1. \A o \in Orders : WithStatus(order[o], "cancelled") \in OrderRow
    BY OrderRowTyped, StatusFacts DEF TypeOK
  <2>2. QED
    BY <1>4, <2>1 DEF ExpirePendingOrders, TypeOK
<1>5. ASSUME NEW c \in Coupons, CouponLapses(c) PROVE TypeOK'
  <2>1. [coupon[c] EXCEPT !.live = FALSE] \in CouponRow
    BY LapsedTyped DEF TypeOK
  <2>2. QED
    BY <1>5, <2>1 DEF CouponLapses, TypeOK
<1>6. QED
  BY <1>1, <1>2, <1>3, <1>4, <1>5 DEF OrderStep

LEMMA RequestArrivesType ==
  ASSUME TypeOK, NEW w \in Workers, RequestArrives(w) PROVE TypeOK'
<1>1. /\ PendingAttempt \in AttemptRow
      /\ \A o \in Orders : PendingRow(o) \in PaymentRow
  BY DEF PendingAttempt, AttemptRow, PendingRow, PaymentRow, PaymentStatus
<1>2. ASSUME NEW o \in Orders, NEW p \in Payments, StartNewPayment(w, o, p) PROVE TypeOK'
  BY <1>1, <1>2, FirstNumber, SavePaymentEffect, SaveAttemptEffect, ProceedEffect, RequestTyped
     DEF StartNewPayment, Begin, TypeOK, Operation
<1>3. ASSUME NEW o \in Orders, NEW p \in Payments, StartRecoveredPayment(w, o, p)
      PROVE TypeOK'
  BY <1>1, <1>3, FirstNumber, SaveAttemptEffect, ProceedEffect, RequestTyped
     DEF StartRecoveredPayment, Begin, TypeOK, Operation
<1>4. ASSUME NEW o \in Orders, NEW p \in Payments, NEW n \in Numbers, RetryPayment(w, o, p, n)
      PROVE TypeOK'
  BY <1>1, <1>4, SaveAttemptEffect, ProceedEffect, RequestTyped
     DEF RetryPayment, Begin, TypeOK, Operation
<1>5. ASSUME NEW p \in Payments, NEW n \in Numbers,
             VerifyPending(w, p, n) \/ VerifySuccessful(w, p, n) \/ ReconcilePending(w, p, n)
      PROVE TypeOK'
  BY <1>5, ProceedEffect, RequestTyped
     DEF VerifyPending, VerifySuccessful, ReconcilePending, Begin, rows, TypeOK, Operation
<1>6. QED
  BY <1>2, <1>3, <1>4, <1>5 DEF RequestArrives

LEMMA GatewayAnswersType ==
  ASSUME TypeOK, NEW w \in Workers, GatewayAnswers(w) PROVE TypeOK'
<1> DEFINE p == worker[w].payment
           n == worker[w].number
<1>1. ~IsIdle(w)
  BY DEF GatewayAnswers, GatewayAccepts, GatewayRejects, InitiationLost, GatewayConfirms,
         GatewayDenies, VerificationLost, InquiryConfirms, InquiryInconclusive,
         Initiates, Serves, IsIdle
<1>2. p \in Payments /\ n \in Numbers /\ gateway[p][n] \in Session
  BY <1>1, Serving DEF TypeOK
<1>3. {"open", "settled"} \subseteq GatewayState
  BY DEF GatewayState
<1>4. CASE GatewayAccepts(w)
  <2>1. InState(Asked(gateway[p][n]), "open") \in Session
    BY <1>2, <1>3, AskedTyped, InStateTyped
  <2>2. QED
    BY <1>1, <1>2, <1>4, <2>1, NoteSessionEffect, AnsweredEffect
       DEF GatewayAccepts, rows, TypeOK, Answer
<1>5. CASE GatewayRejects(w)
  <2>1. Denied(Asked(gateway[p][n])) \in Session
    BY <1>2, AskedTyped, DeniedTyped
  <2>2. QED
    BY <1>1, <1>2, <1>5, <2>1, NoteSessionEffect, AnsweredEffect
       DEF GatewayRejects, rows, TypeOK, Answer
<1>6. CASE InitiationLost(w)
  BY <1>2, <1>6, AskedTyped, NoteSessionEffect, FinishEffect DEF InitiationLost, rows, TypeOK
<1>7. CASE GatewayConfirms(w)
  <2>1. InState(gateway[p][n], "settled") \in Session
    BY <1>2, <1>3, InStateTyped
  <2>2. QED
    BY <1>1, <1>2, <1>7, <2>1, NoteSessionEffect, AnsweredEffect
       DEF GatewayConfirms, rows, TypeOK, Answer
<1>8. CASE GatewayDenies(w)
  BY <1>1, <1>2, <1>8, DeniedTyped, NoteSessionEffect, AnsweredEffect
     DEF GatewayDenies, rows, TypeOK, Answer
<1>9. CASE VerificationLost(w)
  <2>1. InState(gateway[p][n], "settled") \in Session
    BY <1>2, <1>3, InStateTyped
  <2>2. QED
    BY <1>2, <1>9, <2>1, NoteSessionEffect, FinishEffect DEF VerificationLost, rows, TypeOK
<1>10. CASE InquiryConfirms(w)
  BY <1>1, <1>10, AnsweredEffect DEF InquiryConfirms, rows, TypeOK, Answer
<1>11. CASE InquiryInconclusive(w)
  BY <1>11, FinishEffect DEF InquiryInconclusive, rows, TypeOK
<1>12. QED
  BY <1>4, <1>5, <1>6, <1>7, <1>8, <1>9, <1>10, <1>11 DEF GatewayAnswers
 
LEMMA AnswerPersistedType ==
  ASSUME TypeOK, NEW w \in Workers, AnswerPersisted(w) PROVE TypeOK'
<1> DEFINE p == worker[w].payment
           n == worker[w].number
<1>1. ~IsIdle(w)
  BY DEF AnswerPersisted, PersistAuthority, PersistRejection, PersistSuccess, PersistFailure,
         PersistDuplicate, PersistReconciliation, PersistRefused, Serves, IsIdle
<1>2. /\ p \in Payments /\ n \in Numbers
      /\ payment[p] \in PaymentRow /\ attempt[p][n] \in AttemptRow
  BY <1>1, Serving DEF TypeOK
<1>3. \A s \in {"SUCCESS", "FAILED"} :
        WithStatus(payment[p], s) \in PaymentRow /\ WithStatus(attempt[p][n], s) \in AttemptRow
  BY <1>2, PaymentRowTyped, AttemptRowTyped DEF PaymentStatus
<1>4. CASE PersistAuthority(w)
  BY <1>2, <1>4, AuthorizedRowTyped, SaveAttemptEffect, FinishEffect DEF PersistAuthority, TypeOK
<1>5. CASE PersistRejection(w)
  BY <1>2, <1>3, <1>5, SavePaymentEffect, SaveAttemptEffect, FinishEffect
     DEF PersistRejection, RecordFailure, TypeOK
<1>6. CASE PersistSuccess(w)
  BY <1>2, <1>3, <1>6, SavePaymentEffect, SaveAttemptEffect, ProceedEffect, RequestTyped
     DEF PersistSuccess, RecordSuccess, TypeOK, Operation
<1>7. CASE PersistFailure(w)
  BY <1>2, <1>3, <1>7, SavePaymentEffect, SaveAttemptEffect, FinishEffect
     DEF PersistFailure, RecordFailure, TypeOK
<1>8. CASE PersistDuplicate(w)
  BY <1>2, <1>8, ProceedEffect, RequestTyped DEF PersistDuplicate, rows, TypeOK, Operation
<1>9. CASE PersistReconciliation(w)
  BY <1>2, <1>3, <1>9, SavePaymentEffect, SaveAttemptEffect, ProceedEffect, RequestTyped
     DEF PersistReconciliation, RecordSuccess, TypeOK, Operation
<1>10. CASE PersistRefused(w)
  BY <1>10, FinishEffect DEF PersistRefused, rows, TypeOK
<1>11. QED
  BY <1>4, <1>5, <1>6, <1>7, <1>8, <1>9, <1>10 DEF AnswerPersisted

LEMMA PaymentConsumedType ==
  ASSUME TypeOK, NEW w \in Workers, PaymentConsumed(w) PROVE TypeOK'
<1> DEFINE p == worker[w].payment
           o == payment[p].order
<1>1. CASE Consume(w)
  <2>1. p \in Payments
    BY <1>1, Serving DEF Consume, IsIdle
  <2>2. order' \in [Orders -> OrderRow]
    <3>1. CASE o \in Orders
      BY <1>1, <3>1, OrderRowTyped, SaveOrderEffect, StatusFacts DEF Consume, TypeOK
    <3>2. CASE o \notin Orders
      BY <1>1, <3>2 DEF Consume, SaveOrder, TypeOK
    <3>3. QED
      BY <3>1, <3>2
  <2>3. payment' \in [Payments -> PaymentRow]
    BY <1>1, <2>1, ConsumedRowTyped, SavePaymentEffect DEF Consume, TypeOK
  <2>4. coupon' \in [Coupons -> CouponRow]
    BY <1>1, RedeemedTyped DEF Consume, TypeOK
  <2>5. QED
    BY <1>1, <2>2, <2>3, <2>4, FinishEffect DEF Consume, TypeOK
<1>2. CASE ConsumeRefused(w)
  BY <1>2, FinishEffect DEF ConsumeRefused, rows, TypeOK
<1>3. QED
  BY <1>1, <1>2 DEF PaymentConsumed

LEMMA TypeStep == TypeOK /\ [Next]_vars => TypeOK'
<1> SUFFICES ASSUME TypeOK, [Next]_vars PROVE TypeOK'
  OBVIOUS
<1>1. ASSUME NEW w \in Workers, Crash(w) PROVE TypeOK'
  BY <1>1, FinishEffect DEF Crash, rows, TypeOK
<1>2. ASSUME NEW p \in Payments, NEW n \in Numbers, CustomerPays(p, n) \/ CustomerDeclines(p, n)
      PROVE TypeOK'
  <2>1. \A state \in {"approved", "declined"} : InState(gateway[p][n], state) \in Session
    BY <1>2, InStateTyped DEF TypeOK, GatewayState
  <2>2. QED
    BY <1>2, <2>1, NoteSessionEffect
       DEF CustomerPays, CustomerDeclines, CustomerActs, rows, TypeOK
<1>3. CASE UNCHANGED vars
  BY <1>3 DEF vars, TypeOK
<1>4. QED
  BY <1>1, <1>2, <1>3, OrderStepType, RequestArrivesType, GatewayAnswersType,
     AnswerPersistedType, PaymentConsumedType DEF Next

\* Every variable keeps its type: rows stay rows, a worker is idle or serves
\* a request about an existing payment.
THEOREM TypeCorrect == Spec => []TypeOK
  BY TypeInit, TypeStep, PTL DEF Spec
(***************************************************************************)
(* The inductive invariant: initially.                                     *)
(***************************************************************************)
LEMMA InvariantInit == Init => PaymentInvariant
<1> SUFFICES ASSUME Init PROVE PaymentInvariant
  OBVIOUS
<1>1. TypeOK
  BY TypeInit
<1>2. \A p \in Payments :
        /\ payment[p].status = IF p \in DOMAIN Legacy THEN "PENDING" ELSE "none"
        /\ p \in DOMAIN Legacy => payment[p].order = Legacy[p]
        /\ ~payment[p].consumed
  BY DEF Init, PendingRow, NoRow
<1>3. \A p \in Payments, n \in Numbers :
        /\ gateway[p][n] = NoSession
        /\ ~attempt[p][n].authority
        /\ \/ attempt[p][n] = NoAttempt
           \/ attempt[p][n].status = "FAILED" /\ p \in DOMAIN Legacy
  BY DEF Init, FailedAttempt, NoAttempt
<1>4. \A o \in Orders : /\ order[o].status \in {"none", "pending"}
                        /\ \A p \in DOMAIN Legacy : Legacy[p] = o => order[o].status = "pending"
  BY DEF Init
<1>5. RowsLinked
  BY <1>2, <1>3, <1>4, LegacyAssumption DEF RowsLinked, NoAttempt
<1>6. SessionsLinked /\ OneInitiation /\ SuccessIsSettled
  BY <1>3 DEF SessionsLinked, OneInitiation, SuccessIsSettled, NoSession, NoAttempt
<1>7. RequestsCoherent
  BY DEF Init, RequestsCoherent, CoherentRequest, IsIdle, Idle
<1>8. OneActivePayment
  BY <1>2, LegacyAssumption DEF OneActivePayment, PaymentsOf
<1>9. ExecutionAgreement
  BY <1>2, <1>3 DEF ExecutionAgreement, AttemptsOf, NoAttempt
<1>10. FailureIsEvidenced
  BY <1>3 DEF FailureIsEvidenced, NoSession, NoAttempt
<1>11. PaidOrderBacked
  BY <1>2, <1>4, StatusFacts DEF PaidOrderBacked
<1>12. QED
  BY <1>1, <1>5, <1>6, <1>7, <1>8, <1>9, <1>10, <1>11 DEF PaymentInvariant

(***************************************************************************)
(* What a step that leaves rows or sessions alone cannot disturb.          *)
(***************************************************************************)
LEMMA RowsUntouched ==
  ASSUME PaymentInvariant, UNCHANGED <<order, payment, attempt>>
  PROVE  /\ RowsLinked' /\ OneActivePayment' /\ ExecutionAgreement' /\ PaidOrderBacked'
         /\ TerminalKept
  BY DEF PaymentInvariant, RowsLinked, OneActivePayment, ExecutionAgreement, PaidOrderBacked,
         PaymentsOf, AttemptsOf, TerminalKept, Sold

LEMMA SessionsUntouched ==
  ASSUME PaymentInvariant, UNCHANGED <<attempt, gateway>>
  PROVE  SessionsLinked' /\ SuccessIsSettled' /\ FailureIsEvidenced' /\ OneInitiation'
  BY DEF PaymentInvariant, SessionsLinked, SuccessIsSettled, FailureIsEvidenced, OneInitiation

LEMMA RequestsUntouched ==
  ASSUME PaymentInvariant, UNCHANGED <<attempt, gateway, worker>>
  PROVE  RequestsCoherent'
  BY DEF PaymentInvariant, RequestsCoherent, CoherentRequest, IsIdle

\* A request that ends, or whose worker dies, leaves the others as they are.
LEMMA RequestEnds ==
  ASSUME PaymentInvariant, NEW w \in Workers, Finish(w), UNCHANGED <<attempt, gateway>>
  PROVE  RequestsCoherent'
<1>1. \A v \in Workers : worker'[v] = IF v = w THEN Idle ELSE worker[v]
  BY FinishEffect DEF PaymentInvariant
<1>2. \A v \in Workers : ~IsIdle(v)' => v # w /\ worker'[v] = worker[v] /\ ~IsIdle(v)
  BY <1>1 DEF IsIdle, Idle
<1>3. QED
  BY <1>2 DEF PaymentInvariant, RequestsCoherent, CoherentRequest
(***************************************************************************)
(* The inductive invariant: one lemma per group of actions.                *)
(***************************************************************************)
\* What the steps of an order by itself do to it: none of them sells it.
NoNewSale ==
    \A o \in Orders :
       \/ order'[o].status = order[o].status
       \/ /\ order[o].status \in {"none", "pending", "failed"}
          /\ order'[o].status \in {"pending", "failed", "cancelled"}
       \/ /\ order[o].status \in PaidLike
          /\ order'[o].status \in PaidLike \cup {"cancelled"}

LEMMA OrderStepSellsNothing == ASSUME TypeOK, OrderStep PROVE NoNewSale
<1>1. ASSUME NEW c \in Orders, CreateOrder(c) PROVE NoNewSale
  <2>1. [status |-> "pending", expired |-> FALSE] \in OrderRow
    BY DEF OrderRow, OrderStatus, TRANSITIONS
  <2>2. QED
    BY <1>1, <2>1, SaveOrderEffect DEF CreateOrder, TypeOK, NoNewSale
<1>2. ASSUME NEW c \in Orders, DeadlinePasses(c) PROVE NoNewSale
  <2>1. /\ [order[c] EXCEPT !.expired = TRUE] \in OrderRow
        /\ [order[c] EXCEPT !.expired = TRUE].status = order[c].status
    BY ExpiredRowTyped DEF TypeOK
  <2>2. QED
    BY <1>2, <2>1, SaveOrderEffect DEF DeadlinePasses, TypeOK, NoNewSale
<1>3. ASSUME NEW c \in Orders, NEW s \in Moves, MoveOrder(c, s) PROVE NoNewSale
  <2>1. /\ s \in OrderStatus /\ s # "paid" /\ s \in TRANSITIONS[order[c].status]
        /\ order[c] \in OrderRow /\ order[c].status \in OrderStatus
    BY <1>3, ConstantsAssumption DEF MoveOrder, MayBecome, TypeOK, OrderRow
  <2>2. WithStatus(order[c], s) \in OrderRow /\ WithStatus(order[c], s).status = s
    BY <2>1, OrderRowTyped
  <2>3. \A o \in Orders : order'[o].status = IF o = c THEN s ELSE order[o].status
    BY <1>3, <2>2, SaveOrderEffect DEF MoveOrder, TypeOK
  <2>4. QED
    BY <2>1, <2>3, LegalMoves DEF NoNewSale
<1>4. CASE ExpirePendingOrders
  <2>1. \A o \in Orders : WithStatus(order[o], "cancelled").status = "cancelled"
    BY OrderRowTyped, StatusFacts DEF TypeOK
  <2>2. QED
    BY <1>4, <2>1 DEF ExpirePendingOrders, Overdue, NoNewSale
<1>5. ASSUME NEW c \in Coupons, CouponLapses(c) PROVE NoNewSale
  BY <1>5 DEF CouponLapses, NoNewSale
<1>6. QED
  BY <1>1, <1>2, <1>3, <1>4, <1>5 DEF OrderStep

LEMMA OrderStepKeeps == ASSUME PaymentInvariant, OrderStep PROVE PaymentInvariant' /\ TerminalKept
<1>1. UNCHANGED <<payment, attempt, gateway, worker>>
  BY DEF OrderStep, CreateOrder, DeadlinePasses, MoveOrder, ExpirePendingOrders, CouponLapses
<1>2. TypeOK /\ TypeOK'
  BY OrderStepType DEF PaymentInvariant
<1>3. NoNewSale
  BY <1>2, OrderStepSellsNothing
<1>4. RowsLinked'
  BY <1>1, <1>3, StatusFacts DEF PaymentInvariant, RowsLinked, NoNewSale
<1>5. PaidOrderBacked'
  BY <1>1, <1>3, StatusFacts DEF PaymentInvariant, PaidOrderBacked, NoNewSale, Sold
<1>6. OneActivePayment' /\ ExecutionAgreement'
  BY <1>1 DEF PaymentInvariant, OneActivePayment, ExecutionAgreement, PaymentsOf, AttemptsOf
<1>7. TerminalKept
  BY <1>1, <1>3, StatusFacts DEF TerminalKept, NoNewSale
<1>8. QED
  BY <1>1, <1>2, <1>4, <1>5, <1>6, <1>7, SessionsUntouched, RequestsUntouched
     DEF PaymentInvariant

\* A verification or a reconciliation begins on an authority nobody is opening.
LEMMA CallbackKeeps ==
  ASSUME PaymentInvariant, NEW w \in Workers, NEW p \in Payments, NEW n \in Numbers,
         VerifyPending(w, p, n) \/ VerifySuccessful(w, p, n) \/ ReconcilePending(w, p, n)
  PROVE  PaymentInvariant' /\ TerminalKept
<1>1. TypeOK'
  BY RequestArrivesType DEF PaymentInvariant, RequestArrives
<1>2. UNCHANGED <<order, payment, attempt, gateway>>
  BY DEF VerifyPending, VerifySuccessful, ReconcilePending, rows
<1>3. PICK r \in Requests :
        /\ r.payment = p /\ r.number = n
        /\ r.op \in {"verify", "reconcile"} /\ r.phase \in {"gateway", "consume"}
        /\ IsIdle(w) /\ Proceed(w, r)
  BY RequestTyped DEF VerifyPending, VerifySuccessful, ReconcilePending, Begin, Request, Operation
<1>4. \A v \in Workers : worker'[v] = IF v = w THEN r ELSE worker[v]
  BY <1>3, ProceedEffect DEF PaymentInvariant, TypeOK
<1>5. attempt[p][n].authority
  BY DEF VerifyPending, VerifySuccessful, ReconcilePending
<1>6. RequestsCoherent'
  <2>1. ASSUME NEW v \in Workers, v # w, ~IsIdle(v)', worker[v].op \in {"start", "retry"}
        PROVE  ~(r.payment = worker[v].payment /\ r.number = worker[v].number)
    <3>1. attempt[worker[v].payment][worker[v].number] = PendingAttempt
      BY <1>4, <2>1 DEF PaymentInvariant, RequestsCoherent, CoherentRequest, IsIdle
    <3>2. QED
      BY <1>3, <1>5, <3>1 DEF PendingAttempt
  <2>2. QED
    BY <1>2, <1>3, <1>4, <1>5, <2>1 DEF PaymentInvariant, RequestsCoherent, CoherentRequest, IsIdle
<1>7. QED
  BY <1>1, <1>2, <1>6, RowsUntouched, SessionsUntouched DEF PaymentInvariant
\* What the gateway may come to know of a session without any harm.
LEMMA SessionGrows ==
  ASSUME PaymentInvariant, UNCHANGED attempt,
         NEW p \in Payments, NEW n \in Numbers, NEW s \in Session,
         \A q \in Payments, m \in Numbers :
            gateway'[q][m] = IF q = p /\ m = n THEN s ELSE gateway[q][m],
         attempt[p][n].status # "none",
         attempt[p][n].status = "FAILED" => s.requests = gateway[p][n].requests,
         s.requests <= 1,
         s.requests = 0 => s.state = "none",
         gateway[p][n].state = "settled" => s.state = "settled",
         gateway[p][n].denied => s.denied
  PROVE  SessionsLinked' /\ SuccessIsSettled' /\ FailureIsEvidenced' /\ OneInitiation'
<1>1. SessionsLinked'
  BY DEF PaymentInvariant, SessionsLinked
<1>2. SuccessIsSettled'
  BY DEF PaymentInvariant, SuccessIsSettled
<1>3. FailureIsEvidenced'
  BY DEF PaymentInvariant, FailureIsEvidenced
<1>4. OneInitiation'
  BY DEF PaymentInvariant, OneInitiation
<1>5. QED
  BY <1>1, <1>2, <1>3, <1>4

\* The request of w takes the answer along, or ends without one: session s is
\* what the gateway knows then, r what becomes of the request.
AnswerTaken(w, p, n, s, r) ==
    /\ ~IsIdle(w) /\ p = worker[w].payment /\ n = worker[w].number
    /\ \A q \in Payments, m \in Numbers :
          gateway'[q][m] = IF q = p /\ m = n THEN s ELSE gateway[q][m]
    /\ \A v \in Workers : worker'[v] = IF v = w THEN r ELSE worker[v]
    /\ worker[w].op \in {"start", "retry"} \/ attempt[p][n].authority
    /\ gateway[p][n].state = "settled" => s.state = "settled"
    /\ gateway[p][n].denied => s.denied
    /\ \/ r = Idle
       \/ /\ r.phase = "persist" /\ r.op = worker[w].op
          /\ r.payment = p /\ r.number = n
          /\ r.op \in {"start", "retry"} => r.answer \in {"accepted", "rejected"}
          /\ r.op = "verify" => r.answer \in {"success", "failure"}
          /\ r.op = "reconcile" => r.answer = "success"
          /\ r.answer = "success" => s.state = "settled"
          /\ r.answer \in {"failure", "rejected"} => s.denied

LEMMA AnswerKeepsRequests ==
  ASSUME PaymentInvariant, UNCHANGED attempt, NEW w \in Workers,
         NEW p \in Payments, NEW n \in Numbers, NEW s \in Session,
         NEW r \in Requests \cup {Idle}, AnswerTaken(w, p, n, s, r)
  PROVE  RequestsCoherent'
<1> USE DEF AnswerTaken
<1>1. \A v \in Workers : v # w /\ ~IsIdle(v)' =>
         /\ worker'[v] = worker[v] /\ ~IsIdle(v)
         /\ worker[v].op \in {"start", "retry"} =>
               ~(worker[v].payment = p /\ worker[v].number = n)
  BY DEF PaymentInvariant, RequestsCoherent, CoherentRequest, IsIdle, PendingAttempt
<1>2. \A v \in Workers : v # w /\ ~IsIdle(v)' =>
         worker[v].payment \in Payments /\ worker[v].number \in Numbers
  BY <1>1, Serving DEF PaymentInvariant
<1>3. ASSUME NEW v \in Workers, v # w, ~IsIdle(v)' PROVE CoherentRequest(v)'
  <2>1. /\ worker'[v] = worker[v] /\ CoherentRequest(v)
        /\ worker[v].payment \in Payments /\ worker[v].number \in Numbers
    BY <1>1, <1>2, <1>3 DEF PaymentInvariant, RequestsCoherent
  <2>2. CASE worker[v].payment = p /\ worker[v].number = n
    BY <1>1, <1>3, <2>1, <2>2 DEF CoherentRequest
  <2>3. CASE ~(worker[v].payment = p /\ worker[v].number = n)
    <3>1. \A u \in Workers : ~IsIdle(u)' /\ worker'[u].payment = worker[v].payment
                              /\ worker'[u].number = worker[v].number
             => u # w
      BY <2>3 DEF IsIdle, Idle
    <3>2. QED
      BY <1>1, <2>1, <2>3, <3>1 DEF CoherentRequest
  <2>4. QED
    BY <2>2, <2>3
<1>4. ASSUME ~IsIdle(w)' PROVE CoherentRequest(w)'
  <2>1. r # Idle /\ worker'[w] = r
    BY <1>4 DEF IsIdle, Idle
  <2>2. CoherentRequest(w)
    BY DEF PaymentInvariant, RequestsCoherent
  <2>3. p \in Payments /\ n \in Numbers /\ gateway'[p][n] = s
    BY Serving DEF PaymentInvariant
  <2>4. \A u \in Workers : ~IsIdle(u)' /\ u # w => worker'[u] = worker[u] /\ ~IsIdle(u)
    BY <1>1
  <2>5. QED
    BY <2>1, <2>2, <2>3, <2>4 DEF CoherentRequest
<1>5. QED
  BY <1>3, <1>4 DEF RequestsCoherent
LEMMA GatewayAnswersKeeps ==
  ASSUME PaymentInvariant, NEW w \in Workers, GatewayAnswers(w) PROVE PaymentInvariant' /\ TerminalKept
<1> DEFINE p == worker[w].payment
           n == worker[w].number
           answered(answer) == [phase |-> "persist", op |-> worker[w].op, payment |-> p,
                                number |-> n, answer |-> answer]
<1>1. ~IsIdle(w) /\ worker[w].phase = "gateway" /\ UNCHANGED <<order, payment, attempt>>
  BY DEF GatewayAnswers, GatewayAccepts, GatewayRejects, InitiationLost, GatewayConfirms,
         GatewayDenies, VerificationLost, InquiryConfirms, InquiryInconclusive,
         Initiates, Serves, IsIdle, rows
<1>2. p \in Payments /\ n \in Numbers /\ gateway[p][n] \in Session /\ TypeOK
  BY <1>1, Serving DEF TypeOK, PaymentInvariant
<1>3. CoherentRequest(w) /\ TypeOK'
  BY <1>1, GatewayAnswersType DEF PaymentInvariant, RequestsCoherent
<1>4. /\ attempt[p][n].status = "none" => attempt[p][n] = NoAttempt
      /\ gateway[p][n].requests <= 1
      /\ gateway[p][n].requests = 0 => gateway[p][n].state = "none"
  BY <1>2 DEF PaymentInvariant, SessionsLinked, OneInitiation
<1>5. CASE GatewayAccepts(w) \/ GatewayRejects(w) \/ InitiationLost(w)
  <2>1. /\ worker[w].op \in {"start", "retry"}
        /\ attempt[p][n].status = "PENDING" /\ gateway[p][n] = NoSession
    BY <1>1, <1>3, <1>5
       DEF GatewayAccepts, GatewayRejects, InitiationLost, Initiates, CoherentRequest,
           PendingAttempt
  <2>2. Asked(gateway[p][n]).requests = 1 /\ Asked(gateway[p][n]).state = "none"
    BY <1>2, <2>1, AskedTyped DEF NoSession
  <2>3. PICK s \in Session, r \in {answered("accepted"), answered("rejected"), Idle} :
          /\ s.requests = 1 /\ s.state \in {"none", "open"}
          /\ r # Idle /\ r.answer = "rejected" => s.denied
          /\ NoteSession(p, n, s) /\ Proceed(w, r)
    <3>1. Asked(gateway[p][n]) \in Session
      BY <1>2, AskedTyped
    <3>2. CASE GatewayAccepts(w)
      <4>1. /\ InState(Asked(gateway[p][n]), "open") \in Session
            /\ InState(Asked(gateway[p][n]), "open").requests = 1
            /\ InState(Asked(gateway[p][n]), "open").state = "open"
        BY <2>2, <3>1, InStateTyped DEF GatewayState
      <4>2. Proceed(w, answered("accepted"))
        BY <3>2 DEF GatewayAccepts, Answered
      <4>3. QED
        BY <3>2, <4>1, <4>2 DEF GatewayAccepts
    <3>3. CASE GatewayRejects(w)
      <4>1. /\ Denied(Asked(gateway[p][n])) \in Session
            /\ Denied(Asked(gateway[p][n])).requests = 1
            /\ Denied(Asked(gateway[p][n])).state = "none"
            /\ Denied(Asked(gateway[p][n])).denied
        BY <2>2, <3>1, DeniedTyped
      <4>2. Proceed(w, answered("rejected"))
        BY <3>3 DEF GatewayRejects, Answered
      <4>3. QED
        BY <3>3, <4>1, <4>2 DEF GatewayRejects
    <3>4. CASE InitiationLost(w)
      BY <2>2, <3>1, <3>4 DEF InitiationLost, Finish
    <3>5. QED
      BY <1>5, <3>2, <3>3, <3>4
  <2>4. /\ \A q \in Payments, m \in Numbers :
             gateway'[q][m] = IF q = p /\ m = n THEN s ELSE gateway[q][m]
        /\ \A v \in Workers : worker'[v] = IF v = w THEN r ELSE worker[v]
        /\ r \in Requests \cup {Idle}
    <3>1. r \in Requests \cup {Idle}
      BY <1>1, <1>2, Serving DEF Requests, Answer
    <3>2. QED
      BY <1>2, <2>3, <3>1, NoteSessionEffect, ProceedEffect DEF TypeOK
  <2>5. gateway[p][n].state # "settled" /\ ~gateway[p][n].denied
    BY <2>1 DEF NoSession
  <2>6. SessionsLinked' /\ SuccessIsSettled' /\ FailureIsEvidenced' /\ OneInitiation'
    BY <1>1, <1>2, <2>1, <2>3, <2>4, <2>5, SessionGrows
  <2>7. \/ r = Idle
        \/ /\ r.phase = "persist" /\ r.op = worker[w].op
           /\ r.payment = p /\ r.number = n
           /\ r.op \in {"start", "retry"} => r.answer \in {"accepted", "rejected"}
           /\ r.op = "verify" => r.answer \in {"success", "failure"}
           /\ r.op = "reconcile" => r.answer = "success"
           /\ r.answer = "success" => s.state = "settled"
           /\ r.answer \in {"failure", "rejected"} => s.denied
    BY <2>1, <2>3
  <2>8. RequestsCoherent'
    <3>1. AnswerTaken(w, p, n, s, r)
      BY <1>1, <2>1, <2>4, <2>5, <2>7 DEF AnswerTaken
    <3>2. QED
      BY <1>1, <1>2, <2>4, <3>1, AnswerKeepsRequests
  <2>9. QED
    BY <1>1, <1>3, <2>6, <2>8, RowsUntouched DEF PaymentInvariant
<1>6. CASE GatewayConfirms(w) \/ GatewayDenies(w) \/ VerificationLost(w)
           \/ InquiryConfirms(w) \/ InquiryInconclusive(w)
  <2>1. worker[w].op \in {"verify", "reconcile"} /\ attempt[p][n].authority
    BY <1>3, <1>6 DEF GatewayConfirms, GatewayDenies, VerificationLost, InquiryConfirms,
                      InquiryInconclusive, Serves, CoherentRequest
  <2>2. attempt[p][n].status # "none"
    BY <1>4, <2>1 DEF NoAttempt
  <2>3. PICK s \in Session, r \in {answered("success"), answered("failure"), Idle} :
          /\ s.requests = gateway[p][n].requests
          /\ s.requests = 0 => s.state = "none"
          /\ gateway[p][n].state = "settled" => s.state = "settled"
          /\ gateway[p][n].denied => s.denied
          /\ r # Idle => /\ r.answer = "success" => s.state = "settled"
                         /\ r.answer = "failure" => s.denied /\ worker[w].op = "verify"
          /\ \/ gateway' = gateway /\ s = gateway[p][n]
             \/ NoteSession(p, n, s)
          /\ Proceed(w, r)
    <3>1. Settleable(p, n) =>
            /\ InState(gateway[p][n], "settled") \in Session
            /\ InState(gateway[p][n], "settled").requests = gateway[p][n].requests
            /\ gateway[p][n].requests # 0
            /\ InState(gateway[p][n], "settled").state = "settled"
            /\ gateway[p][n].denied => InState(gateway[p][n], "settled").denied
      BY <1>2, <1>4, InStateTyped DEF GatewayState, Settleable
    <3>2. CASE GatewayConfirms(w)
      <4>1. Proceed(w, answered("success"))
        BY <3>2 DEF GatewayConfirms, Answered
      <4>2. QED
        BY <3>1, <3>2, <4>1 DEF GatewayConfirms
    <3>3. CASE GatewayDenies(w)
      <4>1. Proceed(w, answered("failure")) /\ worker[w].op = "verify"
        BY <3>3 DEF GatewayDenies, Answered, Serves
      <4>2. /\ Denied(gateway[p][n]) \in Session
            /\ Denied(gateway[p][n]).requests = gateway[p][n].requests
            /\ Denied(gateway[p][n]).state = gateway[p][n].state
            /\ Denied(gateway[p][n]).denied
        BY <1>2, DeniedTyped
      <4>3. QED
        BY <1>4, <3>3, <4>1, <4>2 DEF GatewayDenies
    <3>4. CASE VerificationLost(w)
      BY <1>2, <1>4, <3>1, <3>4 DEF VerificationLost, Finish
    <3>5. CASE InquiryConfirms(w)
      <4>1. Proceed(w, answered("success"))
        BY <3>5 DEF InquiryConfirms, Answered
      <4>2. QED
        BY <1>2, <1>4, <3>5, <4>1 DEF InquiryConfirms
    <3>6. CASE InquiryInconclusive(w)
      BY <1>2, <1>4, <3>6 DEF InquiryInconclusive, Finish
    <3>7. QED
      BY <1>6, <3>2, <3>3, <3>4, <3>5, <3>6
  <2>4. /\ \A v \in Workers : worker'[v] = IF v = w THEN r ELSE worker[v]
        /\ r \in Requests \cup {Idle}
    <3>1. r \in Requests \cup {Idle}
      BY <1>1, <1>2, Serving DEF Requests, Answer
    <3>2. QED
      BY <1>2, <2>3, <3>1, ProceedEffect DEF TypeOK
  <2>5. \A q \in Payments, m \in Numbers :
             gateway'[q][m] = IF q = p /\ m = n THEN s ELSE gateway[q][m]
    BY <1>2, <2>3, NoteSessionEffect DEF TypeOK
  <2>6. SessionsLinked' /\ SuccessIsSettled' /\ FailureIsEvidenced' /\ OneInitiation'
    BY <1>1, <1>2, <1>4, <2>2, <2>3, <2>5, SessionGrows
  <2>7. \/ r = Idle
        \/ /\ r.phase = "persist" /\ r.op = worker[w].op
           /\ r.payment = p /\ r.number = n
           /\ r.op \in {"start", "retry"} => r.answer \in {"accepted", "rejected"}
           /\ r.op = "verify" => r.answer \in {"success", "failure"}
           /\ r.op = "reconcile" => r.answer = "success"
           /\ r.answer = "success" => s.state = "settled"
           /\ r.answer \in {"failure", "rejected"} => s.denied
    BY <2>1, <2>3
  <2>8. RequestsCoherent'
    <3>1. AnswerTaken(w, p, n, s, r)
      BY <1>1, <2>1, <2>3, <2>4, <2>5, <2>7 DEF AnswerTaken
    <3>2. QED
      BY <1>1, <1>2, <2>4, <3>1, AnswerKeepsRequests
  <2>9. QED
    BY <1>1, <1>3, <2>6, <2>8, RowsUntouched DEF PaymentInvariant
<1>7. QED
  BY <1>5, <1>6 DEF GatewayAnswers
\* A new attempt is unknown to the gateway and to every other request.
LEMMA AttemptOpens ==
  ASSUME PaymentInvariant, NEW w \in Workers, NEW p \in Payments, NEW n \in Numbers,
         NEW op \in {"start", "retry"},
         attempt[p][n].status = "none", UNCHANGED gateway,
         SaveAttempt(p, n, PendingAttempt), Begin(w, Request(op, "gateway", p, n))
  PROVE  /\ SessionsLinked' /\ SuccessIsSettled' /\ FailureIsEvidenced' /\ OneInitiation'
         /\ RequestsCoherent'
         /\ \A q \in Payments, m \in Numbers :
              attempt'[q][m] = IF q = p /\ m = n THEN PendingAttempt ELSE attempt[q][m]
<1> DEFINE r == Request(op, "gateway", p, n)
<1>1. \A q \in Payments, m \in Numbers :
        attempt'[q][m] = IF q = p /\ m = n THEN PendingAttempt ELSE attempt[q][m]
  <2>1. PendingAttempt \in AttemptRow
    BY DEF PendingAttempt, AttemptRow, PaymentStatus
  <2>2. QED
    BY <2>1, SaveAttemptEffect DEF PaymentInvariant, TypeOK
<1>2. IsIdle(w) /\ \A v \in Workers : worker'[v] = IF v = w THEN r ELSE worker[v]
  <2>1. r \in Requests
    BY RequestTyped DEF Operation
  <2>2. QED
    BY <2>1, ProceedEffect DEF PaymentInvariant, TypeOK, Begin
<1>3. attempt[p][n] = NoAttempt /\ gateway[p][n] = NoSession
  BY DEF PaymentInvariant, SessionsLinked
<1>4. PendingAttempt.status = "PENDING"
  BY DEF PendingAttempt
<1>5. SessionsLinked' /\ SuccessIsSettled' /\ FailureIsEvidenced' /\ OneInitiation'
  BY <1>1, <1>3, <1>4
     DEF PaymentInvariant, SessionsLinked, SuccessIsSettled, FailureIsEvidenced, OneInitiation
<1>6. \A v \in Workers : ~IsIdle(v) =>
        /\ worker[v].payment \in Payments /\ worker[v].number \in Numbers
        /\ CoherentRequest(v)
        /\ ~(worker[v].payment = p /\ worker[v].number = n)
  <2>1. SUFFICES ASSUME NEW v \in Workers, ~IsIdle(v)
                 PROVE  /\ worker[v].payment \in Payments /\ worker[v].number \in Numbers
                        /\ CoherentRequest(v)
                        /\ ~(worker[v].payment = p /\ worker[v].number = n)
    OBVIOUS
  <2>2. worker[v] \in Requests /\ CoherentRequest(v)
    BY <2>1, Serving DEF PaymentInvariant, RequestsCoherent
  <2>3. worker[v].op \in {"start", "retry"} \/ worker[v].op \in {"verify", "reconcile"}
    BY <2>2 DEF Requests, Operation
  <2>4. attempt[worker[v].payment][worker[v].number] # NoAttempt
    BY <2>2, <2>3 DEF CoherentRequest, NoAttempt, PendingAttempt
  <2>5. QED
    BY <1>3, <2>1, <2>2, <2>4, Serving DEF PaymentInvariant
<1>7. ASSUME NEW v \in Workers, v # w, ~IsIdle(v)' PROVE CoherentRequest(v)'
  <2>1. worker'[v] = worker[v] /\ ~IsIdle(v)
    BY <1>2, <1>7 DEF IsIdle
  <2>2. \A u \in Workers : ~IsIdle(u)' /\ worker'[u].payment = worker[v].payment
                           /\ worker'[u].number = worker[v].number
          => u # w /\ worker'[u] = worker[u] /\ ~IsIdle(u)
    BY <1>2, <1>6, <2>1 DEF IsIdle, Request
  <2>3. QED
    BY <1>1, <1>6, <2>1, <2>2 DEF CoherentRequest
<1>8. CoherentRequest(w)'
  <2>1. /\ worker'[w].op = op /\ worker'[w].phase = "gateway"
        /\ worker'[w].payment = p /\ worker'[w].number = n
    BY <1>2 DEF Request
  <2>2. \A u \in Workers : ~IsIdle(u)' /\ worker'[u].payment = p /\ worker'[u].number = n
          => u = w
    BY <1>2, <1>6 DEF IsIdle
  <2>3. attempt'[p][n] = PendingAttempt /\ gateway'[p][n] = NoSession
    BY <1>1, <1>3
  <2>4. QED
    BY <2>1, <2>2, <2>3 DEF CoherentRequest
<1>9. QED
  BY <1>1, <1>5, <1>7, <1>8 DEF RequestsCoherent

LEMMA StartKeeps ==
  ASSUME PaymentInvariant, NEW w \in Workers, NEW o \in Orders, NEW p \in Payments,
         NEW n \in Numbers,
         \/ StartNewPayment(w, o, p)
         \/ StartRecoveredPayment(w, o, p)
         \/ RetryPayment(w, o, p, n)
  PROVE  PaymentInvariant' /\ TerminalKept
<1>1. TypeOK'
  BY RequestArrivesType DEF PaymentInvariant, RequestArrives
<1>2. PICK k \in Numbers, op \in {"start", "retry"} :
        /\ attempt[p][k].status = "none"
        /\ SaveAttempt(p, k, PendingAttempt) /\ Begin(w, Request(op, "gateway", p, k))
  <2>1. CASE StartNewPayment(w, o, p)
    BY <2>1, FirstNumber DEF StartNewPayment, PaymentInvariant, RowsLinked
  <2>2. CASE StartRecoveredPayment(w, o, p)
    BY <2>2, FirstNumber DEF StartRecoveredPayment, IsNextNumber, Numbers
  <2>3. CASE RetryPayment(w, o, p, n)
    BY <2>3 DEF RetryPayment, IsNextNumber, Numbers
  <2>4. QED
    BY <2>1, <2>2, <2>3
<1>3. /\ UNCHANGED <<order, gateway>>
      /\ order[o].status = "pending"
      /\ AttemptsOf(p, "PENDING") = {}
      /\ payment[p].status \in {"none", "PENDING"}
  BY DEF StartNewPayment, StartRecoveredPayment, RetryPayment, IsPayable, PaymentsOf,
         PaymentInvariant, ExecutionAgreement
<1>4. /\ SessionsLinked' /\ SuccessIsSettled' /\ FailureIsEvidenced' /\ OneInitiation'
      /\ RequestsCoherent'
      /\ \A q \in Payments, m \in Numbers :
           attempt'[q][m] = IF q = p /\ m = k THEN PendingAttempt ELSE attempt[q][m]
  BY <1>2, <1>3, AttemptOpens
<1>5. /\ payment'[p].status = "PENDING" /\ payment'[p].order = o
      /\ ~payment'[p].consumed
      /\ \A q \in Payments : q # p => payment'[q] = payment[q]
  <2>1. CASE StartNewPayment(w, o, p)
    <3>1. PendingRow(o) \in PaymentRow
      BY DEF PendingRow, PaymentRow, PaymentStatus
    <3>2. \A q \in Payments : payment'[q] = IF q = p THEN PendingRow(o) ELSE payment[q]
      BY <2>1, <3>1, SavePaymentEffect DEF StartNewPayment, PaymentInvariant, TypeOK
    <3>3. QED
      BY <3>2 DEF PendingRow
  <2>2. CASE StartRecoveredPayment(w, o, p) \/ RetryPayment(w, o, p, n)
    BY <2>2 DEF StartRecoveredPayment, RetryPayment, PaymentsOf, PaymentInvariant, PaidOrderBacked
  <2>3. QED
    BY <2>1, <2>2
<1>6. RowsLinked'
  BY <1>3, <1>4, <1>5 DEF PaymentInvariant, RowsLinked
<1>7. ExecutionAgreement'
  <2>1. \A q \in Payments, s \in PaymentStatus : q # p => AttemptsOf(q, s)' = AttemptsOf(q, s)
    BY <1>4 DEF AttemptsOf
  <2>2. AttemptsOf(p, "SUCCESS")' = {} /\ AttemptsOf(p, "PENDING")' = {k}
    <3>1. AttemptsOf(p, "SUCCESS") = {}
      BY <1>3 DEF PaymentInvariant, ExecutionAgreement
    <3>2. QED
      BY <1>3, <1>4, <3>1 DEF AttemptsOf, PendingAttempt
  <2>3. QED
    BY <1>5, <2>1, <2>2 DEF PaymentInvariant, ExecutionAgreement, PaymentStatus
<1>8. OneActivePayment'
  <2>1. CASE StartNewPayment(w, o, p)
    BY <1>5, <2>1 DEF StartNewPayment, PaymentsOf, PaymentInvariant, OneActivePayment
  <2>2. CASE StartRecoveredPayment(w, o, p) \/ RetryPayment(w, o, p, n)
    BY <2>2 DEF StartRecoveredPayment, RetryPayment, PaymentsOf, PaymentInvariant,
                OneActivePayment
  <2>3. QED
    BY <2>1, <2>2
<1>9. PaidOrderBacked'
  <2>1. ~payment[p].consumed
    BY <1>3 DEF PaymentInvariant, PaidOrderBacked
  <2>2. QED
    BY <1>3, <1>5, <2>1 DEF PaymentInvariant, PaidOrderBacked, Sold
<1>10. TerminalKept
  <2>1. attempt[p][k].status = "none" /\ ~attempt[p][k].authority
    BY <1>2 DEF PaymentInvariant, SessionsLinked, NoAttempt
  <2>2. ~payment[p].consumed
    BY <1>3 DEF PaymentInvariant, PaidOrderBacked
  <2>3. QED
    BY <1>3, <1>4, <1>5, <2>1, <2>2 DEF TerminalKept
<1>11. QED
  BY <1>1, <1>4, <1>6, <1>7, <1>8, <1>9, <1>10 DEF PaymentInvariant
\* A pending payment and its pending attempt are decided, together or not.
LEMMA RowsDecided ==
  ASSUME PaymentInvariant, UNCHANGED order,
         NEW p \in Payments, NEW n \in Numbers, StillPending(p, n),
         NEW s \in PaymentStatus, NEW t \in PaymentStatus,
         \/ s = "PENDING" /\ t \in {"PENDING", "FAILED"}
         \/ s = "FAILED" /\ t = "FAILED"
         \/ s = "SUCCESS" /\ t = "SUCCESS",
         \A q \in Payments : q # p => payment'[q] = payment[q],
         payment'[p] = WithStatus(payment[p], s),
         \A q \in Payments, m \in Numbers :
            attempt'[q][m].status = IF q = p /\ m = n THEN t ELSE attempt[q][m].status
  PROVE  RowsLinked' /\ OneActivePayment' /\ ExecutionAgreement' /\ PaidOrderBacked'
<1>1. payment[p].status = "PENDING" /\ attempt[p][n].status = "PENDING"
  BY DEF StillPending
<1>2. /\ payment'[p].order = payment[p].order /\ payment'[p].status = s
      /\ payment'[p].consumed = payment[p].consumed
  BY PaymentRowTyped DEF PaymentInvariant, TypeOK
<1>3. RowsLinked'
  BY <1>1, <1>2 DEF PaymentInvariant, RowsLinked
<1>4. OneActivePayment'
  BY <1>1, <1>2 DEF PaymentInvariant, OneActivePayment, PaymentsOf
<1>5. ExecutionAgreement'
  <2>1. \A q \in Payments, u \in PaymentStatus : q # p => AttemptsOf(q, u)' = AttemptsOf(q, u)
    BY DEF AttemptsOf
  <2>2. AttemptsOf(p, "SUCCESS") = {} /\ AttemptsOf(p, "PENDING") = {n}
    BY <1>1 DEF PaymentInvariant, ExecutionAgreement, AttemptsOf
  <2>3. /\ AttemptsOf(p, "SUCCESS")' = IF t = "SUCCESS" THEN {n} ELSE {}
        /\ AttemptsOf(p, "PENDING")' = IF t = "PENDING" THEN {n} ELSE {}
    BY <2>2 DEF AttemptsOf
  <2>4. QED
    BY <1>2, <2>1, <2>3 DEF PaymentInvariant, ExecutionAgreement, PaymentStatus
<1>6. PaidOrderBacked'
  <2>1. ~payment[p].consumed
    BY <1>1 DEF PaymentInvariant, PaidOrderBacked
  <2>2. QED
    BY <1>2, <2>1 DEF PaymentInvariant, PaidOrderBacked, Sold
<1>7. QED
  BY <1>3, <1>4, <1>5, <1>6

\* An attempt is saved with the authority or with the evidence its request brings.
AttemptSavedBy(w, p, n, row, r) ==
    /\ ~IsIdle(w) /\ p = worker[w].payment /\ n = worker[w].number
    /\ \A q \in Payments, m \in Numbers :
          attempt'[q][m] = IF q = p /\ m = n THEN row ELSE attempt[q][m]
    /\ \A v \in Workers : worker'[v] = IF v = w THEN r ELSE worker[v]
    /\ attempt[p][n].status = "PENDING" /\ row.status # "none"
    /\ row.status = "SUCCESS" => gateway[p][n].state = "settled"
    /\ row.status = "FAILED" => gateway[p][n].denied
    /\ attempt[p][n].authority => row.authority
    /\ \/ r = Idle
       \/ /\ r.phase = "consume" /\ r.op \in {"verify", "reconcile"}
          /\ r.payment = p /\ r.number = n /\ row.authority

LEMMA AttemptSaved ==
  ASSUME PaymentInvariant, UNCHANGED gateway, NEW w \in Workers,
         NEW p \in Payments, NEW n \in Numbers, NEW row \in AttemptRow,
         NEW r \in Requests \cup {Idle}, AttemptSavedBy(w, p, n, row, r)
  PROVE  /\ SessionsLinked' /\ SuccessIsSettled' /\ FailureIsEvidenced' /\ OneInitiation'
         /\ RequestsCoherent'
<1> USE DEF AttemptSavedBy
<1>1. SessionsLinked'
  BY DEF PaymentInvariant, SessionsLinked
<1>2. SuccessIsSettled'
  BY DEF PaymentInvariant, SuccessIsSettled
<1>3. FailureIsEvidenced'
  BY DEF PaymentInvariant, FailureIsEvidenced
<1>4. OneInitiation'
  BY DEF PaymentInvariant, OneInitiation
<1>5. ASSUME NEW v \in Workers, v # w, ~IsIdle(v)' PROVE CoherentRequest(v)'
  <2>1. /\ worker'[v] = worker[v] /\ ~IsIdle(v) /\ CoherentRequest(v)
        /\ worker[v].payment \in Payments /\ worker[v].number \in Numbers
    <3>1. worker'[v] = worker[v] /\ ~IsIdle(v)
      BY <1>5 DEF IsIdle
    <3>2. QED
      BY <3>1, Serving DEF PaymentInvariant, RequestsCoherent
  <2>2. worker[v].op \in {"start", "retry"} =>
          ~(worker[v].payment = p /\ worker[v].number = n)
    BY <1>5, <2>1 DEF PaymentInvariant, RequestsCoherent, CoherentRequest
  <2>3. \A u \in Workers : ~IsIdle(u)' /\ u # w => worker'[u] = worker[u] /\ ~IsIdle(u)
    BY DEF IsIdle
  <2>4. \A u \in Workers :
          ~IsIdle(u)' /\ worker'[u].payment = worker[v].payment
          /\ worker'[u].number = worker[v].number
          /\ worker[v].op \in {"start", "retry"} => u # w
    BY <2>2 DEF IsIdle, Idle
  <2>5. QED
    BY <2>1, <2>2, <2>3, <2>4 DEF CoherentRequest
<1>6. ASSUME ~IsIdle(w)' PROVE CoherentRequest(w)'
  <2>1. r # Idle /\ worker'[w] = r
    BY <1>6 DEF IsIdle, Idle
  <2>2. QED
    BY <2>1 DEF CoherentRequest
<1>7. QED
  BY <1>1, <1>2, <1>3, <1>4, <1>5, <1>6 DEF RequestsCoherent

LEMMA AnswerPersistedKeeps ==
  ASSUME PaymentInvariant, NEW w \in Workers, AnswerPersisted(w) PROVE PaymentInvariant' /\ TerminalKept
<1> DEFINE p == worker[w].payment
           n == worker[w].number
<1>1. ~IsIdle(w) /\ UNCHANGED <<order, gateway>> /\ worker[w].phase = "persist"
  BY DEF AnswerPersisted, PersistAuthority, PersistRejection, PersistSuccess, PersistFailure,
         PersistDuplicate, PersistReconciliation, PersistRefused, Serves, IsIdle, rows
<1>2. /\ p \in Payments /\ n \in Numbers /\ TypeOK
      /\ payment[p] \in PaymentRow /\ attempt[p][n] \in AttemptRow
      /\ worker[w].op \in Operation
  BY <1>1, Serving DEF TypeOK, PaymentInvariant, Requests
<1>3. CoherentRequest(w) /\ TypeOK'
  BY <1>1, AnswerPersistedType DEF PaymentInvariant, RequestsCoherent
<1>4. CASE PersistDuplicate(w)
  <2>1. UNCHANGED <<order, payment, attempt>>
    BY <1>4 DEF PersistDuplicate, rows
  <2>2. \A v \in Workers :
          worker'[v] = IF v = w THEN Request("verify", "consume", p, n) ELSE worker[v]
    BY <1>2, <1>4, ProceedEffect, RequestTyped DEF PersistDuplicate, TypeOK, Operation
  <2>3. attempt[p][n].authority
    BY <1>3, <1>4 DEF PersistDuplicate, Serves, CoherentRequest
  <2>4. \A v \in Workers : v # w /\ ~IsIdle(v)' => worker'[v] = worker[v] /\ ~IsIdle(v)
    BY <2>2 DEF IsIdle
  <2>5. ASSUME NEW v \in Workers, v # w, ~IsIdle(v)' PROVE CoherentRequest(v)'
    <3>1. CoherentRequest(v) /\ worker'[v] = worker[v]
      BY <2>4, <2>5 DEF PaymentInvariant, RequestsCoherent
    <3>2. worker[v].op \in {"start", "retry"} =>
            ~(worker[v].payment = p /\ worker[v].number = n)
      BY <1>1, <2>5, <3>1 DEF CoherentRequest
    <3>3. QED
      BY <1>1, <2>1, <2>2, <2>4, <3>1, <3>2 DEF CoherentRequest, Request
  <2>6. CoherentRequest(w)'
    BY <2>1, <2>2, <2>3 DEF CoherentRequest, Request
  <2>7. RequestsCoherent'
    BY <2>5, <2>6 DEF RequestsCoherent
  <2>8. QED
    BY <1>1, <1>3, <2>1, <2>7, RowsUntouched, SessionsUntouched DEF PaymentInvariant
<1>5. CASE PersistRefused(w)
  <2>1. UNCHANGED <<order, payment, attempt, gateway>> /\ Finish(w)
    BY <1>5 DEF PersistRefused, rows
  <2>2. QED
    BY <1>3, <2>1, RowsUntouched, SessionsUntouched, RequestEnds DEF PaymentInvariant
<1>6. CASE \/ PersistAuthority(w) \/ PersistRejection(w) \/ PersistSuccess(w)
           \/ PersistFailure(w) \/ PersistReconciliation(w)
  <2>1. StillPending(p, n)
    BY <1>6 DEF PersistAuthority, PersistRejection, PersistSuccess, PersistFailure,
                PersistReconciliation
  <2>2. PICK row \in AttemptRow, s \in PaymentStatus, r \in Requests \cup {Idle} :
          /\ SaveAttempt(p, n, row) /\ Proceed(w, r)
          /\ \/ SavePayment(p, WithStatus(payment[p], s))
             \/ UNCHANGED payment /\ s = "PENDING"
          /\ \/ s = "PENDING" /\ row.status \in {"PENDING", "FAILED"}
             \/ s = "FAILED" /\ row.status = "FAILED"
             \/ s = "SUCCESS" /\ row.status = "SUCCESS"
          /\ row.status = "SUCCESS" => gateway[p][n].state = "settled"
          /\ row.status = "FAILED" => gateway[p][n].denied
          /\ attempt[p][n].authority => row.authority
          /\ \/ r = Idle
             \/ /\ r.phase = "consume" /\ r.op \in {"verify", "reconcile"}
                /\ r.payment = p /\ r.number = n /\ row.authority
    <3>1. \A t \in {"SUCCESS", "FAILED"} :
            /\ WithStatus(attempt[p][n], t) \in AttemptRow
            /\ WithStatus(attempt[p][n], t).status = t
            /\ attempt[p][n].authority => WithStatus(attempt[p][n], t).authority
      BY <1>2, AttemptRowTyped DEF PaymentStatus
    <3>2. CASE PersistAuthority(w)
      <4>1. /\ [attempt[p][n] EXCEPT !.authority = TRUE] \in AttemptRow
            /\ [attempt[p][n] EXCEPT !.authority = TRUE].status = "PENDING"
            /\ [attempt[p][n] EXCEPT !.authority = TRUE].authority
        BY <1>2, <2>1, AuthorizedRowTyped DEF StillPending
      <4>2. QED
        BY <3>2, <4>1 DEF PersistAuthority, Finish, PaymentStatus
    <3>3. CASE PersistRejection(w)
      <4>1. gateway[p][n].denied
        BY <1>3, <3>3 DEF PersistRejection, CoherentRequest
      <4>2. CASE RecordFailure(p, n)
        BY <3>1, <3>3, <4>1, <4>2 DEF PersistRejection, RecordFailure, Finish, PaymentStatus
      <4>3. CASE SaveAttempt(p, n, WithStatus(attempt[p][n], "FAILED")) /\ UNCHANGED payment
        BY <3>1, <3>3, <4>1, <4>3 DEF PersistRejection, Finish, PaymentStatus
      <4>4. QED
        BY <3>3, <4>2, <4>3 DEF PersistRejection
    <3>4. CASE PersistFailure(w)
      <4>1. gateway[p][n].denied
        BY <1>3, <3>4 DEF PersistFailure, CoherentRequest, Serves
      <4>2. QED
        BY <3>1, <3>4, <4>1 DEF PersistFailure, RecordFailure, Finish, PaymentStatus
    <3>5. CASE PersistSuccess(w) \/ PersistReconciliation(w)
      <4>1. PICK op \in {"verify", "reconcile"} :
              worker[w].op = op /\ Proceed(w, Request(op, "consume", p, n))
        BY <3>5 DEF PersistSuccess, PersistReconciliation, Serves
      <4>2. gateway[p][n].state = "settled" /\ attempt[p][n].authority
        BY <1>1, <1>3, <3>5, <4>1 DEF PersistSuccess, PersistReconciliation, CoherentRequest,
                                      Serves
      <4> DEFINE row == WithStatus(attempt[p][n], "SUCCESS")
                 r == Request(op, "consume", p, n)
      <4>3. /\ r \in Requests
            /\ r.phase = "consume" /\ r.op = op /\ r.payment = p /\ r.number = n
        BY <1>2, <4>1, RequestTyped DEF Request
      <4>4. /\ SaveAttempt(p, n, row) /\ Proceed(w, r)
            /\ SavePayment(p, WithStatus(payment[p], "SUCCESS"))
        BY <3>5, <4>1 DEF PersistSuccess, PersistReconciliation, RecordSuccess
      <4>5. row \in AttemptRow /\ row.status = "SUCCESS" /\ row.authority
        BY <3>1, <4>2
      <4> HIDE DEF row, r
      <4>6. QED
        BY <4>1, <4>2, <4>3, <4>4, <4>5 DEF PaymentStatus
    <3>6. QED
      BY <1>6, <3>2, <3>3, <3>4, <3>5
  <2>3. /\ \A q \in Payments, m \in Numbers :
             attempt'[q][m] = IF q = p /\ m = n THEN row ELSE attempt[q][m]
        /\ \A v \in Workers : worker'[v] = IF v = w THEN r ELSE worker[v]
    BY <1>2, <2>2, SaveAttemptEffect, ProceedEffect DEF TypeOK
  <2>4. /\ \A q \in Payments : q # p => payment'[q] = payment[q]
        /\ payment'[p] = WithStatus(payment[p], s)
    <3>1. WithStatus(payment[p], s) \in PaymentRow
      BY <1>2, PaymentRowTyped
    <3>2. payment[p] = WithStatus(payment[p], "PENDING")
      BY <1>2, <2>1 DEF StillPending, WithStatus, PaymentRow
    <3>3. QED
      BY <1>2, <2>2, <3>1, <3>2, SavePaymentEffect DEF TypeOK
  <2>5. RowsLinked' /\ OneActivePayment' /\ ExecutionAgreement' /\ PaidOrderBacked'
    <3>1. row.status \in PaymentStatus
      BY DEF AttemptRow
    <3>2. \A q \in Payments, m \in Numbers :
            attempt'[q][m].status =
               IF q = p /\ m = n THEN row.status ELSE attempt[q][m].status
      BY <2>3
    <3>3. QED
      BY <1>1, <1>2, <2>1, <2>2, <2>4, <3>1, <3>2, RowsDecided
  <2>6. /\ SessionsLinked' /\ SuccessIsSettled' /\ FailureIsEvidenced' /\ OneInitiation'
        /\ RequestsCoherent'
    <3>1. attempt[p][n].status = "PENDING" /\ row.status # "none"
      BY <2>1, <2>2 DEF StillPending
    <3>2. AttemptSavedBy(w, p, n, row, r)
      BY <1>1, <2>2, <2>3, <3>1 DEF AttemptSavedBy
    <3>3. QED
      BY <1>1, <1>2, <3>2, AttemptSaved
  <2>7. TerminalKept
    <3>1. payment'[p].consumed = payment[p].consumed
      BY <1>2, <2>4, PaymentRowTyped
    <3>2. payment[p].status = "PENDING" /\ attempt[p][n].status = "PENDING"
      BY <2>1 DEF StillPending
    <3>3. attempt[p][n].authority => row.authority
      BY <2>2
    <3>4. QED
      BY <1>1, <2>3, <2>4, <3>1, <3>2, <3>3 DEF TerminalKept
  <2>8. QED
    BY <1>3, <2>5, <2>6, <2>7 DEF PaymentInvariant
<1>7. QED
  BY <1>4, <1>5, <1>6 DEF AnswerPersisted
LEMMA ConsumedKeeps ==
  ASSUME PaymentInvariant, NEW w \in Workers, PaymentConsumed(w) PROVE PaymentInvariant' /\ TerminalKept
<1> DEFINE p == worker[w].payment
           o == payment[p].order
<1>1. TypeOK' /\ ~IsIdle(w) /\ UNCHANGED <<attempt, gateway>> /\ Finish(w)
  BY PaymentConsumedType
     DEF PaymentInvariant, PaymentConsumed, Consume, ConsumeRefused, IsIdle, rows
<1>2. /\ SessionsLinked' /\ SuccessIsSettled' /\ FailureIsEvidenced' /\ OneInitiation'
      /\ RequestsCoherent'
  BY <1>1, SessionsUntouched, RequestEnds
<1>3. /\ RowsLinked' /\ OneActivePayment' /\ ExecutionAgreement' /\ PaidOrderBacked'
      /\ TerminalKept
  <2>1. CASE Consume(w)
    <3>1. p \in Payments /\ payment[p].status = "SUCCESS"
      BY <1>1, <2>1, Serving DEF PaymentInvariant, Consume, CanConfirm, PaymentsOf
    <3>2. o \in Orders /\ order[o].status = "pending"
      BY <2>1, <3>1 DEF PaymentInvariant, RowsLinked, Consume, CanConfirm, IsPayable
    <3>3. /\ \A q \in Payments : q # p => payment'[q] = payment[q]
          /\ payment'[p].order = o /\ payment'[p].status = "SUCCESS"
          /\ payment'[p].consumed
      <4>1. /\ [payment[p] EXCEPT !.consumed = TRUE] \in PaymentRow
            /\ [payment[p] EXCEPT !.consumed = TRUE].order = o
            /\ [payment[p] EXCEPT !.consumed = TRUE].status = "SUCCESS"
            /\ [payment[p] EXCEPT !.consumed = TRUE].consumed
        BY <3>1, ConsumedRowTyped DEF PaymentInvariant, TypeOK
      <4>2. SavePayment(p, [payment[p] EXCEPT !.consumed = TRUE])
        BY <2>1 DEF Consume
      <4>3. \A q \in Payments : payment'[q] =
              IF q = p THEN [payment[p] EXCEPT !.consumed = TRUE] ELSE payment[q]
        BY <3>1, <4>1, <4>2, SavePaymentEffect DEF PaymentInvariant, TypeOK
      <4>4. QED
        BY <3>1, <4>1, <4>3
    <3>4. /\ \A a \in Orders : a # o => order'[a] = order[a]
          /\ order'[o].status = "paid"
      <4>1. /\ WithStatus(order[o], "paid") \in OrderRow
            /\ WithStatus(order[o], "paid").status = "paid"
        BY <3>2, OrderRowTyped, StatusFacts DEF PaymentInvariant, TypeOK
      <4>2. QED
        BY <2>1, <3>2, <4>1, SaveOrderEffect DEF PaymentInvariant, TypeOK, Consume
    <3>5. \A q \in Payments :
            payment'[q].order = payment[q].order /\ payment'[q].status = payment[q].status
      BY <3>1, <3>3
    <3>6. RowsLinked'
      BY <1>1, <3>2, <3>4, <3>5 DEF PaymentInvariant, RowsLinked
    <3>7. OneActivePayment'
      BY <3>5 DEF PaymentInvariant, OneActivePayment, PaymentsOf
    <3>8. ExecutionAgreement'
      BY <1>1, <3>5 DEF PaymentInvariant, ExecutionAgreement, AttemptsOf
    <3>9. PaidOrderBacked'
      <4>1. ASSUME NEW a \in Orders, order'[a].status \in PaidLike PROVE Sold(a)'
        BY <3>1, <3>3, <3>4, <4>1 DEF PaymentInvariant, PaidOrderBacked, Sold
      <4>2. ASSUME NEW q \in Payments, payment'[q].consumed
            PROVE  /\ payment'[q].status = "SUCCESS"
                   /\ payment'[q].order \in Orders
                   /\ order'[payment'[q].order].status \in PaidLike \cup {"cancelled"}
        BY <3>1, <3>2, <3>3, <3>4, <4>2, StatusFacts DEF PaymentInvariant, PaidOrderBacked
      <4>3. QED
        BY <4>1, <4>2 DEF PaidOrderBacked
    <3>10. TerminalKept
      BY <1>1, <3>2, <3>3, <3>4, <3>5, StatusFacts DEF TerminalKept
    <3>11. QED
      BY <3>6, <3>7, <3>8, <3>9, <3>10
  <2>2. CASE ConsumeRefused(w)
    BY <2>2, RowsUntouched DEF ConsumeRefused, rows
  <2>3. QED
    BY <2>1, <2>2 DEF PaymentConsumed
<1>4. QED
  BY <1>1, <1>2, <1>3 DEF PaymentInvariant

\* The customer only ever acts on a session that is still open.
LEMMA CustomerKeeps ==
  ASSUME PaymentInvariant, TypeOK', NEW p \in Payments, NEW n \in Numbers,
         CustomerPays(p, n) \/ CustomerDeclines(p, n)
  PROVE  PaymentInvariant' /\ TerminalKept
<1>1. UNCHANGED <<order, payment, attempt, worker>>
  BY DEF CustomerPays, CustomerDeclines, CustomerActs, rows
<1>2. PICK s \in Session :
        /\ NoteSession(p, n, s)
        /\ s.requests = gateway[p][n].requests
        /\ gateway[p][n].denied => s.denied
  <2>1. \A d \in {"approved", "declined"} :
          /\ InState(gateway[p][n], d) \in Session
          /\ InState(gateway[p][n], d).requests = gateway[p][n].requests
          /\ gateway[p][n].denied => InState(gateway[p][n], d).denied
    BY InStateTyped DEF PaymentInvariant, TypeOK, GatewayState
  <2>2. QED
    BY <2>1 DEF CustomerPays, CustomerDeclines, CustomerActs
<1>3. /\ attempt[p][n].authority /\ gateway[p][n].state = "open"
      /\ gateway[p][n].requests = 1
  <2>1. attempt[p][n].authority /\ gateway[p][n].state = "open"
    BY DEF CustomerPays, CustomerDeclines, CustomerActs
  <2>2. gateway[p][n] \in Session /\ gateway[p][n].requests # 0 /\ gateway[p][n].requests <= 1
    BY <2>1 DEF PaymentInvariant, TypeOK, SessionsLinked, OneInitiation
  <2>3. QED
    BY <2>1, <2>2 DEF Session
<1>4. \A q \in Payments, m \in Numbers :
        gateway'[q][m] = IF q = p /\ m = n THEN s ELSE gateway[q][m]
  BY <1>2, NoteSessionEffect DEF PaymentInvariant, TypeOK
<1>5. attempt[p][n].status # "none"
  BY <1>3 DEF PaymentInvariant, SessionsLinked, NoAttempt
<1>6. SessionsLinked' /\ SuccessIsSettled' /\ FailureIsEvidenced' /\ OneInitiation'
  BY <1>1, <1>2, <1>3, <1>4, <1>5, SessionGrows
<1>7. RequestsCoherent'
  <2>1. SUFFICES ASSUME NEW v \in Workers, ~IsIdle(v) PROVE CoherentRequest(v)'
    BY <1>1 DEF RequestsCoherent, IsIdle
  <2>2. /\ CoherentRequest(v)
        /\ worker[v].payment \in Payments /\ worker[v].number \in Numbers
    BY <2>1, Serving DEF PaymentInvariant, RequestsCoherent
  <2>3. worker[v].op \in {"start", "retry"} =>
          ~(worker[v].payment = p /\ worker[v].number = n)
    BY <1>3, <2>2 DEF CoherentRequest, PendingAttempt
  <2>4. QED
    BY <1>1, <1>2, <1>3, <1>4, <2>2, <2>3 DEF CoherentRequest, IsIdle
<1>8. QED
  BY <1>1, <1>6, <1>7, RowsUntouched DEF PaymentInvariant

LEMMA StepKeeps ==
  ASSUME PaymentInvariant, [Next]_vars PROVE PaymentInvariant' /\ TerminalKept
<1>1. TypeOK'
  BY TypeStep DEF PaymentInvariant
<1>2. CASE OrderStep
  BY <1>2, OrderStepKeeps
<1>3. ASSUME NEW w \in Workers, RequestArrives(w) PROVE PaymentInvariant' /\ TerminalKept
  <2>1. 1 \in Numbers
    BY FirstNumber
  <2>2. QED
    BY <1>3, <2>1, StartKeeps, CallbackKeeps DEF RequestArrives
<1>4. ASSUME NEW w \in Workers, Crash(w) PROVE PaymentInvariant' /\ TerminalKept
  BY <1>1, <1>4, RowsUntouched, SessionsUntouched, RequestEnds DEF Crash, rows, PaymentInvariant
<1>5. ASSUME NEW p \in Payments, NEW n \in Numbers, CustomerPays(p, n) \/ CustomerDeclines(p, n)
      PROVE PaymentInvariant' /\ TerminalKept
  BY <1>1, <1>5, CustomerKeeps
<1>6. CASE UNCHANGED vars
  BY <1>1, <1>6, RowsUntouched, SessionsUntouched, RequestsUntouched DEF vars, PaymentInvariant
<1>7. QED
  BY <1>2, <1>3, <1>4, <1>5, <1>6, GatewayAnswersKeeps, AnswerPersistedKeeps, ConsumedKeeps
     DEF Next

(***************************************************************************)
(* The theorems.                                                           *)
(***************************************************************************)
\* What makes the properties hold, and what they are all derived from: rows,
\* gateway sessions and the requests in flight stay in agreement.
THEOREM InvariantHolds == Spec => []PaymentInvariant
<1>1. PaymentInvariant /\ [Next]_vars => PaymentInvariant'
  BY StepKeeps
<1>2. QED
  BY <1>1, InvariantInit, PTL DEF Spec

\* However many checkouts, callbacks and crashes interleave: no order has two
\* payments that are, or may still become, charged.
THEOREM OnePaymentPerOrder == Spec => []OneActivePayment
<1>1. PaymentInvariant => OneActivePayment
  BY DEF PaymentInvariant
<1>2. QED
  BY <1>1, InvariantHolds, PTL

\* Success is recorded only for sessions that the gateway has settled.
THEOREM SuccessHasEvidence == Spec => []SuccessIsSettled
<1>1. PaymentInvariant => SuccessIsSettled
  BY DEF PaymentInvariant
<1>2. QED
  BY <1>1, InvariantHolds, PTL

\* Failure is recorded only on an explicit no: no lost answer becomes one.
THEOREM FailureHasEvidence == Spec => []FailureIsEvidenced
<1>1. PaymentInvariant => FailureIsEvidenced
  BY DEF PaymentInvariant
<1>2. QED
  BY <1>1, InvariantHolds, PTL

\* An initiation is never sent twice.
THEOREM InitiatedOnce == Spec => []OneInitiation
<1>1. PaymentInvariant => OneInitiation
  BY DEF PaymentInvariant
<1>2. QED
  BY <1>1, InvariantHolds, PTL

\* A payment and its attempts tell one story in every reachable state.
THEOREM PaymentAgreesWithAttempts == Spec => []ExecutionAgreement
<1>1. PaymentInvariant => ExecutionAgreement
  BY DEF PaymentInvariant
<1>2. QED
  BY <1>1, InvariantHolds, PTL

\* Whatever the staff makes of an order afterwards: the paid part of its life is
\* reached through the consumption of a successful payment, and a consumed payment
\* never stands beside an order that may still be paid.
THEOREM PaidOrdersAreBacked == Spec => []PaidOrderBacked
<1>1. PaymentInvariant => PaidOrderBacked
  BY DEF PaymentInvariant
<1>2. QED
  BY <1>1, InvariantHolds, PTL

\* A session that is settled and was never denied belongs to an active payment
\* and to the only attempt of it that did not fail.
LEMMA UndeniedSession ==
  ASSUME PaymentInvariant, NEW p \in Payments, NEW n \in Numbers,
         gateway[p][n].state = "settled", ~gateway[p][n].denied
  PROVE  /\ attempt[p][n].status \in {"PENDING", "SUCCESS"}
         /\ payment[p].status \in {"PENDING", "SUCCESS"}
         /\ payment[p].order \in Orders
         /\ \A m \in Numbers : attempt[p][m].status \in {"PENDING", "SUCCESS"} => m = n
<1>1. attempt[p][n].status \in PaymentStatus /\ payment[p].status \in PaymentStatus
  BY DEF PaymentInvariant, TypeOK, AttemptRow, PaymentRow
<1>2. gateway[p][n] # NoSession /\ gateway[p][n].requests # 0
  BY DEF PaymentInvariant, SessionsLinked, NoSession
<1>3. attempt[p][n].status # "none" /\ attempt[p][n].status # "FAILED"
  BY <1>2 DEF PaymentInvariant, SessionsLinked, FailureIsEvidenced
<1>4. attempt[p][n].status \in {"PENDING", "SUCCESS"}
  BY <1>1, <1>3 DEF PaymentStatus
<1>5. payment[p].status \in {"PENDING", "SUCCESS"}
  BY <1>1, <1>4 DEF PaymentInvariant, ExecutionAgreement, AttemptsOf, PaymentStatus
<1>6. payment[p].order \in Orders
  BY <1>5 DEF PaymentInvariant, RowsLinked
<1>7. \A m \in Numbers : attempt[p][m].status \in {"PENDING", "SUCCESS"} => m = n
  <2>1. CASE payment[p].status = "PENDING"
    BY <1>4, <2>1 DEF PaymentInvariant, ExecutionAgreement, AttemptsOf
  <2>2. CASE payment[p].status = "SUCCESS"
    BY <1>4, <2>2 DEF PaymentInvariant, ExecutionAgreement, AttemptsOf
  <2>3. QED
    BY <1>5, <2>1, <2>2
<1>8. QED
  BY <1>4, <1>5, <1>6, <1>7

\* The customer is charged twice for one order only after the gateway has said
\* no: an order has one active payment, and that one undecided or paid attempt.
THEOREM NeverChargedTwice == Spec => []ChargedOncePerOrder
<1>1. PaymentInvariant => ChargedOncePerOrder
  <2> SUFFICES ASSUME PaymentInvariant, NEW p \in Payments, NEW q \in Payments,
                      NEW m \in Numbers, NEW n \in Numbers,
                      gateway[p][m].state = "settled", ~gateway[p][m].denied,
                      gateway[q][n].state = "settled", ~gateway[q][n].denied,
                      payment[p].order = payment[q].order
               PROVE  p = q /\ m = n
    BY DEF ChargedOncePerOrder
  <2>1. p = q
    BY UndeniedSession DEF PaymentInvariant, OneActivePayment, PaymentsOf
  <2>2. QED
    BY <2>1, UndeniedSession
<1>2. QED
  BY <1>1, InvariantHolds, PTL

\* No step, from whatever reachable state, moves a payment or an attempt out of
\* success or failure, makes a sold or a cancelled order payable again, or takes
\* back a consumption or an authority.
THEOREM TerminalStatesAreFinal == Spec => TerminalIsFinal
<1>1. PaymentInvariant /\ [Next]_vars => [TerminalKept]_vars
  BY StepKeeps
<1>2. QED
  BY <1>1, InvariantHolds, PTL DEF Spec, TerminalIsFinal

\* Yes and no in the rows are the gateway's, for any number of requests, crashes
\* and lost answers.
THEOREM OutcomesAreTheGateways == Spec => []OutcomesHaveEvidence
  BY SuccessHasEvidence, FailureHasEvidence, PTL DEF OutcomesHaveEvidence

(***************************************************************************)
(* Only Consume sells an order and redeems a coupon.                       *)
(***************************************************************************)
SoldWith(c) == {o \in Orders : CouponOf[o] = c /\ Sold(o)}

CouponInvariant ==
    \A c \in Coupons :
        /\ IsFiniteSet(SoldWith(c))
        /\ coupon[c].used = Cardinality(SoldWith(c))
        /\ coupon[c].used <= MaxUsage[c]

LEMMA CouponInit == Init => CouponInvariant
<1> SUFFICES ASSUME Init, NEW c \in Coupons
             PROVE  /\ IsFiniteSet(SoldWith(c))
                    /\ coupon[c].used = Cardinality(SoldWith(c))
                    /\ coupon[c].used <= MaxUsage[c]
  BY DEF CouponInvariant
<1>1. SoldWith(c) = {}
  BY DEF Init, SoldWith, Sold, PendingRow, NoRow
<1>2. coupon[c].used = 0 /\ MaxUsage[c] \in Nat
  BY CouponAssumption DEF Init
<1>3. QED
  BY <1>1, <1>2, FS_EmptySet

\* The step of a request that leaves orders and coupons alone.
LEMMA RequestLeavesOrder ==
  ASSUME NEW w \in Workers,
         RequestArrives(w) \/ GatewayAnswers(w) \/ AnswerPersisted(w) \/ Crash(w)
         \/ ConsumeRefused(w)
  PROVE  UNCHANGED <<order, coupon>>
<1>1. CASE RequestArrives(w)
  BY <1>1 DEF RequestArrives, StartNewPayment, StartRecoveredPayment, RetryPayment,
              VerifyPending, VerifySuccessful, ReconcilePending, rows
<1>2. CASE GatewayAnswers(w)
  BY <1>2 DEF GatewayAnswers, GatewayAccepts, GatewayRejects, InitiationLost, GatewayConfirms,
              GatewayDenies, VerificationLost, InquiryConfirms, InquiryInconclusive, rows
<1>3. CASE AnswerPersisted(w)
  BY <1>3 DEF AnswerPersisted, PersistAuthority, PersistRejection, PersistSuccess,
              PersistFailure, PersistDuplicate, PersistReconciliation, PersistRefused, rows
<1>4. CASE Crash(w) \/ ConsumeRefused(w)
  BY <1>4 DEF Crash, ConsumeRefused, rows
<1>5. QED
  BY <1>1, <1>2, <1>3, <1>4

\* Such a step consumes no payment: a payment it saves is not consumed, before
\* and after.
LEMMA OthersSellNothing ==
  ASSUME PaymentInvariant, NEW w \in Workers,
         RequestArrives(w) \/ GatewayAnswers(w) \/ AnswerPersisted(w) \/ Crash(w)
         \/ ConsumeRefused(w)
  PROVE  \A o \in Orders : Sold(o)' <=> Sold(o)
<1>1. CASE UNCHANGED payment
  BY <1>1 DEF Sold
<1>2. ASSUME NEW p \in Payments, NEW row \in PaymentRow,
             SavePayment(p, row), payment[p].status # "SUCCESS", ~row.consumed
      PROVE  \A o \in Orders : Sold(o)' <=> Sold(o)
  <2>1. ~payment[p].consumed
    BY <1>2 DEF PaymentInvariant, PaidOrderBacked
  <2>2. \A q \in Payments : payment'[q] = IF q = p THEN row ELSE payment[q]
    BY <1>2, SavePaymentEffect DEF PaymentInvariant, TypeOK
  <2>3. QED
    BY <1>2, <2>1, <2>2 DEF Sold
<1>3. CASE RequestArrives(w)
  <2>1. ASSUME NEW a \in Orders, NEW p \in Payments, StartNewPayment(w, a, p)
        PROVE  \A o \in Orders : Sold(o)' <=> Sold(o)
    <3>1. PendingRow(a) \in PaymentRow /\ ~PendingRow(a).consumed
      BY DEF PendingRow, PaymentRow, PaymentStatus
    <3>2. QED
      BY <1>2, <2>1, <3>1 DEF StartNewPayment
  <2>2. QED
    BY <1>1, <1>3, <2>1 DEF RequestArrives, StartRecoveredPayment, RetryPayment, VerifyPending,
                            VerifySuccessful, ReconcilePending, rows
<1>4. CASE AnswerPersisted(w)
  <2>1. ASSUME NEW s \in {"SUCCESS", "FAILED"}, StillPending(worker[w].payment, worker[w].number),
               SavePayment(worker[w].payment, WithStatus(payment[worker[w].payment], s)),
               worker[w].payment \in Payments
        PROVE  \A o \in Orders : Sold(o)' <=> Sold(o)
    <3>1. /\ payment[worker[w].payment].status = "PENDING"
          /\ ~payment[worker[w].payment].consumed
      BY <2>1 DEF StillPending, PaymentInvariant, PaidOrderBacked
    <3>2. /\ WithStatus(payment[worker[w].payment], s) \in PaymentRow
          /\ ~WithStatus(payment[worker[w].payment], s).consumed
      BY <2>1, <3>1, PaymentRowTyped DEF PaymentInvariant, TypeOK, PaymentStatus
    <3>3. QED
      BY <1>2, <2>1, <3>1, <3>2
  <2>2. ~IsIdle(w) => worker[w].payment \in Payments
    BY Serving DEF PaymentInvariant
  <2>3. CASE RecordFailure(worker[w].payment, worker[w].number)
             /\ (PersistRejection(w) \/ PersistFailure(w))
    BY <2>1, <2>2, <2>3 DEF PersistRejection, PersistFailure, RecordFailure, Serves, IsIdle
  <2>4. CASE PersistSuccess(w) \/ PersistReconciliation(w)
    BY <2>1, <2>2, <2>4 DEF PersistSuccess, PersistReconciliation, RecordSuccess, Serves, IsIdle
  <2>5. QED
    BY <1>1, <1>4, <2>3, <2>4 DEF AnswerPersisted, PersistAuthority, PersistRejection,
       PersistFailure, PersistDuplicate, PersistRefused, rows
<1>5. CASE GatewayAnswers(w)
  BY <1>1, <1>5 DEF GatewayAnswers, GatewayAccepts, GatewayRejects, InitiationLost,
              GatewayConfirms, GatewayDenies, VerificationLost, InquiryConfirms,
              InquiryInconclusive, rows
<1>6. CASE Crash(w) \/ ConsumeRefused(w)
  BY <1>1, <1>6 DEF Crash, ConsumeRefused, rows
<1>7. QED
  BY <1>3, <1>4, <1>5, <1>6

LEMMA OrderStepKeepsUse ==
  ASSUME TypeOK, OrderStep, NEW c \in Coupons PROVE coupon'[c].used = coupon[c].used
<1>1. CASE \E o \in Orders : \/ CreateOrder(o) \/ DeadlinePasses(o)
                            \/ \E s \in Moves : MoveOrder(o, s)
  BY <1>1 DEF CreateOrder, DeadlinePasses, MoveOrder
<1>2. CASE ExpirePendingOrders
  BY <1>2 DEF ExpirePendingOrders
<1>3. ASSUME NEW d \in Coupons, CouponLapses(d) PROVE coupon'[c].used = coupon[c].used
  <2>1. coupon' = [coupon EXCEPT ![d] = [coupon[d] EXCEPT !.live = FALSE]]
    BY <1>3 DEF CouponLapses
  <2>2. [coupon[d] EXCEPT !.live = FALSE].used = coupon[d].used
    BY LapsedTyped DEF TypeOK
  <2>3. QED
    BY <2>1, <2>2 DEF TypeOK
<1>4. QED
  BY <1>1, <1>2, <1>3 DEF OrderStep

\* What Consume does to its order and to the coupon of that order.
LEMMA ConsumeEffect ==
  ASSUME PaymentInvariant, NEW w \in Workers, Consume(w)
  PROVE  LET p == worker[w].payment IN
         /\ p \in Payments /\ CanConfirm(p)
         /\ \E o \in Orders :
              /\ o = payment[p].order
              /\ order[o].status = "pending" /\ order'[o].status = "paid"
              /\ ~Sold(o) /\ Sold(o)'
              /\ \A a \in Orders : a # o => order'[a] = order[a] /\ (Sold(a)' <=> Sold(a))
              /\ \A c \in Coupons : coupon'[c].used =
                    IF c = CouponOf[o] THEN coupon[c].used + 1 ELSE coupon[c].used
         /\ \A q \in Payments : payment'[q].order = payment[q].order
                                /\ payment'[q].status = payment[q].status
<1> DEFINE p == worker[w].payment
<1>1. p \in Payments /\ CanConfirm(p) /\ payment[p].status = "SUCCESS"
  BY Serving DEF PaymentInvariant, Consume, CanConfirm, PaymentsOf, IsIdle
<1>2. PICK o \in Orders : o = payment[p].order /\ order[o].status = "pending"
  BY <1>1 DEF PaymentInvariant, RowsLinked, CanConfirm, IsPayable
<1>3. order'[o].status = "paid" /\ \A a \in Orders : a # o => order'[a] = order[a]
  <2>1. /\ WithStatus(order[o], "paid") \in OrderRow
        /\ WithStatus(order[o], "paid").status = "paid"
    BY <1>2, OrderRowTyped, StatusFacts DEF PaymentInvariant, TypeOK
  <2>2. QED
    BY <1>2, <2>1, SaveOrderEffect DEF PaymentInvariant, TypeOK, Consume
<1>4. \A c \in Coupons : coupon'[c].used =
        IF c = CouponOf[o] THEN coupon[c].used + 1 ELSE coupon[c].used
  BY <1>2, RedeemedTyped DEF PaymentInvariant, TypeOK, Consume
<1>5. \A q \in Payments : /\ payment'[q].order = payment[q].order
                          /\ payment'[q].status = payment[q].status
                          /\ payment'[q].consumed <=> q = p \/ payment[q].consumed
  <2>1. /\ [payment[p] EXCEPT !.consumed = TRUE] \in PaymentRow
        /\ [payment[p] EXCEPT !.consumed = TRUE].consumed
        /\ [payment[p] EXCEPT !.consumed = TRUE].order = payment[p].order
        /\ [payment[p] EXCEPT !.consumed = TRUE].status = payment[p].status
    BY <1>1, ConsumedRowTyped DEF PaymentInvariant, TypeOK
  <2>2. SavePayment(p, [payment[p] EXCEPT !.consumed = TRUE])
    BY DEF Consume
  <2>3. \A q \in Payments : payment'[q] =
          IF q = p THEN [payment[p] EXCEPT !.consumed = TRUE] ELSE payment[q]
    BY <1>1, <2>1, <2>2, SavePaymentEffect DEF PaymentInvariant, TypeOK
  <2>4. QED
    BY <2>1, <2>3
<1>6. ~Sold(o)
  BY <1>2, StatusFacts DEF Sold, PaymentInvariant, PaidOrderBacked
<1>7. Sold(o)' /\ \A a \in Orders : a # o => (Sold(a)' <=> Sold(a))
  BY <1>1, <1>2, <1>5 DEF Sold
<1>8. QED
  BY <1>1, <1>2, <1>3, <1>4, <1>5, <1>6, <1>7

LEMMA CouponStep ==
  ASSUME PaymentInvariant, CouponInvariant, [Next]_vars PROVE CouponInvariant'
<1> SUFFICES ASSUME NEW c \in Coupons
             PROVE  /\ IsFiniteSet(SoldWith(c)')
                    /\ coupon'[c].used = Cardinality(SoldWith(c)')
                    /\ coupon'[c].used <= MaxUsage[c]
  BY DEF CouponInvariant
<1>1. ASSUME NEW w \in Workers, Consume(w)
      PROVE  /\ IsFiniteSet(SoldWith(c)')
             /\ coupon'[c].used = Cardinality(SoldWith(c)')
             /\ coupon'[c].used <= MaxUsage[c]
  <2>1. PICK o \in Orders :
        /\ o = payment[worker[w].payment].order /\ CanConfirm(worker[w].payment)
        /\ ~Sold(o) /\ Sold(o)' /\ \A a \in Orders : a # o => (Sold(a)' <=> Sold(a))
        /\ coupon'[c].used = IF c = CouponOf[o] THEN coupon[c].used + 1 ELSE coupon[c].used
    BY <1>1, ConsumeEffect
  <2>2. CASE CouponOf[o] = c
    <3>1. SoldWith(c)' = SoldWith(c) \cup {o} /\ o \notin SoldWith(c)
      BY <2>1, <2>2 DEF SoldWith
    <3>2. coupon[c].used < MaxUsage[c]
      BY <2>1, <2>2, CouponAssumption, ConstantsAssumption
         DEF CanConfirm, CouponOfAvailable, CouponUsable
    <3>3. coupon[c].used \in Nat /\ MaxUsage[c] \in Nat
      BY CouponAssumption DEF PaymentInvariant, TypeOK, CouponRow
    <3>4. IsFiniteSet(SoldWith(c)) /\ coupon[c].used = Cardinality(SoldWith(c))
      BY DEF CouponInvariant
    <3>5. /\ IsFiniteSet(SoldWith(c) \cup {o})
          /\ Cardinality(SoldWith(c) \cup {o}) = coupon[c].used + 1
      BY <3>1, <3>4, FS_AddElement
    <3>6. QED
      BY <2>1, <2>2, <3>1, <3>2, <3>3, <3>5
  <2>3. CASE CouponOf[o] # c
    <3>1. SoldWith(c)' = SoldWith(c)
      BY <2>1, <2>3 DEF SoldWith
    <3>2. QED
      BY <2>1, <2>3, <3>1 DEF CouponInvariant
  <2>4. QED
    BY <2>2, <2>3
<1>2. CASE ~ \E w \in Workers : Consume(w)
  <2>1. coupon'[c].used = coupon[c].used /\ \A o \in Orders : Sold(o)' <=> Sold(o)
    <3>1. CASE OrderStep
      <4>1. UNCHANGED payment
        BY <3>1 DEF OrderStep, CreateOrder, DeadlinePasses, MoveOrder, ExpirePendingOrders,
                    CouponLapses
      <4>2. QED
        BY <3>1, <4>1, OrderStepKeepsUse DEF PaymentInvariant, Sold
    <3>2. ASSUME NEW w \in Workers,
                 RequestArrives(w) \/ GatewayAnswers(w) \/ AnswerPersisted(w) \/ Crash(w)
                 \/ ConsumeRefused(w)
          PROVE  coupon'[c].used = coupon[c].used /\ \A o \in Orders : Sold(o)' <=> Sold(o)
      BY <3>2, RequestLeavesOrder, OthersSellNothing
    <3>3. CASE UNCHANGED <<payment, coupon>>
      BY <3>3 DEF Sold
    <3>4. QED
      BY <1>2, <3>1, <3>2, <3>3
         DEF Next, PaymentConsumed, vars, CustomerPays, CustomerDeclines, CustomerActs, rows
  <2>2. SoldWith(c)' = SoldWith(c)
    BY <2>1 DEF SoldWith
  <2>3. QED
    BY <2>1, <2>2 DEF CouponInvariant
<1>3. QED
  BY <1>1, <1>2

\* Whatever orders share a coupon, however many were created while it was still
\* available: it is used once for each of them that is sold, and never too often; refunds and
\* cancellations of sold orders give no use back.
THEOREM CouponsAreCounted == Spec => []CouponAccounting
<1>1. CouponInvariant => CouponAccounting
  BY DEF CouponInvariant, CouponAccounting, SoldWith
<1>2. PaymentInvariant /\ CouponInvariant /\ [Next]_vars => CouponInvariant'
  BY CouponStep
<1>3. QED
  BY <1>1, <1>2, CouponInit, InvariantHolds, PTL DEF Spec

(***************************************************************************)
(* The refinement: every step of the services is one of Sale, or none.     *)
(***************************************************************************)
sale == [o \in Orders |-> SaleStatus(o)]
charges == [o \in Orders |-> PaymentsOf(o, "SUCCESS")]
redeemed == [c \in Coupons |-> coupon[c].used]

LEMMA StageValues ==
  /\ Stage["none"] = "absent" /\ Stage["pending"] = "open" /\ Stage["failed"] = "held"
  /\ Stage["cancelled"] = "closed" /\ Stage["refunded"] = "undone"
  /\ \A s \in PaidLike \ {"refunded"} : Stage[s] = "sold"
  BY StatusFacts DEF Stage, PaidLike

LEMMA PromiseInit == Init => Promise!Init
<1> SUFFICES ASSUME Init PROVE Promise!Init
  OBVIOUS
<1>1. sale \in [Orders -> {"absent", "open"}]
  BY StageValues DEF Init, sale, SaleStatus
<1>2. charges = [o \in Orders |-> {}]
  BY DEF Init, charges, PaymentsOf, PendingRow, NoRow
<1>3. redeemed = [c \in Coupons |-> 0]
  BY DEF Init, redeemed
<1>4. QED
  BY <1>1, <1>2, <1>3 DEF Promise!Init, sale, charges, redeemed

\* A step that keeps all statuses and uses is invisible.
LEMMA Invisible ==
  ASSUME \A o \in Orders : order'[o].status = order[o].status /\ (Sold(o)' <=> Sold(o)),
         \A o \in Orders : PaymentsOf(o, "SUCCESS")' = PaymentsOf(o, "SUCCESS"),
         \A c \in Coupons : coupon'[c].used = coupon[c].used
  PROVE  UNCHANGED Promise!vars
  BY DEF Promise!vars, SaleStatus

LEMMA OrderStepPromise ==
  ASSUME PaymentInvariant, OrderStep PROVE [Promise!Next]_Promise!vars
<1>1. /\ UNCHANGED payment
      /\ \A c \in Coupons : coupon'[c].used = coupon[c].used
      /\ \A o \in Orders : order[o] \in OrderRow /\ order[o].status \in OrderStatus
  BY OrderStepKeepsUse DEF PaymentInvariant, OrderStep, CreateOrder, DeadlinePasses, MoveOrder,
                           ExpirePendingOrders, CouponLapses, TypeOK, OrderRow
<1>2. /\ charges' = charges /\ redeemed' = redeemed
      /\ \A o \in Orders : PaymentsOf(o, "SUCCESS")' = PaymentsOf(o, "SUCCESS")
      /\ \A o \in Orders : Sold(o)' <=> Sold(o)
  BY <1>1 DEF charges, redeemed, PaymentsOf, Sold
<1>3. \A o \in Orders :
        /\ order[o].status \in {"pending", "failed"} => ~Sold(o)
        /\ order[o].status \in PaidLike => Sold(o)
  BY StatusFacts DEF PaymentInvariant, PaidOrderBacked, Sold
<1>4. ASSUME NEW o \in Orders, NEW from, NEW to, sale[o] = from, SaleStatus(o)' = to,
             \A a \in Orders : a # o => order'[a] = order[a]
      PROVE  Promise!Becomes(o, from, to)
  <2>1. sale' = [sale EXCEPT ![o] = to]
    BY <1>2, <1>4 DEF sale, SaleStatus
  <2>2. QED
    BY <1>2, <1>4, <2>1 DEF Promise!Becomes, sale, charges, redeemed
<1>5. ASSUME NEW o \in Orders, CreateOrder(o) PROVE Promise!Next
  <2>1. [status |-> "pending", expired |-> FALSE] \in OrderRow
    BY DEF OrderRow, OrderStatus, TRANSITIONS
  <2>2. /\ order[o].status = "none" /\ order'[o].status = "pending"
        /\ \A a \in Orders : a # o => order'[a] = order[a]
    BY <1>5, <2>1, SaveOrderEffect DEF CreateOrder, PaymentInvariant, TypeOK
  <2>3. sale[o] = "absent" /\ SaleStatus(o)' = "open"
    BY <2>2, StageValues DEF sale, SaleStatus
  <2>4. Promise!Open(o)
    BY <1>4, <2>2, <2>3 DEF Promise!Open
  <2>5. QED
    BY <2>4 DEF Promise!Next
<1>6. ASSUME NEW o \in Orders, DeadlinePasses(o) PROVE UNCHANGED Promise!vars
  <2>1. /\ [order[o] EXCEPT !.expired = TRUE] \in OrderRow
        /\ [order[o] EXCEPT !.expired = TRUE].status = order[o].status
    BY ExpiredRowTyped DEF PaymentInvariant, TypeOK
  <2>2. \A a \in Orders : order'[a].status = order[a].status
    BY <1>6, <2>1, SaveOrderEffect DEF DeadlinePasses, PaymentInvariant, TypeOK
  <2>3. QED
    BY <1>1, <1>2, <2>2, Invisible
<1>7. ASSUME NEW closing \in SUBSET Orders,
             \A o \in closing : /\ order[o].status \in {"pending", "failed"}
                                /\ order'[o].status = "cancelled",
             \A o \in Orders \ closing : order'[o] = order[o]
      PROVE  Promise!Next
  <2>1. \A o \in closing : sale[o] \in {"open", "held"} /\ SaleStatus(o)' = "closed"
    <3>1. \A o \in closing : ~Sold(o)'
      <4>1. SUFFICES ASSUME NEW o \in closing PROVE ~Sold(o)'
        OBVIOUS
      <4>2. o \in Orders /\ order[o].status \in {"pending", "failed"}
        BY <1>7
      <4>3. ~Sold(o)
        BY <1>3, <4>2
      <4>4. QED
        BY <1>2, <4>2, <4>3
    <3>2. QED
      BY <1>7, <3>1, StageValues DEF sale, SaleStatus
  <2>2. \A o \in Orders \ closing : SaleStatus(o)' = SaleStatus(o)
    BY <1>2, <1>7 DEF SaleStatus
  <2>3. sale' = [o \in Orders |-> IF o \in closing THEN "closed" ELSE sale[o]]
    BY <2>1, <2>2 DEF sale
  <2>4. Promise!Close(closing)
    BY <1>2, <2>1, <2>3 DEF Promise!Close, sale, charges, redeemed
  <2>5. QED
    BY <2>4 DEF Promise!Next
<1>8. ASSUME NEW o \in Orders, NEW s \in Moves, MoveOrder(o, s) PROVE [Promise!Next]_Promise!vars
  <2>1. /\ s \in OrderStatus /\ s # "paid" /\ s \in TRANSITIONS[order[o].status]
    BY <1>8, ConstantsAssumption DEF MoveOrder, MayBecome
  <2>2. WithStatus(order[o], s) \in OrderRow /\ WithStatus(order[o], s).status = s
    BY <1>1, <2>1, OrderRowTyped
  <2>3. order'[o].status = s /\ \A a \in Orders : a # o => order'[a] = order[a]
    BY <1>8, <2>2, SaveOrderEffect DEF MoveOrder, PaymentInvariant, TypeOK
  <2>4. \/ order[o].status \in {"pending", "failed"} /\ s \in {"pending", "failed", "cancelled"}
        \/ order[o].status \in PaidLike \ {"refunded"} /\ s \in PaidLike \cup {"cancelled"}
    BY <1>1, <2>1, LegalMoves
  <2>5. CASE order[o].status \in {"pending", "failed"} /\ s = "cancelled"
    <3>1. /\ {o} \in SUBSET Orders
          /\ \A a \in {o} : order[a].status \in {"pending", "failed"}
                            /\ order'[a].status = "cancelled"
          /\ \A a \in Orders \ {o} : order'[a] = order[a]
      BY <2>3, <2>5
    <3>2. QED
      BY <1>7, <3>1
  <2>6. CASE order[o].status \in {"pending", "failed"} /\ s \in {"pending", "failed"}
    <3>1. \/ order[o].status = s
          \/ order[o].status = "pending" /\ s = "failed"
          \/ order[o].status = "failed" /\ s = "pending"
      BY <2>6
    <3>2. CASE order[o].status = s
      BY <1>1, <1>2, <2>3, <3>2, Invisible
    <3>3. CASE order[o].status = "pending" /\ s = "failed"
      <4>1. sale[o] = "open" /\ SaleStatus(o)' = "held"
        BY <2>3, <3>3, StageValues DEF sale, SaleStatus
      <4>2. Promise!Hold(o)
        BY <1>4, <2>3, <4>1 DEF Promise!Hold
      <4>3. QED
        BY <4>2 DEF Promise!Next
    <3>4. CASE order[o].status = "failed" /\ s = "pending"
      <4>1. sale[o] = "held" /\ SaleStatus(o)' = "open"
        BY <2>3, <3>4, StageValues DEF sale, SaleStatus
      <4>2. Promise!Resume(o)
        BY <1>4, <2>3, <4>1 DEF Promise!Resume
      <4>3. QED
        BY <4>2 DEF Promise!Next
    <3>5. QED
      BY <3>1, <3>2, <3>3, <3>4
  <2>7. CASE order[o].status \in PaidLike \ {"refunded"} /\ s \in PaidLike \cup {"cancelled"}
    <3>1. Sold(o) /\ Sold(o)' /\ sale[o] = "sold"
      BY <1>2, <1>3, <2>7, StageValues, StatusFacts DEF sale, SaleStatus
    <3>2. CASE s \in {"refunded", "cancelled"}
      <4>1. SaleStatus(o)' = "undone"
        BY <2>3, <3>1, <3>2, StageValues DEF SaleStatus
      <4>2. Promise!Undo(o)
        BY <1>4, <2>3, <3>1, <4>1 DEF Promise!Undo
      <4>3. QED
        BY <4>2 DEF Promise!Next
    <3>3. CASE s \in PaidLike \ {"refunded"}
      <4>1. SaleStatus(o)' = "sold"
        BY <2>3, <3>3, StageValues, StatusFacts DEF SaleStatus
      <4>2. Promise!Becomes(o, "sold", "sold")
        BY <1>4, <2>3, <3>1, <4>1
      <4>3. \A a \in Orders : SaleStatus(a)' = SaleStatus(a)
        BY <1>2, <2>3, <3>1, <4>1 DEF sale, SaleStatus
      <4>4. QED
        BY <1>1, <1>2, <4>3 DEF Promise!vars
    <3>4. QED
      BY <2>7, <3>2, <3>3
  <2>8. QED
    BY <2>4, <2>5, <2>6, <2>7
<1>9. CASE ExpirePendingOrders
  <2>1. \A o \in Orders : WithStatus(order[o], "cancelled").status = "cancelled"
    BY <1>1, OrderRowTyped, StatusFacts
  <2>2. /\ \A o \in Overdue : order[o].status = "pending" /\ order'[o].status = "cancelled"
        /\ \A o \in Orders \ Overdue : order'[o] = order[o]
        /\ Overdue \in SUBSET Orders
    BY <1>9, <2>1 DEF ExpirePendingOrders, Overdue
  <2>3. QED
    BY <1>7, <2>2
<1>10. ASSUME NEW c \in Coupons, CouponLapses(c) PROVE UNCHANGED Promise!vars
  BY <1>1, <1>2, <1>10, Invisible DEF CouponLapses
<1>11. QED
  BY <1>5, <1>6, <1>8, <1>9, <1>10 DEF OrderStep

LEMMA ConsumePromise ==
  ASSUME PaymentInvariant, NEW w \in Workers, Consume(w) PROVE Promise!Next
<1> DEFINE p == worker[w].payment
<1>1. PICK o \in Orders :
        /\ o = payment[p].order /\ p \in Payments /\ CanConfirm(p)
        /\ order[o].status = "pending" /\ order'[o].status = "paid"
        /\ \A a \in Orders : a # o => order'[a] = order[a] /\ (Sold(a)' <=> Sold(a))
        /\ \A c \in Coupons : coupon'[c].used =
              IF c = CouponOf[o] THEN coupon[c].used + 1 ELSE coupon[c].used
        /\ \A q \in Payments : payment'[q].order = payment[q].order
                               /\ payment'[q].status = payment[q].status
  BY ConsumeEffect
<1>2. sale[o] = "open" /\ sale' = [sale EXCEPT ![o] = "sold"]
  BY <1>1, StageValues, StatusFacts DEF sale, SaleStatus
<1>3. charges' = charges /\ charges[o] # {}
  <2>1. PaymentsOf(o, "SUCCESS") = {p}
    BY <1>1 DEF CanConfirm
  <2>2. \A a \in Orders : PaymentsOf(a, "SUCCESS")' = PaymentsOf(a, "SUCCESS")
    BY <1>1 DEF PaymentsOf
  <2>3. QED
    BY <1>1, <2>1, <2>2 DEF charges
<1>4. /\ CouponOf[o] \in Coupons => redeemed[CouponOf[o]] < MaxUsage[CouponOf[o]]
      /\ redeemed' = [c \in Coupons |-> IF c = CouponOf[o]
                                        THEN redeemed[c] + 1 ELSE redeemed[c]]
  <2>1. CouponOf[o] \in Coupons => coupon[CouponOf[o]].used < MaxUsage[CouponOf[o]]
    BY <1>1, ConstantsAssumption DEF CanConfirm, CouponOfAvailable, CouponUsable
  <2>2. QED
    BY <1>1, <2>1 DEF redeemed
<1>5. Promise!Fulfil(o)
  BY <1>2, <1>3, <1>4 DEF Promise!Fulfil, sale, charges, redeemed
<1>6. QED
  BY <1>5 DEF Promise!Next

\* A payment is recorded as successful: its order is charged, for the first time.
LEMMA SuccessPromise ==
  ASSUME PaymentInvariant, NEW w \in Workers,
         PersistSuccess(w) \/ PersistReconciliation(w)
  PROVE  Promise!Next
<1> DEFINE p == worker[w].payment
           n == worker[w].number
           o == payment[p].order
<1>1. p \in Payments /\ StillPending(p, n)
  BY Serving DEF PaymentInvariant, PersistSuccess, PersistReconciliation, Serves, IsIdle
<1>2. payment[p].status = "PENDING" /\ o \in Orders /\ order[o].status # "none"
  BY <1>1 DEF StillPending, PaymentInvariant, RowsLinked
<1>3. /\ payment'[p].order = o /\ payment'[p].status = "SUCCESS"
      /\ \A q \in Payments : q # p => payment'[q] = payment[q]
  <2>1. /\ WithStatus(payment[p], "SUCCESS") \in PaymentRow
        /\ WithStatus(payment[p], "SUCCESS").order = o
        /\ WithStatus(payment[p], "SUCCESS").status = "SUCCESS"
    BY <1>1, PaymentRowTyped DEF PaymentInvariant, TypeOK, PaymentStatus
  <2>2. SavePayment(p, WithStatus(payment[p], "SUCCESS"))
    BY DEF PersistSuccess, PersistReconciliation, RecordSuccess
  <2>3. \A q \in Payments :
          payment'[q] = IF q = p THEN WithStatus(payment[p], "SUCCESS") ELSE payment[q]
    BY <1>1, <2>1, <2>2, SavePaymentEffect DEF PaymentInvariant, TypeOK
  <2>4. QED
    BY <1>1, <2>1, <2>3
<1>4. UNCHANGED <<order, coupon>> /\ \A a \in Orders : Sold(a)' <=> Sold(a)
  BY RequestLeavesOrder, OthersSellNothing DEF AnswerPersisted
<1> HIDE DEF o
<1>5. PaymentsOf(o, "SUCCESS") = {}
  BY <1>1, <1>2 DEF PaymentInvariant, OneActivePayment, PaymentsOf, o
<1>6. \A a \in Orders : PaymentsOf(a, "SUCCESS")' =
        IF a = o THEN {p} ELSE PaymentsOf(a, "SUCCESS")
  BY <1>1, <1>2, <1>3, <1>5 DEF PaymentsOf, o
<1>7. charges[o] = {} /\ charges' = [charges EXCEPT ![o] = {p}]
  BY <1>2, <1>5, <1>6 DEF charges
<1>8. sale[o] # "absent"
  <2>1. order[o].status \in OrderStatus
    BY <1>2 DEF PaymentInvariant, TypeOK, OrderRow
  <2>2. QED
    BY <1>2, <2>1, StageValues, StatusFacts DEF sale, SaleStatus
<1>9. sale' = sale /\ redeemed' = redeemed
  BY <1>4 DEF sale, SaleStatus, redeemed
<1>10. Promise!Charge(o, p)
  BY <1>7, <1>8, <1>9 DEF Promise!Charge, sale, charges, redeemed
<1>11. QED
  BY <1>1, <1>2, <1>10 DEF Promise!Next

\* Any other step of a request leaves the set of successful payments alone.
LEMMA OthersKeepSuccess ==
  ASSUME PaymentInvariant, NEW w \in Workers, NEW o \in Orders,
         RequestArrives(w) \/ GatewayAnswers(w) \/ AnswerPersisted(w) \/ Crash(w)
         \/ ConsumeRefused(w),
         ~PersistSuccess(w), ~PersistReconciliation(w)
  PROVE  PaymentsOf(o, "SUCCESS")' = PaymentsOf(o, "SUCCESS")
<1>1. CASE UNCHANGED payment
  BY <1>1 DEF PaymentsOf
<1>2. ASSUME NEW p \in Payments, NEW row \in PaymentRow,
             SavePayment(p, row), payment[p].status # "SUCCESS", row.status # "SUCCESS"
      PROVE  PaymentsOf(o, "SUCCESS")' = PaymentsOf(o, "SUCCESS")
  BY <1>2, SavePaymentEffect DEF PaymentsOf, PaymentInvariant, TypeOK
<1>3. CASE RequestArrives(w)
  <2>1. ASSUME NEW a \in Orders, NEW p \in Payments, StartNewPayment(w, a, p)
        PROVE  PaymentsOf(o, "SUCCESS")' = PaymentsOf(o, "SUCCESS")
    <3>1. PendingRow(a) \in PaymentRow /\ PendingRow(a).status = "PENDING"
      BY DEF PendingRow, PaymentRow, PaymentStatus
    <3>2. QED
      BY <1>2, <2>1, <3>1 DEF StartNewPayment
  <2>2. QED
    BY <1>1, <1>3, <2>1 DEF RequestArrives, StartRecoveredPayment, RetryPayment, VerifyPending,
                            VerifySuccessful, ReconcilePending, rows
<1>4. CASE AnswerPersisted(w)
  <2>1. CASE RecordFailure(worker[w].payment, worker[w].number)
             /\ (PersistRejection(w) \/ PersistFailure(w))
    <3>1. worker[w].payment \in Payments /\ payment[worker[w].payment].status = "PENDING"
      BY <2>1, Serving DEF PaymentInvariant, PersistRejection, PersistFailure, Serves, IsIdle,
                           StillPending
    <3>2. /\ WithStatus(payment[worker[w].payment], "FAILED") \in PaymentRow
          /\ WithStatus(payment[worker[w].payment], "FAILED").status = "FAILED"
      BY <3>1, PaymentRowTyped DEF PaymentInvariant, TypeOK, PaymentStatus
    <3>3. QED
      BY <1>2, <2>1, <3>1, <3>2 DEF RecordFailure
  <2>2. QED
    BY <1>1, <1>4, <2>1 DEF AnswerPersisted, PersistAuthority, PersistRejection, PersistFailure,
                            PersistDuplicate, PersistRefused, rows
<1>5. CASE GatewayAnswers(w)
  BY <1>1, <1>5 DEF GatewayAnswers, GatewayAccepts, GatewayRejects, InitiationLost,
              GatewayConfirms, GatewayDenies, VerificationLost, InquiryConfirms,
              InquiryInconclusive, rows
<1>6. CASE Crash(w) \/ ConsumeRefused(w)
  BY <1>1, <1>6 DEF Crash, ConsumeRefused, rows
<1>7. QED
  BY <1>3, <1>4, <1>5, <1>6

LEMMA PromiseStep ==
  ASSUME PaymentInvariant, [Next]_vars PROVE [Promise!Next]_Promise!vars
<1>1. CASE OrderStep
  BY <1>1, OrderStepPromise
<1>2. ASSUME NEW w \in Workers,
             RequestArrives(w) \/ GatewayAnswers(w) \/ AnswerPersisted(w)
             \/ PaymentConsumed(w) \/ Crash(w)
      PROVE  [Promise!Next]_Promise!vars
  <2>1. CASE Consume(w)
    BY <2>1, ConsumePromise
  <2>2. CASE PersistSuccess(w) \/ PersistReconciliation(w)
    BY <2>2, SuccessPromise
  <2>3. CASE ~Consume(w) /\ ~PersistSuccess(w) /\ ~PersistReconciliation(w)
    <3>1. /\ UNCHANGED <<order, coupon>>
          /\ \A o \in Orders : PaymentsOf(o, "SUCCESS")' = PaymentsOf(o, "SUCCESS")
          /\ \A o \in Orders : Sold(o)' <=> Sold(o)
      BY <1>2, <2>3, RequestLeavesOrder, OthersKeepSuccess, OthersSellNothing
         DEF PaymentConsumed
    <3>2. QED
      BY <3>1, Invisible
  <2>4. QED
    BY <2>1, <2>2, <2>3
<1>3. CASE \/ UNCHANGED vars
           \/ \E p \in Payments, n \in Numbers : CustomerPays(p, n) \/ CustomerDeclines(p, n)
  <2>1. UNCHANGED <<order, payment, coupon>>
    BY <1>3 DEF vars, CustomerPays, CustomerDeclines, CustomerActs, rows
  <2>2. QED
    BY <2>1, Invisible DEF PaymentsOf, Sold
<1>4. QED
  BY <1>1, <1>2, <1>3 DEF Next

\* The services keep the promise: an order is charged at most once, is sold only
\* when charged and open, once, with its coupon redeemed in the same step, and what
\* becomes of a sale afterwards takes neither the charge nor the use back.
THEOREM ServicesImplementSale == Spec => ImplementsSale
<1>1. PaymentInvariant /\ [Next]_vars => [Promise!Next]_Promise!vars
  BY PromiseStep
<1>2. QED
  BY <1>1, PromiseInit, InvariantHolds, PTL DEF Spec, ImplementsSale, Promise!Spec

\* Sold orders, consumed payments and counted coupons agree at all times.
THEOREM PaidOrdersAreAccounted == Spec => []PaidOrdersAccounted
  BY PaidOrdersAreBacked, CouponsAreCounted, PTL DEF PaidOrdersAccounted
=============================================================================
